---------------------------- MODULE MCProbeReader -----------------------------
(* A small instance of ProbeReader for TLC: two processes, the name of the    *)
(* first of which contains that of the second.  Process 1 creates one of its  *)
(* queues on a second thread, which has renamed itself; a ring of process 2   *)
(* has the address of a ring of process 1.                                    *)
EXTENDS ProbeReader, TLC

MCContains == {<<1, 1>>, <<2, 2>>, <<11, 11>>, <<1, 2>>}
MCHostPidOf == (1 :> 21) @@ (2 :> 22)

MCQueues == {[proc |-> 1, tid |-> 1, ring |-> 100],
             [proc |-> 1, tid |-> 11, ring |-> 200],
             [proc |-> 2, tid |-> 2, ring |-> 100]}
=============================================================================
