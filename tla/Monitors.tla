------------------------------- MODULE Monitors --------------------------------
(***************************************************************************)
(* The two monitors as main runs them (src/main.cpp, --ais-snoop and       *)
(* --xnack-snoop): one main thread starts the AIS monitor, then the XNACK  *)
(* monitor, leaves its loop or returns early, stops them one after the     *)
(* other, writes the output and destroys them in the reverse order, while  *)
(* both reader threads and the forked child go on.                         *)
(*                                                                         *)
(* The variables of the XNACK monitor have the prefix x_.                  *)
(***************************************************************************)
EXTENDS AisMonitor

VARIABLES x_pc, x_stops, x_was_running, x_running_, x_bpftrace_pid_, x_writers,
          x_reader, x_child, x_path, x_held

VARIABLES
    at,             \* main: which call it is in, or about to make
    ais_monitor,    \* main's pointers are not null
    xnack_monitor,
    sink,           \* what takes AIS records: "kept" by the writer or the exporter, or
                    \* "dropped" (--all without the exporter); fixed by the options,
                    \* but chosen here when it first matters, "open" before
    written         \* the AIS records in the trace file or the snapshot

xnack == <<x_pc, x_stops, x_was_running, x_running_, x_bpftrace_pid_, x_writers,
           x_reader, x_child, x_path, x_held>>
ais == <<kernel, main, thread, fired>>
order == <<at, ais_monitor, xnack_monitor, sink, written>>
allvars == <<ais, xnack, order>>

Xnack == INSTANCE XnackMonitor WITH
    pc <- x_pc, stops <- x_stops, was_running <- x_was_running,
    running_ <- x_running_, bpftrace_pid_ <- x_bpftrace_pid_,
    writers <- x_writers, reader <- x_reader, child <- x_child,
    path <- x_path, held <- x_held

NotWritten == <<[call |-> 0, device |-> Unknown]>>

MonitorsInit ==
    /\ Init
    /\ Xnack!Init
    /\ at = "start ais" /\ ais_monitor = FALSE /\ xnack_monitor = FALSE
    /\ sink = "open" /\ written = NotWritten

-----------------------------------------------------------------------------
(* main.                                                                   *)

\* AisMonitor::Start; when it fails the monitor is reset, which stops it.
StartAis ==
    /\ at = "start ais"
    /\ Main
    /\ at' = IF pc' \in {"running", "stopped"} THEN "start xnack" ELSE at
    /\ ais_monitor' = (pc' = "running")
    /\ UNCHANGED <<xnack, xnack_monitor, sink, written>>

StartXnack ==
    /\ at = "start xnack"
    /\ Xnack!Main \/ (x_pc = "failed" /\ Xnack!Stop)
    /\ at' = IF x_pc' \in {"running", "stopped"} THEN "loop" ELSE at
    /\ xnack_monitor' = (x_pc' = "running")
    /\ UNCHANGED <<ais, ais_monitor, sink, written>>

\* The loop ends; or the command or discovery could not be started, and main
\* returns at once.
LeaveLoop ==
    /\ at = "loop"
    /\ at' \in {"stop ais", "destroy xnack"}
    /\ UNCHANGED <<ais, xnack, ais_monitor, xnack_monitor, sink, written>>

\* AisMonitor::Stop, up to its return.
AisStops(stage, next) ==
    /\ at = stage
    /\ \/ /\ ais_monitor
          /\ Main
          /\ at' = IF pc' = "stopped" THEN next ELSE at
       \/ ~ais_monitor /\ at' = next /\ UNCHANGED ais
    /\ UNCHANGED <<xnack, ais_monitor, xnack_monitor, sink, written>>

\* XnackMonitor::Stop, up to its return.
XnackStops(stage, next) ==
    /\ at = stage
    /\ \/ /\ xnack_monitor
          /\ Xnack!Main \/ Xnack!Stop
          /\ at' = IF x_pc' = "stopped" THEN next ELSE at
       \/ ~xnack_monitor /\ at' = next /\ UNCHANGED xnack
    /\ UNCHANGED <<ais, ais_monitor, xnack_monitor, sink, written>>

\* The snapshot or the trace files, if they can be opened.  In --all mode the
\* records belong to no queue's file and the sink has dropped them.
WriteOutput ==
    /\ at = "output"
    /\ sink' \in {"kept", "dropped"}
    /\ written' \in {IF sink' = "dropped" THEN <<>> ELSE reported, NotWritten}
    /\ at' = "destroy xnack"
    /\ UNCHANGED <<ais, xnack, ais_monitor, xnack_monitor>>

\* Mutant: the AIS monitor is left to its destructor.
StoppingXnackOnly ==
    \/ at = "stop ais" /\ at' = "stop xnack"
         /\ UNCHANGED <<ais, xnack, ais_monitor, xnack_monitor, sink, written>>
    \/ XnackStops("stop xnack", "output")

\* discovery and the parser have been stopped before.
StoppingMonitors ==
    \/ AisStops("stop ais", "stop xnack")
    \/ XnackStops("stop xnack", "output")

\* The destructors, in the reverse order of the declarations.
Destroying ==
    \/ XnackStops("destroy xnack", "destroy ais")
    \/ AisStops("destroy ais", "exit")

MainThread ==
    StartAis \/ StartXnack \/ StoppingMonitors \/ WriteOutput \/ Destroying

-----------------------------------------------------------------------------
\* The traced processes and the signal.
Outside ==
    /\ Signal \/ EnterIoctl \/ Reopen
    /\ UNCHANGED <<xnack, order>>

AisReader == ReadLoop /\ UNCHANGED <<xnack, order>>
XnackReader == Xnack!ReadLoop /\ UNCHANGED <<ais, order>>
XnackChild == Xnack!Child /\ UNCHANGED <<ais, order>>

MonitorsNext ==
    MainThread \/ LeaveLoop \/ Outside \/ AisReader \/ XnackReader \/ XnackChild

\* The threads and the child are scheduled; how long main's loop runs, the
\* signal and the traced processes are not promised anything.
MonitorsSpec ==
    /\ MonitorsInit /\ [][MonitorsNext]_allvars
    /\ WF_allvars(MainThread) /\ WF_allvars(AisReader)
    /\ WF_allvars(XnackReader) /\ WF_allvars(XnackChild)

-----------------------------------------------------------------------------
(* Properties.                                                             *)

\* Nothing is reported to a writer that has been written already: the reader
\* thread is joined before the output is made, not only before main returns.  So
\* the output has every report, unless the sink drops them all ("silently dropped
\* in --all mode unless prometheus is active", main.cpp:372).
OutputHasEveryReport ==
    written # NotWritten /\ sink # "dropped" => written = reported

\* When main returns, early or not, nothing of either monitor is left: the
\* probe is gone, the descriptors are closed, the child is reaped (no zombie) and
\* no thread lives that could call a sink ("Removes kprobes and joins the reader
\* thread", ais_monitor.h:34); nothing but the directory of the tracefs instance, and
\* that only if the AIS monitor ran.
NothingLeft ==
    at = "exit" =>
        /\ StoppedClean
        /\ reader \in {"none", "joined"}
        /\ Xnack!StoppedClean
        /\ x_reader \in {"none", "joined"} /\ x_child \in {"none", "reaped"}

\* Once main has left its loop it returns, although it joins two threads and
\* waits for a child, any of which may have ended by itself before, and closes
\* the descriptors one of them polls.
MainReturns == (at \in {"stop ais", "destroy xnack"}) ~> (at = "exit")

\* Once the monitor runs every call that hits the probe is reported, however
\* long the pipe was idle before, until a signal or Stop ends it.
CallsReported ==
    \A i \in 1 .. MaxCalls :
        (pc = "running" /\ Len(fired) >= i)
            ~> (Len(reported) >= i \/ stops > 0 \/ pc = "asked")
=============================================================================
