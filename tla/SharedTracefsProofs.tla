-------------------------- MODULE SharedTracefsProofs -------------------------
(***************************************************************************)
(* For any number of hsa-snoop processes: tracefs is restored when all of  *)
(* them have ended, a host that had tracing on never loses it, and a       *)
(* process hands on no queue twice and misses none but to another reader.  *)
(***************************************************************************)
EXTENDS SharedTracefs, TLAPS

\* What the switch means for those that may have turned it on: on a host that
\* had it on nobody ever finds it off; elsewhere, if it is on, somebody who
\* turned it on has not restored it yet.
SwitchOwned ==
    /\ initially =>
         /\ tracing_on
         /\ \A s \in Snoops : ~changed[s] /\ pc[s] # "switch"
    /\ ~initially => (tracing_on => \E s \in Snoops : changed[s])

\* What a process has done to tracefs so far, by how far it has come.
Footprint ==
    \A s \in Snoops :
        /\ s \in defined => pc[s] \notin {"define", "restore", "close", "done"}
        /\ s \in enabled =>
             pc[s] \notin {"define", "enable", "undefine", "restore", "close",
                           "done"}
        /\ changed[s] =>
             pc[s] \notin {"define", "enable", "look", "switch", "close",
                           "done"}

\* The variables the properties speak of have their types.
Typed ==
    /\ tracing_on \in BOOLEAN /\ initially \in BOOLEAN
    /\ defined \subseteq Snoops /\ enabled \subseteq Snoops
    /\ pc \in [Snoops -> Pcs]
    /\ changed \in [Snoops -> BOOLEAN]

IInv == Typed /\ SwitchOwned /\ Footprint

\* Initially nobody has touched tracefs.
LEMMA InitInv == Init => IInv
  BY DEF Init, IInv, Typed, SwitchOwned, Footprint, Pcs

\* A step of process s changes its own program counter and its own footprint.
LEMMA SnoopStep ==
    ASSUME IInv, NEW s \in Snoops, Snoop(s)
    PROVE  IInv'
<1> USE DEF IInv, history
<1>1. CASE Define(s)
  BY <1>1 DEF Define, Typed, SwitchOwned, Footprint, Pcs
<1>2. CASE Enable(s)
  BY <1>2 DEF Enable, Typed, SwitchOwned, Footprint, Pcs
<1>3. CASE Look(s)
  BY <1>3 DEF Look, tracefs, Typed, SwitchOwned, Footprint, Pcs
<1>4. CASE SwitchOn(s)
  <2>1. Typed' /\ Footprint'
    BY <1>4 DEF SwitchOn, Typed, Footprint, Pcs
  <2>2. ~initially /\ ~initially'
    BY <1>4 DEF SwitchOn, SwitchOwned
  <2>3. tracing_on' => \E t \in Snoops : changed'[t]
    <3>1. CASE UNCHANGED <<tracing_on, changed>>
      BY <2>2, <3>1 DEF SwitchOwned
    <3>2. CASE changed' = [changed EXCEPT ![s] = TRUE]
      <4>1. changed'[s]
        BY <3>2 DEF Typed
      <4>2. QED
        BY <4>1
    <3>3. QED
      BY <1>4, <3>1, <3>2 DEF SwitchOn
  <2>4. QED
    BY <2>1, <2>2, <2>3 DEF SwitchOwned
<1>5. CASE OpenPipe(s)
  BY <1>5 DEF OpenPipe, Typed, SwitchOwned, Footprint, Pcs
<1>6. CASE ReadLine(s)
  BY <1>6 DEF ReadLine, Typed, SwitchOwned, Footprint, Pcs
<1>7. CASE Stop(s)
  BY <1>7 DEF Stop, tracefs, Typed, SwitchOwned, Footprint, Pcs
<1>8. CASE Disable(s)
  BY <1>8 DEF Disable, Typed, SwitchOwned, Footprint, Pcs
<1>9. CASE Undefine(s)
  BY <1>9 DEF Undefine, Typed, SwitchOwned, Footprint, Pcs
<1>10. CASE Restore(s)
  BY <1>10 DEF Restore, Typed, SwitchOwned, Footprint, Pcs
<1>11. CASE Close(s)
  BY <1>11 DEF Close, Typed, SwitchOwned, Footprint, Pcs
<1>12. QED
  BY <1>1, <1>2, <1>3, <1>4, <1>5, <1>6, <1>7, <1>8, <1>9, <1>10, <1>11
     DEF Snoop

\* The invariant is inductive.
LEMMA StepInv == IInv /\ [Next]_vars => IInv'
<1> SUFFICES ASSUME IInv, [Next]_vars PROVE IInv'
  OBVIOUS
<1>1. CASE CreateQueue
  BY <1>1 DEF CreateQueue, history, IInv, Typed, SwitchOwned, Footprint
<1>2. CASE \E s \in Snoops : Snoop(s)
  BY <1>2, SnoopStep
<1>3. CASE UNCHANGED vars
  BY <1>3 DEF vars, history, tracefs, IInv, Typed, SwitchOwned, Footprint
<1>4. QED
  BY <1>1, <1>2, <1>3 DEF Next

\* The invariant holds in every reachable state.
THEOREM TracefsInvariance == Spec => []IInv
<1>1. QED
  BY InitInv, StepInv, PTL DEF Spec

\* When every process has ended, the switch is as it was found and no probe is
\* left (Discovery::RemoveKprobe), for any number of processes.
THEOREM RestoresTracefs == Spec => []SystemRestored
<1>1. IInv => SystemRestored
  BY DEF IInv, Typed, SwitchOwned, Footprint, SystemRestored
<1>2. QED
  BY <1>1, TracefsInvariance, PTL

\* A host that had the switch on never loses it.
THEOREM NeverOff == Spec => []NeverSwitchedOff
<1>1. IInv => NeverSwitchedOff
  BY DEF IInv, SwitchOwned, NeverSwitchedOff
<1>2. QED
  BY <1>1, TracefsInvariance, PTL

-----------------------------------------------------------------------------
TraceLine == [probe : Snoops, queue : Nat]

\* Where a line is once its probe has fired.
Kept(line) ==
    \/ line \in taken[line.probe] \cup pipe
    \/ \E t \in Snoops \ {line.probe} : line \in taken[t] \/ <<t, line>> \in lost

\* Lines are of probes of these processes, what a process handed on is its own by
\* the name, its probe is enabled while it runs, and no line disappears.
SeenInv ==
    /\ queues \in Nat /\ pipe \subseteq TraceLine
    /\ taken \in [Snoops -> SUBSET TraceLine]
    /\ born \in [Snoops -> SUBSET Nat]
    /\ \A s \in Snoops : \A l \in taken[s] : Mine(s, l)
    /\ \A s \in Snoops : pc[s] \in {"look", "switch", "open", "run"} => s \in enabled
    /\ initially => \A s \in Snoops : \A q \in born[s] : Kept([probe |-> s, queue |-> q])

\* A queue is created: the probe of every running process writes its line.
LEMMA SeenCreate ==
    ASSUME IInv, SeenInv, CreateQueue
    PROVE  SeenInv'
<1>1. /\ queues' = queues + 1 /\ UNCHANGED <<tracing_on, enabled, pc, initially, taken, lost>>
      /\ pipe' = IF tracing_on
                   THEN pipe \cup {[probe |-> s, queue |-> queues] : s \in enabled}
                   ELSE pipe
      /\ born' = [s \in Snoops |-> IF pc[s] = "run" THEN born[s] \cup {queues}
                                                   ELSE born[s]]
  BY DEF CreateQueue
<1>2. /\ queues' \in Nat /\ pipe' \subseteq TraceLine /\ pipe \subseteq pipe'
      /\ taken' \in [Snoops -> SUBSET TraceLine]
      /\ born' \in [Snoops -> SUBSET Nat]
  BY <1>1 DEF SeenInv, TraceLine, IInv, Typed
<1>3. ASSUME NEW l, Kept(l) PROVE Kept(l)'
  BY <1>1, <1>2, <1>3 DEF Kept
<1>4. ASSUME initially, NEW s \in Snoops, NEW q \in born'[s]
      PROVE  Kept([probe |-> s, queue |-> q])'
  <2>1. CASE q \in born[s]
    BY <1>3, <1>4, <2>1 DEF SeenInv
  <2>2. CASE q \notin born[s]
    <3>1. q = queues /\ pc[s] = "run"
      BY <1>1, <1>4, <2>2
    <3>2. s \in enabled /\ tracing_on
      BY <1>4, <3>1 DEF SeenInv, IInv, SwitchOwned
    <3>3. [probe |-> s, queue |-> q] \in pipe'
      BY <1>1, <3>1, <3>2
    <3> QED
      BY <3>3 DEF Kept
  <2> QED
    BY <2>1, <2>2
<1>5. \A s \in Snoops : \A l \in taken'[s] : Mine(s, l)'
  BY <1>1 DEF SeenInv, Mine
<1> QED
  BY <1>1, <1>2, <1>4, <1>5 DEF SeenInv

\* A line that is read leaves trace_pipe for whoever read it.
LEMMA SeenRead ==
    ASSUME IInv, SeenInv, NEW s \in Snoops, ReadLine(s)
    PROVE  SeenInv'
<1>1. PICK line \in pipe :
          /\ pipe' = pipe \ {line}
          /\ IF Mine(s, line)
               THEN taken' = [taken EXCEPT ![s] = @ \cup {line}] /\ UNCHANGED lost
               ELSE lost' = lost \cup {<<s, line>>} /\ UNCHANGED taken
  BY DEF ReadLine
<1>2. UNCHANGED <<queues, pc, enabled, initially, born>>
  BY DEF ReadLine
<1>3. line \in TraceLine /\ pipe' \subseteq TraceLine
  BY <1>1 DEF SeenInv
<1>4. /\ taken' \in [Snoops -> SUBSET TraceLine]
      /\ \A t \in Snoops : taken[t] \subseteq taken'[t]
      /\ \A t \in Snoops : \A l \in taken'[t] : l \in taken[t] \/ Mine(t, l)
      /\ line \in taken'[s] \/ (s # line.probe /\ <<s, line>> \in lost')
      /\ lost \subseteq lost'
  <2>1. CASE Mine(s, line)
    <3>1. taken' = [taken EXCEPT ![s] = @ \cup {line}] /\ UNCHANGED lost
      BY <1>1, <2>1
    <3>2. taken \in [Snoops -> SUBSET TraceLine]
      BY DEF SeenInv
    <3> QED
      BY <1>3, <2>1, <3>1, <3>2
  <2>2. CASE ~Mine(s, line)
    <3>1. lost' = lost \cup {<<s, line>>} /\ UNCHANGED taken
      BY <1>1, <2>2
    <3>2. taken \in [Snoops -> SUBSET TraceLine]
      BY DEF SeenInv
    <3>3. s # line.probe
      BY <2>2 DEF Mine
    <3> QED
      BY <3>1, <3>2, <3>3
  <2> QED
    BY <2>1, <2>2
<1>5. \A t \in Snoops : \A l \in taken'[t] : Mine(t, l)
  BY <1>4 DEF SeenInv
<1>6. ASSUME NEW l, l.probe \in Snoops, Kept(l) PROVE Kept(l)'
  <2>1. l \in pipe => l \in pipe' \/ l = line
    BY <1>1
  <2> QED
    BY <1>4, <1>6, <2>1 DEF Kept
<1>7. initially' => \A t \in Snoops : \A q \in born'[t] : Kept([probe |-> t, queue |-> q])'
  BY <1>2, <1>6 DEF SeenInv
<1> QED
  BY <1>2, <1>3, <1>4, <1>5, <1>7 DEF SeenInv, Mine

\* Nothing else touches lines, and a process disables its probe after it ran.
LEMMA SeenStep == IInv /\ SeenInv /\ [Next]_vars => SeenInv'
<1> SUFFICES ASSUME IInv, SeenInv, [Next]_vars PROVE SeenInv'
  OBVIOUS
<1>1. CASE CreateQueue
  BY <1>1, SeenCreate
<1>2. ASSUME NEW s \in Snoops, Snoop(s) PROVE SeenInv'
  <2>1. CASE ReadLine(s)
    BY <2>1, SeenRead
  <2>2. CASE ~ReadLine(s)
    <3>1. UNCHANGED <<queues, pipe, initially, taken, born, lost>>
      BY <1>2, <2>2 DEF Snoop, Define, Enable, Look, SwitchOn, OpenPipe, Stop, Disable,
                        Undefine, Restore, Close, history, tracefs
    <3>2. \A t \in Snoops :
             pc'[t] \in {"look", "switch", "open", "run"} => t \in enabled'
      <4>1. /\ pc \in [Snoops -> Pcs]
            /\ \A t \in Snoops :
                  pc[t] \in {"look", "switch", "open", "run"} => t \in enabled
        BY DEF IInv, Typed, SeenInv
      <4>2. CASE Define(s) \/ Enable(s) \/ Look(s) \/ SwitchOn(s) \/ OpenPipe(s)
        BY <4>1, <4>2 DEF Define, Enable, Look, SwitchOn, OpenPipe, tracefs
      <4>3. CASE Stop(s) \/ Disable(s) \/ Undefine(s) \/ Restore(s) \/ Close(s)
        BY <4>1, <4>3 DEF Stop, Disable, Undefine, Restore, Close, tracefs
      <4> QED
        BY <1>2, <2>2, <4>2, <4>3 DEF Snoop
    <3> QED
      BY <3>1, <3>2 DEF SeenInv, Kept, Mine
  <2> QED
    BY <2>1, <2>2
<1>3. CASE UNCHANGED vars
  BY <1>3 DEF vars, tracefs, history, SeenInv, Kept, Mine
<1> QED
  BY <1>1, <1>2, <1>3 DEF Next

\* Although every probe writes a line for every queue and a line is read by one
\* process only, RunKprobe hands no queue on twice, unless the digits of its pid begin
\* another's, and on a host with tracing on loses none but to another reader; for any
\* number of processes and queues.
THEOREM SeenOnce == Spec => []QueuesSeenOnce
<1>1. Init => SeenInv
  BY DEF Init, SeenInv, Kept
<1>2. SeenInv => QueuesSeenOnce
  <2> SUFFICES ASSUME SeenInv, NEW s \in Snoops
               PROVE  /\ \/ \E t \in Snoops : <<t, s>> \in Extends
                         \/ \A l, m \in taken[s] : l.queue = m.queue => l = m
                      /\ initially => \A q \in born[s] : Kept([probe |-> s, queue |-> q])
    BY DEF QueuesSeenOnce, Kept
  <2>1. ASSUME \A t \in Snoops : <<t, s>> \notin Extends,
               NEW l \in taken[s], NEW m \in taken[s], l.queue = m.queue
        PROVE  l = m
    <3>1. l \in TraceLine /\ m \in TraceLine
      BY DEF SeenInv
    <3>2. l.probe \in Snoops /\ m.probe \in Snoops
      BY <3>1 DEF TraceLine
    <3>3. l.probe = s /\ m.probe = s
      BY <2>1, <3>2 DEF SeenInv, Mine
    <3> QED
      BY <2>1, <3>1, <3>3 DEF TraceLine
  <2> QED
    BY <2>1 DEF SeenInv
<1> QED
  BY <1>1, <1>2, SeenStep, TracefsInvariance, PTL DEF Spec
=============================================================================
