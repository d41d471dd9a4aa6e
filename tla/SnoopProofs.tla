----------------------------- MODULE SnoopProofs ------------------------------
(***************************************************************************)
(* For any queues, any number of records and every mode: no record reaches *)
(* a sink that does not know its queue, none is missing from the output of *)
(* a successful run, and a launched command creates no queue that          *)
(* discovery could not see and is never left stopped.                      *)
(* For any records, what the trace writer makes of them can be put         *)
(* together again by a viewer, in both formats.                            *)
(***************************************************************************)
EXTENDS Snoop, TraceWriter, FiniteSetTheorems, TLAPS

\* The queues every sink knows.
Known == queue_ids \cap registered

\* The queues DispatchLog::LogQueue has been called for.
Listed == listed \cup unlisted

\* A queue is on its way to the parser only behind the sinks, and whatever the
\* parser holds is known.
QueuesKnown ==
    /\ discovery \in {"list", "register"} => current \in queue_ids
    /\ discovery = "register" /\ dispatch_log => current \in Listed
    /\ discovery = "add" => current \in Known /\ (dispatch_log => current \in Listed)
    /\ dispatch_log => tracked \subseteq Listed /\ snapshot \subseteq Listed
    /\ tracked \subseteq Known
    /\ snapshot \subseteq Known
    /\ parser \in {"log", "deliver"} =>
         record.queue \in Known /\ (dispatch_log => record.queue \in Listed)

OrphanInv == QueuesKnown /\ NoOrphanRecord

\* How far main is, and what the command can be doing then.
ChildPlace ==
    /\ launch =>
         /\ pc \in {"open", "fork"} => child = "none"
         /\ pc = "wait" => child \in {"forked", "stopped", "dead"}
         /\ pc = "start" => child = "stopped"
         /\ pc \in {"resume", "loop"} => armed \/ late
         /\ pc = "resume" => child = "stopped"
    /\ pc \in {"loop", "stop discovery", "stop parser", "join parser", "output",
               "ended"} => child \notin {"forked", "stopped"}
    /\ ~launch => pc \notin {"fork", "wait"} /\ child \notin {"forked", "stopped"}

LaunchInv == ChildPlace /\ NoEarlyQueue

\* The records on their way through the sinks, to the log and to be kept.
Undelivered == IF parser \in {"log", "deliver"} THEN {record} ELSE {}
Unlogged == IF parser = "log" THEN {record} ELSE {}

Loggable(rs) == {r \in rs : r.kind # "other"}
LoggedRecords == {l.rec : l \in logged}

\* Where each record is, and that none is on its way when the output is made.
Delivery ==
    /\ made = kept \cup Undelivered
    /\ \A r \in kept : r.queue \in registered
    /\ dispatch_log =>
         Loggable(made) = LoggedRecords \cup dropped \cup Loggable(Unlogged)
    /\ pc = "output" \/ status = "ok" => parser = "off"
    /\ status = "ok" => pc = "ended"
    /\ status = "ok" /\ mode # "prometheus" =>
         output = {r \in made : FileOf(r.queue) \notin cut}

OutputInv == OrphanInv /\ Delivery

-----------------------------------------------------------------------------
\* Nothing is known to anybody at first.
LEMMA InitOrphan == Init => OrphanInv
  BY DEF Init, OrphanInv, QueuesKnown, NoOrphanRecord, Known, Listed

\* Each step of the discovery thread, of the parser or of main keeps the
\* queues known.
LEMMA StepOrphan == OrphanInv /\ [Next]_vars => OrphanInv'
<1> SUFFICES ASSUME OrphanInv, [Next]_vars PROVE OrphanInv'
  OBVIOUS
<1> USE DEF OrphanInv, QueuesKnown, NoOrphanRecord, Known, Listed
<1>0. dispatch_log' = dispatch_log
  BY DEF Next, options, vars
<1>1. CASE Main
  BY <1>0, <1>1 DEF Main, OpenSinks, Fork, WaitStopped, StartDiscovery, Resume, StopDiscovery,
              StopParser, JoinParser, Output, onq, pars
<1>2. CASE LeaveLoop
  BY <1>0, <1>2 DEF LeaveLoop, onq, pars
<1>3. CASE OnQueueGoesOn
  <2>1. CASE RememberIds
    BY <1>0, <2>1 DEF RememberIds, pars
  <2>2. CASE LogQueue
    BY <1>0, <2>2 DEF LogQueue, pars
  <2>3. CASE Register
    BY <1>0, <2>3 DEF Register, pars
  <2>4. CASE AddQueue
    BY <1>0, <2>4 DEF AddQueue
  <2>5. QED
    BY <1>3, <2>1, <2>2, <2>3, <2>4 DEF OnQueueGoesOn
<1>4. CASE Parser
  <2>1. CASE BeginPass
    BY <1>0, <2>1 DEF BeginPass, onq
  <2>2. CASE EndPass
    BY <1>0, <2>2 DEF EndPass, onq
  <2>3. CASE Log
    <3> DEFINE entry == [rec |-> record, known |-> record.queue \in queue_ids,
                         listed |-> record.queue \in listed \cup unlisted]
    <3>1. dispatch_log => entry.known /\ entry.listed
      BY <2>3 DEF Log
    <3>2. logged' = logged \/ (dispatch_log /\ logged' = logged \cup {entry})
      BY <2>3 DEF Log
    <3>3. \A l \in logged' : l.known /\ l.listed
      <4> HIDE DEF entry
      <4>1. QED
        BY <3>1, <3>2
    <3>4. errors' = 0
      BY <2>3 DEF Log
    <3>5. QueuesKnown'
      BY <1>0, <2>3 DEF Log, onq
    <3>6. QED
      BY <3>3, <3>4, <3>5
  <2>4. CASE Deliver
    BY <1>0, <2>4 DEF Deliver, onq
  <2>5. ASSUME NEW q \in Queues, NEW kind \in Kinds(q), Emit(q, kind) PROVE OrphanInv'
    BY <1>0, <2>5 DEF Emit, onq
  <2>6. ASSUME NEW q \in Queues, Evict(q) PROVE OrphanInv'
    BY <1>0, <2>6 DEF Evict, onq
  <2>7. QED
    BY <1>4, <2>1, <2>2, <2>3, <2>4, <2>5, <2>6 DEF Parser
<1>5. CASE ChildStops \/ ChildExits
  BY <1>0, <1>5 DEF ChildStops, ChildExits, onq, pars
<1>6. ASSUME NEW q \in Queues, CreateQueue(q) \/ OnQueue(q) PROVE OrphanInv'
  BY <1>0, <1>6 DEF CreateQueue, OnQueue, onq, pars
<1>7. CASE ReaderStuck \/ LateAttach
  BY <1>0, <1>7 DEF ReaderStuck, LateAttach, onq, pars
<1>8. CASE UNCHANGED vars
  BY <1>0, <1>8 DEF vars, onq, pars
<1>9. QED
  BY <1>1, <1>2, <1>3, <1>4, <1>5, <1>6, <1>7, <1>8 DEF Next, Step

\* No packet reaches a sink before its queue is known there, whatever the
\* interleaving of on_queue and the parser's sinks.
THEOREM NoOrphans == Spec => []NoOrphanRecord
<1>1. OrphanInv => NoOrphanRecord
  BY DEF OrphanInv
<1>2. QED
  BY <1>1, InitOrphan, StepOrphan, PTL DEF Spec

-----------------------------------------------------------------------------
\* There are no records at first.
LEMMA InitOutput == Init => OutputInv
  BY InitOrphan DEF Init, OutputInv, Delivery, Undelivered, Unlogged, Loggable,
                    LoggedRecords

\* A step of the parser moves a record on, to the next place.
LEMMA ParserDelivers ==
    ASSUME OutputInv, Parser, UNCHANGED options PROVE Delivery'
<1> USE DEF Delivery, Undelivered, Unlogged, FileOf
<1>0. dispatch_log' = dispatch_log /\ mode' = mode
  BY DEF options
<1>1. CASE BeginPass \/ EndPass
  BY <1>0, <1>1 DEF OutputInv, BeginPass, EndPass, Loggable, LoggedRecords, procs, onq, written
<1>2. CASE Log
  <2> DEFINE entry == [rec |-> record, known |-> record.queue \in queue_ids,
                       listed |-> record.queue \in listed \cup unlisted]
  <2>1. entry.rec = record
    OBVIOUS
  <2>2. dispatch_log =>
          LoggedRecords' \cup dropped' = LoggedRecords \cup dropped \cup Loggable({record})
    <3>1. CASE record.kind # "other"
      <4>1. dispatch_log => \/ logged' = logged \cup {entry} /\ dropped' = dropped
                            \/ dropped' = dropped \cup {record} /\ logged' = logged
        BY <1>2, <3>1 DEF Log
      <4>2. Loggable({record}) = {record}
        BY <3>1 DEF Loggable
      <4> HIDE DEF entry
      <4>3. QED
        BY <2>1, <4>1, <4>2 DEF LoggedRecords
    <3>2. CASE record.kind = "other"
      BY <1>2, <3>2 DEF Log, Loggable, LoggedRecords
    <3>3. QED
      BY <3>1, <3>2
  <2>3. made' = made /\ kept' = kept /\ record' = record /\ parser = "log" /\ parser' = "deliver"
    BY <1>2 DEF Log
  <2>4. dispatch_log =>
          Loggable(made)' = LoggedRecords' \cup dropped' \cup Loggable(Unlogged)'
    BY <2>2, <2>3 DEF OutputInv, Loggable
  <2>5. QED
    BY <1>0, <1>2, <2>3, <2>4 DEF OutputInv, Log, procs, onq, written
<1>3. CASE Deliver
  <2>1. record.queue \in registered
    BY <1>3 DEF Deliver, OutputInv, OrphanInv, QueuesKnown, Known
  <2>2. kept' = kept \cup {record} /\ made' = made /\ parser = "deliver" /\ parser' = "pass"
    BY <1>3, <2>1 DEF Deliver
  <2>3. QED
    BY <1>0, <1>3, <2>1, <2>2
       DEF OutputInv, Deliver, Loggable, LoggedRecords, procs, onq, written
<1>4. ASSUME NEW q \in Queues, NEW kind \in Kinds(q), Emit(q, kind) PROVE Delivery'
  <2>1. made' = made \cup {record'} /\ parser = "pass" /\ parser' = "log"
        /\ UNCHANGED <<kept, logged, dropped, procs, onq, written>>
    BY <1>4 DEF Emit
  <2>2. dispatch_log =>
          Loggable(made)' = LoggedRecords' \cup dropped' \cup Loggable(Unlogged)'
    BY <2>1 DEF OutputInv, Loggable, LoggedRecords
  <2>3. QED
    BY <1>0, <2>1, <2>2 DEF OutputInv, procs, onq, written
<1>5. ASSUME NEW q \in Queues, Evict(q) PROVE Delivery'
  BY <1>0, <1>5 DEF OutputInv, Evict, Loggable, LoggedRecords, procs, onq, written
<1>6. QED
  BY <1>1, <1>2, <1>3, <1>4, <1>5 DEF Parser

\* Steps of main: the output is what is kept, when the parser has ended.
LEMMA MainDelivers ==
    ASSUME OutputInv, Main, UNCHANGED options PROVE Delivery'
<1> USE DEF Delivery, Undelivered, Unlogged, FileOf
<1>0. dispatch_log' = dispatch_log /\ mode' = mode
  BY DEF options
<1>1. CASE Output
  <2>1. made = kept /\ parser = "off"
    BY <1>1 DEF OutputInv, Output
  <2>2. \A r \in kept : FileOf(r.queue) \in Files
    BY DEF OutputInv, Files, FileOf
  <2>3. status' = "ok" /\ mode # "prometheus" =>
          output' = {r \in made : FileOf(r.queue) \notin cut'}
    BY <1>1, <2>1, <2>2 DEF Output
  <2>4. \A q : FileOf(q)' = FileOf(q)
    BY <1>0 DEF FileOf
  <2>5. QED
    BY <1>0, <1>1, <2>1, <2>3, <2>4
       DEF OutputInv, Output, Loggable, LoggedRecords, FileOf, onq, pars
<1>2. CASE OpenSinks \/ Fork \/ WaitStopped \/ StartDiscovery \/ Resume
  BY <1>0, <1>2 DEF OutputInv, OpenSinks, Fork, WaitStopped, StartDiscovery, Resume, Loggable,
                    LoggedRecords, onq, pars, written
<1>3. CASE StopDiscovery \/ StopParser \/ JoinParser
  BY <1>0, <1>3 DEF OutputInv, StopDiscovery, StopParser, JoinParser, Loggable,
                    LoggedRecords, onq, pars, written
<1>4. QED
  BY <1>1, <1>2, <1>3 DEF Main

\* Nothing else touches a record.
LEMMA StepOutput == OutputInv /\ [Next]_vars => OutputInv'
<1> SUFFICES ASSUME OutputInv, [Next]_vars PROVE OutputInv'
  OBVIOUS
<1>1. OrphanInv'
  BY StepOrphan DEF OutputInv
<1>2. Delivery'
  <2>0. UNCHANGED options
    BY DEF Next, vars
  <2>1. CASE Parser
    BY <2>0, <2>1, ParserDelivers
  <2>2. CASE Main
    BY <2>0, <2>2, MainDelivers
  <2> USE DEF OutputInv, Delivery, Undelivered, Unlogged, Loggable, LoggedRecords, FileOf,
              options
  <2>3. CASE LeaveLoop
    BY <2>0, <2>3 DEF LeaveLoop, onq, pars, written
  <2>4. CASE OnQueueGoesOn
    BY <2>0, <2>4 DEF OnQueueGoesOn, RememberIds, LogQueue, Register, AddQueue,
                      procs, pars, written
  <2>5. CASE ChildStops \/ ChildExits
    BY <2>0, <2>5 DEF ChildStops, ChildExits, onq, pars, written
  <2>6. ASSUME NEW q \in Queues, CreateQueue(q) \/ OnQueue(q) PROVE Delivery'
    BY <2>0, <2>6 DEF CreateQueue, OnQueue, procs, onq, pars, written
  <2>7. CASE ReaderStuck \/ LateAttach
    BY <2>0, <2>7 DEF ReaderStuck, LateAttach, procs, onq, pars, written
  <2>8. CASE UNCHANGED vars
    <3>1. UNCHANGED <<pc, parser, record, made, logged, dropped, kept, registered,
                      output, cut, status, mode, dispatch_log>>
      BY <2>8 DEF vars, procs, onq, pars, written
    <3>2. QED
      BY <3>1
  <2>9. QED
    BY <2>1, <2>2, <2>3, <2>4, <2>5, <2>6, <2>7, <2>8 DEF Next, Step
<1>3. QED
  BY <1>1, <1>2 DEF OutputInv

\* A run of hsa-snoop that ends with success has put every record that was made
\* into its output and, if it is of a dispatch or a copy, into the dispatch log;
\* what is missing there is what a failed write, which the code does not look at,
\* has dropped.
THEOREM NothingLost == Spec => []OutputComplete
<1>1. OutputInv => OutputComplete
  BY DEF OutputInv, Delivery, OutputComplete, Undelivered, Unlogged, Loggable,
         LoggedRecords
<1>2. QED
  BY <1>1, InitOutput, StepOutput, PTL DEF Spec

-----------------------------------------------------------------------------
\* main begins before the command exists, or with the one that is watched.
LEMMA InitLaunch == Init => LaunchInv
  BY DEF Init, LaunchInv, ChildPlace, NoEarlyQueue

\* Only main, the command and the creation of queues matter here.
LEMMA StepLaunch == LaunchInv /\ [Next]_vars => LaunchInv'
<1> SUFFICES ASSUME LaunchInv, [Next]_vars PROVE LaunchInv'
  OBVIOUS
<1> USE DEF LaunchInv, ChildPlace, NoEarlyQueue
<1>0. launch' = launch
  BY DEF Next, options, vars
<1>1. CASE Main
  <2>1. CASE OpenSinks \/ Fork
    BY <1>0, <2>1 DEF OpenSinks, Fork
  <2>2. CASE WaitStopped
    BY <1>0, <2>2 DEF WaitStopped
  <2>3. CASE StartDiscovery
    BY <1>0, <2>3 DEF StartDiscovery
  <2>4. CASE Resume
    BY <1>0, <2>4 DEF Resume
  <2>5. CASE StopDiscovery
    BY <1>0, <2>5 DEF StopDiscovery
  <2>6. CASE StopParser \/ JoinParser \/ Output
    BY <1>0, <2>6 DEF StopParser, JoinParser, Output
  <2>7. QED
    BY <1>1, <2>1, <2>2, <2>3, <2>4, <2>5, <2>6 DEF Main
<1>2. CASE LeaveLoop
  BY <1>0, <1>2 DEF LeaveLoop
<1>3. CASE OnQueueGoesOn
  BY <1>0, <1>3 DEF OnQueueGoesOn, RememberIds, LogQueue, Register, AddQueue, procs
<1>4. CASE Parser
  BY <1>0, <1>4 DEF Parser, BeginPass, EndPass, Log, Deliver, Emit, Evict, procs
<1>5. CASE ChildStops
  BY <1>0, <1>5 DEF ChildStops
<1>6. CASE ChildExits
  BY <1>0, <1>6 DEF ChildExits
<1>7. ASSUME NEW q \in Queues, CreateQueue(q) PROVE LaunchInv'
  BY <1>0, <1>7 DEF CreateQueue
<1>8. ASSUME NEW q \in Queues, OnQueue(q) PROVE LaunchInv'
  BY <1>0, <1>8 DEF OnQueue, procs
<1>9. CASE UNCHANGED vars
  BY <1>0, <1>9 DEF vars, procs
<1>10. CASE ReaderStuck \/ LateAttach
  BY <1>0, <1>10 DEF ReaderStuck, LateAttach, procs
<1>11. QED
  BY <1>1, <1>2, <1>3, <1>4, <1>5, <1>6, <1>7, <1>8, <1>9, <1>10 DEF Next, Step

\* In launch mode no queue of the command is created before the probe is armed
\* (main.cpp, SIGSTOP to SIGCONT), unless bpftrace attaches after the deadline.
THEOREM LaunchSeesEveryQueue == Spec => []NoEarlyQueue
<1>1. LaunchInv => NoEarlyQueue
  BY DEF LaunchInv
<1>2. QED
  BY <1>1, InitLaunch, StepLaunch, PTL DEF Spec

\* hsa-snoop never ends leaving the launched command stopped.
THEOREM LaunchedNotLeftStopped == Spec => []ChildNotLeftStopped
<1>1. LaunchInv => ChildNotLeftStopped
  BY DEF LaunchInv, ChildPlace, ChildNotLeftStopped
<1>2. QED
  BY <1>1, InitLaunch, StepLaunch, PTL DEF Spec

-----------------------------------------------------------------------------
(* The trace writer (TraceWriter), for any records: sorted, the begin and  *)
(* end events can be paired again.                                         *)

\* A list of records that have times.
Timed(recs) ==
    /\ Len(recs) \in Nat /\ DOMAIN recs = 1 .. Len(recs)
    /\ \A i \in DOMAIN recs : recs[i].submit \in Nat /\ recs[i].complete \in Nat

\* A slice ends after it begins.
LEMMA EndsLater ==
    ASSUME NEW recs, Timed(recs), NEW i \in DOMAIN recs
    PROVE  End(recs[i]) \in Nat /\ recs[i].submit < End(recs[i])
BY DEF Timed, End

\* The events of the i-th record are those at 2i - 1 and 2i, and there are no others.
LEMMA EventsOf ==
    ASSUME NEW recs, Timed(recs)
    PROVE  LET evs == Events(recs)
           IN  /\ DOMAIN evs = 1 .. 2 * Len(recs)
               /\ \A i \in DOMAIN recs :
                    /\ 2 * i - 1 \in DOMAIN evs /\ 2 * i \in DOMAIN evs
                    /\ evs[2 * i - 1] = [ts |-> recs[i].submit, begin |-> TRUE, i |-> i,
                                         track |-> recs[i].track]
                    /\ evs[2 * i] = [ts |-> End(recs[i]), begin |-> FALSE, i |-> i,
                                     track |-> recs[i].track]
               /\ \A k \in DOMAIN evs : \E i \in DOMAIN recs : k \in {2 * i - 1, 2 * i}
<1> DEFINE evs == Events(recs)
<1>1. DOMAIN evs = 1 .. 2 * Len(recs)
  BY DEF Events
<1>2. ASSUME NEW i \in DOMAIN recs
      PROVE  /\ 2 * i - 1 \in 1 .. 2 * Len(recs) /\ 2 * i \in 1 .. 2 * Len(recs)
             /\ (2 * i - 1) % 2 = 1 /\ ((2 * i - 1) + 1) \div 2 = i
             /\ (2 * i) % 2 = 0 /\ (2 * i + 1) \div 2 = i
  <2>1. i \in Nat /\ i >= 1 /\ i <= Len(recs) /\ Len(recs) \in Nat
    BY <1>2 DEF Timed
  <2>2. 2 * i - 1 \in 1 .. 2 * Len(recs) /\ 2 * i \in 1 .. 2 * Len(recs)
    BY <2>1
  <2>3. (2 * i - 1) % 2 = 1 /\ (2 * i) % 2 = 0
    BY <2>1
  <2>4. ((2 * i - 1) + 1) \div 2 = i /\ (2 * i + 1) \div 2 = i
    BY <2>1
  <2>5. QED
    BY <2>2, <2>3, <2>4
<1>3. ASSUME NEW i \in DOMAIN recs
      PROVE  /\ evs[2 * i - 1] = [ts |-> recs[i].submit, begin |-> TRUE, i |-> i,
                                  track |-> recs[i].track]
             /\ evs[2 * i] = [ts |-> End(recs[i]), begin |-> FALSE, i |-> i,
                              track |-> recs[i].track]
  <2>1. /\ 2 * i - 1 \in 1 .. 2 * Len(recs) /\ 2 * i \in 1 .. 2 * Len(recs)
        /\ (2 * i - 1) % 2 = 1 /\ ((2 * i - 1) + 1) \div 2 = i
        /\ (2 * i) % 2 = 0 /\ (2 * i + 1) \div 2 = i
    BY <1>2
  <2>2. \A k \in 1 .. 2 * Len(recs) :
          /\ k % 2 = 1 => evs[k] = [ts |-> recs[(k + 1) \div 2].submit, begin |-> TRUE,
                                    i |-> (k + 1) \div 2,
                                    track |-> recs[(k + 1) \div 2].track]
          /\ k % 2 = 0 => evs[k] = [ts |-> End(recs[(k + 1) \div 2]), begin |-> FALSE,
                                    i |-> (k + 1) \div 2,
                                    track |-> recs[(k + 1) \div 2].track]
    BY DEF Events
  <2> HIDE DEF evs
  <2>3. QED
    BY <2>1, <2>2
<1>4. ASSUME NEW k \in DOMAIN evs
      PROVE  \E i \in DOMAIN recs : k \in {2 * i - 1, 2 * i}
  <2>1. k \in 1 .. 2 * Len(recs) /\ Len(recs) \in Nat /\ DOMAIN recs = 1 .. Len(recs)
    BY <1>1, <1>4 DEF Timed
  <2>2. (k + 1) \div 2 \in 1 .. Len(recs)
    BY <2>1
  <2>3. k = 2 * ((k + 1) \div 2) - 1 \/ k = 2 * ((k + 1) \div 2)
    BY <2>1
  <2>4. QED
    BY <2>1, <2>2, <2>3
<1>5. QED
  BY <1>1, <1>2, <1>3, <1>4

LEMMA EventFields ==
    ASSUME NEW recs, Timed(recs), NEW i \in DOMAIN recs
    PROVE  /\ Events(recs)[2 * i - 1].ts = recs[i].submit
           /\ Events(recs)[2 * i - 1].begin = TRUE
           /\ Events(recs)[2 * i - 1].i = i
           /\ Events(recs)[2 * i - 1].track = recs[i].track
           /\ Events(recs)[2 * i].ts = End(recs[i])
           /\ Events(recs)[2 * i].begin = FALSE
           /\ Events(recs)[2 * i].i = i
           /\ Events(recs)[2 * i].track = recs[i].track
<1> DEFINE first == Events(recs)[2 * i - 1]
           second == Events(recs)[2 * i]
<1>1. /\ first = [ts |-> recs[i].submit, begin |-> TRUE, i |-> i, track |-> recs[i].track]
      /\ second = [ts |-> End(recs[i]), begin |-> FALSE, i |-> i,
                   track |-> recs[i].track]
  BY EventsOf
<1> HIDE DEF first, second
<1>2. /\ first.ts = recs[i].submit /\ first.begin = TRUE
      /\ first.i = i /\ first.track = recs[i].track
      /\ second.ts = End(recs[i]) /\ second.begin = FALSE
      /\ second.i = i /\ second.track = recs[i].track
  BY <1>1
<1>3. QED
  BY <1>2 DEF first, second

\* The events are strictly and totally ordered.
Ordered(evs) ==
    /\ \A k \in DOMAIN evs : ~Before(evs[k], evs[k])
    /\ \A j, k \in DOMAIN evs : j = k \/ Before(evs[j], evs[k]) \/ Before(evs[k], evs[j])
    /\ \A j, k, l \in DOMAIN evs :
         Before(evs[j], evs[k]) /\ Before(evs[k], evs[l]) => Before(evs[j], evs[l])

LEMMA EventsOrdered ==
    ASSUME NEW recs, Timed(recs)
    PROVE  Ordered(Events(recs))
<1> DEFINE evs == Events(recs)
<1>a. \A i \in DOMAIN recs :
        /\ evs[2 * i - 1].ts = recs[i].submit /\ evs[2 * i - 1].begin = TRUE
        /\ evs[2 * i - 1].i = i
        /\ evs[2 * i].ts = End(recs[i]) /\ evs[2 * i].begin = FALSE
        /\ evs[2 * i].i = i
  <2> TAKE i \in DOMAIN recs
  <2> HIDE DEF evs
  <2>1. Events(recs)[2 * i - 1].ts = recs[i].submit
    BY EventFields
  <2>5. Events(recs)[2 * i].ts = End(recs[i])
    BY EventFields
  <2>2. Events(recs)[2 * i - 1].begin = TRUE
    BY EventFields
  <2>3. Events(recs)[2 * i].begin = FALSE
    BY EventFields
  <2>4. Events(recs)[2 * i - 1].i = i /\ Events(recs)[2 * i].i = i
    BY EventFields
  <2> QED
    BY <2>1, <2>2, <2>3, <2>4, <2>5 DEF evs
<1>b. \A k \in DOMAIN evs : \E i \in DOMAIN recs : k = 2 * i - 1 \/ k = 2 * i
  BY EventsOf
<1> HIDE DEF evs
<1>1. ASSUME NEW k \in DOMAIN evs
      PROVE  evs[k].ts \in Nat /\ evs[k].begin \in BOOLEAN /\ evs[k].i \in Nat
  <2>1. PICK i \in DOMAIN recs : k = 2 * i - 1 \/ k = 2 * i
    BY <1>b
  <2>a. i \in Nat /\ recs[i].submit \in Nat
    BY DEF Timed
  <2>2. i \in Nat /\ recs[i].submit \in Nat /\ End(recs[i]) \in Nat
    BY <2>a, EndsLater
  <2>3. evs[k].begin = TRUE \/ evs[k].begin = FALSE
    BY <1>a, <2>1
  <2>4. evs[k].ts \in Nat /\ evs[k].i \in Nat
    BY <1>a, <2>1, <2>2
  <2>5. QED
    BY <2>3, <2>4
<1>2. ASSUME NEW j \in DOMAIN evs, NEW k \in DOMAIN evs, j # k
      PROVE  evs[j].begin # evs[k].begin \/ evs[j].i # evs[k].i
  <2>1. PICK i \in DOMAIN recs : j = 2 * i - 1 \/ j = 2 * i
    BY <1>b
  <2>2. PICK m \in DOMAIN recs : k = 2 * m - 1 \/ k = 2 * m
    BY <1>b
  <2>3. evs[j].i = i /\ evs[k].i = m
    BY <1>a, <2>1, <2>2
  <2>4. i = m => (j = 2 * i - 1 /\ k = 2 * i) \/ (j = 2 * i /\ k = 2 * i - 1)
    BY <1>2, <2>1, <2>2
  <2>5. i = m => evs[j].begin # evs[k].begin
    BY <1>a, <2>4
  <2>6. QED
    BY <2>3, <2>5
<1>3. \A k \in DOMAIN evs : ~Before(evs[k], evs[k])
  BY <1>1 DEF Before
<1>4. ASSUME NEW j \in DOMAIN evs, NEW k \in DOMAIN evs, j # k
      PROVE  Before(evs[j], evs[k]) \/ Before(evs[k], evs[j])
  BY <1>1, <1>2, <1>4 DEF Before
<1>5. ASSUME NEW j \in DOMAIN evs, NEW k \in DOMAIN evs, NEW l \in DOMAIN evs,
             Before(evs[j], evs[k]), Before(evs[k], evs[l])
      PROVE  Before(evs[j], evs[l])
  BY <1>1, <1>5 DEF Before
<1>6. QED
  BY <1>3, <1>4, <1>5 DEF Ordered, evs

\* In such an order ranks follow the order and no place is taken twice or left empty.
LEMMA Ranks ==
    ASSUME NEW evs, NEW n \in Nat, DOMAIN evs = 1 .. n, Ordered(evs)
    PROVE  /\ \A k \in 1 .. n : Rank(evs, k) \in 1 .. n
           /\ \A j, k \in 1 .. n : Before(evs[j], evs[k]) => Rank(evs, j) < Rank(evs, k)
           /\ \A m \in 1 .. n : \E k \in 1 .. n : Rank(evs, k) = m
<1> DEFINE upto(k) == {j \in 1 .. n : j = k \/ Before(evs[j], evs[k])}
<1>1. IsFiniteSet(1 .. n) /\ Cardinality(1 .. n) = n
  BY FS_Interval
<1>2. ASSUME NEW k \in 1 .. n
      PROVE  /\ IsFiniteSet(upto(k)) /\ Rank(evs, k) = Cardinality(upto(k))
             /\ Rank(evs, k) \in 1 .. n
  <2>1. IsFiniteSet(upto(k)) /\ Cardinality(upto(k)) <= n
    BY <1>1, FS_Subset
  <2>2. Cardinality(upto(k)) \in Nat /\ Cardinality(upto(k)) # 0
    BY <2>1, FS_CardinalityType, FS_EmptySet
  <2>3. Rank(evs, k) = Cardinality(upto(k))
    BY DEF Rank
  <2>4. QED
    BY <2>1, <2>2, <2>3
<1>3. ASSUME NEW j \in 1 .. n, NEW k \in 1 .. n, Before(evs[j], evs[k])
      PROVE  Rank(evs, j) < Rank(evs, k)
  <2>1. upto(j) \subseteq upto(k)
    BY <1>3 DEF Ordered
  <2>2. k \in upto(k) /\ k \notin upto(j)
    BY <1>3 DEF Ordered
  <2> HIDE DEF upto
  <2>3. Cardinality(upto(j)) <= Cardinality(upto(k))
        /\ Cardinality(upto(j)) # Cardinality(upto(k))
    BY <1>2, <2>1, <2>2, FS_Subset
  <2>4. QED
    BY <1>2, <2>3
<1> DEFINE place == [k \in 1 .. n |-> Rank(evs, k)]
<1>4. place \in Injection(1 .. n, 1 .. n)
  <2>1. place \in [1 .. n -> 1 .. n]
    BY <1>2
  <2>2. ASSUME NEW j \in 1 .. n, NEW k \in 1 .. n, place[j] = place[k] PROVE j = k
    <3>1. Rank(evs, j) = Rank(evs, k)
      BY <2>2
    <3> HIDE DEF upto, place
    <3>2. ~Before(evs[j], evs[k]) /\ ~Before(evs[k], evs[j])
      <4>1. Rank(evs, j) \in Nat
        BY <1>2
      <4>2. QED
        BY <1>3, <3>1, <4>1
    <3>3. QED
      BY <3>2 DEF Ordered
  <2>3. QED
    BY <2>1, <2>2 DEF Injection, IsInjective
<1>5. place \in Surjection(1 .. n, 1 .. n)
  BY <1>1, <1>4, FS_Injection
<1>6. ASSUME NEW m \in 1 .. n PROVE \E k \in 1 .. n : Rank(evs, k) = m
  BY <1>5 DEF Surjection
<1>7. QED
  BY <1>2, <1>3, <1>6

\* The sorted events: those of the i-th record stand at begins[i] and, later, at
\* ends[i], every place is one of these, and the places follow the order.
Placed(recs, evs, begins, ends) ==
    /\ DOMAIN evs = 1 .. 2 * Len(recs) /\ Len(evs) = 2 * Len(recs)
    /\ begins \in [DOMAIN recs -> 1 .. 2 * Len(recs)]
    /\ ends \in [DOMAIN recs -> 1 .. 2 * Len(recs)]
    /\ \A i \in DOMAIN recs :
         /\ begins[i] < ends[i]
         /\ evs[begins[i]] = Events(recs)[2 * i - 1]
         /\ evs[ends[i]] = Events(recs)[2 * i]
    /\ \A n \in DOMAIN evs : \E i \in DOMAIN recs : n = begins[i] \/ n = ends[i]
    /\ \A m, n \in DOMAIN evs : m < n => Before(evs[m], evs[n])

LEMMA SortedEvents ==
    ASSUME NEW recs, Timed(recs)
    PROVE  \E begins, ends : Placed(recs, TrackEvents(recs), begins, ends)
<1> DEFINE evs == Events(recs)
           n == 2 * Len(recs)
           sorted == Sorted(evs)
<1>1. n \in Nat /\ DOMAIN evs = 1 .. n /\ DOMAIN recs = 1 .. Len(recs)
  BY EventsOf DEF Timed
<1>2. Ordered(evs)
  BY EventsOrdered
<1>3. \A i \in DOMAIN recs : 2 * i - 1 \in 1 .. n /\ 2 * i \in 1 .. n
  BY <1>1 DEF Timed
<1>4. \A k \in 1 .. n : \E i \in DOMAIN recs : k = 2 * i - 1 \/ k = 2 * i
  <2>1. \A k \in DOMAIN evs : \E i \in DOMAIN recs : k \in {2 * i - 1, 2 * i}
    BY EventsOf
  <2>2. QED
    BY <1>1, <2>1
<1>5. ASSUME NEW i \in DOMAIN recs PROVE Before(evs[2 * i - 1], evs[2 * i])
  <2>1. Events(recs)[2 * i - 1].ts = recs[i].submit
    BY EventFields
  <2>2. Events(recs)[2 * i].ts = End(recs[i])
    BY EventFields
  <2>3. recs[i].submit < End(recs[i])
    BY EndsLater
  <2>4. QED
    BY <2>1, <2>2, <2>3 DEF Before
<1> HIDE DEF evs, n
<1>6. \A k \in 1 .. n : Rank(evs, k) \in 1 .. n
  BY <1>1, <1>2, Ranks
<1>7. \A j, k \in 1 .. n : Before(evs[j], evs[k]) => Rank(evs, j) < Rank(evs, k)
  BY <1>1, <1>2, Ranks
<1>8. \A m \in 1 .. n : \E k \in 1 .. n : Rank(evs, k) = m
  BY <1>1, <1>2, Ranks
<1>9. \A j, k \in 1 .. n : Rank(evs, j) = Rank(evs, k) => j = k
  <2> SUFFICES ASSUME NEW j \in 1 .. n, NEW k \in 1 .. n,
                      Rank(evs, j) = Rank(evs, k), j # k
               PROVE  FALSE
    OBVIOUS
  <2>1. Before(evs[j], evs[k]) \/ Before(evs[k], evs[j])
    BY <1>1, <1>2 DEF Ordered
  <2>2. Rank(evs, j) \in Nat
    BY <1>6
  <2>3. QED
    BY <1>7, <2>1, <2>2
<1>10. \A m, k \in 1 .. n : Rank(evs, k) = m => sorted[m] = evs[k]
  <2> SUFFICES ASSUME NEW m \in 1 .. n, NEW k \in 1 .. n, Rank(evs, k) = m
               PROVE  sorted[m] = evs[k]
    OBVIOUS
  <2>1. (CHOOSE j \in 1 .. n : Rank(evs, j) = m) = k
    BY <1>9
  <2>2. QED
    BY <1>1, <2>1 DEF Sorted
<1>11. DOMAIN sorted = 1 .. n /\ Len(sorted) = n
  <2>1. DOMAIN sorted = 1 .. n /\ sorted \in [1 .. n -> Range(sorted)]
    BY <1>1 DEF Sorted, Range
  <2> HIDE DEF sorted
  <2>2. sorted \in Seq(Range(sorted))
    BY <1>1, <2>1
  <2>3. QED
    BY <1>1, <2>1, <2>2
<1> DEFINE begins == [i \in DOMAIN recs |-> Rank(evs, 2 * i - 1)]
           ends == [i \in DOMAIN recs |-> Rank(evs, 2 * i)]
<1> HIDE DEF sorted
<1>12. begins \in [DOMAIN recs -> 1 .. n] /\ ends \in [DOMAIN recs -> 1 .. n]
  BY <1>3, <1>6
<1>13. ASSUME NEW i \in DOMAIN recs
       PROVE  /\ begins[i] < ends[i]
              /\ sorted[begins[i]] = evs[2 * i - 1] /\ sorted[ends[i]] = evs[2 * i]
  BY <1>3, <1>5, <1>6, <1>7, <1>10
<1>14. ASSUME NEW m \in 1 .. n
       PROVE  \E i \in DOMAIN recs : m = begins[i] \/ m = ends[i]
  <2>1. PICK k \in 1 .. n : Rank(evs, k) = m
    BY <1>8
  <2>2. PICK i \in DOMAIN recs : k = 2 * i - 1 \/ k = 2 * i
    BY <1>4
  <2>3. QED
    BY <2>1, <2>2
<1>15. ASSUME NEW l \in 1 .. n, NEW m \in 1 .. n, l < m
       PROVE  Before(sorted[l], sorted[m])
  <2>1. PICK j \in 1 .. n : Rank(evs, j) = l
    BY <1>8
  <2>2. PICK k \in 1 .. n : Rank(evs, k) = m
    BY <1>8
  <2>3. sorted[l] = evs[j] /\ sorted[m] = evs[k]
    BY <1>10, <2>1, <2>2
  <2>4. j # k
    BY <1>15, <2>1, <2>2
  <2>5. ~Before(evs[k], evs[j])
    BY <1>7, <1>15, <2>1, <2>2
  <2>6. QED
    BY <1>1, <1>2, <2>3, <2>4, <2>5 DEF Ordered
<1> HIDE DEF begins, ends
<1>16. Placed(recs, sorted, begins, ends)
  BY <1>11, <1>12, <1>13, <1>14, <1>15 DEF Placed, evs, n
<1>17. QED
  BY <1>16 DEF TrackEvents, sorted, evs

\* What the events at these places carry.
LEMMA PlacedFields ==
    ASSUME NEW recs, Timed(recs), NEW evs, NEW begins, NEW ends,
           Placed(recs, evs, begins, ends)
    PROVE  /\ \A i \in DOMAIN recs :
                /\ evs[begins[i]].begin /\ ~evs[ends[i]].begin
           /\ \A i \in DOMAIN recs :
                /\ evs[begins[i]].i = i /\ evs[ends[i]].i = i
           /\ \A i \in DOMAIN recs :
                /\ evs[begins[i]].track = recs[i].track
                /\ evs[ends[i]].track = recs[i].track
           /\ \A i \in DOMAIN recs :
                /\ evs[begins[i]].ts = recs[i].submit
                /\ evs[ends[i]].ts = End(recs[i])
<1>1. ASSUME NEW i \in DOMAIN recs
      PROVE  evs[begins[i]] = Events(recs)[2 * i - 1] /\ evs[ends[i]] = Events(recs)[2 * i]
  BY DEF Placed
<1>2. ASSUME NEW i \in DOMAIN recs PROVE evs[begins[i]].begin /\ ~evs[ends[i]].begin
  <2>1. Events(recs)[2 * i - 1].begin = TRUE
    BY EventFields
  <2>2. Events(recs)[2 * i].begin = FALSE
    BY EventFields
  <2>3. QED
    BY <1>1, <2>1, <2>2
<1>3. ASSUME NEW i \in DOMAIN recs PROVE evs[begins[i]].i = i /\ evs[ends[i]].i = i
  <2>1. Events(recs)[2 * i - 1].i = i
    BY EventFields
  <2>2. Events(recs)[2 * i].i = i
    BY EventFields
  <2>3. QED
    BY <1>1, <2>1, <2>2
<1>4. ASSUME NEW i \in DOMAIN recs
      PROVE  evs[begins[i]].track = recs[i].track /\ evs[ends[i]].track = recs[i].track
  <2>1. Events(recs)[2 * i - 1].track = recs[i].track
    BY EventFields
  <2>2. Events(recs)[2 * i].track = recs[i].track
    BY EventFields
  <2>3. QED
    BY <1>1, <2>1, <2>2
<1>5. ASSUME NEW i \in DOMAIN recs
      PROVE  evs[begins[i]].ts = recs[i].submit /\ evs[ends[i]].ts = End(recs[i])
  <2>1. Events(recs)[2 * i - 1].ts = recs[i].submit
    BY EventFields
  <2>2. Events(recs)[2 * i].ts = End(recs[i])
    BY EventFields
  <2>3. QED
    BY <1>1, <2>1, <2>2
<1>6. QED
  BY <1>2, <1>3, <1>4, <1>5

\* On each track, up to any place, every end event has a begin event of its own
\* before it, and up to the last place there are as many of the ones as of the others.
LEMMA Balanced ==
    ASSUME NEW recs, Timed(recs), NEW evs, NEW begins, NEW ends,
           Placed(recs, evs, begins, ends), NEW k \in 0 .. 2 * Len(recs), NEW t
    PROVE  /\ Depth(evs, 1, k, t) >= 0
           /\ k = 2 * Len(recs) => Depth(evs, 1, k, t) = 0
<1> DEFINE B == {m \in 1 .. k : evs[m].track = t /\ evs[m].begin}
           E == {m \in 1 .. k : evs[m].track = t /\ ~evs[m].begin}
           partner == [m \in E |-> begins[evs[m].i]]
<1>1. k \in Nat /\ k <= 2 * Len(recs) /\ Len(recs) \in Nat
  BY DEF Timed
<1>2. IsFiniteSet(B) /\ IsFiniteSet(E)
  <2>1. IsFiniteSet(1 .. k)
    BY <1>1, FS_Interval
  <2>2. B \subseteq 1 .. k /\ E \subseteq 1 .. k
    OBVIOUS
  <2> HIDE DEF B, E
  <2>3. QED
    BY <2>1, <2>2, FS_Subset
<1>3. \A i \in DOMAIN recs :
        /\ begins[i] < ends[i]
        /\ begins[i] \in 1 .. 2 * Len(recs) /\ ends[i] \in 1 .. 2 * Len(recs)
  BY DEF Placed
<1>4. \A m \in 1 .. k : \E i \in DOMAIN recs : m = begins[i] \/ m = ends[i]
  <2>1. \A m \in 1 .. 2 * Len(recs) : \E i \in DOMAIN recs : m = begins[i] \/ m = ends[i]
    BY DEF Placed
  <2>2. QED
    BY <1>1, <2>1
<1>5. ASSUME NEW m \in E
      PROVE  \E i \in DOMAIN recs :
                m = ends[i] /\ evs[m].i = i /\ partner[m] = begins[i] /\ partner[m] \in B
  <2>1. PICK i \in DOMAIN recs : m = begins[i] \/ m = ends[i]
    BY <1>4
  <2>2. m = ends[i]
    BY <2>1, PlacedFields
  <2>3. evs[m].i = i
    BY <2>2, PlacedFields
  <2>4. evs[begins[i]].begin /\ evs[begins[i]].track = t
    BY <2>2, PlacedFields
  <2>5. begins[i] \in B
    BY <1>1, <1>3, <2>2, <2>4
  <2>6. QED
    BY <2>2, <2>3, <2>5
<1>6. partner \in Injection(E, B)
  <2>1. partner \in [E -> B]
    BY <1>5
  <2>2. ASSUME NEW l \in E, NEW m \in E, partner[l] = partner[m] PROVE l = m
    <3>1. PICK i \in DOMAIN recs : l = ends[i] /\ partner[l] = begins[i]
      BY <1>5
    <3>2. PICK j \in DOMAIN recs : m = ends[j] /\ partner[m] = begins[j]
      BY <1>5
    <3> HIDE DEF partner, E, B
    <3>3. evs[begins[i]].i = i
      BY PlacedFields
    <3>4. evs[begins[j]].i = j
      BY PlacedFields
    <3>5. QED
      BY <2>2, <3>1, <3>2, <3>3, <3>4
  <2>3. QED
    BY <2>1, <2>2 DEF Injection, IsInjective
<1>7. Cardinality(E) \in Nat /\ Cardinality(B) \in Nat
  BY <1>2, FS_CardinalityType
<1>8. Cardinality(E) <= Cardinality(B)
  BY <1>2, <1>6, FS_Injection
<1>9. Depth(evs, 1, k, t) = Cardinality(B) - Cardinality(E)
  BY DEF Depth
<1>10. ASSUME k = 2 * Len(recs) PROVE Cardinality(E) = Cardinality(B)
  <2>1. ASSUME NEW m \in B PROVE \E l \in E : partner[l] = m
    <3>1. PICK i \in DOMAIN recs : m = begins[i] \/ m = ends[i]
      BY <1>4
    <3>2. m = begins[i]
      BY <3>1, PlacedFields
    <3>3. ~evs[ends[i]].begin /\ evs[ends[i]].track = t /\ evs[ends[i]].i = i
      BY <3>2, PlacedFields
    <3>4. ends[i] \in E
      BY <1>3, <1>10, <3>3
    <3>5. QED
      BY <3>2, <3>3, <3>4
  <2>2. partner \in Surjection(E, B)
    BY <1>6, <2>1 DEF Injection, Surjection
  <2>3. QED
    BY <1>2, <1>6, <2>2, FS_Injection
<1> HIDE DEF B, E
<1>11. QED
  BY <1>7, <1>8, <1>9, <1>10

\* Between the events of a record that overlaps no other one of its track, the track
\* has no event.
LEMMA Undisturbed ==
    ASSUME NEW recs, Timed(recs), NEW evs, NEW begins, NEW ends,
           Placed(recs, evs, begins, ends), NEW i \in DOMAIN recs,
           \A j \in DOMAIN recs \ {i} : ~Overlap(recs[i], recs[j]),
           NEW n \in DOMAIN evs, begins[i] < n, n < ends[i]
    PROVE  evs[n].track # recs[i].track
<1> SUFFICES ASSUME evs[n].track = recs[i].track PROVE FALSE
  OBVIOUS
<1>1. begins[i] \in DOMAIN evs /\ ends[i] \in DOMAIN evs
  BY DEF Placed
<1>2. Before(evs[begins[i]], evs[n]) /\ Before(evs[n], evs[ends[i]])
  BY <1>1 DEF Placed
<1>3. PICK j \in DOMAIN recs : n = begins[j] \/ n = ends[j]
  BY DEF Placed
<1>4. \A m \in DOMAIN recs : begins[m] \in Nat /\ ends[m] \in Nat
  <2>1. /\ begins \in [DOMAIN recs -> 1 .. 2 * Len(recs)]
        /\ ends \in [DOMAIN recs -> 1 .. 2 * Len(recs)]
    BY DEF Placed
  <2>2. QED
    BY <2>1
<1>5. j # i
  BY <1>3, <1>4
<1>6. evs[begins[i]].begin /\ ~evs[ends[i]].begin
  BY PlacedFields
<1>7. evs[begins[i]].ts = recs[i].submit /\ evs[ends[i]].ts = End(recs[i])
  BY PlacedFields
<1>8. recs[i].submit \in Nat /\ recs[j].submit \in Nat
  BY DEF Timed
<1>9. End(recs[i]) \in Nat /\ recs[i].submit < End(recs[i])
  BY EndsLater
<1>10. End(recs[j]) \in Nat /\ recs[j].submit < End(recs[j])
  BY EndsLater
<1>11. recs[j].track = recs[i].track
  BY <1>3, PlacedFields
<1>12. End(recs[j]) <= recs[i].submit \/ End(recs[i]) <= recs[j].submit
  BY <1>5, <1>8, <1>9, <1>10, <1>11 DEF Overlap
<1>13. CASE n = begins[j]
  <2>1. evs[n].begin
    BY <1>13, PlacedFields
  <2>2. evs[n].ts = recs[j].submit
    BY <1>13, PlacedFields
  <2>3. recs[i].submit <= recs[j].submit
    BY <1>2, <1>7, <1>8, <2>2 DEF Before
  <2>4. recs[j].submit < End(recs[i])
    BY <1>2, <1>6, <1>7, <1>8, <1>9, <2>1, <2>2 DEF Before
  <2>5. QED
    BY <1>8, <1>9, <1>10, <1>12, <2>3, <2>4
<1>14. CASE n = ends[j]
  <2>1. ~evs[n].begin
    BY <1>14, PlacedFields
  <2>2. evs[n].ts = End(recs[j])
    BY <1>14, PlacedFields
  <2>3. recs[i].submit < End(recs[j])
    BY <1>2, <1>6, <1>7, <1>8, <1>10, <2>1, <2>2 DEF Before
  <2>4. End(recs[j]) <= End(recs[i])
    BY <1>2, <1>7, <1>9, <1>10, <2>2 DEF Before
  <2>5. QED
    BY <1>8, <1>9, <1>10, <1>12, <2>3, <2>4
<1>15. QED
  BY <1>3, <1>13, <1>14

\* So its end event closes the slice its begin event opened.
LEMMA ShownAsItIs ==
    ASSUME NEW recs, Timed(recs), NEW evs, NEW begins, NEW ends,
           Placed(recs, evs, begins, ends), NEW i \in DOMAIN recs,
           \A j \in DOMAIN recs \ {i} : ~Overlap(recs[i], recs[j])
    PROVE  Slice(recs, i) \in Shown(evs)
<1> DEFINE b == begins[i]
           e == ends[i]
           t == evs[e].track
           open == {j \in 1 .. e - 1 :
                      /\ evs[j].track = evs[e].track /\ evs[j].begin
                      /\ Depth(evs, j, e - 1, evs[e].track) = 1}
<1>1. /\ DOMAIN evs = 1 .. 2 * Len(recs) /\ Len(recs) \in Nat
      /\ b \in 1 .. 2 * Len(recs) /\ e \in 1 .. 2 * Len(recs) /\ b < e
  BY DEF Placed, Timed
<1>2. evs[b].begin /\ ~evs[e].begin
  BY PlacedFields
<1>3. evs[b].track = recs[i].track /\ t = recs[i].track
  BY PlacedFields
<1>4. evs[b].i = i /\ evs[b].ts = recs[i].submit /\ evs[e].ts = End(recs[i])
  BY PlacedFields
<1>5. \A n \in DOMAIN evs : b < n /\ n < e => evs[n].track # t
  BY <1>3, Undisturbed
<1> HIDE DEF b, e, t
<1>6. Depth(evs, b, e - 1, t) = 1
  <2>1. \A n \in b .. e - 1 : n = b \/ (n \in DOMAIN evs /\ b < n /\ n < e)
    BY <1>1
  <2>2. {n \in b .. e - 1 : evs[n].track = t /\ evs[n].begin} = {b}
    <3>1. b \in b .. e - 1
      BY <1>1
    <3>2. QED
      BY <1>2, <1>3, <1>5, <2>1, <3>1
  <2>3. {n \in b .. e - 1 : evs[n].track = t /\ ~evs[n].begin} = {}
    BY <1>2, <1>5, <2>1
  <2>4. Depth(evs, b, e - 1, t) = Cardinality({b}) - Cardinality({})
    BY <2>2, <2>3 DEF Depth
  <2>5. Cardinality({b}) = 1 /\ Cardinality({}) = 0
    BY FS_Singleton, FS_EmptySet
  <2>6. QED
    BY <2>4, <2>5
<1>7. b \in open
  BY <1>1, <1>2, <1>3, <1>6 DEF t
<1>8. \A j \in open : j <= b
  <2> SUFFICES ASSUME NEW j \in open, ~(j <= b) PROVE FALSE
    OBVIOUS
  <2>1. j \in DOMAIN evs /\ b < j /\ j < e /\ evs[j].track = t
    BY <1>1 DEF t
  <2>2. QED
    BY <1>5, <2>1
<1>9. Closes(evs, e) = b
  <2>1. Closes(evs, e) = Max(open)
    BY DEF Closes
  <2>2. \A j \in open : j \in Nat
    BY <1>1
  <2> HIDE DEF open
  <2>3. \A x \in open : (\A y \in open : x >= y) <=> x = b
    BY <1>7, <1>8, <2>2
  <2>4. Max(open) = b
    BY <1>7, <2>3 DEF Max
  <2>5. QED
    BY <2>1, <2>4
<1>10. e \in {k \in DOMAIN evs : ~evs[k].begin}
  BY <1>1, <1>2
<1>11. Slice(recs, i) = [i |-> evs[Closes(evs, e)].i, from |-> evs[Closes(evs, e)].ts,
                         to |-> evs[e].ts]
  BY <1>4, <1>9 DEF Slice
<1>12. QED
  BY <1>10, <1>11 DEF Shown

QueueRecords == [track : Tracks, submit : Nat, complete : Nat]
AisRecords == [track : {AisTrackUuid(p) : p \in Pids}, pid : Pids, submit : Nat,
               complete : Nat]

WriterTyped ==
    /\ now \in Nat /\ pending \in [Tracks -> Seq(Nat)]
    /\ records_ \in Seq(QueueRecords) /\ ais_records_ \in Seq(AisRecords)

\* What is written is written of the records there are: none is added afterwards.
Written ==
    trace \in {Nothing,
               [format |-> "json", queues |-> CompleteEvents(records_),
                ais |-> CompleteEvents(ais_records_)],
               [format |-> "perfetto", queues |-> TrackEvents(records_),
                ais |-> TrackEvents(ais_records_)]}

WriterInv == WriterTyped /\ Written

LEMMA InitWriter == WriterInit => WriterInv
BY ClockAssumption DEF WriterInit, WriterInv, WriterTyped, Written

LEMMA StepWriter == WriterInv /\ [WriterNext]_writervars => WriterInv'
<1> SUFFICES ASSUME WriterInv, [WriterNext]_writervars PROVE WriterInv'
  OBVIOUS
<1> USE DEF WriterInv
<1>1. CASE Tick
  BY <1>1 DEF Tick, WriterTyped, Written
<1>2. ASSUME NEW q \in Tracks, Submit(q) PROVE WriterInv'
  <2>1. WriterTyped'
    BY <1>2 DEF Submit, WriterTyped
  <2>2. QED
    BY <1>2, <2>1 DEF Submit, Written
<1>3. ASSUME NEW q \in Tracks, Add(q) PROVE WriterInv'
  <2>1. pending[q] \in Seq(Nat) /\ pending[q] # <<>>
    BY <1>3 DEF Add, WriterTyped
  <2>2. Head(pending[q]) \in Nat /\ Tail(pending[q]) \in Seq(Nat)
    BY <2>1
  <2>3. [track |-> q, submit |-> Head(pending[q]), complete |-> now] \in QueueRecords
    BY <2>2 DEF WriterTyped, QueueRecords
  <2>4. records_' \in Seq(QueueRecords)
    BY <1>3, <2>3 DEF Add, WriterTyped
  <2>5. pending' \in [Tracks -> Seq(Nat)]
    BY <1>3, <2>2 DEF Add, WriterTyped
  <2>6. WriterTyped'
    BY <1>3, <2>4, <2>5 DEF Add, WriterTyped
  <2>7. QED
    BY <1>3, <2>6 DEF Add, Written
<1>4. ASSUME NEW p \in Pids, AddAis(p) PROVE WriterInv'
  <2>1. [track |-> AisTrackUuid(p), pid |-> p, submit |-> now, complete |-> now]
          \in AisRecords
    BY DEF WriterTyped, AisRecords
  <2>2. ais_records_' \in Seq(AisRecords)
    BY <1>4, <2>1 DEF AddAis, WriterTyped
  <2>3. WriterTyped'
    BY <1>4, <2>2 DEF AddAis, WriterTyped
  <2>4. QED
    BY <1>4, <2>3 DEF AddAis, Written
<1>5. ASSUME NEW q \in Tracks, AddFast(q) PROVE WriterInv'
  <2> DEFINE waiting == pending[q]
             RecordAt(t) == [track |-> q, submit |-> t, complete |-> now]
             Emptied == [i \in 1 .. Len(waiting) |-> RecordAt(waiting[i])]
  <2>1. waiting \in Seq(Nat) /\ now \in Nat
    BY DEF WriterTyped
  <2>2. \A t \in Nat : RecordAt(t) \in QueueRecords
    BY <2>1 DEF QueueRecords
  <2>3. Emptied \in Seq(QueueRecords)
    <3>1. Len(waiting) \in Nat /\ \A i \in 1 .. Len(waiting) : waiting[i] \in Nat
      BY <2>1
    <3>2. \A i \in 1 .. Len(waiting) : RecordAt(waiting[i]) \in QueueRecords
      BY <2>2, <3>1
    <3> HIDE DEF RecordAt, waiting
    <3>3. Emptied \in [1 .. Len(waiting) -> QueueRecords]
      BY <3>2
    <3> QED
      BY <3>1, <3>3
  <2>4. Append(records_, RecordAt(now)) \in Seq(QueueRecords)
    BY <2>1, <2>2 DEF WriterTyped
  <2>5. records_' = Append(records_, RecordAt(now)) \o Emptied
    BY <1>5 DEF AddFast
  <2> HIDE DEF Emptied, RecordAt
  <2>6. records_' \in Seq(QueueRecords)
    BY <2>3, <2>4, <2>5
  <2>7. pending' \in [Tracks -> Seq(Nat)]
    BY <1>5 DEF AddFast, WriterTyped
  <2>8. WriterTyped'
    BY <1>5, <2>6, <2>7 DEF AddFast, WriterTyped
  <2> QED
    BY <1>5, <2>8 DEF AddFast, Written
<1>6. CASE WriteJson
  BY <1>6 DEF WriteJson, WriterTyped, Written
<1>7. CASE WritePerfetto
  BY <1>7 DEF WritePerfetto, WriterTyped, Written
<1>8. CASE UNCHANGED writervars
  BY <1>8 DEF writervars, WriterTyped, Written
<1>9. QED
  BY <1>1, <1>2, <1>3, <1>4, <1>6, <1>7, <1>8, <1>5 DEF WriterNext

LEMMA RecordsTimed == WriterTyped => Timed(records_) /\ Timed(ais_records_)
<1> SUFFICES ASSUME WriterTyped PROVE Timed(records_) /\ Timed(ais_records_)
  OBVIOUS
<1>1. Timed(records_)
  <2>1. records_ \in Seq(QueueRecords)
    BY DEF WriterTyped
  <2>2. Len(records_) \in Nat /\ DOMAIN records_ = 1 .. Len(records_)
    BY <2>1
  <2>3. \A i \in DOMAIN records_ : records_[i] \in QueueRecords
    BY <2>1, <2>2
  <2>4. \A r \in QueueRecords : r.submit \in Nat /\ r.complete \in Nat
    BY DEF QueueRecords
  <2>5. QED
    BY <2>2, <2>3, <2>4 DEF Timed
<1>2. Timed(ais_records_)
  <2>1. ais_records_ \in Seq(AisRecords)
    BY DEF WriterTyped
  <2>2. Len(ais_records_) \in Nat /\ DOMAIN ais_records_ = 1 .. Len(ais_records_)
    BY <2>1
  <2>3. \A i \in DOMAIN ais_records_ : ais_records_[i] \in AisRecords
    BY <2>1, <2>2
  <2>4. \A r \in AisRecords : r.submit \in Nat /\ r.complete \in Nat
    BY DEF AisRecords
  <2>5. QED
    BY <2>2, <2>3, <2>4 DEF Timed
<1>3. QED
  BY <1>1, <1>2

\* For any records of any number of tracks, with slices that touch, have no length or
\* share a track: sorting by time with ends first (TraceWriter::
\* WritePerfetto) keeps the events of every track balanced at every place and at
\* the end, and a record that overlaps no other is shown as it is.
THEOREM PerfettoTraceFaithful == WriterSpec => []PerfettoFaithful
<1>1. ASSUME NEW recs, Timed(recs)
      PROVE  \A k \in DOMAIN TrackEvents(recs) :
               /\ Depth(TrackEvents(recs), 1, k, TrackEvents(recs)[k].track) >= 0
               /\ Depth(TrackEvents(recs), 1, Len(TrackEvents(recs)),
                        TrackEvents(recs)[k].track) = 0
  <2> DEFINE evs == TrackEvents(recs)
  <2>1. PICK begins, ends : Placed(recs, evs, begins, ends)
    BY <1>1, SortedEvents
  <2> HIDE DEF evs
  <2> SUFFICES ASSUME NEW k \in DOMAIN evs
               PROVE  /\ Depth(evs, 1, k, evs[k].track) >= 0
                      /\ Depth(evs, 1, Len(evs), evs[k].track) = 0
    BY DEF evs
  <2>2. /\ Len(evs) = 2 * Len(recs) /\ Len(recs) \in Nat
        /\ k \in 0 .. 2 * Len(recs) /\ 2 * Len(recs) \in 0 .. 2 * Len(recs)
    BY <1>1, <2>1 DEF Placed, Timed
  <2>3. Depth(evs, 1, k, evs[k].track) >= 0
    BY <1>1, <2>1, <2>2, Balanced
  <2>4. Depth(evs, 1, 2 * Len(recs), evs[k].track) = 0
    BY <1>1, <2>1, <2>2, Balanced
  <2>5. QED
    BY <2>2, <2>3, <2>4
<1>2. ASSUME NEW recs, Timed(recs), NEW i \in DOMAIN recs,
             \A j \in DOMAIN recs \ {i} : ~Overlap(recs[i], recs[j])
      PROVE  Slice(recs, i) \in Shown(TrackEvents(recs))
  <2>1. PICK begins, ends : Placed(recs, TrackEvents(recs), begins, ends)
    BY <1>2, SortedEvents
  <2>2. QED
    BY <1>2, <2>1, ShownAsItIs
<1>3. ASSUME WriterInv PROVE PerfettoFaithful
  <2> SUFFICES ASSUME trace.format = "perfetto" PROVE PerfettoFaithful
    BY DEF PerfettoFaithful
  <2>1. trace = [format |-> "perfetto", queues |-> TrackEvents(records_),
                 ais |-> TrackEvents(ais_records_)]
    BY <1>3 DEF WriterInv, Written, Nothing
  <2>2. trace.queues = TrackEvents(records_) /\ trace.ais = TrackEvents(ais_records_)
    BY <2>1
  <2>3. Timed(records_) /\ Timed(ais_records_)
    BY <1>3, RecordsTimed DEF WriterInv
  <2>4. ASSUME NEW evs \in {trace.queues, trace.ais}, NEW k \in DOMAIN evs
        PROVE  /\ Depth(evs, 1, k, evs[k].track) >= 0
               /\ Depth(evs, 1, Len(evs), evs[k].track) = 0
    BY <1>1, <2>2, <2>3, <2>4
  <2>5. ASSUME NEW i \in DOMAIN records_,
               \A j \in DOMAIN records_ \ {i} : ~Overlap(records_[i], records_[j])
        PROVE  Slice(records_, i) \in Shown(trace.queues)
    BY <1>2, <2>2, <2>3, <2>5
  <2>6. QED
    BY <2>4, <2>5 DEF PerfettoFaithful
<1>4. QED
  BY <1>3, InitWriter, StepWriter, PTL DEF WriterSpec
=============================================================================
