------------------------------- MODULE Snoop ----------------------------------
(***************************************************************************)
(* hsa-snoop as main puts it together (src/main.cpp): the main thread that *)
(* launches the command, starts the parts and stops them; the discovery    *)
(* thread that runs on_queue; the parser thread that runs the sinks; and   *)
(* the launched command.  The parts themselves are ProbeReader, AqlSnoop,  *)
(* SdmaSnoop and TraceWriter; here they are what main sees of them.        *)
(*                                                                         *)
(* Each critical section, and each call that takes a lock of its own, is   *)
(* one step.                                                               *)
(***************************************************************************)
EXTENDS Naturals, FiniteSets

CONSTANTS
    Aql, Sdma,    \* queues the command creates that are traced
    Ignored,      \* its other queues: not traced, or of an unsupported SDMA
    MaxRecords    \* bound: records per queue

Queues == Aql \cup Sdma \cup Ignored

ASSUME KindAssumption ==
    Aql \cap Sdma = {} /\ Aql \cap Ignored = {} /\ Sdma \cap Ignored = {}
ASSUME RecordsAssumption == MaxRecords \in Nat

VARIABLES         \* fixed by the command line
    mode,         \* "prometheus", "all" or "single"
    launch,       \* a command is launched, or a running process is watched
    dispatch_log, \* there is a dispatch log
    probe         \* how queues are discovered: "kprobe", or "bpftrace" with either
                  \* of its scripts

VARIABLES
    pc,           \* the main thread
    child,        \* the launched (or watched) command
    created,      \* the queues it has created
    armed,        \* the discovery probe is live
    late,         \* Discovery::Start gave up waiting for that
    missed        \* queues created while it was not

VARIABLES
    discovery,    \* where the discovery thread is in on_queue
    current,      \* the queue it is called for
    seen,         \* the queues it has been called for
    queue_ids,    \* main's queue_ids
    listed,       \* queues with a line in the dispatch log
    unlisted,     \* queues whose line fwrite has failed to write
    registered    \* the exporter's queue_meta_, or the trace writers

VARIABLES
    parser,       \* where the parser thread is
    running_,     \* RingParser::running_
    tracked,      \* RingParser::queues_
    snapshot,     \* the queues of the current pass
    record,       \* the record in the sink
    made,         \* records made so far
    logged,       \* their lines in the dispatch log: known, with the queue's
                  \* identity; listed, after DispatchLog::LogQueue of the queue
    dropped,      \* records whose line fwrite has failed to write
    errors,       \* records nobody was registered for
    kept,         \* records the exporter or a writer has
    output,       \* what the snapshot or the trace files hold
    cut,          \* files written in part, which nobody has noticed
    status        \* main's exit status

procs == <<pc, child, created, armed, late, missed>>
onq == <<discovery, current, seen, queue_ids, listed, unlisted, registered>>
pars == <<parser, running_, tracked, snapshot, record, made, logged, dropped,
          errors, kept>>
written == <<output, cut, status>>
options == <<mode, launch, dispatch_log, probe>>
vars == <<options, procs, onq, pars, written>>

\* PacketRecord and SdmaRecord: a dispatch (VendorSpecific is one, too), another
\* packet of an AQL queue, or a packet of an SDMA queue.
Kinds(q) == IF q \in Aql THEN {"dispatch", "other"} ELSE {"sdma"}
NoQueue == "no queue"
NoRecord == [queue |-> NoQueue, n |-> 0, kind |-> "other"]

Init ==
    /\ mode \in {"prometheus", "all", "single"} /\ launch \in BOOLEAN
    /\ dispatch_log \in BOOLEAN /\ probe \in {"kprobe", "bpftrace"}
    /\ pc = "open"
    /\ child = IF launch THEN "none" ELSE "running"
    /\ created = {} /\ armed = FALSE /\ late = FALSE /\ missed = {}
    /\ discovery = "off" /\ current = NoQueue /\ seen = {}
    /\ queue_ids = {} /\ listed = {} /\ unlisted = {} /\ registered = {}
    /\ parser = "top" /\ running_ = TRUE /\ tracked = {} /\ snapshot = {}
    /\ record = NoRecord
    /\ made = {} /\ logged = {} /\ dropped = {} /\ errors = 0 /\ kept = {}
    /\ output = {} /\ cut = {} /\ status = "none"

-----------------------------------------------------------------------------
(* The command.                                                            *)

ChildStops ==
    /\ child = "forked"
    /\ child' \in {"stopped", "dead"}
    /\ UNCHANGED <<pc, created, armed, late, missed, onq, pars, written>>

CreateQueue(q) ==
    /\ child = "running"
    /\ q \notin created
    /\ created' = created \cup {q}
    /\ missed' = IF armed THEN missed ELSE missed \cup {q}
    /\ UNCHANGED <<pc, child, armed, late, onq, pars, written>>

ChildExits ==
    /\ child = "running"
    /\ child' = "dead"
    /\ UNCHANGED <<pc, created, armed, late, missed, onq, pars, written>>

-----------------------------------------------------------------------------
(* main, up to its loop.                                                   *)

\* DispatchLog::Open and the exporter's endpoint, either of which may fail.
OpenSinks ==
    /\ pc = "open"
    /\ \/ pc' = (IF launch THEN "fork" ELSE "start") /\ UNCHANGED status
       \/ /\ dispatch_log \/ mode = "prometheus"
          /\ pc' = "ended" /\ status' = "failed"
    /\ UNCHANGED <<child, created, armed, late, missed, onq, pars, output, cut>>

Fork ==
    /\ pc = "fork"
    /\ \/ child' = "forked" /\ pc' = "wait" /\ UNCHANGED status
       \/ pc' = "ended" /\ status' = "failed" /\ UNCHANGED child
    /\ UNCHANGED <<created, armed, late, missed, onq, pars, output, cut>>

\* Mutant: the child goes on as soon as it has stopped.
WaitResumes ==
    /\ pc = "wait"
    /\ \/ child = "stopped" /\ pc' = "start" /\ child' = "running" /\ UNCHANGED status
       \/ child = "dead" /\ pc' = "ended" /\ child' = "reaped" /\ status' = "failed"
    /\ UNCHANGED <<created, armed, late, missed, onq, pars, output, cut>>

\* Main goes on when the child has stopped itself; a child that died is reaped
\* and main gives up.
WaitStopped ==
    /\ pc = "wait"
    /\ \/ child = "stopped" /\ pc' = "start" /\ UNCHANGED <<child, status>>
       \/ child = "dead" /\ pc' = "ended" /\ child' = "reaped" /\ status' = "failed"
    /\ UNCHANGED <<created, armed, late, missed, onq, pars, output, cut>>

\* Mutant: a failing start leaves the child as it is.
StartAbandons ==
    /\ pc = "start"
    /\ \/ /\ armed' = TRUE /\ discovery' = "idle" /\ pc' = "resume"
          /\ UNCHANGED <<child, status, late>>
       \/ /\ pc' = "ended" /\ status' = "failed"
          /\ UNCHANGED <<armed, late, discovery, child>>
    /\ UNCHANGED <<created, missed, current, seen, queue_ids, listed, unlisted,
                   registered, pars, output, cut>>

\* Discovery::Start; if it fails the launched child is killed and reaped.  A
\* bpftrace that has not attached within the deadline is no failure: main goes on
\* with a probe that is not armed yet.
StartDiscovery ==
    /\ pc = "start"
    /\ \/ /\ \/ armed' = TRUE /\ UNCHANGED late
             \/ probe = "bpftrace" /\ late' = TRUE /\ UNCHANGED armed
          /\ discovery' = "idle" /\ pc' = "resume"
          /\ UNCHANGED <<child, status>>
       \/ /\ pc' = "ended" /\ status' = "failed"
          /\ child' = IF launch THEN "reaped" ELSE child
          /\ UNCHANGED <<armed, late, discovery>>
    /\ UNCHANGED <<created, missed, current, seen, queue_ids, listed, unlisted,
                   registered, pars, output, cut>>

\* bpftrace attaches after all.
LateAttach ==
    /\ late /\ ~armed
    /\ discovery # "off"
    /\ armed' = TRUE
    /\ UNCHANGED <<pc, child, created, late, missed, onq, pars, written>>

Resume ==
    /\ pc = "resume"
    /\ child' = IF child = "stopped" THEN "running" ELSE child
    /\ pc' = "loop"
    /\ UNCHANGED <<created, armed, late, missed, onq, pars, written>>

-----------------------------------------------------------------------------
(* on_queue, in the discovery thread.                                      *)

\* Mutant: the parser gets the queue before anybody else knows it.
OnQueueAddsFirst(q) ==
    /\ discovery = "idle"
    /\ q \in created \ (seen \cup missed)
    /\ seen' = seen \cup {q}
    /\ IF q \in Ignored
         THEN UNCHANGED <<discovery, current, tracked>>
         ELSE discovery' = "ids" /\ current' = q /\ tracked' = tracked \cup {q}
    /\ UNCHANGED <<procs, queue_ids, listed, unlisted, registered, parser,
                   running_, snapshot, record, made, logged, errors, kept, dropped,
                   written>>

\* The probe's event for a queue reaches the thread.
OnQueue(q) ==
    /\ discovery = "idle"
    /\ q \in created \ (seen \cup missed)
    /\ seen' = seen \cup {q}
    /\ IF q \in Ignored
         THEN UNCHANGED <<discovery, current>>
         ELSE discovery' = "ids" /\ current' = q
    /\ UNCHANGED <<procs, queue_ids, listed, unlisted, registered, pars, written>>

RememberIds ==
    /\ discovery = "ids"
    /\ queue_ids' = queue_ids \cup {current}
    /\ discovery' = "list"
    /\ UNCHANGED <<procs, current, seen, listed, unlisted, registered, pars, written>>

\* DispatchLog::LogQueue; whether fwrite has written the line is not looked at.
LogQueue ==
    /\ discovery = "list"
    /\ \/ ~dispatch_log /\ UNCHANGED <<listed, unlisted>>
       \/ dispatch_log /\ listed' = listed \cup {current} /\ UNCHANGED unlisted
       \/ dispatch_log /\ unlisted' = unlisted \cup {current} /\ UNCHANGED listed
    /\ discovery' = "register"
    /\ UNCHANGED <<procs, current, seen, queue_ids, registered, pars, written>>

\* PrometheusExporter::RegisterQueue, or get_writer and TraceWriter::RegisterQueue.
Register ==
    /\ discovery = "register"
    /\ registered' = registered \cup {current}
    /\ discovery' = "add"
    /\ UNCHANGED <<procs, current, seen, queue_ids, listed, unlisted, pars, written>>

\* RingParser::AddQueue.
AddQueue ==
    /\ discovery = "add"
    /\ tracked' = tracked \cup {current}
    /\ discovery' = "idle" /\ current' = NoQueue
    /\ UNCHANGED <<procs, seen, queue_ids, listed, unlisted, registered, parser,
                   running_, snapshot, record, made, logged, errors, kept, dropped, written>>

\* The reader of bpftrace's output is left with part of a line: it looks for the
\* rest in what it has and never reads again (ProbeReader's Stuck).
ReaderStuck ==
    /\ probe = "bpftrace"
    /\ discovery = "idle"
    /\ discovery' = "stuck"
    /\ UNCHANGED <<procs, current, seen, queue_ids, listed, unlisted, registered, pars,
                   written>>

-----------------------------------------------------------------------------
(* The parser thread and its sinks.                                        *)

\* A pass over the queues there are now; running_ is looked at in between.
BeginPass ==
    /\ parser = "top"
    /\ parser' = IF running_ THEN "pass" ELSE "off"
    /\ snapshot' = IF running_ THEN tracked ELSE snapshot
    /\ UNCHANGED <<procs, onq, running_, tracked, record, made, logged, errors,
                   kept, dropped, written>>

\* A record of a queue is complete.
Emit(q, kind) ==
    /\ parser = "pass"
    /\ q \in snapshot
    /\ LET before == Cardinality({r \in made : r.queue = q})
       IN  /\ before < MaxRecords
           /\ record' = [queue |-> q, n |-> before + 1, kind |-> kind]
    /\ made' = made \cup {record'}
    /\ parser' = "log"
    /\ UNCHANGED <<procs, onq, running_, tracked, snapshot, logged, errors, kept,
                   dropped, written>>

\* The queue's process is gone.
Evict(q) ==
    /\ parser = "pass"
    /\ q \in snapshot
    /\ child \in {"dead", "reaped"}
    /\ tracked' = tracked \ {q}
    /\ snapshot' = snapshot \ {q}
    /\ UNCHANGED <<procs, onq, parser, running_, record, made, logged, errors,
                   kept, dropped, written>>

EndPass ==
    /\ parser = "pass"
    /\ parser' = "top"
    /\ UNCHANGED <<procs, onq, running_, tracked, snapshot, record, made, logged,
                   errors, kept, dropped, written>>

\* DispatchLog::LogDispatch and LogSdma, behind a look-up of the queue's
\* identity (queue_ctx); a queue that is not found leaves it empty.  Again
\* nobody looks at what fwrite returns.
Log ==
    /\ parser = "log"
    /\ IF dispatch_log /\ record.kind # "other"
         THEN \/ /\ logged' = logged \cup
                      {[rec |-> record, known |-> record.queue \in queue_ids,
                        listed |-> record.queue \in listed \cup unlisted]}
                 /\ UNCHANGED dropped
              \/ dropped' = dropped \cup {record} /\ UNCHANGED logged
         ELSE UNCHANGED <<logged, dropped>>
    /\ parser' = "deliver"
    /\ UNCHANGED <<procs, onq, running_, tracked, snapshot, record, made, errors,
                   kept, written>>

\* PrometheusExporter::Add or TraceWriter::Add.
Deliver ==
    /\ parser = "deliver"
    /\ IF record.queue \in registered \/ mode = "single"
         THEN kept' = kept \cup {record} /\ UNCHANGED errors
         ELSE errors' = errors + 1 /\ UNCHANGED kept
    /\ parser' = "pass" /\ record' = NoRecord
    /\ UNCHANGED <<procs, onq, running_, tracked, snapshot, made, logged, dropped, written>>

-----------------------------------------------------------------------------
(* main's loop and the end.                                                *)

\* A signal, the duration, or the end of the launched command.
LeaveLoop ==
    /\ pc = "loop"
    /\ pc' = "stop discovery"
    /\ child' = IF launch /\ child = "dead" THEN "reaped" ELSE child
    /\ UNCHANGED <<created, armed, late, missed, onq, pars, written>>

\* Discovery::Stop waits for the call of on_queue that is under way, and for the
\* reader, which a stuck one never ends.
StopDiscovery ==
    /\ pc = "stop discovery"
    /\ discovery = "idle"
    /\ discovery' = "off" /\ armed' = FALSE
    /\ pc' = "stop parser"
    /\ UNCHANGED <<child, created, late, missed, current, seen, queue_ids, listed,
                   unlisted, registered, pars, written>>

\* Mutant: running_ stays set.
StopParserForgets ==
    /\ pc = "stop parser"
    /\ pc' = "join parser"
    /\ UNCHANGED <<child, created, armed, late, missed, onq, pars, written>>

\* RingParser::Stop ...
StopParser ==
    /\ pc = "stop parser"
    /\ running_' = FALSE
    /\ pc' = "join parser"
    /\ UNCHANGED <<child, created, armed, late, missed, onq, parser, tracked, snapshot,
                   record, made, logged, errors, kept, dropped, written>>

\* Mutant: the thread is not waited for.
JoinParserSkipped ==
    /\ pc = "join parser"
    /\ pc' = "output"
    /\ UNCHANGED <<child, created, armed, late, missed, onq, pars, written>>

\* ... waits for the pass that is under way.
JoinParser ==
    /\ pc = "join parser"
    /\ parser = "off"
    /\ pc' = "output"
    /\ UNCHANGED <<child, created, armed, late, missed, onq, pars, written>>

\* The files main writes, and the one a record is for.
Files == IF mode = "all" THEN registered ELSE {"the file"}
FileOf(q) == IF mode = "all" THEN q ELSE "the file"

\* The snapshot, the trace file, or a file for each queue.  A file that cannot be
\* opened makes main fail, unless it is the snapshot; one that is opened and then
\* only written in part is taken for written.
Output ==
    /\ pc = "output"
    /\ \E opened \in SUBSET Files :
         /\ cut' \in SUBSET opened
         /\ output' = {r \in kept : FileOf(r.queue) \in opened \ cut'}
         /\ status' = IF opened = Files \/ mode = "prometheus" THEN "ok" ELSE "failed"
    /\ pc' = "ended"
    /\ UNCHANGED <<child, created, armed, late, missed, onq, pars>>

-----------------------------------------------------------------------------
Main ==
    \/ OpenSinks \/ Fork \/ WaitStopped \/ StartDiscovery \/ Resume
    \/ StopDiscovery \/ StopParser \/ JoinParser \/ Output

OnQueueGoesOn == RememberIds \/ LogQueue \/ Register \/ AddQueue

Parser ==
    \/ BeginPass \/ EndPass \/ Log \/ Deliver
    \/ \E q \in Queues : Evict(q) \/ \E kind \in Kinds(q) : Emit(q, kind)

Step ==
    \/ Main \/ LeaveLoop \/ OnQueueGoesOn \/ ReaderStuck \/ LateAttach \/ Parser
    \/ ChildStops \/ ChildExits
    \/ \E q \in Queues : CreateQueue(q) \/ OnQueue(q)

Next == Step /\ UNCHANGED options

\* The three threads are scheduled, and a forked child stops itself.  A pass of
\* the parser is finite: a queue has at most a ring of packets to give.
Fairness ==
    /\ WF_vars(Main /\ UNCHANGED options)
    /\ WF_vars(OnQueueGoesOn /\ UNCHANGED options)
    /\ WF_vars(Parser /\ UNCHANGED options)
    /\ WF_vars(ChildStops /\ UNCHANGED options)

Spec == Init /\ [][Next]_vars /\ Fairness

-----------------------------------------------------------------------------
(* Properties.                                                             *)

\* No packet reaches a sink before its queue is known there: it is logged with
\* its identity and after its queue was, never counted as an error and
\* never dropped for want of a writer, however on_queue and the ring poller
\* interleave.
NoOrphanRecord == errors = 0 /\ \A l \in logged : l.known /\ l.listed

\* When hsa-snoop ends with success, every record the parser has made has reached
\* the exporter or a writer; it is in its trace file, unless there is an exporter or
\* writing that file has failed unnoticed; and every dispatch and copy is in the
\* dispatch log, in every mode ("an additional sink, not an alternative one",
\* main.cpp:520), unless writing its line has failed unnoticed.
OutputComplete ==
    status = "ok" =>
        /\ kept = made
        /\ mode # "prometheus" => output = {r \in made : FileOf(r.queue) \notin cut}
        /\ dispatch_log =>
             {l.rec : l \in logged} \cup dropped = {r \in made : r.kind # "other"}

\* In launch mode no queue of the command is created before the probe is armed
\* ("closes the create-queue race", main.cpp:566), unless Discovery::Start has
\* stopped waiting for the probe ("some early queues may be missed",
\* discovery.cpp:755).
NoEarlyQueue ==
    /\ launch /\ ~late /\ pc \in {"open", "fork", "wait", "start", "resume", "loop"}
    => missed = {}

\* hsa-snoop never ends leaving the launched command stopped.
ChildNotLeftStopped == pc = "ended" => child \notin {"forked", "stopped"}

\* Once main has left its loop it ends, unless the reader it waits for is stuck:
\* nothing else keeps either join waiting for ever.
ShutdownEnds == (pc = "stop discovery") ~> (pc = "ended" \/ discovery = "stuck")
=============================================================================
