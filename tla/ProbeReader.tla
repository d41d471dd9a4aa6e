----------------------------- MODULE ProbeReader ------------------------------
(***************************************************************************)
(* Queue discovery (src/discovery.cpp): a tracer writes one text line per  *)
(* event to a pipe, a reader thread splits the bytes into lines and calls  *)
(* back for every new queue, and the main thread starts and stops both.    *)
(*                                                                         *)
(*   "kprobe"    ftrace writes to trace_pipe; an event per queue created   *)
(*   "bpftrace"  a bpftrace child; an event per queue created              *)
(*   "kfd"       a bpftrace child; an event per dispatch on a queue        *)
(*                                                                         *)
(* A line is two units of the pipe: its text and its end.  For the banner  *)
(* "Attaching N probes..." the first unit reaches up to "Attaching".       *)
(***************************************************************************)
EXTENDS Integers, Sequences, FiniteSets, FiniteSetsExt

CONSTANTS
    Modes,      \* the DiscoveryModes explored
    Procs,      \* pids of the processes on the system
    Queues,     \* the queues they create: [proc, tid, ring]
    Contains,   \* <<a, b>>: the name of thread a contains the first 15 characters
                \* of that of thread b; a process has the name of the thread with
                \* its pid
    HostPidOf,  \* the pid that bpftrace reports for a process
    Reach,      \* how far below it a pid of this namespace is looked for
    Filters,    \* the values of pid_filter explored; 0 for none
    MaxEvents   \* bound: events traced in all

ASSUME ModesAssumption == Modes \subseteq {"kprobe", "bpftrace", "kfd"}
ASSUME ProcsAssumption ==
    /\ Procs \subseteq Nat \ {0}
    /\ Filters \subseteq Procs \cup {0}
    /\ Queues \subseteq [proc : Procs, tid : Nat \ {0}, ring : Nat \ {0}]
    /\ HostPidOf \in [Procs -> Nat] /\ Reach \in Nat
ASSUME NamesAssumption == \A p \in Procs : <<p, p>> \in Contains
ASSUME BoundAssumption == MaxEvents \in Nat

VARIABLES       \* fixed when hsa-snoop starts
    mode,       \* DiscoveryMode
    pid_filter_,
    banner      \* this bpftrace writes its banner to stdout, not stderr

VARIABLES
    live,       \* the processes that exist
    events,     \* what was traced so far: the queue of each event
    tracer,     \* "off", "starting", "attached" or "dead"
    reaped,     \* the bpftrace child has been waited for
    script,     \* the temporary script exists
    pipe        \* the units written and not yet read

VARIABLES
    mpc,        \* main thread: "init", "arming", "run", "killing",
                \* "joining", "stopped" or "failed"
    running,    \* Discovery::running_
    rpc,        \* reader thread: "off", "loop" or "exited"
    buf,        \* the reader's buf (bpf_prebuf_ until the thread starts)
    next_uid,
    seen,       \* RunKfdUprobe's set of rings
    announced,  \* the QueueInfos handed to cb_: [ev, pid, uid]
    handled     \* history: the events whose line was taken from buf

system == <<live, events, tracer, reaped, script, pipe>>
reader == <<rpc, buf, next_uid, seen, announced, handled>>
options == <<mode, pid_filter_, banner>>
vars == <<options, system, mpc, running, reader>>

Piped == mode # "kprobe"    \* the tracer is a child behind a pipe

Line(e) == <<[ev |-> e, end |-> FALSE], [ev |-> e, end |-> TRUE]>>

Init ==
    /\ mode \in Modes /\ pid_filter_ \in Filters
    /\ banner \in IF mode = "kprobe" THEN {FALSE} ELSE BOOLEAN
    /\ live = Procs /\ events = <<>> /\ tracer = "off" /\ reaped = FALSE
    /\ script = FALSE /\ pipe = <<>>
    /\ mpc = "init" /\ running = FALSE
    /\ rpc = "off" /\ buf = <<>> /\ next_uid = 1 /\ seen = {}
    /\ announced = <<>> /\ handled = {}

-----------------------------------------------------------------------------
(* The traced system: processes, the kernel's tracer or bpftrace.          *)

\* A queue is created, or ("kfd") a packet is dispatched on it.
Event(q) ==
    /\ tracer = "attached"
    /\ Len(events) < MaxEvents
    /\ q.proc \in live
    /\ mode = "kfd" \/ \A i \in DOMAIN events : events[i] # q
    /\ events' = Append(events, q)
    /\ pipe' = pipe \o Line(Len(events) + 1)
    /\ UNCHANGED <<live, tracer, reaped, script>>

Attach ==
    /\ Piped
    /\ tracer = "starting"
    /\ tracer' = "attached"
    /\ pipe' = IF banner THEN pipe \o Line(0) ELSE pipe
    /\ UNCHANGED <<live, events, reaped, script>>

\* bpftrace fails, or is killed by somebody else.
TracerDies ==
    /\ Piped
    /\ tracer \in {"starting", "attached"}
    /\ tracer' = "dead"
    /\ UNCHANGED <<live, events, reaped, script, pipe>>

ProcExit(p) ==
    /\ p \in live
    /\ live' = live \ {p}
    /\ UNCHANGED <<events, tracer, reaped, script, pipe>>

System ==
    /\ \/ \E q \in Queues : Event(q)
       \/ Attach
       \/ TracerDies
       \/ \E p \in Procs : ProcExit(p)
    /\ UNCHANGED <<mpc, running, reader>>

-----------------------------------------------------------------------------
(* The main thread: Discovery::Start.                                      *)

\* InstallKprobe and the open of trace_pipe.
StartKprobe ==
    /\ mode = "kprobe"
    /\ mpc = "init"
    /\ tracer' = "attached"
    /\ mpc' = "run" /\ running' = TRUE /\ rpc' = "loop"
    /\ UNCHANGED <<live, events, reaped, script, pipe, buf, next_uid, seen,
                   announced, handled>>

\* The script is written and bpftrace is forked.
Fork ==
    /\ Piped
    /\ mpc = "init"
    /\ tracer' = "starting"
    /\ script' = TRUE
    /\ mpc' = "arming"
    /\ UNCHANGED <<live, events, reaped, pipe, running, reader>>

\* The probe cannot be installed, the library is missing, or the script, the
\* pipe or the child cannot be created: what was made so far is undone.
StartFails ==
    /\ mpc = "init"
    /\ mpc' = "failed"
    /\ UNCHANGED <<system, running, reader>>

\* Start returns TRUE: what was read while arming is the reader's first buf.
EnterRun == mpc' = "run" /\ running' = TRUE /\ rpc' = "loop"

\* The arming loop's read: up to 512 bytes for bpftrace, a single one for kfd.
\* The loop ends at "Attaching"; only StartBpftrace then unlinks the script.
ArmRead ==
    /\ mpc = "arming"
    /\ \E n \in IF mode = "kfd" THEN {1} \cap DOMAIN pipe ELSE DOMAIN pipe :
          /\ buf' = buf \o SubSeq(pipe, 1, n)
          /\ pipe' = SubSeq(pipe, n + 1, Len(pipe))
    /\ IF \E i \in DOMAIN buf' : buf'[i].ev = 0
         THEN EnterRun /\ script' = (mode = "kfd")
         ELSE UNCHANGED <<mpc, running, rpc, script>>
    /\ UNCHANGED <<live, events, tracer, reaped, next_uid, seen, announced,
                   handled>>

\* The child has exited.  StartBpftrace learns it from waitpid, StartKfdUprobe
\* from the end of the pipe.
ArmFails ==
    /\ mpc = "arming"
    /\ tracer = "dead"
    /\ mode = "kfd" => pipe = <<>>
    /\ mpc' = "failed"
    /\ reaped' = (mode = "bpftrace")
    /\ script' = (mode = "kfd")
    /\ UNCHANGED <<live, events, tracer, pipe, running, reader>>

\* Mutant: only an armed bpftrace has its script unlinked.
ArmTimeoutLeaky ==
    /\ mpc = "arming"
    /\ EnterRun
    /\ UNCHANGED <<system, buf, next_uid, seen, announced, handled>>

\* 20 seconds have passed: carry on unarmed.
ArmTimeout ==
    /\ mpc = "arming"
    /\ EnterRun
    /\ script' = (mode = "kfd")
    /\ UNCHANGED <<live, events, tracer, reaped, pipe, buf, next_uid, seen,
                   announced, handled>>

-----------------------------------------------------------------------------
(* The main thread: Discovery::Stop.                                       *)

\* running_ is cleared; bpftrace gets a SIGTERM.
StopBegin ==
    /\ mpc = "run"
    /\ running' = FALSE
    /\ mpc' = IF Piped THEN "killing" ELSE "joining"
    /\ UNCHANGED <<system, reader>>

\* Mutant: the child is not killed before the reader is joined.
ReapNothing ==
    /\ mpc = "killing"
    /\ mpc' = "joining"
    /\ UNCHANGED <<system, running, reader>>

\* bpftrace obeys (or is dead already) and is waited for.
Reap ==
    /\ mpc = "killing"
    /\ tracer' = "dead"
    /\ reaped' = TRUE
    /\ mpc' = "joining"
    /\ UNCHANGED <<live, events, script, pipe, running, reader>>

\* After the join: RemoveKprobe, or the unlink of the kfd script.
StopEnd ==
    /\ mpc = "joining"
    /\ rpc = "exited"
    /\ mpc' = "stopped"
    /\ tracer' = "dead"
    /\ script' = (script /\ mode # "kfd")
    /\ UNCHANGED <<live, events, reaped, pipe, running, reader>>

Main ==
    \/ StartKprobe \/ StartFails \/ Fork \/ ArmRead \/ ArmFails \/ ArmTimeout
    \/ StopBegin \/ Reap \/ StopEnd

-----------------------------------------------------------------------------
(* The reader thread: RunKprobe, RunBpftrace, RunKfdUprobe.                *)

Complete(b) == \E i \in DOMAIN b : b[i].end

\* Mutant: a read only into an empty buf.
MayReadEmpty == rpc = "loop" /\ buf = <<>> /\ (Piped \/ running)

\* RunKprobe reads whenever it has no complete line left and still runs; the
\* other two read only into an empty buf.
MayRead ==
    /\ rpc = "loop"
    /\ IF Piped THEN buf = <<>> ELSE ~Complete(buf) /\ running

\* A read returns what is there up to the size of its buffer, and so may cut a
\* line anywhere.
Read ==
    /\ MayRead
    /\ \E n \in DOMAIN pipe :
          /\ buf' = buf \o SubSeq(pipe, 1, n)
          /\ pipe' = SubSeq(pipe, n + 1, Len(pipe))
    /\ UNCHANGED <<live, events, tracer, reaped, script, rpc, next_uid, seen,
                   announced, handled>>

\* The end of the pipe, or (kprobe) running_ found cleared.
Leave ==
    /\ rpc = "loop"
    /\ IF Piped THEN buf = <<>> /\ pipe = <<>> /\ tracer = "dead"
                ELSE ~Complete(buf) /\ ~running
    /\ rpc' = "exited"
    /\ UNCHANGED <<system, buf, next_uid, seen, announced, handled>>

\* The event takes a uid and is announced as a queue of process pid.
Announce(e, pid) ==
    /\ announced' = Append(announced, [ev |-> e, pid |-> pid, uid |-> next_uid])
    /\ next_uid' = next_uid + 1

PassOver == UNCHANGED <<next_uid, announced>>

\* Mutant: dispatches remembered per process.
KfdPerProcess(e, q) ==
    /\ seen' = seen \cup {q.proc}
    /\ IF q.proc \in seen THEN PassOver
       ELSE IF pid_filter_ \in {0, q.proc} THEN Announce(e, q.proc)
       ELSE next_uid' = next_uid + 1 /\ UNCHANGED announced

\* ftrace reports the id of the thread, and the filter compares it.
HandleKprobe(e, q) ==
    /\ IF pid_filter_ \in {0, q.tid} THEN Announce(e, q.tid) ELSE PassOver
    /\ UNCHANGED seen

\* The pid bpftrace reports is of another namespace, so the event's name (that of
\* the thread) is compared with those of processes.  With a filter, an event whose
\* name neither contains that of the target (if /proc still has one) nor is
\* contained in it is skipped and any other is the target's ...
Similar(a, b) == <<a, b>> \in Contains \/ <<b, a>> \in Contains

\* ... and without one, the first process in reach whose name contains the event's
\* is taken, or else the pid as it is.
Candidates(q) ==
    {p \in live : /\ HostPidOf[q.proc] - Reach <= p /\ p <= HostPidOf[q.proc]
                  /\ <<p, q.tid>> \in Contains}

\* Mutant: names are not looked at.
BpftraceAny(e, q) ==
    /\ IF pid_filter_ # 0 THEN Announce(e, pid_filter_)
       ELSE Announce(e, IF live = {} THEN HostPidOf[q.proc] ELSE Min(live))
    /\ UNCHANGED seen

HandleBpftrace(e, q) ==
    /\ IF pid_filter_ # 0
         THEN IF pid_filter_ \in live /\ ~Similar(q.tid, pid_filter_)
                THEN PassOver
                ELSE Announce(e, pid_filter_)
         ELSE Announce(e, IF Candidates(q) = {} THEN HostPidOf[q.proc]
                          ELSE Min(Candidates(q)))
    /\ UNCHANGED seen

\* One callback per ring; a ring is marked and a uid taken before the filter.
HandleKfd(e, q) ==
    /\ seen' = seen \cup {q.ring}
    /\ IF q.ring \in seen THEN PassOver
       ELSE IF pid_filter_ \in {0, q.proc} THEN Announce(e, q.proc)
       ELSE next_uid' = next_uid + 1 /\ UNCHANGED announced

\* The first complete line leaves buf.  The banner, and a line whose text is
\* missing, is no event.
HandleLine ==
    /\ rpc = "loop"
    /\ Complete(buf)
    /\ LET last == Min({i \in DOMAIN buf : buf[i].end})
           e == buf[last].ev IN
       /\ buf' = SubSeq(buf, last + 1, Len(buf))
       /\ handled' = handled \cup {e}
       /\ IF e = 0 \/ last = 1
            THEN UNCHANGED <<next_uid, seen, announced>>
          ELSE CASE mode = "kprobe"   -> HandleKprobe(e, events[e])
                 [] mode = "bpftrace" -> HandleBpftrace(e, events[e])
                 [] mode = "kfd"      -> HandleKfd(e, events[e])
    /\ UNCHANGED <<system, rpc>>

Reader ==
    /\ Read \/ Leave \/ HandleLine
    /\ UNCHANGED <<mpc, running>>

Next == (System \/ Main \/ Reader) /\ UNCHANGED options

Spec == Init /\ [][Next]_vars

\* Threads keep being scheduled, the clock passes the arming deadline and a
\* SIGTERM ends bpftrace.  Nobody is obliged to call Stop.
Fairness ==
    /\ WF_vars(Reader /\ UNCHANGED options)
    /\ WF_vars(Main /\ mpc # "run" /\ UNCHANGED options)

FairSpec == Spec /\ Fairness

-----------------------------------------------------------------------------
(* Properties.                                                             *)

Wanted(q) == pid_filter_ \in {0, q.proc}

\* bpftrace mode takes the target for alive by its /proc entry, and any event
\* for the target's once that is gone.
TargetGone == mode = "bpftrace" /\ pid_filter_ # 0 /\ pid_filter_ \notin live

\* The process a queue is announced for is the one that created it.
Owned(a) ==
    LET q == events[a.ev]
    IN  Wanted(q) /\ a.pid = IF mode = "kprobe" THEN q.tid ELSE q.proc

\* What bpftrace mode takes for the owner, when it is not: with a filter the target,
\* whose name is similar or which is gone; without one a process whose name contains
\* the thread's, with a lower pid unless the owner is gone, out of reach or under
\* another name than its thread, or the host's pid if there is none.
Mistaken(a) ==
    LET q == events[a.ev] IN
    /\ mode = "bpftrace"
    /\ IF pid_filter_ # 0
         THEN a.pid = pid_filter_ /\ (TargetGone \/ Similar(q.tid, pid_filter_))
         ELSE /\ a.pid = HostPidOf[q.proc] \/ <<a.pid, q.tid>> \in Contains
              /\ q.proc \in Candidates(q) => a.pid < q.proc

\* Queues are announced in the order of their events, each once although kfd mode
\* has an event per dispatch, and under uids of their own, since every later
\* stage keys on them, however the reads cut the lines.  A queue is announced for
\* the process that created it (by its thread's id in kprobe mode) and that the
\* filter asks for, since what is polled is that process's memory; only bpftrace
\* mode may take another one for it, and only if a name leads it there ("can
\* misattribute queues if two processes share the same comm prefix",
\* limitations.md:28) or the process is gone.
AnnouncedRight ==
    /\ \A i, j \in DOMAIN announced :
          i < j => /\ announced[i].ev < announced[j].ev
                   /\ announced[i].uid < announced[j].uid
                   /\ events[announced[i].ev] # events[announced[j].ev]
    /\ \A i \in DOMAIN announced : Owned(announced[i]) \/ Mistaken(announced[i])

\* Kprobe mode sees the queues of the filtered process's main thread only; bpftrace
\* mode, with a filter, those of threads whose name is like the target's; kfd mode
\* sees the first of two queues whose rings have the same address.
Visible(e) ==
    /\ mode = "kprobe" => events[e].tid = events[e].proc
    /\ mode = "bpftrace" => pid_filter_ = 0 \/ Similar(events[e].tid, pid_filter_)
    /\ mode = "kfd" =>
          \A d \in 1 .. e - 1 :
              events[d].ring = events[e].ring => events[d] = events[e]

\* ... and a visible queue whose event was read is announced ("cb is invoked
\* for each AQL queue", discovery.h:45; in kfd mode "one event per queue",
\* discovery.cpp:506), however its line was cut.
EveryQueueAnnounced ==
    \A e \in handled \ {0} :
        Wanted(events[e]) /\ Visible(e) =>
            \E i \in DOMAIN announced : events[announced[i].ev] = events[e]

\* Neither a script in /tmp nor an unreaped child is left when Stop has returned
\* or Start has failed, wherever in the arming bpftrace exited or the deadline
\* passed (but kfd mode leaves both when bpftrace exits while it is being armed).
LeavesNothing ==
    mpc = "stopped" \/ (mpc = "failed" /\ mode # "kfd") =>
        ~script /\ (Piped /\ tracer # "off" => reaped)

\* The readers behind a pipe read into an empty buf only: a line that was cut
\* is never completed.
Stuck == Piped /\ rpc = "loop" /\ buf # <<>> /\ ~Complete(buf)

\* Stop returns: the reader thread it joins comes to an end.  The one thing
\* that can keep it is a cut line in the buf of a reader behind a pipe.
StopReturns == (mpc \in {"killing", "joining"}) ~> (mpc = "stopped" \/ Stuck)

\* The line of every event is eventually handled, unless Stop intervenes,
\* discovery never starts or a line was cut before.
LinesHandled ==
    \A e \in 1 .. MaxEvents :
        (e <= Len(events))
            ~> \/ e \in handled
               \/ ~running /\ mpc \notin {"init", "arming"}
               \/ Stuck
=============================================================================
