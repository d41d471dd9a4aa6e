---------------------------- MODULE XnackMonitor ------------------------------
(***************************************************************************)
(* The XNACK monitor (src/xnack_monitor.cpp): the main thread that runs    *)
(* Start and Stop, the forked child that writes a script, removes it and   *)
(* becomes bpftrace, and the reader thread on the child's stdout.          *)
(*                                                                         *)
(* bpftrace opens its script by path.  The child has closed and unlinked   *)
(* the file by then, so bpftrace exits without printing a line: ReadLoop   *)
(* gets as far as its first fgets and its parsing is unreachable.          *)
(***************************************************************************)
EXTENDS Naturals

CONSTANT MaxStops   \* bound: calls of Stop (main, then the destructor)

VARIABLES
    pc,          \* the main thread
    stops,       \* calls of Stop so far
    was_running, \* Stop's local
    running_,
    bpftrace_pid_, \* is set
    writers,     \* who holds the write end of the pipe
    reader,      \* the reader thread
    child,       \* the child process
    path,        \* the script's directory entry exists
    held         \* the child has the script open

main == <<pc, stops, was_running, bpftrace_pid_>>
vars == <<main, running_, writers, reader, child, path, held>>

Init ==
    /\ pc = "pipe" /\ stops = 0 /\ was_running = FALSE
    /\ running_ = FALSE /\ bpftrace_pid_ = FALSE /\ writers = {}
    /\ reader = "none" /\ child = "none" /\ path = FALSE /\ held = FALSE

-----------------------------------------------------------------------------
(* Start, as main calls it.                                                *)

MakePipe ==
    /\ pc = "pipe"
    /\ \/ pc' = "fork" /\ writers' = {"main"}
       \/ pc' = "failed" /\ UNCHANGED writers
    /\ UNCHANGED <<stops, was_running, bpftrace_pid_, running_, reader,
                   child, path, held>>

Fork ==
    /\ pc = "fork"
    /\ \/ /\ pc' = "parent" /\ child' = "forked"
          /\ writers' = {"main", "child"}
       \/ pc' = "failed" /\ writers' = {} /\ UNCHANGED child
    /\ UNCHANGED <<stops, was_running, bpftrace_pid_, running_, reader,
                   path, held>>

\* Start returns true without waiting for the child.
Parent ==
    /\ pc = "parent"
    /\ writers' = writers \ {"main"}
    /\ bpftrace_pid_' = TRUE
    /\ running_' = TRUE
    /\ reader' = "open"
    /\ pc' = "running"
    /\ UNCHANGED <<stops, was_running, child, path, held>>

-----------------------------------------------------------------------------
(* The child.                                                              *)

ChildDies ==
    /\ child' = "zombie"
    /\ writers' = writers \ {"child"}
    /\ held' = FALSE

\* mkstemps and write, either of which may fail; a failed write leaves the
\* file.
WriteScript ==
    /\ child = "forked"
    /\ \/ child' = "written" /\ path' = TRUE /\ held' = TRUE /\ UNCHANGED writers
       \/ ChildDies /\ path' \in {path, TRUE}
    /\ UNCHANGED <<main, running_, reader>>

CloseScript ==
    /\ child = "written"
    /\ child' = "closed"
    /\ held' = FALSE
    /\ UNCHANGED <<main, running_, writers, reader, path>>

UnlinkScript ==
    /\ child = "closed"
    /\ child' = "unlinked"
    /\ path' = FALSE
    /\ UNCHANGED <<main, running_, writers, reader, held>>

Exec ==
    /\ child = "unlinked"
    /\ \/ child' = "bpftrace" /\ UNCHANGED <<writers, held>>
       \/ ChildDies
    /\ UNCHANGED <<main, running_, reader, path>>

\* bpftrace finds no file of that name, complains on stderr and exits.
OpenScript ==
    /\ child = "bpftrace"
    /\ ~path
    /\ ChildDies
    /\ UNCHANGED <<main, running_, reader, path>>

Child == WriteScript \/ CloseScript \/ UnlinkScript \/ Exec \/ OpenScript

-----------------------------------------------------------------------------
(* ReadLoop.                                                               *)

OpenStream ==
    /\ reader = "open"
    /\ \/ reader' = "fgets" /\ UNCHANGED running_
       \/ reader' = "ended" /\ running_' = FALSE
    /\ UNCHANGED <<main, writers, child, path, held>>

\* fgets returns at the end of the file: when nobody can write any more.
EndOfFile ==
    /\ reader = "fgets"
    /\ writers = {}
    /\ reader' = "ended"
    /\ running_' = FALSE
    /\ UNCHANGED <<main, writers, child, path, held>>

ReadLoop == OpenStream \/ EndOfFile

-----------------------------------------------------------------------------
(* Stop, called by main and again by the destructor.                       *)

Alive == child \notin {"none", "zombie", "reaped"}

Stop ==
    /\ pc \in {"running", "failed", "stopped"}
    /\ stops < MaxStops
    /\ stops' = stops + 1
    /\ was_running' = running_
    /\ running_' = FALSE
    /\ pc' = IF ~bpftrace_pid_ THEN "join"
             ELSE IF running_ THEN "terminate" ELSE "reap"
    /\ UNCHANGED <<bpftrace_pid_, writers, reader, child, path, held>>

\* SIGTERM: bpftrace ends; before exec the handler inherited from main only
\* sets a flag.
Terminate ==
    /\ pc = "terminate"
    /\ pc' = "poll"
    /\ \/ child = "bpftrace" /\ ChildDies
       \/ UNCHANGED <<child, writers, held>>
    /\ UNCHANGED <<stops, was_running, bpftrace_pid_, running_, reader,
                   path>>

\* waitpid with WNOHANG, after 200 ms.
PollChild ==
    /\ pc = "poll"
    /\ child' = IF child = "zombie" THEN "reaped" ELSE child
    /\ pc' = "kill"
    /\ UNCHANGED <<stops, was_running, bpftrace_pid_, running_, writers,
                   reader, path, held>>

Kill ==
    /\ pc = "kill"
    /\ pc' = "reap"
    /\ IF Alive THEN ChildDies ELSE UNCHANGED <<child, writers, held>>
    /\ UNCHANGED <<stops, was_running, bpftrace_pid_, running_, reader,
                   path>>

\* Mutant: the child is waited for only if Stop has killed it.
ReapIfKilled ==
    /\ pc = "reap"
    /\ was_running => child \in {"zombie", "reaped"}
    /\ child' = IF was_running THEN "reaped" ELSE child
    /\ bpftrace_pid_' = FALSE
    /\ pc' = "join"
    /\ UNCHANGED <<stops, was_running, running_, writers, reader, path,
                   held>>

\* The blocking waitpid; it fails at once for a child reaped before.
Reap ==
    /\ pc = "reap"
    /\ child \in {"zombie", "reaped"}
    /\ child' = "reaped"
    /\ bpftrace_pid_' = FALSE
    /\ pc' = "join"
    /\ UNCHANGED <<stops, was_running, running_, writers, reader, path,
                   held>>

Join ==
    /\ pc = "join"
    /\ reader \in {"none", "ended", "joined"}
    /\ reader' = IF reader = "ended" THEN "joined" ELSE reader
    /\ pc' = "stopped"
    /\ UNCHANGED <<stops, was_running, bpftrace_pid_, running_, writers,
                   child, path, held>>

-----------------------------------------------------------------------------
Main ==
    \/ MakePipe \/ Fork \/ Parent
    \/ Terminate \/ PollChild \/ Kill \/ Reap \/ Join

Next == Main \/ Stop \/ Child \/ ReadLoop

\* Main, child and reader are scheduled; whether Stop is called is up to main's
\* loop.
Spec ==
    Init /\ [][Next]_vars /\ WF_vars(Main) /\ WF_vars(Child) /\ WF_vars(ReadLoop)

-----------------------------------------------------------------------------
(* Properties.                                                             *)

\* When Stop has returned the child is reaped, never left a zombie, and the
\* reader is joined, also if both had ended by themselves before.
StoppedClean ==
    pc = "stopped" => child \in {"none", "reaped"} /\ reader \in {"none", "joined"}

\* "the inode stays alive while bpftrace holds it open" (xnack_monitor.cpp:99):
\* when bpftrace runs it can still open its script, by its path or because the
\* descriptor was kept.  It cannot: the child closes the file and removes its
\* directory entry before exec, so the monitor never reports a fault.
ScriptReachable == child = "bpftrace" => path \/ held
=============================================================================
