----------------------------- MODULE AisMonitor -------------------------------
(***************************************************************************)
(* The AIS monitor (src/ais_monitor.cpp): a kprobe on kfd_ioctl_ais in a   *)
(* tracefs instance of its own, the main thread that runs Start and Stop,  *)
(* and the reader thread that turns trace lines into AisRecords.           *)
(*                                                                         *)
(* The two threads share running_, the two file descriptors and the cancel *)
(* pipe without a lock.  A line of the pipe is two pieces, so that a       *)
(* read() may cut it anywhere.  The calls are of one thread and name one   *)
(* descriptor of it, which may be closed and opened on another file.       *)
(***************************************************************************)
EXTENDS Naturals, Sequences, FiniteSets

CONSTANTS
    MaxCalls,   \* bound: AIS ioctls of the traced process, numbered as they come
    Files,      \* what the descriptor may be open on: [blk, st_dev, st_rdev, on],
                \* on being the device its data are on
    PciDevices, \* the block devices with a PCI device above them
    MaxStops    \* bound: how often Stop is called (main, then the destructor)

ASSUME StopsAssumption == MaxStops \in Nat \ {0}
ASSUME CallsAssumption == MaxCalls \in Nat
\* A block device node lies on some other device than the one it stands for.
ASSUME FilesAssumption ==
    \A f \in Files : f.on = IF f.blk THEN f.st_rdev ELSE f.st_dev

VARIABLES
    entered,    \* how many calls have entered the kernel
    file,       \* what the descriptor is open on, from the first traced call
    moved,      \* history: that has changed since then
    instance,   \* the tracefs instance directory exists
    defined,    \* the probe is in kprobe_events
    enabled,    \* the probe is enabled in the instance
    pipe        \* the unread pieces of the instance's trace_pipe

kernel == <<entered, file, moved, instance, defined, enabled, pipe>>

VARIABLES
    pc,             \* the main thread
    caller,         \* who called RemoveKprobes
    stops,          \* calls of Stop so far
    probe_entry_,   \* AisMonitor::probe_entry_ is not empty
    instance_,      \* AisMonitor::instance_ is not empty
    trace_pipe_fd_, \* open or not
    cancel_wfd_,
    cancel_rfd_,
    cancelled,      \* the byte is in the cancel pipe
    running_

main == <<pc, caller, stops, probe_entry_, instance_, trace_pipe_fd_,
          cancel_wfd_, cancel_rfd_, cancelled, running_>>

VARIABLES
    reader,     \* the reader thread
    watched,    \* what its current poll() watches
    partial,    \* the pieces it has read and not consumed
    cache,      \* ResolvePcieDeviceInfo's cache: its entry for the descriptor
    reported    \* the calls given to the sink, in order, with their device

VARIABLE
    fired       \* history: the calls that hit the enabled probe, in order

thread == <<reader, watched, partial, cache, reported>>
vars == <<kernel, main, thread, fired>>

NoFile == [blk |-> FALSE, st_dev |-> "none", st_rdev |-> "none", on |-> "none"]
NotCached == "not cached"
Unknown == "unknown"

Init ==
    /\ entered = 0 /\ file \in Files /\ moved = FALSE
    /\ instance = FALSE /\ defined = FALSE /\ enabled = FALSE
    /\ pipe = <<>> /\ fired = <<>>
    /\ pc = "mkdir" /\ caller = "Start" /\ stops = 0
    /\ probe_entry_ = FALSE /\ instance_ = FALSE
    /\ trace_pipe_fd_ = FALSE
    /\ cancel_wfd_ = FALSE /\ cancel_rfd_ = FALSE /\ cancelled = FALSE
    /\ running_ = FALSE
    /\ reader = "none" /\ watched = {} /\ partial = <<>>
    /\ cache = NotCached /\ reported = <<>>

-----------------------------------------------------------------------------
(* The traced processes.                                                   *)

\* The probe fires on entry.
EnterIoctl ==
    /\ entered < MaxCalls
    /\ entered' = entered + 1
    /\ IF enabled
         THEN /\ pipe' = pipe \o << <<entered', 1>>, <<entered', 2>> >>
              /\ fired' = Append(fired, entered')
         ELSE UNCHANGED <<pipe, fired>>
    /\ UNCHANGED <<file, moved, instance, defined, enabled, main, thread>>

\* The descriptor is closed, or its number is used for another file.  Bound: once,
\* after the first traced call (before it, Init's choice of the file says as much).
Reopen ==
    /\ fired # <<>> /\ ~moved
    /\ file' \in (Files \cup {NoFile}) \ {file}
    /\ moved' = TRUE
    /\ UNCHANGED <<entered, instance, defined, enabled, pipe, main, thread, fired>>

-----------------------------------------------------------------------------
(* Start and InstallKprobes: every step may fail.                          *)

Mkdir ==
    /\ pc = "mkdir"
    /\ \/ /\ instance' = TRUE /\ instance_' = TRUE /\ pc' = "define"
       \/ /\ pc' = "failed" /\ UNCHANGED <<instance, instance_>>
    /\ UNCHANGED <<entered, file, moved, defined, enabled, pipe, caller, stops, probe_entry_,
                   trace_pipe_fd_, cancel_wfd_, cancel_rfd_, cancelled,
                   running_, thread, fired>>

Define ==
    /\ pc = "define"
    /\ probe_entry_' = TRUE
    /\ \/ defined' = TRUE /\ pc' = "enable"
       \/ UNCHANGED defined /\ pc' = "disable"
    /\ UNCHANGED <<entered, file, moved, instance, enabled, pipe, caller, stops, instance_,
                   trace_pipe_fd_, cancel_wfd_, cancel_rfd_, cancelled,
                   running_, thread, fired>>

Enable ==
    /\ pc = "enable"
    /\ \/ enabled' = TRUE /\ pc' = "open"
       \/ UNCHANGED enabled /\ pc' = "disable"
    /\ UNCHANGED <<entered, file, moved, instance, defined, pipe, caller, stops, probe_entry_,
                   instance_, trace_pipe_fd_, cancel_wfd_, cancel_rfd_,
                   cancelled, running_, thread, fired>>

OpenPipe ==
    /\ pc = "open"
    /\ \/ trace_pipe_fd_' = TRUE /\ pc' = "cancel"
       \/ UNCHANGED trace_pipe_fd_ /\ pc' = "disable"
    /\ UNCHANGED <<kernel, caller, stops, probe_entry_, instance_, cancel_wfd_,
                   cancel_rfd_, cancelled, running_, thread, fired>>

\* The cancel pipe, and the reader thread; without the pipe trace_pipe is
\* closed again.
OpenCancel ==
    /\ pc = "cancel"
    /\ \/ /\ cancel_wfd_' = TRUE /\ cancel_rfd_' = TRUE
          /\ running_' = TRUE
          /\ reader' = "loop"
          /\ pc' = "running"
          /\ UNCHANGED trace_pipe_fd_
       \/ /\ trace_pipe_fd_' = FALSE
          /\ pc' = "disable"
          /\ UNCHANGED <<cancel_wfd_, cancel_rfd_, running_, reader>>
    /\ UNCHANGED <<kernel, caller, stops, probe_entry_, instance_, cancelled,
                   watched, partial, cache, reported, fired>>

-----------------------------------------------------------------------------
(* RemoveKprobes, called by a failing Start and by Stop.                   *)

AfterRemove == IF caller = "Start" THEN "failed" ELSE "close"

Disable ==
    /\ pc = "disable"
    /\ enabled' = (enabled /\ ~(probe_entry_ /\ instance_))
    /\ pc' = "undefine"
    /\ UNCHANGED <<entered, file, moved, instance, defined, pipe, caller, stops, probe_entry_,
                   instance_, trace_pipe_fd_, cancel_wfd_, cancel_rfd_,
                   cancelled, running_, thread, fired>>

\* The kernel keeps a probe that is enabled.
Undefine ==
    /\ pc = "undefine"
    /\ defined' = (defined /\ (enabled \/ ~probe_entry_))
    /\ probe_entry_' = FALSE
    /\ pc' = "rmdir"
    /\ UNCHANGED <<entered, file, moved, instance, enabled, pipe, caller, stops, instance_,
                   trace_pipe_fd_, cancel_wfd_, cancel_rfd_, cancelled,
                   running_, thread, fired>>

\* The kernel keeps an instance whose trace_pipe is open; the result of
\* rmdir is not looked at.
Rmdir ==
    /\ pc = "rmdir"
    /\ instance' = (instance /\ (trace_pipe_fd_ \/ ~instance_))
    /\ instance_' = FALSE
    /\ pc' = AfterRemove
    /\ UNCHANGED <<entered, file, moved, defined, enabled, pipe, caller, stops, probe_entry_,
                   trace_pipe_fd_, cancel_wfd_, cancel_rfd_, cancelled,
                   running_, thread, fired>>

-----------------------------------------------------------------------------
(* Stop, called by main when its loop ends, and again by the destructor.   *)
(* The signal that ends the loop may also interrupt poll().                *)

Signal ==
    /\ pc = "running"
    /\ pc' = "asked"
    /\ UNCHANGED <<kernel, caller, stops, probe_entry_, instance_,
                   trace_pipe_fd_, cancel_wfd_, cancel_rfd_, cancelled,
                   running_, thread, fired>>

Stop ==
    /\ pc \in {"running", "asked", "failed", "stopped"}
    /\ stops < MaxStops
    /\ stops' = stops + 1
    /\ running_' = FALSE
    /\ pc' = "wake"
    /\ UNCHANGED <<kernel, caller, probe_entry_, instance_, trace_pipe_fd_,
                   cancel_wfd_, cancel_rfd_, cancelled, thread, fired>>

Wake ==
    /\ pc = "wake"
    /\ cancelled' = (cancelled \/ cancel_wfd_)
    /\ cancel_wfd_' = FALSE
    /\ caller' = "Stop"
    /\ pc' = "disable"
    /\ UNCHANGED <<kernel, stops, probe_entry_, instance_, trace_pipe_fd_,
                   cancel_rfd_, running_, thread, fired>>

ClosePipe ==
    /\ pc = "close"
    /\ trace_pipe_fd_' = FALSE
    /\ pc' = "shut"
    /\ UNCHANGED <<kernel, caller, stops, probe_entry_, instance_, cancel_wfd_,
                   cancel_rfd_, cancelled, running_, thread, fired>>

CloseCancel ==
    /\ pc = "shut"
    /\ cancel_rfd_' = FALSE
    /\ pc' = "join"
    /\ UNCHANGED <<kernel, caller, stops, probe_entry_, instance_,
                   trace_pipe_fd_, cancel_wfd_, cancelled, running_, thread,
                   fired>>

Join ==
    /\ pc = "join"
    /\ reader \in {"none", "ended", "joined"}
    /\ reader' = IF reader = "ended" THEN "joined" ELSE reader
    /\ pc' = "stopped"
    /\ UNCHANGED <<kernel, caller, stops, probe_entry_, instance_,
                   trace_pipe_fd_, cancel_wfd_, cancel_rfd_, cancelled,
                   running_, watched, partial, cache, reported, fired>>

-----------------------------------------------------------------------------
(* ReadLoop.                                                               *)

Finish ==
    /\ reader' = "ended"
    /\ running_' = FALSE

SharedByReader == <<kernel, pc, caller, stops, probe_entry_, instance_,
                    trace_pipe_fd_, cancel_wfd_, cancel_rfd_, cancelled, fired>>

\* Mutant: running_ is not looked at again.
LoopBlind ==
    /\ reader = "loop"
    /\ reader' = "poll"
    /\ watched' = (IF trace_pipe_fd_ THEN {"pipe"} ELSE {})
                    \cup (IF cancel_rfd_ THEN {"cancel"} ELSE {})
    /\ UNCHANGED <<SharedByReader, running_, partial, cache, reported>>

\* poll() is entered with the descriptors as they are now: one that Stop has
\* closed is not watched.
Loop ==
    /\ reader = "loop"
    /\ \/ /\ ~running_
          /\ Finish
          /\ UNCHANGED watched
       \/ /\ running_
          /\ reader' = "poll"
          /\ watched' = (IF trace_pipe_fd_ THEN {"pipe"} ELSE {})
                          \cup (IF cancel_rfd_ THEN {"cancel"} ELSE {})
          /\ UNCHANGED running_
    /\ UNCHANGED <<SharedByReader, partial, cache, reported>>

CancelReady == "cancel" \in watched /\ cancelled
PipeReady == "pipe" \in watched /\ pipe # <<>>

\* The cancel byte, or the signal that asked main to stop.
PollEnds ==
    /\ reader = "poll"
    /\ CancelReady \/ pc = "asked"
    /\ Finish
    /\ UNCHANGED <<SharedByReader, watched, partial, cache, reported>>

PollData ==
    /\ reader = "poll"
    /\ ~CancelReady /\ PipeReady
    /\ reader' = "read"
    /\ UNCHANGED <<SharedByReader, running_, watched, partial, cache, reported>>

\* Mutant: a timeout ends the loop.
PollTimeoutEnds ==
    /\ reader = "poll"
    /\ ~CancelReady /\ ~PipeReady
    /\ Finish
    /\ UNCHANGED <<SharedByReader, watched, partial, cache, reported>>

PollTimeout ==
    /\ reader = "poll"
    /\ ~CancelReady /\ ~PipeReady
    /\ reader' = "loop"
    /\ UNCHANGED <<SharedByReader, running_, watched, partial, cache, reported>>

\* Mutant: what is left of a cut line is forgotten at the next read.
ReadForgets ==
    /\ reader = "read"
    /\ \/ /\ ~trace_pipe_fd_
          /\ Finish
          /\ UNCHANGED <<pipe, partial>>
       \/ /\ trace_pipe_fd_
          /\ \E n \in 1 .. Len(pipe) :
                /\ partial' = SubSeq(pipe, 1, n)
                /\ pipe' = SubSeq(pipe, n + 1, Len(pipe))
          /\ reader' = "lines"
          /\ UNCHANGED running_
    /\ UNCHANGED <<entered, file, moved, instance, defined, enabled, pc, caller, stops,
                   probe_entry_, instance_, trace_pipe_fd_, cancel_wfd_,
                   cancel_rfd_, cancelled, fired, watched, cache, reported>>

\* read() fails on a descriptor Stop has closed since poll().
Read ==
    /\ reader = "read"
    /\ \/ /\ ~trace_pipe_fd_
          /\ Finish
          /\ UNCHANGED <<pipe, partial>>
       \/ /\ trace_pipe_fd_
          /\ \E n \in 1 .. Len(pipe) :
                /\ partial' = partial \o SubSeq(pipe, 1, n)
                /\ pipe' = SubSeq(pipe, n + 1, Len(pipe))
          /\ reader' = "lines"
          /\ UNCHANGED running_
    /\ UNCHANGED <<entered, file, moved, instance, defined, enabled, pc, caller, stops,
                   probe_entry_, instance_, trace_pipe_fd_, cancel_wfd_,
                   cancel_rfd_, cancelled, fired, watched, cache, reported>>

\* Mutant: the device a node lies on is taken for the one it stands for.
ResolveNode(f) ==
    IF f.st_dev \in PciDevices THEN f.st_dev ELSE Unknown

\* ResolvePcieDeviceInfo without its cache: stat, and the PCI device above.  A
\* failed stat (NoFile) and a device without one above it are both Unknown.
ResolvePcieDeviceInfo(f) ==
    LET dev == IF f.blk THEN f.st_rdev ELSE f.st_dev
    IN  IF dev \in PciDevices THEN dev ELSE Unknown

\* A line that is complete is taken off partial; it is reported unless Stop
\* has begun.  The record says that the call has completed without an error
\* and has copied what it asked for.
Line ==
    /\ reader = "lines"
    /\ Len(partial) >= 2
    /\ partial' = SubSeq(partial, 3, Len(partial))
    /\ IF running_
         THEN /\ cache' = IF cache # NotCached THEN cache ELSE ResolvePcieDeviceInfo(file)
              /\ reported' = Append(reported, [call |-> partial[2][1], device |-> cache'])
              /\ reader' = "lines"
         ELSE reader' = "loop" /\ UNCHANGED <<cache, reported>>
    /\ UNCHANGED <<SharedByReader, running_, watched>>

NoLine ==
    /\ reader = "lines"
    /\ Len(partial) < 2
    /\ reader' = "loop"
    /\ UNCHANGED <<SharedByReader, running_, watched, partial, cache, reported>>

ReadLoop == Loop \/ PollEnds \/ PollData \/ PollTimeout \/ Read \/ Line \/ NoLine

-----------------------------------------------------------------------------
Start == Mkdir \/ Define \/ Enable \/ OpenPipe \/ OpenCancel
RemoveKprobes == Disable \/ Undefine \/ Rmdir
Stopping == Stop \/ Wake \/ ClosePipe \/ CloseCancel \/ Join

Main == Start \/ RemoveKprobes \/ Stopping

Next ==
    \/ EnterIoctl \/ Reopen
    \/ Signal \/ Main \/ ReadLoop

\* Stop is called at most MaxStops times, by whom Monitors says; there the
\* fairness of the two threads is stated.
Spec == Init /\ [][Next]_vars

-----------------------------------------------------------------------------
(* Properties.                                                             *)

\* However read() cuts the lines and whenever Stop comes, the calls are
\* reported in the order in which they hit the probe, each once and none
\* skipped; and with the device the data are on, as long as "the device behind an
\* fd never changes" (ais_monitor.cpp:169), whether the lookup is made or cached.
ReportedRight ==
    /\ Len(reported) <= Len(fired)
    /\ \A i \in DOMAIN reported : reported[i].call = fired[i]
    /\ ~moved =>
         \A i \in DOMAIN reported :
            reported[i].device =
                IF file.on \in PciDevices THEN file.on ELSE Unknown

\* Once Stop has returned, and when Start has failed, the probe is gone, the
\* descriptors are closed and no thread is left that could call the sink
\* ("Removes kprobes and joins the reader thread", ais_monitor.h:34).  The directory
\* of the tracefs instance is gone too if Start has failed; Stop removes it while
\* trace_pipe is open, which the kernel refuses, so a monitor that ran leaves it.
StoppedClean ==
    /\ pc = "stopped" => reader \in {"none", "joined"}
    /\ pc \in {"stopped", "failed"} =>
         /\ ~defined /\ ~enabled /\ ~trace_pipe_fd_ /\ ~cancel_wfd_ /\ ~cancel_rfd_
         /\ instance => reader = "joined"
=============================================================================
