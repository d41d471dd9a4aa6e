---------------------------- MODULE MonitorsProofs ----------------------------
(***************************************************************************)
(* The two monitors under main, for any number of calls, files and devices *)
(* and however often they are stopped: nothing but the tracefs instance of *)
(* a monitor that ran is left when main returns, nothing is reported after the output is made, and what is reported is   *)
(* right.                                                                  *)
(***************************************************************************)
EXTENDS Monitors, SequenceTheorems, TLAPS

Starting == {"mkdir", "define", "enable", "open", "cancel"}
Removing == {"disable", "undefine", "rmdir"}

AisTyped ==
    /\ pc \in Starting \cup Removing \cup
              {"running", "asked", "failed", "wake", "close", "shut", "join",
               "stopped"}
    /\ caller \in {"Start", "Stop"}
    /\ reader \in {"none", "loop", "poll", "read", "lines", "ended", "joined"}
    /\ defined \in BOOLEAN /\ enabled \in BOOLEAN /\ instance \in BOOLEAN
    /\ probe_entry_ \in BOOLEAN /\ instance_ \in BOOLEAN
    /\ trace_pipe_fd_ \in BOOLEAN
    /\ cancel_wfd_ \in BOOLEAN /\ cancel_rfd_ \in BOOLEAN

\* What the AIS monitor has in tracefs, by how far main has come: RemoveKprobes
\* finds what it has to remove in probe_entry_ and instance_.
ProbePlace ==
    /\ defined => probe_entry_
    /\ enabled => probe_entry_ /\ instance_
    /\ pc = "mkdir" => ~defined /\ ~enabled
    /\ pc \in {"define", "enable"} => instance_
    /\ pc = "enable" => probe_entry_
    /\ pc \in {"undefine", "rmdir", "close", "shut", "join", "stopped", "failed"}
         => ~enabled
    /\ pc \in {"rmdir", "close", "shut", "join", "stopped", "failed"} => ~defined

\* Which descriptors are open, and that a start that fails has neither a
\* descriptor nor a thread.
DescriptorPlace ==
    /\ trace_pipe_fd_ => pc \in {"cancel", "running", "asked", "wake", "close"} \cup Removing
    /\ cancel_wfd_ => pc \in {"running", "asked", "wake"}
    /\ cancel_rfd_ => pc \in {"running", "asked", "wake", "close", "shut"} \cup Removing
    /\ pc \in Starting \cup {"running", "asked", "failed"} => caller = "Start"
    /\ pc \in {"close", "shut", "join", "stopped"} => caller = "Stop"
    /\ pc \in Removing /\ caller = "Start" =>
         ~trace_pipe_fd_ /\ ~cancel_rfd_ /\ reader = "none"
    /\ pc \in Starting \cup {"failed"} => reader = "none"
    /\ pc = "stopped" => reader \in {"none", "joined"}

\* The instance directory: RemoveKprobes finds it in instance_, and removes it unless
\* trace_pipe is open, which it is then only after a reader was started.
InstancePlace ==
    /\ instance => instance_ \/ reader # "none"
    /\ trace_pipe_fd_ => reader # "none" \/ pc = "cancel"
    /\ pc \in {"mkdir", "close", "shut", "join", "stopped", "failed"} => ~instance_

AisInv == AisTyped /\ ProbePlace /\ DescriptorPlace /\ InstancePlace

\* The steps of the main thread keep the AIS monitor's books.
LEMMA AisMainStep == AisInv /\ Main => AisInv'
<1> SUFFICES ASSUME AisInv, Main PROVE AisInv'
  OBVIOUS
<1> USE DEF AisInv, AisTyped, ProbePlace, DescriptorPlace, InstancePlace, Starting, Removing
<1>1. CASE Mkdir
  <2>1. /\ pc = "mkdir" /\ reader = "none" /\ ~defined /\ ~enabled
        /\ ~trace_pipe_fd_ /\ ~cancel_wfd_ /\ ~cancel_rfd_ /\ ~instance_
        /\ ~instance /\ caller = "Start"
        /\ UNCHANGED <<caller, reader, defined, enabled, probe_entry_, trace_pipe_fd_,
                       cancel_wfd_, cancel_rfd_>>
    BY <1>1 DEF Mkdir, thread
  <2>2. CASE instance' = TRUE /\ instance_' = TRUE /\ pc' = "define"
    BY <2>1, <2>2
  <2>3. CASE pc' = "failed" /\ UNCHANGED <<instance, instance_>>
    BY <2>1, <2>3
  <2>4. QED
    BY <1>1, <2>2, <2>3 DEF Mkdir
<1>2. CASE Define
  BY <1>2 DEF Define, thread
<1>3. CASE Enable
  BY <1>3 DEF Enable, thread
<1>4. CASE OpenPipe
  <2>1. /\ pc = "open" /\ caller = "Start" /\ reader = "none"
        /\ ~trace_pipe_fd_ /\ ~cancel_wfd_ /\ ~cancel_rfd_
        /\ UNCHANGED <<caller, reader, instance, defined, enabled, probe_entry_, instance_,
                       cancel_wfd_, cancel_rfd_>>
    BY <1>4 DEF OpenPipe, kernel, thread
  <2>2. CASE trace_pipe_fd_' = TRUE /\ pc' = "cancel"
    BY <2>1, <2>2
  <2>3. CASE UNCHANGED trace_pipe_fd_ /\ pc' = "disable"
    BY <2>1, <2>3
  <2>4. QED
    BY <1>4, <2>2, <2>3 DEF OpenPipe
<1>5. CASE OpenCancel
  <2>1. /\ pc = "cancel" /\ caller = "Start" /\ reader = "none"
        /\ ~cancel_wfd_ /\ ~cancel_rfd_
        /\ UNCHANGED <<caller, instance, defined, enabled, probe_entry_, instance_>>
    BY <1>5 DEF OpenCancel, kernel
  <2>2. CASE /\ cancel_wfd_' = TRUE /\ cancel_rfd_' = TRUE
             /\ reader' = "loop" /\ pc' = "running" /\ UNCHANGED trace_pipe_fd_
    BY <2>1, <2>2
  <2>3. CASE /\ trace_pipe_fd_' = FALSE /\ pc' = "disable"
             /\ UNCHANGED <<cancel_wfd_, cancel_rfd_, reader>>
    BY <2>1, <2>3
  <2>4. QED
    BY <1>5, <2>2, <2>3 DEF OpenCancel
<1>6. CASE Disable
  BY <1>6 DEF Disable, thread
<1>7. CASE Undefine
  BY <1>7 DEF Undefine, thread
<1>8. CASE Rmdir
  BY <1>8 DEF Rmdir, AfterRemove, thread
<1>9. CASE Stop
  BY <1>9 DEF Stop, kernel, thread
<1>10. CASE Wake
  BY <1>10 DEF Wake, kernel, thread
<1>11. CASE ClosePipe
  BY <1>11 DEF ClosePipe, kernel, thread
<1>12. CASE CloseCancel
  BY <1>12 DEF CloseCancel, kernel, thread
<1>13. CASE Join
  BY <1>13 DEF Join, kernel
<1>14. QED
  BY <1>1, <1>2, <1>3, <1>4, <1>5, <1>6, <1>7, <1>8, <1>9, <1>10, <1>11, <1>12,
     <1>13 DEF Main, Start, RemoveKprobes, Stopping

LEMMA AisStutter ==
    ASSUME AisInv,
           UNCHANGED <<pc, caller, reader, instance, defined, enabled, probe_entry_, instance_,
                       trace_pipe_fd_, cancel_wfd_, cancel_rfd_>>
    PROVE  AisInv'
BY DEF AisInv, AisTyped, ProbePlace, DescriptorPlace, InstancePlace, Starting, Removing

\* The reader thread ends, and touches nothing of main's but running_.
LEMMA AisReaderStep ==
    AisInv /\ ReadLoop =>
        /\ AisInv'
        /\ reader \notin {"none", "joined"} /\ reader' \notin {"none", "joined"}
        /\ UNCHANGED <<pc, caller>>
<1> SUFFICES ASSUME AisInv, ReadLoop
             PROVE  /\ AisInv'
                    /\ reader \notin {"none", "joined"}
                    /\ reader' \notin {"none", "joined"}
                    /\ UNCHANGED <<pc, caller>>
  OBVIOUS
<1>1. /\ reader \in {"loop", "poll", "read", "lines"}
      /\ reader' \in {"loop", "poll", "read", "lines", "ended"}
      /\ UNCHANGED <<instance, defined, enabled, pc, caller, probe_entry_, instance_>>
      /\ UNCHANGED <<trace_pipe_fd_, cancel_wfd_, cancel_rfd_>>
  BY DEF ReadLoop, Loop, PollEnds, PollData, PollTimeout, Read, Line, NoLine,
         Finish, SharedByReader, kernel
<1>2. QED
  BY <1>1 DEF AisInv, AisTyped, ProbePlace, DescriptorPlace, InstancePlace, Starting, Removing

\* The traced processes and the signal.
LEMMA AisOutsideStep ==
    AisInv /\ (Signal \/ EnterIoctl \/ Reopen) =>
        AisInv' /\ UNCHANGED <<reader, reported, caller>>
<1> SUFFICES ASSUME AisInv, Signal \/ EnterIoctl \/ Reopen
             PROVE  AisInv' /\ UNCHANGED <<reader, reported, caller>>
  OBVIOUS
<1>1. /\ pc' = pc \/ (pc = "running" /\ pc' = "asked")
      /\ UNCHANGED <<instance, defined, enabled, caller, probe_entry_, instance_>>
      /\ UNCHANGED <<trace_pipe_fd_, cancel_wfd_, cancel_rfd_, reader, reported>>
  BY DEF Signal, EnterIoctl, Reopen, kernel, main, thread
<1>2. QED
  BY <1>1 DEF AisInv, AisTyped, ProbePlace, DescriptorPlace, InstancePlace, Starting, Removing

-----------------------------------------------------------------------------
\* What the XNACK monitor has, by how far main has come: the child is waited for
\* as long as bpftrace_pid_ is set, and the pid is forgotten only when it is
\* reaped.
XnackInv ==
    /\ x_pc \in {"pipe", "fork", "parent", "running", "failed", "terminate",
                 "poll", "kill", "reap", "join", "stopped"}
    /\ x_bpftrace_pid_ \in BOOLEAN
    /\ x_pc \in {"pipe", "fork", "failed"} => x_child = "none"
    /\ x_pc \in {"pipe", "fork", "parent", "failed"} =>
         x_reader = "none" /\ ~x_bpftrace_pid_
    /\ x_pc \in {"running", "terminate", "poll", "kill", "reap"} => x_bpftrace_pid_
    /\ x_pc \in {"join", "stopped"} =>
         ~x_bpftrace_pid_ /\ x_child \in {"none", "reaped"}
    /\ x_pc = "stopped" => x_reader \in {"none", "joined"}

\* Every step of the XNACK monitor keeps that.
LEMMA XnackStep ==
    XnackInv /\ (Xnack!Main \/ Xnack!Stop \/ Xnack!Child \/ Xnack!ReadLoop)
        => XnackInv'
<1> SUFFICES ASSUME XnackInv,
                    Xnack!Main \/ Xnack!Stop \/ Xnack!Child \/ Xnack!ReadLoop
             PROVE  XnackInv'
  OBVIOUS
<1> USE DEF XnackInv
<1>1. CASE Xnack!Child
  <2>1. /\ x_child \notin {"none", "reaped"}
        /\ UNCHANGED <<x_pc, x_bpftrace_pid_, x_reader>>
    BY <1>1 DEF Xnack!Child, Xnack!WriteScript, Xnack!CloseScript,
         Xnack!UnlinkScript, Xnack!Exec, Xnack!OpenScript, Xnack!main
  <2>2. QED
    BY <2>1
<1>2. CASE Xnack!ReadLoop
  BY <1>2 DEF Xnack!ReadLoop, Xnack!OpenStream, Xnack!EndOfFile, Xnack!main
<1>3. CASE Xnack!Stop
  BY <1>3 DEF Xnack!Stop
<1>4. CASE Xnack!MakePipe
  BY <1>4 DEF Xnack!MakePipe
<1>5. CASE Xnack!Fork
  BY <1>5 DEF Xnack!Fork
<1>6. CASE Xnack!Parent
  BY <1>6 DEF Xnack!Parent
<1>7. CASE Xnack!Terminate
  BY <1>7 DEF Xnack!Terminate
<1>8. CASE Xnack!PollChild
  BY <1>8 DEF Xnack!PollChild
<1>9. CASE Xnack!Kill
  BY <1>9 DEF Xnack!Kill
<1>10. CASE Xnack!Reap
  BY <1>10 DEF Xnack!Reap
<1>11. CASE Xnack!Join
  BY <1>11 DEF Xnack!Join
<1>12. QED
  BY <1>1, <1>2, <1>3, <1>4, <1>5, <1>6, <1>7, <1>8, <1>9, <1>10, <1>11
     DEF Xnack!Main
-----------------------------------------------------------------------------
\* How far main has come says which monitor it can be working on.  The reader of
\* the AIS monitor is joined before the output is made, and nothing starts it
\* again: the second Stop, in the destructor, only stops.
OrderInv ==
    /\ at \in {"start ais", "start xnack", "loop", "stop ais", "stop xnack",
               "output", "destroy xnack", "destroy ais", "exit"}
    /\ ais_monitor \in BOOLEAN /\ xnack_monitor \in BOOLEAN
    /\ at = "start ais" => pc \notin {"running", "asked", "stopped"}
    /\ at # "start ais" =>
         /\ pc \notin Starting \cup {"failed"}
         /\ pc \in Removing => caller = "Stop"
         /\ ais_monitor \/ pc = "stopped"
    /\ at \notin {"start ais", "start xnack"} => xnack_monitor \/ x_pc = "stopped"
    /\ at \in {"stop xnack", "output", "exit"} => pc = "stopped"
    /\ at \in {"destroy ais", "exit"} => x_pc = "stopped"
    /\ written # NotWritten => at \in {"destroy xnack", "destroy ais", "exit"}
    /\ at \in {"stop xnack", "output"} \/ written # NotWritten =>
         reader \in {"none", "joined"}

MonitorsInv == AisInv /\ XnackInv /\ OrderInv /\ OutputHasEveryReport

\* The main thread reports nothing, and once it is past Start it neither goes
\* back there nor brings a joined reader to life.
LEMMA MainPath ==
    AisInv /\ Main =>
        /\ reported' = reported /\ pc' # "asked"
        /\ pc \notin Starting \cup {"failed"} /\ (pc \in Removing => caller = "Stop")
             => /\ pc' \notin Starting \cup {"failed"}
                /\ pc' \in Removing => caller' = "Stop"
        /\ pc \notin Starting /\ reader \in {"none", "joined"} => reader' = reader
<1> SUFFICES ASSUME AisInv, Main
             PROVE  /\ reported' = reported /\ pc' # "asked"
                    /\ pc \notin Starting \cup {"failed"}
                         /\ (pc \in Removing => caller = "Stop")
                         => /\ pc' \notin Starting \cup {"failed"}
                            /\ pc' \in Removing => caller' = "Stop"
                    /\ pc \notin Starting /\ reader \in {"none", "joined"}
                         => reader' = reader
  OBVIOUS
<1>1. AisTyped
  BY DEF AisInv
<1>2. CASE Start
  BY <1>2 DEF Start, Mkdir, Define, Enable, OpenPipe, OpenCancel, thread, Starting
<1>3. CASE RemoveKprobes
  BY <1>1, <1>3 DEF RemoveKprobes, Disable, Undefine, Rmdir, AfterRemove, thread,
     Starting, Removing, AisTyped
<1>4. CASE Stopping
  BY <1>4 DEF Stopping, Stop, Wake, ClosePipe, CloseCancel, Join, thread, Starting,
     Removing
<1>5. QED
  BY <1>2, <1>3, <1>4 DEF Main

LEMMA MonitorsInvInit == MonitorsInit => MonitorsInv
BY DEF MonitorsInit, MonitorsInv, Init, Xnack!Init, AisInv, AisTyped, ProbePlace,
       DescriptorPlace, InstancePlace, XnackInv, OrderInv, OutputHasEveryReport, Starting, Removing

\* One call of AisMonitor::Stop, from main or from the destructor.
LEMMA AisStopsStep ==
    ASSUME MonitorsInv, NEW stage, NEW next, AisStops(stage, next),
           <<stage, next>> \in {<<"stop ais", "stop xnack">>, <<"destroy ais", "exit">>}
    PROVE  MonitorsInv'
<1>1. /\ at = stage /\ at # "start ais"
      /\ UNCHANGED <<x_pc, x_bpftrace_pid_, x_reader, x_child>>
      /\ UNCHANGED <<ais_monitor, xnack_monitor, sink, written>>
  BY DEF AisStops, xnack
<1>2. XnackInv'
  BY <1>1 DEF MonitorsInv, XnackInv
<1>3. CASE ais_monitor /\ Main /\ at' = IF pc' = "stopped" THEN next ELSE at
  <2>1. AisInv'
    BY <1>3, AisMainStep DEF MonitorsInv
  <2>2. /\ reported' = reported
        /\ pc' \notin Starting \cup {"failed"}
        /\ pc' \in Removing => caller' = "Stop"
        /\ reader \in {"none", "joined"} => reader' = reader
    BY <1>1, <1>3, MainPath DEF MonitorsInv, OrderInv
  <2>3. pc' = "stopped" => reader' \in {"none", "joined"}
    BY <2>1 DEF AisInv, DescriptorPlace
  <2>4. OrderInv'
    <3>1. CASE stage = "stop ais" /\ next = "stop xnack"
      BY <1>1, <1>3, <2>2, <2>3, <3>1 DEF MonitorsInv, OrderInv
    <3>2. CASE stage = "destroy ais" /\ next = "exit"
      BY <1>1, <1>3, <2>2, <2>3, <3>2 DEF MonitorsInv, OrderInv
    <3>3. QED
      BY <3>1, <3>2
  <2>5. OutputHasEveryReport'
    BY <1>1, <2>2 DEF MonitorsInv, OutputHasEveryReport, NotWritten
  <2>6. QED
    BY <1>2, <2>1, <2>4, <2>5 DEF MonitorsInv
<1>4. CASE ~ais_monitor /\ at' = next /\ UNCHANGED ais
  <2>1. /\ UNCHANGED <<pc, caller, reader, instance, defined, enabled, probe_entry_, instance_,
                       trace_pipe_fd_, cancel_wfd_, cancel_rfd_, reported>>
        /\ pc = "stopped" /\ at' = next
    BY <1>1, <1>4 DEF MonitorsInv, OrderInv, ais, kernel, main, thread
  <2>2. AisInv' /\ OutputHasEveryReport'
    BY <1>1, <2>1, AisStutter DEF MonitorsInv, OutputHasEveryReport, NotWritten
  <2>3. reader \in {"none", "joined"}
    BY <2>1 DEF MonitorsInv, AisInv, DescriptorPlace
  <2>4. OrderInv'
    BY <1>1, <2>1, <2>3 DEF MonitorsInv, OrderInv
  <2>5. QED
    BY <1>2, <2>2, <2>4 DEF MonitorsInv
<1>5. QED
  BY <1>3, <1>4 DEF AisStops

\* One call of XnackMonitor::Stop, from main or from the destructor.
LEMMA XnackStopsStep ==
    ASSUME MonitorsInv, NEW stage, NEW next, XnackStops(stage, next),
           <<stage, next>> \in {<<"stop xnack", "output">>,
                                <<"destroy xnack", "destroy ais">>}
    PROVE  MonitorsInv'
<1>1. /\ at = stage
      /\ UNCHANGED <<pc, caller, reader, instance, defined, enabled, probe_entry_, instance_,
                     trace_pipe_fd_, cancel_wfd_, cancel_rfd_, reported>>
      /\ UNCHANGED <<ais_monitor, xnack_monitor, sink, written>>
  BY DEF XnackStops, ais, kernel, main, thread
<1>2. AisInv' /\ OutputHasEveryReport'
  BY <1>1, AisStutter DEF MonitorsInv, OutputHasEveryReport, NotWritten
<1>3. XnackInv' /\ (at' = at \/ (at' = next /\ x_pc' = "stopped"))
  <2>1. CASE xnack_monitor /\ (Xnack!Main \/ Xnack!Stop)
             /\ at' = IF x_pc' = "stopped" THEN next ELSE at
    BY <2>1, XnackStep DEF MonitorsInv
  <2>2. CASE ~xnack_monitor /\ at' = next /\ UNCHANGED xnack
    BY <1>1, <2>2 DEF MonitorsInv, OrderInv, XnackInv, xnack
  <2>3. QED
    BY <2>1, <2>2 DEF XnackStops
<1>4. xnack_monitor \/ x_pc' = "stopped"
  BY <1>1 DEF XnackStops, xnack, MonitorsInv, OrderInv
<1>5. OrderInv'
  <2>1. CASE stage = "stop xnack" /\ next = "output"
    BY <1>1, <1>3, <1>4, <2>1 DEF MonitorsInv, OrderInv, NotWritten
  <2>2. CASE stage = "destroy xnack" /\ next = "destroy ais"
    BY <1>1, <1>3, <1>4, <2>2 DEF MonitorsInv, OrderInv, NotWritten
  <2>3. QED
    BY <2>1, <2>2
<1>6. QED
  BY <1>2, <1>3, <1>5 DEF MonitorsInv

LEMMA MonitorsInvStep == MonitorsInv /\ [MonitorsNext]_allvars => MonitorsInv'
<1> SUFFICES ASSUME MonitorsInv, [MonitorsNext]_allvars PROVE MonitorsInv'
  OBVIOUS
<1> DEFINE AisSame == UNCHANGED <<pc, caller, reader, instance, defined, enabled, probe_entry_,
                                  instance_, trace_pipe_fd_, cancel_wfd_, cancel_rfd_>>
<1> DEFINE XnackSame == UNCHANGED <<x_pc, x_bpftrace_pid_, x_reader, x_child>>
<1>a. ASSUME AisSame PROVE AisInv'
  BY <1>a, AisStutter DEF MonitorsInv
<1>b. ASSUME XnackSame PROVE XnackInv'
  BY <1>b DEF MonitorsInv, XnackInv
<1>c. UNCHANGED ais => AisSame /\ UNCHANGED reported
  BY DEF ais, kernel, main, thread
<1>d. UNCHANGED xnack => XnackSame
  BY DEF xnack
<1>e. ASSUME UNCHANGED <<sink, written, reported>> PROVE OutputHasEveryReport'
  BY <1>e DEF MonitorsInv, OutputHasEveryReport, NotWritten
<1> HIDE DEF AisSame, XnackSame
<1>1. CASE StartAis
  <2>1. /\ at = "start ais" /\ Main /\ XnackSame
        /\ at' = IF pc' \in {"running", "stopped"} THEN "start xnack" ELSE at
        /\ ais_monitor' = (pc' = "running")
        /\ UNCHANGED <<x_pc, xnack_monitor, sink, written>>
    BY <1>1, <1>d DEF StartAis, xnack
  <2>2. AisInv' /\ reported' = reported /\ pc' # "asked"
    BY <2>1, AisMainStep, MainPath DEF MonitorsInv
  <2>3. ais_monitor' \in BOOLEAN /\ (pc' = "running" => ais_monitor')
    BY <2>1
  <2>4. OrderInv'
    BY <2>1, <2>2, <2>3 DEF MonitorsInv, OrderInv, NotWritten, Starting, Removing
  <2>5. QED
    BY <1>b, <1>e, <2>1, <2>2, <2>4 DEF MonitorsInv
<1>2. CASE StartXnack
  <2>1. /\ at = "start xnack" /\ AisSame /\ (Xnack!Main \/ Xnack!Stop)
        /\ at' = IF x_pc' \in {"running", "stopped"} THEN "loop" ELSE at
        /\ xnack_monitor' = (x_pc' = "running")
        /\ UNCHANGED <<pc, caller, reader, reported, ais_monitor, sink, written>>
    BY <1>2, <1>c DEF StartXnack, ais, main, thread
  <2>2. XnackInv'
    BY <2>1, XnackStep DEF MonitorsInv
  <2>3. xnack_monitor' \in BOOLEAN /\ (x_pc' = "running" => xnack_monitor')
    BY <2>1
  <2>4. OrderInv'
    BY <2>1, <2>3 DEF MonitorsInv, OrderInv, NotWritten
  <2>5. QED
    BY <1>a, <1>e, <2>1, <2>2, <2>4 DEF MonitorsInv
<1>3. CASE AisStops("stop ais", "stop xnack")
  BY <1>3, AisStopsStep
<1>4. CASE XnackStops("stop xnack", "output")
  BY <1>4, XnackStopsStep
<1>5. CASE WriteOutput
  <2>1. /\ at = "output" /\ at' = "destroy xnack"
        /\ written' \in {IF sink' = "dropped" THEN <<>> ELSE reported, NotWritten}
        /\ AisSame /\ XnackSame /\ UNCHANGED <<pc, caller, reader, reported, x_pc>>
        /\ UNCHANGED <<ais_monitor, xnack_monitor>>
    BY <1>5, <1>c, <1>d DEF WriteOutput, ais, main, thread, xnack
  <2>2. OrderInv'
    BY <2>1 DEF MonitorsInv, OrderInv, NotWritten
  <2>3. OutputHasEveryReport'
    BY <2>1 DEF OutputHasEveryReport
  <2>4. QED
    BY <1>a, <1>b, <2>1, <2>2, <2>3 DEF MonitorsInv
<1>6. CASE XnackStops("destroy xnack", "destroy ais")
  BY <1>6, XnackStopsStep
<1>7. CASE AisStops("destroy ais", "exit")
  BY <1>7, AisStopsStep
<1>8. CASE LeaveLoop
  <2>1. /\ at = "loop" /\ at' \in {"stop ais", "destroy xnack"}
        /\ AisSame /\ XnackSame /\ UNCHANGED <<pc, caller, reader, reported, x_pc>>
        /\ UNCHANGED <<ais_monitor, xnack_monitor, sink, written>>
    BY <1>8, <1>c, <1>d DEF LeaveLoop, ais, main, thread, xnack
  <2>2. OrderInv'
    BY <2>1 DEF MonitorsInv, OrderInv, NotWritten
  <2>3. QED
    BY <1>a, <1>b, <1>e, <2>1, <2>2 DEF MonitorsInv
<1>9. CASE Outside
  <2>1. /\ Signal \/ EnterIoctl \/ Reopen
        /\ XnackSame /\ UNCHANGED <<x_pc, at, ais_monitor, xnack_monitor, sink, written>>
    BY <1>9, <1>d DEF Outside, xnack, order
  <2>2. AisInv' /\ UNCHANGED <<reader, reported, caller>>
    BY <2>1, AisOutsideStep DEF MonitorsInv
  <2>3. pc' = pc \/ (pc = "running" /\ pc' = "asked")
    BY <2>1 DEF Signal, EnterIoctl, Reopen, main
  <2>4. OrderInv'
    BY <2>1, <2>2, <2>3 DEF MonitorsInv, OrderInv, NotWritten, Starting, Removing
  <2>5. QED
    BY <1>b, <1>e, <2>1, <2>2, <2>4 DEF MonitorsInv
<1>10. CASE AisReader
  <2>1. /\ ReadLoop /\ XnackSame
        /\ UNCHANGED <<x_pc, at, ais_monitor, xnack_monitor, sink, written>>
    BY <1>10, <1>d DEF AisReader, xnack, order
  <2>2. /\ AisInv' /\ UNCHANGED <<pc, caller>>
        /\ reader \notin {"none", "joined"}
    BY <2>1, AisReaderStep DEF MonitorsInv
  <2>3. written = NotWritten /\ at \notin {"stop xnack", "output"}
    BY <2>2 DEF MonitorsInv, OrderInv
  <2>4. OrderInv'
    BY <2>1, <2>2, <2>3 DEF MonitorsInv, OrderInv, NotWritten
  <2>5. OutputHasEveryReport'
    BY <2>1, <2>3 DEF OutputHasEveryReport, NotWritten
  <2>6. QED
    BY <1>b, <2>1, <2>2, <2>4, <2>5 DEF MonitorsInv
<1>11. CASE XnackReader \/ XnackChild
  <2>1. /\ Xnack!Child \/ Xnack!ReadLoop
        /\ AisSame /\ UNCHANGED <<pc, caller, reader, reported>>
        /\ UNCHANGED <<at, ais_monitor, xnack_monitor, sink, written>>
    BY <1>11, <1>c DEF XnackReader, XnackChild, order, ais, main, thread
  <2>2. XnackInv'
    BY <2>1, XnackStep DEF MonitorsInv
  <2>3. x_pc' = x_pc
    BY <2>1 DEF Xnack!Child, Xnack!WriteScript, Xnack!CloseScript, Xnack!UnlinkScript,
       Xnack!Exec, Xnack!OpenScript, Xnack!ReadLoop, Xnack!OpenStream,
       Xnack!EndOfFile, Xnack!main
  <2>4. OrderInv'
    BY <2>1, <2>3 DEF MonitorsInv, OrderInv, NotWritten
  <2>5. QED
    BY <1>a, <1>e, <2>1, <2>2, <2>4 DEF MonitorsInv
<1>12. CASE UNCHANGED allvars
  <2>1. /\ AisSame /\ XnackSame /\ UNCHANGED <<pc, caller, reader, reported, x_pc>>
        /\ UNCHANGED <<at, ais_monitor, xnack_monitor, sink, written>>
    BY <1>12, <1>c, <1>d DEF allvars, ais, main, thread, xnack, order
  <2>2. OrderInv'
    BY <2>1 DEF MonitorsInv, OrderInv, NotWritten
  <2>3. QED
    BY <1>a, <1>b, <1>e, <2>1, <2>2 DEF MonitorsInv
<1>13. QED
  BY <1>1, <1>2, <1>3, <1>4, <1>5, <1>6, <1>7, <1>8, <1>9, <1>10, <1>11, <1>12
     DEF MonitorsNext, MainThread, StoppingMonitors, Destroying

LEMMA MonitorsInvariance == MonitorsSpec => []MonitorsInv
BY MonitorsInvInit, MonitorsInvStep, PTL DEF MonitorsSpec

\* main() and the two destructors: however main returns, and wherever a Start
\* failed, the probe is gone, the descriptors are closed, the child is reaped and no
\* reader thread lives, nor is the tracefs instance left of an AIS monitor that never
\* ran (one that ran leaves it).
THEOREM MainLeavesNothing == MonitorsSpec => []NothingLeft
<1>1. MonitorsInv => NothingLeft
  BY DEF MonitorsInv, AisInv, AisTyped, ProbePlace, DescriptorPlace, InstancePlace,
     XnackInv, OrderInv, NothingLeft, StoppedClean, Xnack!StoppedClean, Starting, Removing
<1>2. QED
  BY <1>1, MonitorsInvariance, PTL

\* main() makes the snapshot or the trace file only when AisMonitor::Stop has
\* joined the reader thread: no record comes after it, and the output has them all
\* unless it is --all mode, whose sink drops them.
THEOREM OutputIsComplete == MonitorsSpec => []OutputHasEveryReport
<1>1. MonitorsInv => OutputHasEveryReport
  BY DEF MonitorsInv
<1>2. QED
  BY <1>1, MonitorsInvariance, PTL

-----------------------------------------------------------------------------
\* What is on its way from the probe to the sink: the pieces read and not yet
\* consumed, then those still in trace_pipe.
InFlight(i) == IF i <= Len(partial) THEN partial[i] ELSE pipe[i - Len(partial)]

Pieces == Seq(Nat \X {1, 2})

StreamTyped ==
    /\ entered \in Nat /\ moved \in BOOLEAN /\ running_ \in BOOLEAN
    /\ pipe \in Pieces /\ partial \in Pieces
    /\ fired \in Seq(Nat)
    /\ reported \in Seq([call : Nat, device : PciDevices \cup {Unknown, NotCached}])
    /\ cache \in PciDevices \cup {Unknown, NotCached}

\* As long as the reader has not given up, two pieces are in flight for each call
\* that has fired and is not reported, in the order of the calls.  A line that is
\* dropped breaks this; but then running_ is FALSE, and stays so.
StreamInv ==
    running_ \/ reader = "none" =>
        /\ Len(partial) + Len(pipe) = 2 * (Len(fired) - Len(reported))
        /\ \A k \in 1 .. (Len(fired) - Len(reported)) :
              InFlight(2 * k)[1] = fired[Len(reported) + k]

CallInv ==
    /\ Len(reported) <= Len(fired)
    /\ \A i \in DOMAIN reported : reported[i].call = fired[i]

DeviceOf(f) == IF f.on \in PciDevices THEN f.on ELSE Unknown

DeviceInv ==
    ~moved =>
        /\ file \in Files
        /\ cache \in {NotCached, DeviceOf(file)}
        /\ \A i \in DOMAIN reported : reported[i].device = DeviceOf(file)

ReportInv == AisInv /\ StreamTyped /\ StreamInv /\ CallInv /\ DeviceInv

LEMMA ReportInvInit == Init => ReportInv
<1> SUFFICES ASSUME Init PROVE ReportInv
  OBVIOUS
<1>1. AisInv
  BY DEF Init, AisInv, AisTyped, ProbePlace, DescriptorPlace, InstancePlace, Starting, Removing
<1>2. StreamTyped
  <2>1. \A S : <<>> \in Seq(S)
    OBVIOUS
  <2>2. QED
    BY <2>1 DEF Init, StreamTyped, Pieces
<1>3. StreamInv /\ CallInv /\ DeviceInv
  BY DEF Init, StreamInv, CallInv, DeviceInv
<1>4. QED
  BY <1>1, <1>2, <1>3 DEF ReportInv

\* ParseLine takes its call's line off the front of what is in flight and looks the
\* device up; Stop may have come in between, and then the line is dropped.
LEMMA LineReportsRight == ReportInv /\ Line => StreamTyped' /\ StreamInv' /\ CallInv' /\ DeviceInv'
<1> SUFFICES ASSUME ReportInv, Line
             PROVE  StreamTyped' /\ StreamInv' /\ CallInv' /\ DeviceInv'
  OBVIOUS
<1>1. /\ reader = "lines" /\ Len(partial) >= 2
      /\ partial' = SubSeq(partial, 3, Len(partial))
      /\ UNCHANGED <<entered, file, moved, pipe, fired, running_>>
  BY DEF Line, SharedByReader, kernel
<1>2. /\ partial' \in Pieces /\ Len(partial') = Len(partial) - 2
      /\ \A i \in 1 .. Len(partial) - 2 : partial'[i] = partial[i + 2]
  <2>1. /\ Len(partial) \in Nat
        /\ \A i \in 1 .. Len(partial) : partial[i] \in Nat \X {1, 2}
    BY DEF ReportInv, StreamTyped, Pieces
  <2>2. /\ SubSeq(partial, 3, Len(partial)) \in Pieces
        /\ Len(SubSeq(partial, 3, Len(partial))) =
              IF 3 <= Len(partial) THEN Len(partial) - 3 + 1 ELSE 0
        /\ \A i \in 1 .. Len(partial) - 3 + 1 :
              SubSeq(partial, 3, Len(partial))[i] = partial[3 + i - 1]
    BY <2>1, SubSeqProperties DEF Pieces
  <2> DEFINE n == Len(partial)
  <2>3. Len(partial') = n - 2
    <3>1. Len(partial') = IF 3 <= n THEN n - 3 + 1 ELSE 0
      BY <1>1, <2>2
    <3>2. n \in Nat /\ n >= 2
      BY <1>1, <2>1
    <3> HIDE DEF n
    <3>3. QED
      BY <3>1, <3>2
  <2>4. ASSUME NEW i \in 1 .. n - 2 PROVE partial'[i] = partial[i + 2]
    <3>1. n \in Nat
      BY <2>1
    <3>2. i \in 1 .. n - 3 + 1 /\ 3 + i - 1 = i + 2
      <4> HIDE DEF n
      <4>1. QED
        BY <3>1
    <3>3. QED
      BY <1>1, <2>2, <3>2
  <2>5. QED
    BY <1>1, <2>2, <2>3, <2>4
<1>3. CASE ~running_
  <2>1. UNCHANGED <<cache, reported>> /\ reader' = "loop"
    BY <1>3 DEF Line
  <2>2. StreamTyped'
    BY <1>1, <1>2, <2>1 DEF ReportInv, StreamTyped
  <2>3. StreamInv'
    BY <1>1, <1>3, <2>1 DEF StreamInv
  <2>4. CallInv' /\ DeviceInv'
    BY <1>1, <2>1 DEF ReportInv, CallInv, DeviceInv
  <2>5. QED
    BY <2>2, <2>3, <2>4
<1>4. CASE running_
  <2>1. /\ cache' = IF cache # NotCached THEN cache ELSE ResolvePcieDeviceInfo(file)
        /\ reported' = Append(reported, [call |-> partial[2][1], device |-> cache'])
        /\ reader' = "lines"
    BY <1>4 DEF Line
  <2>2. cache' \in PciDevices \cup {Unknown, NotCached}
    BY <2>1 DEF ResolvePcieDeviceInfo, ReportInv, StreamTyped
  <2>3. partial[2] \in Nat \X {1, 2}
    BY <1>1 DEF ReportInv, StreamTyped, Pieces
  <2>4. [call |-> partial[2][1], device |-> cache'] \in
            [call : Nat, device : PciDevices \cup {Unknown, NotCached}]
    BY <2>2, <2>3
  <2>5. /\ reported' \in Seq([call : Nat, device : PciDevices \cup {Unknown, NotCached}])
        /\ Len(reported') = Len(reported) + 1
        /\ Len(reported) \in Nat
        /\ \A i \in 1 .. Len(reported) : reported'[i] = reported[i]
        /\ reported'[Len(reported) + 1] = [call |-> partial[2][1], device |-> cache']
        /\ DOMAIN reported = 1 .. Len(reported)
        /\ DOMAIN reported' = 1 .. Len(reported) + 1
    BY <2>1, <2>4 DEF ReportInv, StreamTyped
  <2>6. /\ Len(fired) \in Nat /\ Len(partial) \in Nat /\ Len(pipe) \in Nat
    BY DEF ReportInv, StreamTyped, Pieces
  <2>7. /\ Len(partial) + Len(pipe) = 2 * (Len(fired) - Len(reported))
        /\ \A k \in 1 .. (Len(fired) - Len(reported)) :
              InFlight(2 * k)[1] = fired[Len(reported) + k]
    BY <1>4 DEF ReportInv, StreamInv
  <2>8. Len(fired) - Len(reported) >= 1
    BY <1>1, <2>5, <2>6, <2>7
  <2>9. partial[2][1] = fired[Len(reported) + 1]
    <3>1. InFlight(2) = partial[2]
      BY <1>1 DEF InFlight
    <3>2. InFlight(2 * 1)[1] = fired[Len(reported) + 1]
      BY <2>5, <2>6, <2>7, <2>8
    <3>3. QED
      BY <3>1, <3>2
  <2>10. StreamTyped'
    BY <1>1, <1>2, <2>2, <2>5 DEF ReportInv, StreamTyped
  <2>11. StreamInv'
    <3>1. Len(partial') + Len(pipe') = 2 * (Len(fired') - Len(reported'))
      BY <1>1, <1>2, <2>5, <2>6, <2>7
    <3>2. ASSUME NEW k \in 1 .. (Len(fired') - Len(reported'))
          PROVE  InFlight(2 * k)'[1] = fired'[Len(reported') + k]
      <4>1. k + 1 \in 1 .. (Len(fired) - Len(reported)) /\ k \in Nat
        BY <1>1, <2>5, <2>6
      <4>2. InFlight(2 * (k + 1))[1] = fired[Len(reported) + (k + 1)]
        BY <2>7, <4>1
      <4>3. InFlight(2 * k)' = InFlight(2 * (k + 1))
        <5>1. CASE 2 * k <= Len(partial) - 2
          <6>1. 2 * k \in 1 .. Len(partial) - 2 /\ 2 * k + 2 = 2 * (k + 1)
            BY <2>6, <4>1, <5>1
          <6>2. partial'[2 * k] = partial[2 * (k + 1)]
            BY <1>2, <6>1
          <6>3. 2 * k <= Len(partial') /\ 2 * (k + 1) <= Len(partial)
            BY <1>2, <2>6, <5>1, <6>1
          <6>4. QED
            BY <6>2, <6>3 DEF InFlight
        <5>2. CASE ~(2 * k <= Len(partial) - 2)
          <6>1. 2 * k - (Len(partial) - 2) = 2 * (k + 1) - Len(partial)
            BY <2>6, <4>1
          <6>2. ~(2 * k <= Len(partial')) /\ ~(2 * (k + 1) <= Len(partial))
            BY <1>2, <2>6, <4>1, <5>2
          <6>3. pipe'[2 * k - Len(partial')] = pipe[2 * (k + 1) - Len(partial)]
            BY <1>1, <1>2, <6>1
          <6>4. QED
            BY <6>2, <6>3 DEF InFlight
        <5>3. QED
          BY <5>1, <5>2
      <4>4. Len(reported') + k = Len(reported) + (k + 1)
        BY <2>5, <4>1
      <4>5. QED
        BY <1>1, <4>2, <4>3, <4>4
    <3>3. QED
      BY <3>1, <3>2 DEF StreamInv
  <2>12. CallInv'
    <3>1. Len(reported') <= Len(fired')
      BY <1>1, <2>5, <2>6, <2>8
    <3>2. ASSUME NEW i \in DOMAIN reported' PROVE reported'[i].call = fired'[i]
      <4>1. CASE i \in 1 .. Len(reported)
        BY <1>1, <2>5, <4>1 DEF ReportInv, CallInv
      <4>2. CASE i = Len(reported) + 1
        BY <1>1, <2>5, <2>9, <4>2
      <4>3. QED
        BY <2>5, <4>1, <4>2
    <3>3. QED
      BY <3>1, <3>2 DEF CallInv
  <2>13. DeviceInv'
    <3> SUFFICES ASSUME ~moved'
                 PROVE  /\ file' \in Files
                        /\ cache' \in {NotCached, DeviceOf(file')}
                        /\ \A i \in DOMAIN reported' :
                              reported'[i].device = DeviceOf(file')
      BY DEF DeviceInv, DeviceOf
    <3>1. /\ file' = file /\ file \in Files
          /\ cache \in {NotCached, DeviceOf(file)}
          /\ \A i \in DOMAIN reported : reported[i].device = DeviceOf(file)
      BY <1>1 DEF ReportInv, DeviceInv
    <3>2. ResolvePcieDeviceInfo(file) = DeviceOf(file)
      BY <3>1, FilesAssumption DEF ResolvePcieDeviceInfo, DeviceOf
    <3>3. cache' = DeviceOf(file)
      BY <2>1, <3>1, <3>2
    <3>4. \A i \in DOMAIN reported' : reported'[i].device = DeviceOf(file)
      <4> SUFFICES ASSUME NEW i \in DOMAIN reported'
                   PROVE  reported'[i].device = DeviceOf(file)
        OBVIOUS
      <4>1. CASE i \in 1 .. Len(reported)
        BY <2>5, <3>1, <4>1
      <4>2. CASE i = Len(reported) + 1
        BY <2>5, <3>3, <4>2
      <4>3. QED
        BY <2>5, <4>1, <4>2
    <3>5. QED
      BY <3>1, <3>3, <3>4
  <2>14. QED
    BY <2>10, <2>11, <2>12, <2>13
<1>5. QED
  BY <1>3, <1>4

\* The probe fires: a line of two pieces is added at the end.
LEMMA IoctlKeepsOrder ==
    ReportInv /\ EnterIoctl => StreamTyped' /\ StreamInv' /\ CallInv' /\ DeviceInv'
<1> SUFFICES ASSUME ReportInv, EnterIoctl
             PROVE  StreamTyped' /\ StreamInv' /\ CallInv' /\ DeviceInv'
  OBVIOUS
<1>1. /\ entered' = entered + 1
      /\ UNCHANGED <<file, moved, running_, reader, partial, cache, reported>>
  BY DEF EnterIoctl, main, thread
<1>2. DeviceInv'
  BY <1>1 DEF ReportInv, DeviceInv
<1>3. /\ entered' \in Nat /\ Len(fired) \in Nat /\ Len(reported) \in Nat
      /\ Len(partial) \in Nat /\ Len(pipe) \in Nat
      /\ DOMAIN reported = 1 .. Len(reported)
  BY <1>1 DEF ReportInv, StreamTyped, Pieces
<1>4. CASE ~enabled
  <2>1. UNCHANGED <<pipe, fired>>
    BY <1>4 DEF EnterIoctl
  <2>2. StreamTyped'
    BY <1>1, <1>3, <2>1 DEF ReportInv, StreamTyped
  <2>3. StreamInv'
    BY <1>1, <2>1 DEF ReportInv, StreamInv, InFlight
  <2>4. CallInv'
    BY <1>1, <2>1 DEF ReportInv, CallInv
  <2>5. QED
    BY <1>2, <2>2, <2>3, <2>4
<1>5. CASE enabled
  <2> DEFINE line == << <<entered', 1>>, <<entered', 2>> >>
  <2>1. pipe' = pipe \o line /\ fired' = Append(fired, entered')
    BY <1>5 DEF EnterIoctl
  <2>2. line \in Pieces /\ Len(line) = 2 /\ line[2] = <<entered', 2>>
    BY <1>3 DEF Pieces
  <2>3. /\ fired' \in Seq(Nat) /\ Len(fired') = Len(fired) + 1
        /\ \A i \in 1 .. Len(fired) : fired'[i] = fired[i]
        /\ fired'[Len(fired) + 1] = entered'
    BY <1>3, <2>1 DEF ReportInv, StreamTyped
  <2> HIDE DEF line
  <2>4. /\ pipe' \in Pieces /\ Len(pipe') = Len(pipe) + 2
        /\ \A i \in 1 .. Len(pipe) + 2 :
              pipe'[i] = IF i <= Len(pipe) THEN pipe[i] ELSE line[i - Len(pipe)]
    <3>1. pipe \in Pieces
      BY DEF ReportInv, StreamTyped
    <3>2. /\ pipe \o line \in Pieces /\ Len(pipe \o line) = Len(pipe) + Len(line)
          /\ \A i \in 1 .. Len(pipe) + Len(line) :
                (pipe \o line)[i] = IF i <= Len(pipe) THEN pipe[i] ELSE line[i - Len(pipe)]
      BY <2>2, <3>1, ConcatProperties DEF Pieces
    <3>3. QED
      BY <2>1, <2>2, <3>2
  <2>5. StreamTyped'
    BY <1>1, <1>3, <2>3, <2>4 DEF ReportInv, StreamTyped
  <2>6. CallInv'
    <3>1. /\ Len(reported) <= Len(fired)
          /\ \A i \in 1 .. Len(reported) : reported[i].call = fired[i]
      BY <1>3 DEF ReportInv, CallInv
    <3>2. Len(reported') <= Len(fired')
      BY <1>1, <1>3, <2>3, <3>1
    <3>3. ASSUME NEW i \in DOMAIN reported' PROVE reported'[i].call = fired'[i]
      <4>1. i \in 1 .. Len(reported) /\ i \in 1 .. Len(fired)
        BY <1>1, <1>3, <3>1
      <4>2. QED
        BY <1>1, <2>3, <3>1, <4>1
    <3>4. QED
      BY <3>2, <3>3 DEF CallInv
  <2>7. StreamInv'
    <3> SUFFICES ASSUME running_' \/ reader' = "none"
                 PROVE  /\ Len(partial') + Len(pipe')
                              = 2 * (Len(fired') - Len(reported'))
                        /\ \A k \in 1 .. (Len(fired') - Len(reported')) :
                              InFlight(2 * k)'[1] = fired'[Len(reported') + k]
      BY DEF StreamInv
    <3>1. /\ Len(partial) + Len(pipe) = 2 * (Len(fired) - Len(reported))
          /\ \A k \in 1 .. (Len(fired) - Len(reported)) :
                InFlight(2 * k)[1] = fired[Len(reported) + k]
      BY <1>1 DEF ReportInv, StreamInv
    <3>2. Len(partial') + Len(pipe') = 2 * (Len(fired') - Len(reported'))
      <4>1. /\ Len(partial') = Len(partial) /\ Len(reported') = Len(reported)
            /\ Len(pipe') = Len(pipe) + 2 /\ Len(fired') = Len(fired) + 1
        BY <1>1, <2>3, <2>4
      <4>2. Len(partial) + Len(pipe) = 2 * (Len(fired) - Len(reported))
        BY <3>1
      <4>3. QED
        BY <1>3, <4>1, <4>2
    <3>3. ASSUME NEW k \in 1 .. (Len(fired') - Len(reported'))
          PROVE  InFlight(2 * k)'[1] = fired'[Len(reported') + k]
      <4>1. k \in Nat /\ k >= 1 /\ k <= Len(fired) + 1 - Len(reported)
        BY <1>1, <1>3, <2>3
      <4>2. CASE k <= Len(fired) - Len(reported)
        <5>1. /\ k \in 1 .. (Len(fired) - Len(reported))
              /\ Len(reported) + k \in 1 .. Len(fired)
          BY <1>3, <4>1, <4>2
        <5>2. InFlight(2 * k)' = InFlight(2 * k)
          <6>1. CASE 2 * k <= Len(partial)
            BY <1>1, <6>1 DEF InFlight
          <6>2. CASE ~(2 * k <= Len(partial))
            <7>1. 2 * k - Len(partial) \in 1 .. Len(pipe)
              BY <1>3, <3>1, <4>1, <4>2, <6>2
            <7>2. pipe'[2 * k - Len(partial)] = pipe[2 * k - Len(partial)]
              BY <1>3, <2>4, <7>1
            <7>3. QED
              BY <1>1, <6>2, <7>2 DEF InFlight
          <6>3. QED
            BY <6>1, <6>2
        <5>3. QED
          BY <1>1, <2>3, <3>1, <5>1, <5>2
      <4>3. CASE k = Len(fired) + 1 - Len(reported)
        <5>1. /\ 2 * k - Len(partial) = Len(pipe) + 2
              /\ Len(reported) + k = Len(fired) + 1
          BY <1>3, <3>1, <4>1, <4>3
        <5>2. ~(2 * k <= Len(partial))
          BY <1>3, <4>1, <5>1
        <5>3. pipe'[Len(pipe) + 2] = <<entered', 2>>
          <6>1. /\ Len(pipe) + 2 \in 1 .. Len(pipe) + 2
                /\ ~(Len(pipe) + 2 <= Len(pipe)) /\ Len(pipe) + 2 - Len(pipe) = 2
            BY <1>3
          <6>2. QED
            BY <2>2, <2>4, <6>1
        <5>4. InFlight(2 * k)' = <<entered', 2>>
          BY <1>1, <5>1, <5>2, <5>3 DEF InFlight
        <5>5. QED
          BY <1>1, <2>3, <5>1, <5>4
      <4>4. QED
        BY <1>3, <4>1, <4>2, <4>3
    <3>4. QED
      BY <3>2, <3>3
  <2>8. QED
    BY <1>2, <2>5, <2>6, <2>7
<1>6. QED
  BY <1>4, <1>5

\* read() moves pieces from the pipe to partial, cut anywhere: what is in flight
\* stays as it is.
LEMMA ReadKeepsOrder ==
    ReportInv /\ Read => StreamTyped' /\ StreamInv' /\ CallInv' /\ DeviceInv'
<1> SUFFICES ASSUME ReportInv, Read
             PROVE  StreamTyped' /\ StreamInv' /\ CallInv' /\ DeviceInv'
  OBVIOUS
<1>1. /\ reader = "read"
      /\ UNCHANGED <<entered, file, moved, fired, cache, reported>>
  BY DEF Read
<1>2. DeviceInv' /\ CallInv'
  BY <1>1 DEF ReportInv, DeviceInv, CallInv
<1>3. CASE Finish /\ UNCHANGED <<pipe, partial>>
  <2>1. running_' = FALSE /\ reader' = "ended"
    BY <1>3 DEF Finish
  <2>2. StreamTyped' /\ StreamInv'
    BY <1>1, <1>3, <2>1 DEF ReportInv, StreamTyped, StreamInv
  <2>3. QED
    BY <1>2, <2>2
<1>4. ASSUME NEW n \in 1 .. Len(pipe),
             partial' = partial \o SubSeq(pipe, 1, n),
             pipe' = SubSeq(pipe, n + 1, Len(pipe)),
             reader' = "lines", UNCHANGED running_
      PROVE  StreamTyped' /\ StreamInv'
  <2>1. /\ Len(partial) \in Nat /\ Len(pipe) \in Nat /\ n \in Nat /\ n <= Len(pipe)
        /\ \A i \in 1 .. Len(pipe) : pipe[i] \in Nat \X {1, 2}
    BY DEF ReportInv, StreamTyped, Pieces
  <2>2. /\ SubSeq(pipe, 1, n) \in Pieces /\ Len(SubSeq(pipe, 1, n)) = n
        /\ \A i \in 1 .. n : SubSeq(pipe, 1, n)[i] = pipe[i]
    <3>1. \A i \in 1 .. n : pipe[i] \in Nat \X {1, 2}
      BY <2>1
    <3>2. /\ SubSeq(pipe, 1, n) \in Seq(Nat \X {1, 2})
          /\ Len(SubSeq(pipe, 1, n)) = IF 1 <= n THEN n - 1 + 1 ELSE 0
          /\ \A i \in 1 .. n - 1 + 1 : SubSeq(pipe, 1, n)[i] = pipe[1 + i - 1]
      BY <2>1, <3>1, SubSeqProperties
    <3>3. n - 1 + 1 = n /\ \A i \in 1 .. n : 1 + i - 1 = i
      OBVIOUS
    <3>4. QED
      BY <2>1, <3>2, <3>3 DEF Pieces
  <2>3. /\ partial' \in Pieces /\ Len(partial') = Len(partial) + n
        /\ \A i \in 1 .. Len(partial) + n :
              partial'[i] = IF i <= Len(partial) THEN partial[i]
                            ELSE SubSeq(pipe, 1, n)[i - Len(partial)]
    BY <1>4, <2>2, ConcatProperties DEF ReportInv, StreamTyped, Pieces
  <2>4. /\ pipe' \in Pieces /\ Len(pipe') = Len(pipe) - n
        /\ \A i \in 1 .. Len(pipe) - n : pipe'[i] = pipe[n + i]
    <3>1. \A i \in n + 1 .. Len(pipe) : pipe[i] \in Nat \X {1, 2}
      BY <2>1
    <3>2. n + 1 \in Int /\ Len(pipe) \in Int
      BY <2>1
    <3>3. /\ pipe' \in Seq(Nat \X {1, 2})
          /\ Len(pipe') = IF n + 1 <= Len(pipe) THEN Len(pipe) - (n + 1) + 1 ELSE 0
          /\ \A i \in 1 .. Len(pipe) - (n + 1) + 1 : pipe'[i] = pipe[n + 1 + i - 1]
      BY <1>4, <3>1, <3>2, SubSeqProperties
    <3>4. /\ Len(pipe) - (n + 1) + 1 = Len(pipe) - n
          /\ \A i \in 1 .. Len(pipe) - n : n + 1 + i - 1 = n + i
          /\ ~(n + 1 <= Len(pipe)) => Len(pipe) - n = 0
      BY <2>1
    <3>5. QED
      BY <3>3, <3>4 DEF Pieces
  <2>5. StreamTyped'
    BY <1>1, <1>4, <2>3, <2>4 DEF ReportInv, StreamTyped
  <2>6. ASSUME NEW i \in 1 .. Len(partial) + Len(pipe)
        PROVE  InFlight(i)' = InFlight(i)
    <3>1. CASE i <= Len(partial)
      BY <2>1, <2>3, <3>1 DEF InFlight
    <3>2. CASE i > Len(partial) /\ i <= Len(partial) + n
      <4>1. i - Len(partial) \in 1 .. n /\ i \in 1 .. Len(partial) + n
            /\ ~(i <= Len(partial))
        BY <2>1, <3>2
      <4>2. partial'[i] = pipe[i - Len(partial)]
        BY <2>2, <2>3, <4>1
      <4>3. i <= Len(partial')
        BY <2>3, <3>2
      <4>4. QED
        BY <4>1, <4>2, <4>3 DEF InFlight
    <3>3. CASE i > Len(partial) + n
      <4>1. i - (Len(partial) + n) \in 1 .. Len(pipe) - n
            /\ n + (i - (Len(partial) + n)) = i - Len(partial)
            /\ ~(i <= Len(partial)) /\ ~(i <= Len(partial) + n)
        BY <2>1, <3>3
      <4>2. pipe'[i - (Len(partial) + n)] = pipe[i - Len(partial)]
        BY <2>4, <4>1
      <4>3. QED
        BY <2>3, <4>1, <4>2 DEF InFlight
    <3>4. QED
      BY <2>1, <3>1, <3>2, <3>3
  <2>7. StreamInv'
    <3> SUFFICES ASSUME running_' \/ reader' = "none"
                 PROVE  /\ Len(partial') + Len(pipe')
                              = 2 * (Len(fired') - Len(reported'))
                        /\ \A k \in 1 .. (Len(fired') - Len(reported')) :
                              InFlight(2 * k)'[1] = fired'[Len(reported') + k]
      BY DEF StreamInv
    <3>1. /\ Len(partial) + Len(pipe) = 2 * (Len(fired) - Len(reported))
          /\ \A k \in 1 .. (Len(fired) - Len(reported)) :
                InFlight(2 * k)[1] = fired[Len(reported) + k]
      BY <1>4 DEF ReportInv, StreamInv
    <3>2. Len(fired) \in Nat /\ Len(reported) \in Nat
      BY DEF ReportInv, StreamTyped
    <3>3. ASSUME NEW k \in 1 .. (Len(fired') - Len(reported'))
          PROVE  InFlight(2 * k)'[1] = fired'[Len(reported') + k]
      <4>1. /\ k \in 1 .. (Len(fired) - Len(reported))
            /\ 2 * k \in 1 .. Len(partial) + Len(pipe)
        BY <1>1, <2>1, <3>1, <3>2
      <4>2. QED
        BY <1>1, <2>6, <3>1, <4>1
    <3>4. Len(partial') + Len(pipe') = 2 * (Len(fired') - Len(reported'))
      <4>1. /\ Len(partial') = Len(partial) + n /\ Len(pipe') = Len(pipe) - n
            /\ Len(fired') = Len(fired) /\ Len(reported') = Len(reported)
        BY <1>1, <2>3, <2>4
      <4>2. Len(partial) + Len(pipe) = 2 * (Len(fired) - Len(reported))
        BY <3>1
      <4>3. (Len(partial) + n) + (Len(pipe) - n) = Len(partial) + Len(pipe)
        BY <2>1
      <4>4. QED
        BY <4>1, <4>2, <4>3
    <3>5. QED
      BY <3>3, <3>4
  <2>8. QED
    BY <2>5, <2>7
<1>5. QED
  BY <1>2, <1>3, <1>4 DEF Read

\* Every other step leaves what is in flight and what is reported alone, and sets
\* running_ only where the reader thread is made.
LEMMA ReportInvStep == ReportInv /\ [Next]_vars => ReportInv'
<1> SUFFICES ASSUME ReportInv, [Next]_vars PROVE ReportInv'
  OBVIOUS
<1>1. AisInv'
  <2>1. CASE Main
    BY <2>1, AisMainStep DEF ReportInv
  <2>2. CASE ReadLoop
    BY <2>2, AisReaderStep DEF ReportInv
  <2>3. CASE Signal \/ EnterIoctl \/ Reopen
    BY <2>3, AisOutsideStep DEF ReportInv
  <2>4. CASE UNCHANGED vars
    BY <2>4, AisStutter DEF ReportInv, vars, kernel, main, thread
  <2>5. QED
    BY <2>1, <2>2, <2>3, <2>4 DEF Next
<1>2. CASE Line
  BY <1>1, <1>2, LineReportsRight DEF ReportInv
<1>3. CASE Read
  BY <1>1, <1>3, ReadKeepsOrder DEF ReportInv
<1>4. CASE EnterIoctl
  BY <1>1, <1>4, IoctlKeepsOrder DEF ReportInv
<1>5. ASSUME UNCHANGED <<entered, pipe, partial, fired, reported, cache>>,
             running_' \in BOOLEAN,
             running_' \/ reader' = "none" => running_ \/ reader = "none",
             UNCHANGED <<file, moved>> \/ moved' = TRUE
      PROVE  ReportInv'
  <2>1. StreamTyped'
    BY <1>5 DEF ReportInv, StreamTyped
  <2>2. StreamInv'
    BY <1>5 DEF ReportInv, StreamInv, InFlight
  <2>3. CallInv' /\ DeviceInv'
    BY <1>5 DEF ReportInv, CallInv, DeviceInv
  <2>4. QED
    BY <1>1, <2>1, <2>2, <2>3 DEF ReportInv
<1>6. CASE Main
  <2>1. /\ UNCHANGED <<entered, pipe, partial, fired, reported, cache>>
        /\ UNCHANGED <<file, moved>>
    BY <1>6 DEF Main, Start, RemoveKprobes, Stopping, Mkdir, Define, Enable, OpenPipe,
       OpenCancel, Disable, Undefine, Rmdir, Stop, Wake, ClosePipe, CloseCancel, Join,
       kernel, thread
  <2>2. CASE OpenCancel
    <3>1. reader = "none"
      BY <2>2 DEF OpenCancel, ReportInv, AisInv, DescriptorPlace, Starting
    <3>2. running_' \in BOOLEAN
      BY <2>2 DEF OpenCancel, ReportInv, StreamTyped
    <3>3. QED
      BY <1>5, <2>1, <3>1, <3>2
  <2>3. CASE Stop
    <3>1. running_' = FALSE /\ reader' = reader
      BY <2>3 DEF Stop, thread
    <3>2. QED
      BY <1>5, <2>1, <3>1
  <2>4. CASE ~OpenCancel /\ ~Stop
    <3>1. running_' = running_ /\ (reader' = "none" => reader = "none")
      BY <1>6, <2>4 DEF Main, Start, RemoveKprobes, Stopping, Mkdir, Define, Enable,
         OpenPipe, Disable, Undefine, Rmdir, Wake, ClosePipe, CloseCancel, Join, thread
    <3>2. running_ \in BOOLEAN
      BY DEF ReportInv, StreamTyped
    <3>3. QED
      BY <1>5, <2>1, <3>1, <3>2
  <2>5. QED
    BY <2>2, <2>3, <2>4
<1>7. CASE Loop \/ PollEnds \/ PollData \/ PollTimeout \/ NoLine
  <2>1. /\ UNCHANGED <<entered, pipe, partial, fired, reported, cache>>
        /\ UNCHANGED <<file, moved>>
        /\ reader' # "none" /\ (running_' = running_ \/ running_' = FALSE)
    BY <1>7 DEF Loop, PollEnds, PollData, PollTimeout, NoLine, Finish, SharedByReader,
       kernel
  <2>2. running_ \in BOOLEAN
    BY DEF ReportInv, StreamTyped
  <2>3. CASE running_' = running_
    BY <1>5, <2>1, <2>2, <2>3
  <2>4. CASE running_' = FALSE
    BY <1>5, <2>1, <2>4
  <2>5. QED
    BY <2>1, <2>3, <2>4
<1>8. CASE Signal \/ Reopen \/ UNCHANGED vars
  <2>1. /\ UNCHANGED <<entered, pipe, partial, fired, reported, cache>>
        /\ UNCHANGED <<file, moved>> \/ moved' = TRUE
        /\ UNCHANGED <<running_, reader>>
    BY <1>8 DEF Signal, Reopen, vars, kernel, main, thread
  <2>2. running_ \in BOOLEAN
    BY DEF ReportInv, StreamTyped
  <2>3. QED
    BY <1>5, <2>1, <2>2
<1>9. QED
  BY <1>2, <1>3, <1>4, <1>6, <1>7, <1>8 DEF Next, ReadLoop

\* The AIS monitor under main is the AIS monitor: main adds only an order.
LEMMA MonitorsAreAis == MonitorsSpec => Spec
<1>1. MonitorsInit => Init
  BY DEF MonitorsInit
<1>2. [MonitorsNext]_allvars => [Next]_vars
  BY DEF MonitorsNext, MainThread, StartAis, StartXnack, StoppingMonitors, AisStops,
     XnackStops, WriteOutput, Destroying, LeaveLoop, Outside, AisReader, XnackReader,
     XnackChild, Next, allvars, ais, vars
<1>3. QED
  BY <1>1, <1>2, PTL DEF MonitorsSpec, Spec

\* AisMonitor::ReadLoop with ParseLine and ResolvePcieDeviceInfo: the calls are
\* reported in the order in which they hit the probe, each once and none skipped,
\* and with the device of their descriptor, however read() cuts the lines and
\* whenever Stop comes.
THEOREM CallsReportedRight == MonitorsSpec => []ReportedRight
<1>1. ReportInv => ReportedRight
  BY DEF ReportInv, CallInv, DeviceInv, DeviceOf, ReportedRight
<1>2. Spec => []ReportInv
  BY ReportInvInit, ReportInvStep, PTL DEF Spec
<1>3. QED
  BY <1>1, <1>2, MonitorsAreAis, PTL
=============================================================================
