--------------------------- MODULE ProbeReaderProofs ---------------------------
(***************************************************************************)
(* Queue discovery in its three modes, for any processes, queues and       *)
(* number of events, and however the reads cut the tracer's lines.         *)
(***************************************************************************)
EXTENDS ProbeReader, SequenceTheorems, WellFoundedInduction, TLAPS

Unit == [ev : Nat, end : BOOLEAN]
Announcement == [ev : Nat, pid : Nat, uid : Nat]

Typed ==
    /\ mode \in {"kprobe", "bpftrace", "kfd"} /\ pid_filter_ \in Procs \cup {0}
    /\ live \subseteq Procs /\ events \in Seq(Queues)
    /\ pipe \in Seq(Unit) /\ buf \in Seq(Unit)
    /\ next_uid \in Nat
    /\ announced \in Seq(Announcement)
    /\ handled \subseteq Nat

-----------------------------------------------------------------------------
\* Where main is says what of bpftrace there can be.
Place ==
    /\ mpc \in {"init", "arming", "run", "killing", "joining", "stopped", "failed"}
    /\ mode \in {"kprobe", "bpftrace", "kfd"}
    /\ script \in BOOLEAN
    /\ mpc = "init" => tracer = "off" /\ ~script
    /\ mpc \in {"arming", "killing"} => Piped
    /\ script => Piped
    /\ script /\ mode = "bpftrace" => mpc = "arming"
    /\ mpc = "stopped" => ~script
    /\ mpc = "failed" /\ mode # "kfd" => ~script /\ (Piped /\ tracer # "off" => reaped)
    /\ mpc \in {"joining", "stopped"} /\ Piped => reaped

LEMMA PlaceStep == Place /\ [Next]_vars => Place'
<1> SUFFICES ASSUME Place, [Next]_vars PROVE Place'
  OBVIOUS
<1> USE DEF Place, Piped
<1>1. mode' = mode
  BY DEF Next, vars, options
<1>2. CASE System
  <2>1. /\ UNCHANGED <<mpc, script, reaped>>
        /\ tracer' # tracer => tracer # "off"
    BY <1>2 DEF System, Event, Attach, TracerDies, ProcExit
  <2> QED
    BY <1>1, <2>1
<1>3. CASE Reader \/ UNCHANGED vars
  <2>1. UNCHANGED <<mpc, script, reaped, tracer>>
    BY <1>3 DEF Reader, Read, Leave, HandleLine, vars, system
  <2> QED
    BY <1>1, <2>1
<1>4. CASE StartKprobe
  BY <1>1, <1>4 DEF StartKprobe
<1>5. CASE StartFails
  BY <1>1, <1>5 DEF StartFails, system
<1>6. CASE Fork
  BY <1>1, <1>6 DEF Fork
<1>7. CASE ArmRead
  <2>1. mpc = "arming" /\ UNCHANGED <<tracer, reaped>>
    BY <1>7 DEF ArmRead
  <2>2. CASE mpc' = "run" /\ script' = (mode = "kfd")
    <3>1. script' \in BOOLEAN /\ (script' => mode = "kfd")
      BY <2>2
    <3> QED
      BY <1>1, <2>1, <2>2, <3>1
  <2>3. CASE UNCHANGED <<mpc, script>>
    BY <1>1, <2>1, <2>3
  <2> QED
    BY <1>7, <2>2, <2>3 DEF ArmRead, EnterRun
<1>8. CASE ArmFails
  <2>1. /\ mpc = "arming" /\ mpc' = "failed" /\ UNCHANGED tracer
        /\ reaped' = (mode = "bpftrace") /\ script' = (mode = "kfd")
    BY <1>8 DEF ArmFails
  <2>2. /\ script' \in BOOLEAN /\ (script' => mode = "kfd")
        /\ mode = "bpftrace" => reaped'
    BY <2>1
  <2> QED
    BY <1>1, <2>1, <2>2
<1>9. CASE ArmTimeout
  <2>1. /\ mpc = "arming" /\ mpc' = "run" /\ UNCHANGED <<tracer, reaped>>
        /\ script' = (mode = "kfd")
    BY <1>9 DEF ArmTimeout, EnterRun
  <2>2. script' \in BOOLEAN /\ (script' => mode = "kfd")
    BY <2>1
  <2> QED
    BY <1>1, <2>1, <2>2
<1>10. CASE StopBegin
  BY <1>1, <1>10 DEF StopBegin, system
<1>11. CASE Reap
  BY <1>1, <1>11 DEF Reap
<1>12. CASE StopEnd
  <2>1. /\ mpc = "joining" /\ mpc' = "stopped" /\ UNCHANGED reaped
        /\ script' = (script /\ mode # "kfd")
    BY <1>12 DEF StopEnd
  <2>2. ~script'
    BY <2>1
  <2>3. script' \in BOOLEAN
    BY <2>1
  <2> QED
    BY <1>1, <2>1, <2>2, <2>3
<1> QED
  BY <1>2, <1>3, <1>4, <1>5, <1>6, <1>7, <1>8, <1>9, <1>10, <1>11, <1>12
     DEF Next, Main

\* Discovery::Start and Stop: wherever in the arming bpftrace exits or the deadline
\* passes, neither the script nor an unreaped child is left at the end.
THEOREM LeavesNothingHolds == Spec => []LeavesNothing
<1>1. Init => Place
  BY ModesAssumption DEF Init, Place, Piped
<1>2. Place => LeavesNothing
  BY DEF Place, LeavesNothing
<1> QED
  BY <1>1, <1>2, PlaceStep, PTL DEF Spec

-----------------------------------------------------------------------------
\* What is on its way from the tracer to the handlers: the reader's buf, then the
\* pipe.
InFlight(i) == IF i <= Len(buf) THEN buf[i] ELSE pipe[i - Len(buf)]

\* It is the lines of the events from n on, whole: a read may cut a line, but what
\* is taken off the front ends with the end of one.
StreamFrom(n) ==
    /\ Len(buf) + Len(pipe) = 2 * (Len(events) + 1 - n)
    /\ \A k \in n .. Len(events) :
          /\ InFlight(2 * (k - n) + 1) = [ev |-> k, end |-> FALSE]
          /\ InFlight(2 * (k - n) + 2) = [ev |-> k, end |-> TRUE]

\* Until the tracer is attached there is nothing; n is 0 while the banner is on its
\* way.
Quiet ==
    tracer \in {"off", "starting"} =>
        /\ events = <<>> /\ pipe = <<>> /\ buf = <<>>
        /\ handled = {} /\ announced = <<>>

\* Up to n, and n is the next.
UpTo(n) ==
    /\ StreamFrom(n)
    /\ handled \subseteq 0 .. n - 1
    /\ \A i \in DOMAIN announced : announced[i].ev \in 1 .. n - 1

StreamInv == \E n \in 0 .. Len(events) + 1 : UpTo(n)

\* In the modes with an event per queue no queue has two; in kfd mode seen holds
\* the rings of the events handled.
OncePerQueue ==
    mode # "kfd" => \A i, j \in DOMAIN events : events[i] = events[j] => i = j

SeenInv ==
    mode = "kfd" =>
        /\ \A i \in DOMAIN announced : events[announced[i].ev].ring \in seen
        /\ \A r \in seen : \E d \in handled \ {0} : events[d].ring = r

\* The order of the announcements.
OrderInv ==
    /\ \A i, j \in DOMAIN announced :
          i < j => /\ announced[i].ev < announced[j].ev
                   /\ announced[i].uid < announced[j].uid
                   /\ events[announced[i].ev] # events[announced[j].ev]
    /\ \A i \in DOMAIN announced : announced[i].uid < next_uid

\* Whose queues they are.
OwnerInv ==
    \A i \in DOMAIN announced : Owned(announced[i]) \/ Mistaken(announced[i])

ReadInv ==
    /\ Typed /\ Quiet /\ StreamInv /\ OncePerQueue /\ SeenInv /\ OrderInv
    /\ EveryQueueAnnounced

LEMMA StreamFacts ==
    ASSUME Typed
    PROVE  /\ Len(events) \in Nat /\ Len(buf) \in Nat /\ Len(pipe) \in Nat
           /\ Len(announced) \in Nat
           /\ DOMAIN events = 1 .. Len(events) /\ DOMAIN pipe = 1 .. Len(pipe)
           /\ DOMAIN buf = 1 .. Len(buf) /\ DOMAIN announced = 1 .. Len(announced)
           /\ \A i \in 1 .. Len(pipe) : pipe[i] \in Unit
           /\ \A i \in 1 .. Len(buf) : buf[i] \in Unit
           /\ \A i \in 1 .. Len(events) : events[i] \in Queues
           /\ \A i \in 1 .. Len(announced) : announced[i] \in Announcement
<1>1. /\ Len(events) \in Nat /\ DOMAIN events = 1 .. Len(events)
      /\ \A i \in 1 .. Len(events) : events[i] \in Queues
  BY DEF Typed
<1>2. /\ Len(buf) \in Nat /\ DOMAIN buf = 1 .. Len(buf)
      /\ \A i \in 1 .. Len(buf) : buf[i] \in Unit
  BY DEF Typed
<1>3. /\ Len(pipe) \in Nat /\ DOMAIN pipe = 1 .. Len(pipe)
      /\ \A i \in 1 .. Len(pipe) : pipe[i] \in Unit
  BY DEF Typed
<1>4. /\ Len(announced) \in Nat /\ DOMAIN announced = 1 .. Len(announced)
      /\ \A i \in 1 .. Len(announced) : announced[i] \in Announcement
  BY DEF Typed
<1> QED
  BY <1>1, <1>2, <1>3, <1>4

\* Where in what is in flight the line of event k is: b and p units are there, of the
\* events n to v.
LEMMA Places ==
    ASSUME NEW b \in Nat, NEW p \in Nat, NEW v \in Nat, NEW n \in Nat, NEW k \in Nat,
           b + p = 2 * (v + 1 - n), n <= k, k <= v
    PROVE  2 * (k - n) + 1 \in 1 .. b + p /\ 2 * (k - n) + 2 \in 1 .. b + p
OBVIOUS

\* A read moves units from the pipe to buf; what is in flight stays as it is.
LEMMA MoveUnits ==
    ASSUME Typed, NEW m \in DOMAIN pipe,
           buf' = buf \o SubSeq(pipe, 1, m),
           pipe' = SubSeq(pipe, m + 1, Len(pipe)),
           UNCHANGED events
    PROVE  /\ buf' \in Seq(Unit) /\ pipe' \in Seq(Unit)
           /\ \A n \in 0 .. Len(events) + 1 : StreamFrom(n) => StreamFrom(n)'
<1>1. /\ Len(buf) \in Nat /\ Len(pipe) \in Nat /\ m \in Nat /\ m >= 1 /\ m <= Len(pipe)
      /\ Len(events) \in Nat
      /\ \A i \in 1 .. Len(pipe) : pipe[i] \in Unit
  BY StreamFacts
<1>2. /\ SubSeq(pipe, 1, m) \in Seq(Unit) /\ Len(SubSeq(pipe, 1, m)) = m
      /\ \A i \in 1 .. m : SubSeq(pipe, 1, m)[i] = pipe[i]
  <2>1. \A i \in 1 .. m : pipe[i] \in Unit
    BY <1>1
  <2>2. /\ SubSeq(pipe, 1, m) \in Seq(Unit)
        /\ Len(SubSeq(pipe, 1, m)) = IF 1 <= m THEN m - 1 + 1 ELSE 0
        /\ \A i \in 1 .. m - 1 + 1 : SubSeq(pipe, 1, m)[i] = pipe[1 + i - 1]
    BY <1>1, <2>1, SubSeqProperties
  <2>3. m - 1 + 1 = m /\ \A i \in 1 .. m : 1 + i - 1 = i
    BY <1>1
  <2> QED
    BY <1>1, <2>2, <2>3
<1>3. /\ buf' \in Seq(Unit) /\ Len(buf') = Len(buf) + m
      /\ \A i \in 1 .. Len(buf) + m :
            buf'[i] = IF i <= Len(buf) THEN buf[i] ELSE SubSeq(pipe, 1, m)[i - Len(buf)]
  BY <1>2, ConcatProperties DEF Typed
<1>4. /\ pipe' \in Seq(Unit) /\ Len(pipe') = Len(pipe) - m
      /\ \A i \in 1 .. Len(pipe) - m : pipe'[i] = pipe[m + i]
  <2>1. \A i \in m + 1 .. Len(pipe) : pipe[i] \in Unit
    BY <1>1
  <2>2. m + 1 \in Int /\ Len(pipe) \in Int
    BY <1>1
  <2>3. /\ pipe' \in Seq(Unit)
        /\ Len(pipe') = IF m + 1 <= Len(pipe) THEN Len(pipe) - (m + 1) + 1 ELSE 0
        /\ \A i \in 1 .. Len(pipe) - (m + 1) + 1 : pipe'[i] = pipe[m + 1 + i - 1]
    BY <2>1, <2>2, SubSeqProperties
  <2>4. /\ Len(pipe) - (m + 1) + 1 = Len(pipe) - m
        /\ \A i \in 1 .. Len(pipe) - m : m + 1 + i - 1 = m + i
        /\ ~(m + 1 <= Len(pipe)) => Len(pipe) - m = 0
    BY <1>1
  <2> QED
    BY <2>3, <2>4
<1>5. ASSUME NEW i \in 1 .. Len(buf) + Len(pipe) PROVE InFlight(i)' = InFlight(i)
  <2>1. CASE i <= Len(buf)
    <3>1. i <= Len(buf') /\ i \in 1 .. Len(buf) + m
      BY <1>1, <1>3, <2>1
    <3> QED
      BY <1>3, <2>1, <3>1 DEF InFlight
  <2>2. CASE i > Len(buf) /\ i <= Len(buf) + m
    <3>1. i - Len(buf) \in 1 .. m /\ i \in 1 .. Len(buf) + m /\ ~(i <= Len(buf))
      BY <1>1, <2>2
    <3>2. buf'[i] = pipe[i - Len(buf)]
      BY <1>2, <1>3, <3>1
    <3>3. i <= Len(buf')
      BY <1>3, <2>2
    <3> QED
      BY <3>1, <3>2, <3>3 DEF InFlight
  <2>3. CASE i > Len(buf) + m
    <3>1. /\ i - (Len(buf) + m) \in 1 .. Len(pipe) - m
          /\ m + (i - (Len(buf) + m)) = i - Len(buf)
          /\ ~(i <= Len(buf)) /\ ~(i <= Len(buf) + m)
      <4> DEFINE b == Len(buf)
                 p == Len(pipe)
      <4>1. /\ b \in Nat /\ p \in Nat /\ m \in Nat /\ i \in Nat
            /\ i > b + m /\ i <= b + p
        BY <1>1, <2>3
      <4> HIDE DEF b, p
      <4>2. /\ i - (b + m) \in 1 .. p - m /\ m + (i - (b + m)) = i - b
            /\ ~(i <= b) /\ ~(i <= b + m)
        BY <4>1
      <4> QED
        BY <4>2 DEF b, p
    <3>2. pipe'[i - (Len(buf) + m)] = pipe[i - Len(buf)]
      BY <1>4, <3>1
    <3> QED
      BY <1>3, <3>1, <3>2 DEF InFlight
  <2> QED
    BY <1>1, <2>1, <2>2, <2>3
<1>6. ASSUME NEW n \in 0 .. Len(events) + 1, StreamFrom(n) PROVE StreamFrom(n)'
  <2>1. Len(buf') + Len(pipe') = Len(buf) + Len(pipe)
    <3>1. (Len(buf) + m) + (Len(pipe) - m) = Len(buf) + Len(pipe)
      BY <1>1
    <3> QED
      BY <1>3, <1>4, <3>1
  <2>2. ASSUME NEW k \in n .. Len(events)
        PROVE  /\ InFlight(2 * (k - n) + 1)' = [ev |-> k, end |-> FALSE]
               /\ InFlight(2 * (k - n) + 2)' = [ev |-> k, end |-> TRUE]
    <3>1. Len(buf) + Len(pipe) = 2 * (Len(events) + 1 - n)
      BY <1>6 DEF StreamFrom
    <3>2. /\ 2 * (k - n) + 1 \in 1 .. Len(buf) + Len(pipe)
          /\ 2 * (k - n) + 2 \in 1 .. Len(buf) + Len(pipe)
      BY <1>1, <3>1, Places
    <3> QED
      BY <1>5, <1>6, <3>2 DEF StreamFrom
  <2> QED
    BY <1>6, <2>1, <2>2 DEF StreamFrom
<1> QED
  BY <1>3, <1>4, <1>6

\* An event adds its line at the end.
LEMMA AddLine ==
    ASSUME Typed, NEW q \in Queues,
           events' = Append(events, q),
           pipe' = pipe \o Line(Len(events) + 1),
           UNCHANGED buf
    PROVE  /\ events' \in Seq(Queues) /\ pipe' \in Seq(Unit)
           /\ Len(events') = Len(events) + 1
           /\ \A i \in 1 .. Len(events) : events'[i] = events[i]
           /\ events'[Len(events) + 1] = q
           /\ \A n \in 0 .. Len(events) + 1 : StreamFrom(n) => StreamFrom(n)'
<1> DEFINE line == Line(Len(events) + 1)
           e == Len(events) + 1
<1>1. /\ Len(buf) \in Nat /\ Len(pipe) \in Nat /\ Len(events) \in Nat /\ e \in Nat
  BY StreamFacts
<1>2. /\ line \in Seq(Unit) /\ Len(line) = 2
      /\ line[1] = [ev |-> e, end |-> FALSE] /\ line[2] = [ev |-> e, end |-> TRUE]
  BY <1>1 DEF Line, Unit
<1>3. /\ events' \in Seq(Queues) /\ Len(events') = Len(events) + 1
      /\ \A i \in 1 .. Len(events) : events'[i] = events[i]
      /\ events'[Len(events) + 1] = q
  BY DEF Typed
<1> HIDE DEF line
<1>4. /\ pipe' \in Seq(Unit) /\ Len(pipe') = Len(pipe) + 2
      /\ \A i \in 1 .. Len(pipe) + 2 :
            pipe'[i] = IF i <= Len(pipe) THEN pipe[i] ELSE line[i - Len(pipe)]
  <2>1. /\ pipe \o line \in Seq(Unit) /\ Len(pipe \o line) = Len(pipe) + Len(line)
        /\ \A i \in 1 .. Len(pipe) + Len(line) :
              (pipe \o line)[i] = IF i <= Len(pipe) THEN pipe[i] ELSE line[i - Len(pipe)]
    BY <1>2, ConcatProperties DEF Typed
  <2>2. pipe' = pipe \o line
    BY DEF line
  <2> QED
    BY <1>2, <2>1, <2>2
<1>5. ASSUME NEW i \in 1 .. Len(buf) + Len(pipe) PROVE InFlight(i)' = InFlight(i)
  <2>1. CASE i <= Len(buf)
    BY <2>1 DEF InFlight
  <2>2. CASE ~(i <= Len(buf))
    <3>1. i - Len(buf) \in 1 .. Len(pipe) + 2 /\ i - Len(buf) <= Len(pipe)
      BY <1>1, <2>2
    <3>2. pipe'[i - Len(buf)] = pipe[i - Len(buf)]
      BY <1>4, <3>1
    <3> QED
      BY <2>2, <3>2 DEF InFlight
  <2> QED
    BY <2>1, <2>2
<1>6. ASSUME NEW i \in Nat
      PROVE  /\ i = Len(buf) + Len(pipe) + 1 => InFlight(i)' = [ev |-> e, end |-> FALSE]
             /\ i = Len(buf) + Len(pipe) + 2 => InFlight(i)' = [ev |-> e, end |-> TRUE]
  <2>1. /\ ~(Len(pipe) + 1 <= Len(pipe)) /\ ~(Len(pipe) + 2 <= Len(pipe))
        /\ Len(pipe) + 1 - Len(pipe) = 1 /\ Len(pipe) + 2 - Len(pipe) = 2
        /\ Len(pipe) + 1 \in 1 .. Len(pipe) + 2 /\ Len(pipe) + 2 \in 1 .. Len(pipe) + 2
    BY <1>1
  <2>2. pipe'[Len(pipe) + 1] = line[1] /\ pipe'[Len(pipe) + 2] = line[2]
    BY <1>4, <2>1
  <2>3. ASSUME ~(i <= Len(buf)) PROVE InFlight(i)' = pipe'[i - Len(buf)]
    BY <2>3 DEF InFlight
  <2>4. CASE i = Len(buf) + Len(pipe) + 1
    <3>1. /\ ~(i <= Len(buf)) /\ i - Len(buf) = Len(pipe) + 1
          /\ i # Len(buf) + Len(pipe) + 2
      BY <1>1, <2>4
    <3> QED
      BY <1>2, <2>2, <2>3, <3>1
  <2>5. CASE i = Len(buf) + Len(pipe) + 2
    <3>1. /\ ~(i <= Len(buf)) /\ i - Len(buf) = Len(pipe) + 2
          /\ i # Len(buf) + Len(pipe) + 1
      BY <1>1, <2>5
    <3> QED
      BY <1>2, <2>2, <2>3, <3>1
  <2> QED
    BY <2>4, <2>5
<1>7. ASSUME NEW n \in 0 .. Len(events) + 1, StreamFrom(n) PROVE StreamFrom(n)'
  <2>1. Len(buf) + Len(pipe) = 2 * (Len(events) + 1 - n)
    BY <1>7 DEF StreamFrom
  <2>2. Len(buf') + Len(pipe') = 2 * (Len(events') + 1 - n)
    <3>1. Len(buf') = Len(buf) /\ Len(pipe') = Len(pipe) + 2
          /\ Len(events') = Len(events) + 1
      BY <1>3, <1>4
    <3>2. Len(buf) + (Len(pipe) + 2) = 2 * ((Len(events) + 1) + 1 - n)
      <4> DEFINE b == Len(buf)
                 p == Len(pipe)
                 v == Len(events)
      <4>1. b \in Nat /\ p \in Nat /\ v \in Nat /\ n \in Nat /\ b + p = 2 * (v + 1 - n)
        BY <1>1, <2>1
      <4> HIDE DEF b, p, v
      <4>2. b + (p + 2) = 2 * ((v + 1) + 1 - n)
        BY <4>1
      <4> QED
        BY <4>2 DEF b, p, v
    <3> QED
      BY <3>1, <3>2
  <2>3. ASSUME NEW k \in n .. Len(events')
        PROVE  /\ InFlight(2 * (k - n) + 1)' = [ev |-> k, end |-> FALSE]
               /\ InFlight(2 * (k - n) + 2)' = [ev |-> k, end |-> TRUE]
    <3>1. k \in Nat /\ k >= n /\ (k <= Len(events) \/ k = e)
      BY <1>1, <1>3
    <3>2. CASE k <= Len(events)
      <4>1. /\ k \in n .. Len(events)
            /\ 2 * (k - n) + 1 \in 1 .. Len(buf) + Len(pipe)
            /\ 2 * (k - n) + 2 \in 1 .. Len(buf) + Len(pipe)
        BY <1>1, <2>1, <3>1, <3>2
      <4> QED
        BY <1>5, <1>7, <4>1 DEF StreamFrom
    <3>3. CASE k = e
      <4>1. InFlight(2 * (k - n) + 1)' = [ev |-> e, end |-> FALSE]
            /\ InFlight(2 * (k - n) + 2)' = [ev |-> e, end |-> TRUE]
        <5>1. /\ 2 * (k - n) + 1 = Len(buf) + Len(pipe) + 1
              /\ 2 * (k - n) + 2 = Len(buf) + Len(pipe) + 2
          <6>1. 2 * (k - n) = Len(buf) + Len(pipe)
            BY <1>1, <2>1, <3>1, <3>3
          <6> QED
            BY <6>1
        <5>2. 2 * (k - n) + 1 \in Nat /\ 2 * (k - n) + 2 \in Nat
          BY <1>1, <3>1
        <5> QED
          BY <1>6, <5>1, <5>2
      <4> QED
        BY <3>3, <4>1
    <3> QED
      BY <3>1, <3>2, <3>3
  <2> QED
    BY <2>2, <2>3 DEF StreamFrom
<1> QED
  BY <1>3, <1>4, <1>7

\* HandleLine takes one whole line, that of the next event, off the front.
LEMMA TakeLine ==
    ASSUME Typed, NEW n \in 0 .. Len(events) + 1, StreamFrom(n), HandleLine
    PROVE  /\ n \in 0 .. Len(events)
           /\ Min({i \in DOMAIN buf : buf[i].end}) = 2 /\ buf[2].ev = n
           /\ buf' \in Seq(Unit)
           /\ StreamFrom(n + 1)'
<1>1. /\ Len(buf) \in Nat /\ Len(pipe) \in Nat /\ Len(events) \in Nat /\ n \in Nat
      /\ DOMAIN buf = 1 .. Len(buf)
      /\ \A i \in 1 .. Len(buf) : buf[i] \in Unit
  BY StreamFacts
<1>2. Len(buf) + Len(pipe) = 2 * (Len(events) + 1 - n)
  BY DEF StreamFrom
<1>3. PICK i \in 1 .. Len(buf) : buf[i].end
  BY <1>1 DEF HandleLine, Complete
<1>4. n \in 0 .. Len(events)
  BY <1>1, <1>2
<1>5. /\ InFlight(1) = [ev |-> n, end |-> FALSE]
      /\ InFlight(2) = [ev |-> n, end |-> TRUE]
  <2>1. n \in n .. Len(events) /\ 2 * (n - n) + 1 = 1 /\ 2 * (n - n) + 2 = 2
    BY <1>1, <1>4
  <2> QED
    BY <2>1 DEF StreamFrom
<1>6. 1 <= Len(buf) /\ buf[1] = [ev |-> n, end |-> FALSE]
  BY <1>1, <1>3, <1>5 DEF InFlight
<1>7. 2 <= Len(buf) /\ buf[2] = [ev |-> n, end |-> TRUE]
  <2>1. i # 1
    BY <1>3, <1>6
  <2>2. 2 <= Len(buf)
    BY <1>1, <1>3, <2>1
  <2> QED
    BY <1>5, <2>2 DEF InFlight
<1> DEFINE ends == {j \in DOMAIN buf : buf[j].end}
<1>8. Min(ends) = 2
  <2>1. 2 \in ends /\ \A j \in ends : j \in Int /\ 2 <= j
    <3>1. 2 \in ends
      BY <1>1, <1>7
    <3>2. ASSUME NEW j \in ends PROVE j \in Int /\ 2 <= j
      <4>1. j # 1
        BY <1>6
      <4> QED
        BY <1>1, <4>1
    <3> QED
      BY <3>1, <3>2
  <2> HIDE DEF ends
  <2>2. \E x \in ends : \A y \in ends : x <= y
    BY <2>1
  <2>3. Min(ends) \in ends /\ \A y \in ends : Min(ends) <= y
    BY <2>2 DEF Min
  <2> QED
    BY <2>1, <2>3
<1>9. buf' = SubSeq(buf, 3, Len(buf)) /\ UNCHANGED <<pipe, events>>
  <2>1. buf' = SubSeq(buf, Min(ends) + 1, Len(buf)) /\ UNCHANGED <<pipe, events>>
    BY DEF HandleLine, system
  <2> HIDE DEF ends
  <2> QED
    BY <1>8, <2>1
<1>10. /\ buf' \in Seq(Unit) /\ Len(buf') = Len(buf) - 2
       /\ \A j \in 1 .. Len(buf) - 2 : buf'[j] = buf[j + 2]
  <2>1. \A j \in 3 .. Len(buf) : buf[j] \in Unit
    BY <1>1
  <2>2. /\ SubSeq(buf, 3, Len(buf)) \in Seq(Unit)
        /\ Len(SubSeq(buf, 3, Len(buf))) =
              IF 3 <= Len(buf) THEN Len(buf) - 3 + 1 ELSE 0
        /\ \A j \in 1 .. Len(buf) - 3 + 1 :
              SubSeq(buf, 3, Len(buf))[j] = buf[3 + j - 1]
    BY <1>1, <2>1, SubSeqProperties
  <2>3. /\ Len(buf) - 3 + 1 = Len(buf) - 2
        /\ \A j \in 1 .. Len(buf) - 2 : 3 + j - 1 = j + 2
        /\ ~(3 <= Len(buf)) => Len(buf) - 2 = 0
    BY <1>1, <1>7
  <2> QED
    BY <1>9, <2>2, <2>3
<1>11. ASSUME NEW j \in 1 .. Len(buf) + Len(pipe) - 2
       PROVE  InFlight(j)' = InFlight(j + 2)
  <2>1. CASE j <= Len(buf) - 2
    <3>1. j \in 1 .. Len(buf) - 2 /\ j + 2 <= Len(buf) /\ j <= Len(buf')
      BY <1>1, <1>10, <2>1
    <3>2. buf'[j] = buf[j + 2]
      BY <1>10, <3>1
    <3> QED
      BY <3>1, <3>2 DEF InFlight
  <2>2. CASE ~(j <= Len(buf) - 2)
    <3>1. /\ ~(j + 2 <= Len(buf)) /\ ~(j <= Len(buf'))
          /\ j - Len(buf') = j + 2 - Len(buf)
      BY <1>1, <1>10, <2>2
    <3>2. pipe'[j - Len(buf')] = pipe[j + 2 - Len(buf)]
      BY <1>9, <3>1
    <3> QED
      BY <3>1, <3>2 DEF InFlight
  <2> QED
    BY <2>1, <2>2
<1>12. StreamFrom(n + 1)'
  <2>1. Len(buf') + Len(pipe') = 2 * (Len(events') + 1 - (n + 1))
    <3>1. Len(buf') = Len(buf) - 2 /\ Len(pipe') = Len(pipe) /\ Len(events') = Len(events)
      BY <1>9, <1>10
    <3> QED
      BY <1>1, <1>2, <3>1
  <2>2. ASSUME NEW k \in n + 1 .. Len(events')
        PROVE  /\ InFlight(2 * (k - (n + 1)) + 1)' = [ev |-> k, end |-> FALSE]
               /\ InFlight(2 * (k - (n + 1)) + 2)' = [ev |-> k, end |-> TRUE]
    <3>1. /\ k \in n .. Len(events)
          /\ 2 * (k - (n + 1)) + 1 \in 1 .. Len(buf) + Len(pipe) - 2
          /\ 2 * (k - (n + 1)) + 2 \in 1 .. Len(buf) + Len(pipe) - 2
          /\ 2 * (k - (n + 1)) + 1 + 2 = 2 * (k - n) + 1
          /\ 2 * (k - (n + 1)) + 2 + 2 = 2 * (k - n) + 2
      BY <1>1, <1>2, <1>9
    <3>2. /\ InFlight(2 * (k - n) + 1) = [ev |-> k, end |-> FALSE]
          /\ InFlight(2 * (k - n) + 2) = [ev |-> k, end |-> TRUE]
      BY <3>1 DEF StreamFrom
    <3>3. InFlight(2 * (k - (n + 1)) + 1)' = InFlight(2 * (k - n) + 1)
      BY <1>11, <3>1
    <3>4. InFlight(2 * (k - (n + 1)) + 2)' = InFlight(2 * (k - n) + 2)
      BY <1>11, <3>1
    <3> QED
      BY <3>2, <3>3, <3>4
  <2> QED
    BY <2>1, <2>2 DEF StreamFrom
<1> QED
  BY <1>4, <1>7, <1>8, <1>10, <1>12

\* Of a step that leaves the events, the announcements and what was handled alone,
\* and keeps the stream, nothing else can break.
LEMMA OnlyTheStream ==
    ASSUME ReadInv, UNCHANGED <<options, events, next_uid, seen, announced, handled>>,
           Typed', Quiet',
           \A n \in 0 .. Len(events) + 1 : StreamFrom(n) => StreamFrom(n)'
    PROVE  ReadInv'
<1>1. StreamInv'
  <2>1. PICK n \in 0 .. Len(events) + 1 : UpTo(n)
    BY DEF ReadInv, StreamInv
  <2>2. UpTo(n)'
    BY <2>1 DEF UpTo
  <2> QED
    BY <2>1, <2>2 DEF StreamInv
<1>2. OncePerQueue' /\ SeenInv' /\ OrderInv'
  BY DEF ReadInv, OncePerQueue, SeenInv, OrderInv, options
<1>3. EveryQueueAnnounced'
  BY DEF ReadInv, EveryQueueAnnounced, Wanted, Visible, options
<1> QED
  BY <1>1, <1>2, <1>3 DEF ReadInv

LEMMA EventKeeps ==
    ASSUME ReadInv, NEW q \in Queues, Event(q), UNCHANGED <<options, reader>>
    PROVE  ReadInv'
<1> USE DEF options, reader
<1>1. /\ Typed /\ Quiet /\ StreamInv /\ OncePerQueue /\ SeenInv /\ OrderInv
      /\ EveryQueueAnnounced
  BY DEF ReadInv
<1>2. /\ events' = Append(events, q) /\ pipe' = pipe \o Line(Len(events) + 1)
      /\ tracer = "attached"
      /\ UNCHANGED <<buf, live, tracer, mode, pid_filter_, next_uid, seen, announced,
                     handled>>
      /\ mode = "kfd" \/ \A i \in DOMAIN events : events[i] # q
  BY DEF Event
<1>3. /\ events' \in Seq(Queues) /\ pipe' \in Seq(Unit)
      /\ Len(events') = Len(events) + 1
      /\ \A i \in 1 .. Len(events) : events'[i] = events[i]
      /\ events'[Len(events) + 1] = q
      /\ \A n \in 0 .. Len(events) + 1 : StreamFrom(n) => StreamFrom(n)'
  BY <1>1, <1>2, AddLine
<1>4. /\ Len(events) \in Nat /\ DOMAIN events = 1 .. Len(events)
      /\ DOMAIN events' = 1 .. Len(events) + 1
  <2>1. DOMAIN events' = 1 .. Len(events')
    BY <1>3
  <2> QED
    BY <1>1, <1>3, <2>1, StreamFacts
<1>5. PICK n \in 0 .. Len(events) + 1 : UpTo(n)
  BY <1>1 DEF StreamInv
<1>6. /\ \A d \in handled \ {0} : d \in 1 .. Len(events)
      /\ \A i \in DOMAIN announced : announced[i].ev \in 1 .. Len(events)
  <2>1. n \in Nat /\ n - 1 <= Len(events)
    BY <1>4, <1>5
  <2>2. handled \subseteq 0 .. n - 1
    BY <1>5 DEF UpTo
  <2>3. \A i \in DOMAIN announced : announced[i].ev \in 1 .. n - 1
    BY <1>5 DEF UpTo
  <2>4. \A d \in handled \ {0} : d \in 1 .. Len(events)
    BY <1>4, <2>1, <2>2
  <2>5. \A i \in DOMAIN announced : announced[i].ev \in 1 .. Len(events)
    BY <1>4, <2>1, <2>3
  <2> QED
    BY <2>4, <2>5
<1>7. Typed'
  BY <1>1, <1>2, <1>3 DEF Typed
<1>8. Quiet'
  BY <1>2 DEF Quiet
<1>9. StreamInv'
  <2>1. UpTo(n)'
    BY <1>2, <1>3, <1>5 DEF UpTo
  <2>2. n \in 0 .. Len(events') + 1
    BY <1>3, <1>4, <1>5
  <2> QED
    BY <2>1, <2>2 DEF StreamInv
<1>10. OncePerQueue'
  <2> SUFFICES ASSUME mode # "kfd", NEW i \in DOMAIN events', NEW j \in DOMAIN events',
                      events'[i] = events'[j]
               PROVE  i = j
    BY <1>2 DEF OncePerQueue
  <2>1. /\ i \in 1 .. Len(events) \/ i = Len(events) + 1
        /\ j \in 1 .. Len(events) \/ j = Len(events) + 1
    BY <1>4
  <2> QED
    BY <1>1, <1>2, <1>3, <1>4, <2>1 DEF OncePerQueue
<1>11. SeenInv'
  BY <1>1, <1>2, <1>3, <1>6 DEF SeenInv
<1>12. OrderInv'
  BY <1>1, <1>2, <1>3, <1>6 DEF OrderInv
<1>13. EveryQueueAnnounced'
  <2> SUFFICES ASSUME NEW e \in handled \ {0}, Wanted(events[e])', Visible(e)'
               PROVE  \E i \in DOMAIN announced : events'[announced[i].ev] = events'[e]
    BY <1>2 DEF EveryQueueAnnounced
  <2>1. e \in 1 .. Len(events) /\ events'[e] = events[e]
    BY <1>3, <1>6
  <2>2. Wanted(events[e])
    BY <1>2, <2>1 DEF Wanted
  <2>3. \A d \in 1 .. e - 1 : events'[d] = events[d]
    BY <1>3, <1>4, <2>1
  <2>4. Visible(e)
    BY <1>2, <2>1, <2>3 DEF Visible
  <2>5. PICK i \in DOMAIN announced : events[announced[i].ev] = events[e]
    BY <1>1, <2>2, <2>4 DEF EveryQueueAnnounced
  <2> QED
    BY <1>3, <1>6, <2>1, <2>5
<1> QED
  BY <1>7, <1>8, <1>9, <1>10, <1>11, <1>12, <1>13 DEF ReadInv

\* HandleBpftrace's first process with a name: a non-empty set of pids has a least.
LEMMA LeastPid ==
    ASSUME NEW S \in SUBSET Nat, S # {}
    PROVE  Min(S) \in S /\ \A y \in S : Min(S) <= y
<1>1. PICK x \in S : \A y \in S : ~(<<y, x>> \in OpToRel(<, Nat))
  BY NatLessThanWellFounded, WFMin
<1>2. \A y \in S : x <= y
  <2>1. ASSUME NEW y \in S, y < x PROVE <<y, x>> \in OpToRel(<, Nat)
    BY <2>1 DEF OpToRel
  <2>2. \A y \in S : ~(y < x)
    BY <1>1, <2>1, Zenon
  <2>3. \A y \in S : y \in Nat /\ x \in Nat
    OBVIOUS
  <2> QED
    BY <2>2, <2>3
<1> QED
  BY <1>2 DEF Min

\* What any of the handlers does with the line of event e.
LEMMA HandlerFacts ==
    ASSUME Typed, HandleLine, NEW e \in 1 .. Len(events),
           Min({i \in DOMAIN buf : buf[i].end}) = 2, buf[2].ev = e
    PROVE  /\ handled' = handled \cup {e}
           /\ \/ UNCHANGED <<next_uid, announced>>
              \/ next_uid' = next_uid + 1 /\ UNCHANGED announced
              \/ \E pid \in Nat : Announce(e, pid)
           /\ mode # "kfd" => UNCHANGED seen
           /\ mode = "kfd" =>
                 /\ seen' = seen \cup {events[e].ring}
                 /\ events[e].ring \in seen => UNCHANGED announced
                 /\ events[e].ring \notin seen /\ Wanted(events[e])
                       => \E pid \in Nat : Announce(e, pid)
           /\ mode = "kprobe" /\ pid_filter_ \in {0, events[e].tid}
                 => \E pid \in Nat : Announce(e, pid)
           /\ mode = "bpftrace" /\ (pid_filter_ = 0 \/ Similar(events[e].tid, pid_filter_))
                 => \E pid \in Nat : Announce(e, pid)
<1> DEFINE last == Min({i \in DOMAIN buf : buf[i].end})
           q == events[e]
<1>1. last = 2 /\ buf[last].ev = e /\ e # 0
  <2>1. e # 0
    BY StreamFacts
  <2> QED
    BY <2>1
<1>2. /\ handled' = handled \cup {e}
      /\ CASE mode = "kprobe"   -> HandleKprobe(e, q)
           [] mode = "bpftrace" -> HandleBpftrace(e, q)
           [] mode = "kfd"      -> HandleKfd(e, q)
  <2>1. /\ handled' = handled \cup {buf[last].ev}
        /\ IF buf[last].ev = 0 \/ last = 1
            THEN UNCHANGED <<next_uid, seen, announced>>
          ELSE CASE mode = "kprobe"   -> HandleKprobe(buf[last].ev, events[buf[last].ev])
                 [] mode = "bpftrace" -> HandleBpftrace(buf[last].ev, events[buf[last].ev])
                 [] mode = "kfd"      -> HandleKfd(buf[last].ev, events[buf[last].ev])
    BY DEF HandleLine
  <2> HIDE DEF last
  <2>2. last # 1
    BY <1>1
  <2> QED
    BY <1>1, <2>1, <2>2
<1>3. /\ q \in Queues /\ q.proc \in Procs /\ q.proc \in Nat /\ q.tid \in Nat
      /\ pid_filter_ \in Nat /\ live \subseteq Nat
  <2>1. q \in Queues
    BY StreamFacts
  <2> HIDE DEF q
  <2>2. q \in [proc : Procs, tid : Nat \ {0}, ring : Nat \ {0}]
    BY <2>1, ProcsAssumption
  <2>3. Procs \subseteq Nat
    BY ProcsAssumption
  <2>4. q.proc \in Procs /\ q.tid \in Nat
    BY <2>2
  <2>5. pid_filter_ \in Nat /\ live \subseteq Nat
    BY <2>3 DEF Typed
  <2> QED
    BY <2>1, <2>3, <2>4, <2>5
<1> HIDE DEF last, q
<1>4. mode \in {"kprobe", "bpftrace", "kfd"}
  BY DEF Typed
<1>5. CASE mode = "kprobe"
  <2>1. HandleKprobe(e, q)
    BY <1>2, <1>5
  <2> QED
    BY <1>2, <1>3, <1>5, <2>1 DEF HandleKprobe, PassOver, q
<1>6. CASE mode = "bpftrace"
  <2> DEFINE C == Candidates(q)
             pid == IF C = {} THEN HostPidOf[q.proc] ELSE Min(C)
  <2>1. /\ IF pid_filter_ # 0
             THEN IF pid_filter_ \in live /\ ~Similar(q.tid, pid_filter_)
                    THEN PassOver
                    ELSE Announce(e, pid_filter_)
             ELSE Announce(e, pid)
        /\ UNCHANGED seen
    BY <1>2, <1>6 DEF HandleBpftrace
  <2>2. pid \in Nat
    <3>1. C \in SUBSET Nat /\ HostPidOf[q.proc] \in Nat
      BY <1>3, ProcsAssumption DEF Candidates
    <3> HIDE DEF C
    <3> QED
      BY <3>1, LeastPid
  <2>3. \/ PassOver /\ pid_filter_ # 0 /\ ~Similar(q.tid, pid_filter_)
        \/ \E p \in Nat : Announce(e, p)
    <3> HIDE DEF pid
    <3> QED
      BY <1>3, <2>1, <2>2
  <2> HIDE DEF C, pid
  <2> QED
    BY <1>2, <1>6, <2>1, <2>3 DEF PassOver, q
<1>7. CASE mode = "kfd"
  <2>1. HandleKfd(e, q)
    BY <1>2, <1>7
  <2> QED
    BY <1>2, <1>3, <1>7, <2>1 DEF HandleKfd, PassOver, Wanted, q
<1> QED
  BY <1>4, <1>5, <1>6, <1>7

\* An announcement at the end of announced.
LEMMA AnnounceFacts ==
    ASSUME Typed, NEW e \in Nat, NEW pid \in Nat, Announce(e, pid)
    PROVE  /\ announced' \in Seq(Announcement) /\ next_uid' = next_uid + 1
           /\ DOMAIN announced' = 1 .. Len(announced) + 1
           /\ \A i \in DOMAIN announced : announced'[i] = announced[i]
           /\ announced'[Len(announced) + 1] = [ev |-> e, pid |-> pid, uid |-> next_uid]
           /\ \A i \in DOMAIN announced' :
                 i \in DOMAIN announced \/ i = Len(announced) + 1
           /\ \A i \in DOMAIN announced : i \in DOMAIN announced'
           /\ Len(announced) + 1 \in DOMAIN announced'
<1> DEFINE a == [ev |-> e, pid |-> pid, uid |-> next_uid]
<1>1. a \in Announcement /\ announced \in Seq(Announcement)
  BY DEF Typed, Announcement
<1>2. announced' = Append(announced, a) /\ next_uid' = next_uid + 1
  BY DEF Announce
<1> HIDE DEF a
<1>3. /\ announced' \in Seq(Announcement) /\ Len(announced') = Len(announced) + 1
      /\ \A i \in 1 .. Len(announced) : announced'[i] = announced[i]
      /\ announced'[Len(announced) + 1] = a
  BY <1>1, <1>2
<1>4. /\ DOMAIN announced' = 1 .. Len(announced) + 1
      /\ DOMAIN announced = 1 .. Len(announced) /\ Len(announced) \in Nat
  <2>1. DOMAIN announced' = 1 .. Len(announced')
    BY <1>3
  <2> QED
    BY <1>3, <2>1, StreamFacts
<1> QED
  BY <1>2, <1>3, <1>4 DEF a

LEMMA HandleLineKeeps ==
    ASSUME ReadInv, HandleLine, UNCHANGED options
    PROVE  ReadInv'
<1> USE DEF options
<1>1. /\ Typed /\ Quiet /\ StreamInv /\ OncePerQueue /\ SeenInv /\ OrderInv
      /\ EveryQueueAnnounced
  BY DEF ReadInv
<1>2. PICK n \in 0 .. Len(events) + 1 : UpTo(n)
  BY <1>1 DEF StreamInv
<1>3. /\ n \in 0 .. Len(events)
      /\ Min({i \in DOMAIN buf : buf[i].end}) = 2 /\ buf[2].ev = n
      /\ buf' \in Seq(Unit)
      /\ StreamFrom(n + 1)'
  BY <1>1, <1>2, TakeLine DEF UpTo
<1>4. /\ UNCHANGED <<live, events, tracer, pipe, mode, pid_filter_>>
      /\ Len(events) \in Nat /\ n \in Nat /\ DOMAIN events = 1 .. Len(events)
      /\ n + 1 \in 0 .. Len(events') + 1
  BY <1>1, <1>3, StreamFacts DEF HandleLine, system
<1>5. /\ handled \subseteq 0 .. n - 1
      /\ \A i \in DOMAIN announced : announced[i].ev \in 1 .. n - 1
      /\ \A d \in handled : d \in Nat /\ d < n
      /\ \A i \in DOMAIN announced : announced[i].ev \in Nat /\ announced[i].ev < n
  BY <1>2, <1>4 DEF UpTo
<1>6. tracer \notin {"off", "starting"}
  <2>1. buf # <<>>
    BY <1>1 DEF HandleLine, Complete
  <2> QED
    BY <1>1, <2>1 DEF Quiet
<1>7. Quiet'
  BY <1>4, <1>6 DEF Quiet
<1>8. CASE n = 0
  <2>1. handled' = {0} /\ UNCHANGED <<next_uid, seen, announced>> /\ handled = {}
    <3>1. /\ handled' = handled \cup {0}
          /\ UNCHANGED <<next_uid, seen, announced>>
      <4> DEFINE last == Min({i \in DOMAIN buf : buf[i].end})
      <4>1. /\ handled' = handled \cup {buf[last].ev}
            /\ buf[last].ev = 0 => UNCHANGED <<next_uid, seen, announced>>
        BY DEF HandleLine
      <4>2. buf[last].ev = 0
        BY <1>3, <1>8
      <4> QED
        BY <4>1, <4>2
    <3>2. handled = {}
      BY <1>5, <1>8
    <3> QED
      BY <3>1, <3>2
  <2>2. \A i \in DOMAIN announced : FALSE
    BY <1>5, <1>8
  <2>3. StreamInv'
    <3>1. UpTo(n + 1)'
      BY <1>3, <1>4, <1>8, <2>1, <2>2 DEF UpTo
    <3> QED
      BY <1>4, <3>1 DEF StreamInv
  <2>4. Typed'
    BY <1>1, <1>3, <1>4, <2>1 DEF Typed
  <2>5. OncePerQueue' /\ OrderInv' /\ SeenInv'
    <3>1. OncePerQueue' /\ OrderInv'
      BY <1>1, <1>4, <2>1 DEF OncePerQueue, OrderInv
    <3>2. SeenInv'
      BY <1>1, <1>4, <2>1 DEF SeenInv
    <3> QED
      BY <3>1, <3>2
  <2>6. EveryQueueAnnounced'
    BY <2>1 DEF EveryQueueAnnounced
  <2> QED
    BY <1>7, <2>3, <2>4, <2>5, <2>6 DEF ReadInv
<1>9. CASE n # 0
  <2> DEFINE q == events[n]
  <2>1. n \in 1 .. Len(events) /\ q \in Queues
    BY <1>1, <1>3, <1>4, <1>9, StreamFacts
  <2>2. /\ handled' = handled \cup {n}
        /\ \/ UNCHANGED <<next_uid, announced>>
           \/ next_uid' = next_uid + 1 /\ UNCHANGED announced
           \/ \E pid \in Nat : Announce(n, pid)
        /\ mode # "kfd" => UNCHANGED seen
        /\ mode = "kfd" =>
              /\ seen' = seen \cup {q.ring}
              /\ q.ring \in seen => UNCHANGED announced
              /\ q.ring \notin seen /\ Wanted(q) => \E pid \in Nat : Announce(n, pid)
        /\ mode = "kprobe" /\ pid_filter_ \in {0, q.tid}
              => \E pid \in Nat : Announce(n, pid)
        /\ mode = "bpftrace" /\ (pid_filter_ = 0 \/ Similar(q.tid, pid_filter_))
              => \E pid \in Nat : Announce(n, pid)
    BY <1>1, <1>3, <2>1, HandlerFacts
  \* Either way the announcements are the old ones and perhaps one of event n.
  <2>3. /\ announced' \in Seq(Announcement) /\ next_uid' \in Nat
        /\ next_uid' >= next_uid
        /\ \A i \in DOMAIN announced : i \in DOMAIN announced' /\ announced'[i] = announced[i]
        /\ \A i \in DOMAIN announced' :
              \/ i \in DOMAIN announced
              \/ /\ i = Len(announced) + 1 /\ next_uid' = next_uid + 1
                 /\ announced' # announced
                 /\ announced'[i].ev = n /\ announced'[i].uid = next_uid
    <3>1. CASE UNCHANGED announced
      <4>1. next_uid \in Nat /\ (next_uid' = next_uid \/ next_uid' = next_uid + 1)
        BY <1>1, <2>2, <3>1 DEF Typed, Announce
      <4> QED
        BY <1>1, <3>1, <4>1 DEF Typed
    <3>2. ASSUME NEW pid \in Nat, Announce(n, pid) PROVE <2>3
      <4>1. /\ announced' \in Seq(Announcement) /\ next_uid' = next_uid + 1
            /\ \A i \in DOMAIN announced : announced'[i] = announced[i]
            /\ announced'[Len(announced) + 1]
                  = [ev |-> n, pid |-> pid, uid |-> next_uid]
            /\ \A i \in DOMAIN announced' :
                  i \in DOMAIN announced \/ i = Len(announced) + 1
            /\ \A i \in DOMAIN announced : i \in DOMAIN announced'
            /\ Len(announced) + 1 \in DOMAIN announced'
        BY <1>1, <1>4, <3>2, AnnounceFacts
      <4>2. announced' # announced
        <5>1. Len(announced) + 1 \notin DOMAIN announced
          BY <1>1, StreamFacts
        <5> QED
          BY <4>1, <5>1
      <4>3. next_uid \in Nat
        BY <1>1 DEF Typed
      <4> QED
        BY <4>1, <4>2, <4>3
    <3> QED
      BY <2>2, <3>1, <3>2
  <2>4. \A pid \in Nat : Announce(n, pid) =>
            \E i \in DOMAIN announced' : announced'[i].ev = n
    <3> SUFFICES ASSUME NEW pid \in Nat, Announce(n, pid)
                 PROVE  \E i \in DOMAIN announced' : announced'[i].ev = n
      OBVIOUS
    <3>1. /\ announced'[Len(announced) + 1]
                = [ev |-> n, pid |-> pid, uid |-> next_uid]
          /\ Len(announced) + 1 \in DOMAIN announced'
      BY <1>1, <1>4, AnnounceFacts
    <3> QED
      BY <3>1
  <2>5. Typed'
    BY <1>1, <1>3, <1>4, <2>2, <2>3 DEF Typed
  <2>6. StreamInv'
    <3>1. handled' \subseteq 0 .. n + 1 - 1
      <4>1. \A d \in handled \cup {n} : d \in Nat /\ d <= n + 1 - 1
        BY <1>4, <1>5
      <4> QED
        BY <1>4, <2>2, <4>1
    <3>2. ASSUME NEW i \in DOMAIN announced' PROVE announced'[i].ev \in 1 .. n + 1 - 1
      BY <1>4, <1>5, <1>9, <2>3
    <3>3. UpTo(n + 1)'
      BY <1>3, <3>1, <3>2 DEF UpTo
    <3> QED
      BY <1>4, <3>3 DEF StreamInv
  <2>7. OncePerQueue'
    BY <1>1, <1>4 DEF OncePerQueue
  <2>8. SeenInv'
    <3> SUFFICES ASSUME mode = "kfd" PROVE SeenInv'
      BY <1>4 DEF SeenInv
    <3>1. ASSUME NEW i \in DOMAIN announced' PROVE events'[announced'[i].ev].ring \in seen'
      BY <1>1, <1>4, <2>2, <2>3 DEF SeenInv
    <3>2. ASSUME NEW r \in seen' PROVE \E d \in handled' \ {0} : events'[d].ring = r
      BY <1>1, <1>4, <1>9, <2>2 DEF SeenInv
    <3> QED
      BY <3>1, <3>2 DEF SeenInv
  <2>9. OrderInv'
    <3>1. ASSUME NEW i \in DOMAIN announced', NEW j \in DOMAIN announced', i < j
          PROVE  /\ announced'[i].ev < announced'[j].ev
                 /\ announced'[i].uid < announced'[j].uid
                 /\ events'[announced'[i].ev] # events'[announced'[j].ev]
      <4>1. CASE j \in DOMAIN announced
        <5>1. i \in DOMAIN announced
          BY <1>1, <2>3, <3>1, <4>1, StreamFacts
        <5> QED
          BY <1>1, <1>4, <2>3, <3>1, <4>1, <5>1 DEF OrderInv
      <4>2. CASE j \notin DOMAIN announced
        <5>1. /\ i \in DOMAIN announced /\ announced'[i] = announced[i]
              /\ announced'[j].ev = n /\ announced'[j].uid = next_uid
              /\ announced' # announced
          BY <2>3, <3>1, <4>2
        <5>2. events[announced[i].ev] # q
          <6>1. CASE mode = "kfd"
            BY <1>1, <2>2, <5>1, <6>1 DEF SeenInv
          <6>2. CASE mode # "kfd"
            <7>1. announced[i].ev \in DOMAIN events /\ announced[i].ev # n
              BY <1>4, <1>5, <2>1, <5>1
            <7> QED
              BY <1>1, <1>4, <2>1, <6>2, <7>1 DEF OncePerQueue
          <6> QED
            BY <6>1, <6>2
        <5> QED
          BY <1>1, <1>4, <1>5, <5>1, <5>2 DEF OrderInv
      <4> QED
        BY <4>1, <4>2
    <3>2. ASSUME NEW i \in DOMAIN announced' PROVE announced'[i].uid < next_uid'
      <4>1. next_uid \in Nat /\ next_uid' \in Nat /\ next_uid' >= next_uid
        BY <1>1, <2>3 DEF Typed
      <4>2. CASE i \in DOMAIN announced
        <5>1. announced[i].uid \in Nat /\ announced[i].uid < next_uid
          BY <1>1, <4>2, StreamFacts DEF OrderInv, Announcement
        <5> QED
          BY <2>3, <4>1, <4>2, <5>1
      <4>3. CASE i \notin DOMAIN announced
        <5>1. announced'[i].uid = next_uid /\ next_uid' = next_uid + 1
          BY <2>3, <4>3
        <5> QED
          BY <4>1, <5>1
      <4> QED
        BY <4>2, <4>3
    <3> QED
      BY <3>1, <3>2 DEF OrderInv
  <2>10. EveryQueueAnnounced'
    <3> SUFFICES ASSUME NEW e \in handled' \ {0}, Wanted(events[e]), Visible(e)
                 PROVE  \E i \in DOMAIN announced' : events[announced'[i].ev] = events[e]
      BY <1>4 DEF EveryQueueAnnounced, Wanted, Visible
    \* An announcement of the queue of an earlier event stays.
    <3>1. ASSUME NEW d \in handled \ {0}, Wanted(events[d]), Visible(d)
          PROVE  \E i \in DOMAIN announced' : events[announced'[i].ev] = events[d]
      <4>1. PICK i \in DOMAIN announced : events[announced[i].ev] = events[d]
        BY <1>1, <3>1 DEF EveryQueueAnnounced
      <4> QED
        BY <2>3, <4>1
    <3>2. CASE e \in handled
      BY <3>1, <3>2
    <3>3. CASE e = n /\ \E pid \in Nat : Announce(n, pid)
      BY <2>4, <3>3
    <3>4. CASE e = n /\ mode = "kfd" /\ q.ring \in seen
      <4>1. PICK d \in handled \ {0} : events[d].ring = q.ring
        BY <1>1, <3>4 DEF SeenInv
      <4>2. d \in 1 .. n - 1
        BY <1>4, <1>5, <4>1
      <4>3. events[d] = q
        BY <3>4, <4>1, <4>2 DEF Visible
      <4>4. Visible(d)
        <5>1. \A c \in 1 .. d - 1 : c \in 1 .. n - 1
          BY <1>4, <4>2
        <5> QED
          BY <3>4, <4>3, <5>1 DEF Visible
      <4> QED
        BY <3>1, <3>4, <4>3, <4>4
    <3>5. e \in handled \/ e = n
      BY <2>2
    <3>6. CASE e = n /\ ~(mode = "kfd" /\ q.ring \in seen)
      <4>1. mode \in {"kprobe", "bpftrace", "kfd"}
        BY <1>1 DEF Typed
      <4>2. \E pid \in Nat : Announce(n, pid)
        BY <2>2, <3>6, <4>1 DEF Wanted, Visible
      <4> QED
        BY <3>3, <3>6, <4>2
    <3> QED
      BY <3>2, <3>4, <3>5, <3>6
  <2> QED
    BY <1>7, <2>5, <2>6, <2>7, <2>8, <2>9, <2>10 DEF ReadInv
<1> QED
  BY <1>8, <1>9

\* bpftrace attaches and may write its banner, the line with number 0.
LEMMA AttachKeeps ==
    ASSUME ReadInv, Attach, UNCHANGED <<options, reader>>
    PROVE  ReadInv'
<1> USE DEF options, reader
<1>1. /\ Typed /\ Quiet /\ tracer = "starting" /\ tracer' = "attached"
      /\ UNCHANGED <<live, events, mode, pid_filter_, next_uid, seen, announced,
                     handled, buf>>
  BY DEF ReadInv, Attach
<1>2. /\ events = <<>> /\ pipe = <<>> /\ buf = <<>>
      /\ handled = {} /\ announced = <<>>
  BY <1>1 DEF Quiet
<1>3. Quiet'
  BY <1>1 DEF Quiet
<1>4. CASE UNCHANGED pipe
  <2>1. Typed'
    BY <1>1, <1>4 DEF Typed
  <2>2. \A n \in 0 .. Len(events) + 1 : StreamFrom(n) => StreamFrom(n)'
    BY <1>1, <1>4 DEF StreamFrom, InFlight
  <2> QED
    BY <1>1, <1>3, <2>1, <2>2, OnlyTheStream
<1>5. CASE pipe' = pipe \o Line(0)
  <2>1. /\ pipe' \in Seq(Unit) /\ Len(pipe') = 2
        /\ pipe'[1] = [ev |-> 0, end |-> FALSE] /\ pipe'[2] = [ev |-> 0, end |-> TRUE]
    <3>1. Line(0) \in Seq(Unit)
      BY DEF Line, Unit
    <3>2. pipe' = Line(0)
      BY <1>2, <1>5, <3>1
    <3> QED
      BY <3>1, <3>2 DEF Line
  <2>2. Typed'
    BY <1>1, <2>1 DEF Typed
  <2>3. StreamInv'
    <3>1. Len(events') = 0 /\ Len(buf') = 0
      BY <1>1, <1>2
    <3>2. ASSUME NEW i \in Nat, ~(i <= 0) PROVE InFlight(i)' = pipe'[i]
      <4>1. ~(i <= Len(buf')) /\ i - Len(buf') = i
        BY <3>1, <3>2
      <4> QED
        BY <4>1 DEF InFlight
    <3>3. ASSUME NEW k \in 0 .. 0
          PROVE  /\ InFlight(2 * (k - 0) + 1)' = [ev |-> k, end |-> FALSE]
                 /\ InFlight(2 * (k - 0) + 2)' = [ev |-> k, end |-> TRUE]
      <4>1. /\ k = 0 /\ 2 * (k - 0) + 1 = 1 /\ 2 * (k - 0) + 2 = 2
            /\ ~(1 <= 0) /\ ~(2 <= 0)
        OBVIOUS
      <4>2. InFlight(1)' = pipe'[1] /\ InFlight(2)' = pipe'[2]
        BY <3>2, <4>1
      <4> QED
        BY <2>1, <4>1, <4>2
    <3>4. Len(buf') + Len(pipe') = 2 * (Len(events') + 1 - 0)
      BY <2>1, <3>1
    <3>5. StreamFrom(0)'
      BY <3>1, <3>3, <3>4 DEF StreamFrom
    <3>6. UpTo(0)'
      BY <1>1, <1>2, <3>5 DEF UpTo
    <3>7. 0 \in 0 .. Len(events') + 1
      BY <3>1
    <3> QED
      BY <3>6, <3>7 DEF StreamInv
  <2>4. OncePerQueue' /\ SeenInv' /\ OrderInv' /\ EveryQueueAnnounced'
    <3>1. OncePerQueue' /\ SeenInv' /\ OrderInv'
      BY <1>1 DEF ReadInv, OncePerQueue, SeenInv, OrderInv
    <3>2. EveryQueueAnnounced'
      BY <1>1, <1>2 DEF EveryQueueAnnounced
    <3> QED
      BY <3>1, <3>2
  <2> QED
    BY <1>3, <2>2, <2>3, <2>4 DEF ReadInv
<1> QED
  BY <1>4, <1>5 DEF Attach

LEMMA ReadStep == ReadInv /\ Place /\ [Next]_vars => ReadInv'
<1> SUFFICES ASSUME ReadInv, Place, [Next]_vars PROVE ReadInv'
  OBVIOUS
<1>1. Typed /\ Quiet /\ UNCHANGED options
  BY DEF ReadInv, Next, vars
\* Steps that leave the stream where it is.
<1>2. ASSUME UNCHANGED <<events, pipe, buf, next_uid, seen, announced, handled>>,
             live' \subseteq live,
             tracer' \in {"off", "starting"} => tracer \in {"off", "starting"}
      PROVE  ReadInv'
  <2>1. Typed' /\ Quiet'
    <3>1. Typed'
      BY <1>1, <1>2 DEF Typed, options
    <3>2. Quiet'
      BY <1>1, <1>2 DEF Quiet
    <3> QED
      BY <3>1, <3>2
  <2>2. \A n \in 0 .. Len(events) + 1 : StreamFrom(n) => StreamFrom(n)'
    BY <1>2 DEF StreamFrom, InFlight
  <2> QED
    BY <1>1, <1>2, <2>1, <2>2, OnlyTheStream
\* Steps that read from the pipe.
<1>3. ASSUME NEW m \in DOMAIN pipe,
             buf' = buf \o SubSeq(pipe, 1, m),
             pipe' = SubSeq(pipe, m + 1, Len(pipe)),
             UNCHANGED <<live, tracer, events, next_uid, seen, announced, handled>>
      PROVE  ReadInv'
  <2>1. /\ buf' \in Seq(Unit) /\ pipe' \in Seq(Unit)
        /\ \A n \in 0 .. Len(events) + 1 : StreamFrom(n) => StreamFrom(n)'
    BY <1>1, <1>3, MoveUnits
  <2>2. Typed'
    BY <1>1, <1>3, <2>1 DEF Typed, options
  <2>3. Quiet'
    <3>1. pipe # <<>>
      BY <1>3
    <3> QED
      BY <1>1, <1>3, <3>1 DEF Quiet
  <2> QED
    BY <1>1, <1>3, <2>1, <2>2, <2>3, OnlyTheStream
<1>4. CASE System
  <2>1. UNCHANGED reader
    BY <1>4 DEF System
  <2>2. ASSUME NEW q \in Queues, Event(q) PROVE ReadInv'
    BY <1>1, <2>1, <2>2, EventKeeps
  <2>3. CASE Attach
    BY <1>1, <2>1, <2>3, AttachKeeps
  <2>4. CASE TracerDies
    BY <1>2, <2>1, <2>4 DEF TracerDies, reader
  <2>5. ASSUME NEW p \in Procs, ProcExit(p) PROVE ReadInv'
    BY <1>2, <2>1, <2>5 DEF ProcExit, reader
  <2> QED
    BY <1>4, <2>2, <2>3, <2>4, <2>5 DEF System
<1>5. CASE ArmRead
  <2>1. PICK m \in DOMAIN pipe : /\ buf' = buf \o SubSeq(pipe, 1, m)
                                 /\ pipe' = SubSeq(pipe, m + 1, Len(pipe))
    BY <1>5 DEF ArmRead
  <2>2. UNCHANGED <<live, tracer, events, next_uid, seen, announced, handled>>
    BY <1>5 DEF ArmRead
  <2> QED
    BY <1>3, <2>1, <2>2
<1>6. CASE Read
  <2>1. PICK m \in DOMAIN pipe : /\ buf' = buf \o SubSeq(pipe, 1, m)
                                 /\ pipe' = SubSeq(pipe, m + 1, Len(pipe))
    BY <1>6 DEF Read
  <2>2. UNCHANGED <<live, tracer, events, next_uid, seen, announced, handled>>
    BY <1>6 DEF Read
  <2> QED
    BY <1>3, <2>1, <2>2
<1>7. CASE HandleLine
  BY <1>1, <1>7, HandleLineKeeps
<1>8. CASE Fork
  BY <1>2, <1>8 DEF Fork, reader, Place
<1>9. CASE StartKprobe \/ StartFails \/ ArmFails \/ ArmTimeout
  BY <1>2, <1>9 DEF StartKprobe, StartFails, ArmFails, ArmTimeout, system, reader
<1>10. CASE StopBegin \/ Reap \/ StopEnd \/ Leave
  BY <1>2, <1>10 DEF StopBegin, Reap, StopEnd, Leave, system, reader
<1>11. CASE UNCHANGED vars
  BY <1>2, <1>11 DEF vars, system, reader
<1> QED
  BY <1>4, <1>5, <1>6, <1>7, <1>8, <1>9, <1>10, <1>11 DEF Next, Main, Reader

LEMMA ReadInit == Init => ReadInv /\ Place
<1> SUFFICES ASSUME Init PROVE ReadInv /\ Place
  OBVIOUS
<1>1. Place
  BY ModesAssumption DEF Init, Place, Piped
<1>2. Typed
  BY ModesAssumption, ProcsAssumption DEF Init, Typed
<1>3. StreamInv
  <2>1. /\ Len(events) = 0 /\ Len(buf) = 0 /\ Len(pipe) = 0 /\ handled = {}
        /\ announced = <<>>
    BY DEF Init
  <2>2. StreamFrom(1)
    BY <2>1 DEF StreamFrom
  <2>3. UpTo(1)
    BY <2>1, <2>2 DEF UpTo
  <2> QED
    BY <2>1, <2>3 DEF StreamInv
<1>4. Quiet /\ OncePerQueue /\ SeenInv /\ OrderInv /\ EveryQueueAnnounced
  BY DEF Init, Quiet, OncePerQueue, SeenInv, OrderInv, EveryQueueAnnounced
<1> QED
  BY <1>1, <1>2, <1>3, <1>4 DEF ReadInv

\* The readers' promise that every queue is seen: wherever the reads cut the lines,
\* a queue that is wanted and visible in the mode is announced once the line of one
\* of its events was taken.
THEOREM EveryQueueAnnouncedHolds == Spec => []EveryQueueAnnounced
<1>1. ReadInv => EveryQueueAnnounced
  BY DEF ReadInv
<1> QED
  BY <1>1, ReadInit, ReadStep, PlaceStep, PTL DEF Spec

-----------------------------------------------------------------------------
\* HandleKprobe, HandleBpftrace and HandleKfd announce event e for the process that
\* created its queue, for one that bpftrace mode takes for it, or for none.
LEMMA AttributedRight ==
    ASSUME \A q \in Queues : q.tid \in Procs => q.tid = q.proc,
           Typed, HandleLine, NEW e \in 1 .. Len(events),
           Min({i \in DOMAIN buf : buf[i].end}) = 2, buf[2].ev = e
    PROVE  \/ UNCHANGED announced
           \/ \E pid \in Nat :
                 /\ Announce(e, pid)
                 /\ \A u : LET a == [ev |-> e, pid |-> pid, uid |-> u]
                           IN  Owned(a) \/ Mistaken(a)
<1> DEFINE last == Min({i \in DOMAIN buf : buf[i].end})
           q == events[e]
           a(pid, u) == [ev |-> e, pid |-> pid, uid |-> u]
<1>1. last = 2 /\ buf[last].ev = e /\ e # 0
  <2>1. e # 0
    BY StreamFacts
  <2> QED
    BY <2>1
<1>2. (CASE mode = "kprobe"   -> HandleKprobe(e, q)
         [] mode = "bpftrace" -> HandleBpftrace(e, q)
         [] mode = "kfd"      -> HandleKfd(e, q))
  <2>1. IF buf[last].ev = 0 \/ last = 1
          THEN UNCHANGED <<next_uid, seen, announced>>
        ELSE CASE mode = "kprobe"   -> HandleKprobe(buf[last].ev, events[buf[last].ev])
               [] mode = "bpftrace" -> HandleBpftrace(buf[last].ev, events[buf[last].ev])
               [] mode = "kfd"      -> HandleKfd(buf[last].ev, events[buf[last].ev])
    BY DEF HandleLine
  <2> HIDE DEF last
  <2>2. last # 1
    BY <1>1
  <2> QED
    BY <1>1, <2>1, <2>2
<1>3. /\ q \in Queues /\ q.proc \in Procs /\ q.proc \in Nat /\ q.tid \in Nat
      /\ pid_filter_ \in Procs \cup {0} /\ live \subseteq Procs /\ Procs \subseteq Nat
  <2>1. q \in Queues
    BY StreamFacts
  <2> HIDE DEF q
  <2>2. q \in [proc : Procs, tid : Nat \ {0}, ring : Nat \ {0}]
    BY <2>1, ProcsAssumption
  <2>3. Procs \subseteq Nat
    BY ProcsAssumption
  <2>4. q.proc \in Procs /\ q.tid \in Nat
    BY <2>2
  <2>5. pid_filter_ \in Procs \cup {0} /\ live \subseteq Procs
    BY DEF Typed
  <2> QED
    BY <2>1, <2>3, <2>4, <2>5
<1>4. ASSUME NEW pid, Wanted(q), pid = IF mode = "kprobe" THEN q.tid ELSE q.proc
      PROVE  \A u : Owned(a(pid, u))
  BY <1>4 DEF Owned
<1> HIDE DEF last, q
<1>5. mode \in {"kprobe", "bpftrace", "kfd"} /\ pid_filter_ \in Nat
  BY <1>3 DEF Typed
<1>6. CASE mode = "kprobe"
  <2>1. HandleKprobe(e, q)
    BY <1>2, <1>6
  <2>2. CASE pid_filter_ \in {0, q.tid}
    <3>1. Announce(e, q.tid)
      BY <2>1, <2>2 DEF HandleKprobe
    <3>2. Wanted(q)
      BY <1>3, <2>2 DEF Wanted
    <3> QED
      BY <1>3, <1>4, <1>6, <3>1, <3>2
  <2>3. CASE pid_filter_ \notin {0, q.tid}
    BY <2>1, <2>3 DEF HandleKprobe, PassOver
  <2> QED
    BY <2>2, <2>3
<1>7. CASE mode = "bpftrace" /\ pid_filter_ # 0
  <2>1. IF pid_filter_ \in live /\ ~Similar(q.tid, pid_filter_)
          THEN PassOver
          ELSE Announce(e, pid_filter_)
    BY <1>2, <1>7 DEF HandleBpftrace
  <2>2. CASE pid_filter_ \in live /\ ~Similar(q.tid, pid_filter_)
    BY <2>1, <2>2 DEF PassOver
  <2>3. CASE ~(pid_filter_ \in live /\ ~Similar(q.tid, pid_filter_))
    <3>1. \A u : Mistaken(a(pid_filter_, u))
      BY <1>7, <2>3 DEF Mistaken, TargetGone, q
    <3> QED
      BY <1>5, <2>1, <2>3, <3>1
  <2> QED
    BY <2>2, <2>3
<1>8. CASE mode = "bpftrace" /\ pid_filter_ = 0
  <2> DEFINE C == Candidates(q)
             pid == IF C = {} THEN HostPidOf[q.proc] ELSE Min(C)
  <2>1. Announce(e, pid)
    BY <1>2, <1>8 DEF HandleBpftrace
  <2>2. C \in SUBSET Nat /\ HostPidOf[q.proc] \in Nat
    BY <1>3, ProcsAssumption DEF Candidates
  <2>3. /\ pid \in Nat
        /\ pid = HostPidOf[q.proc] \/ pid \in C
        /\ q.proc \in C => pid <= q.proc
    <3> HIDE DEF C
    <3> QED
      BY <2>2, LeastPid
  <2>4. pid = HostPidOf[q.proc] \/ <<pid, q.tid>> \in Contains
    <3> HIDE DEF pid
    <3> QED
      BY <2>3 DEF Candidates
  <2> HIDE DEF pid
  <2>5. CASE pid = q.proc
    <3>1. Wanted(q)
      BY <1>8 DEF Wanted
    <3> QED
      BY <1>4, <1>8, <2>1, <2>3, <2>5, <3>1
  <2>6. CASE pid # q.proc
    <3>1. q.proc \in C => pid < q.proc
      BY <1>3, <2>3, <2>6
    <3>2. \A u : Mistaken(a(pid, u))
      BY <1>8, <2>4, <3>1 DEF Mistaken, q
    <3> QED
      BY <2>1, <2>3, <3>2
  <2> QED
    BY <2>5, <2>6
<1>9. CASE mode = "kfd"
  <2>1. HandleKfd(e, q)
    BY <1>2, <1>9
  <2>2. UNCHANGED announced \/ (Wanted(q) /\ Announce(e, q.proc))
    BY <2>1 DEF HandleKfd, PassOver, Wanted
  <2> QED
    BY <1>3, <1>4, <1>9, <2>2
<1> QED
  BY <1>5, <1>6, <1>7, <1>8, <1>9

\* Processes only go, so who was taken for an owner is still one that may have been.
LEMMA StillAttributed ==
    ASSUME NEW a, a.ev \in 1 .. Len(events), \A i \in 1 .. Len(events) : events'[i] = events[i],
           UNCHANGED <<mode, pid_filter_>>, live' \subseteq live
    PROVE  /\ Owned(a) => Owned(a)'
           /\ Mistaken(a) => Mistaken(a)'
<1>1. events'[a.ev] = events[a.ev]
  OBVIOUS
<1>2. TargetGone => TargetGone'
  BY DEF TargetGone
<1>3. Candidates(events[a.ev])' \subseteq Candidates(events[a.ev])
  BY <1>1 DEF Candidates
<1>4. Owned(a) => Owned(a)'
  BY <1>1 DEF Owned, Wanted
<1>5. Mistaken(a) => Mistaken(a)'
  <2>1. CASE pid_filter_ # 0
    BY <1>1, <1>2, <2>1 DEF Mistaken
  <2>2. CASE pid_filter_ = 0
    BY <1>1, <1>3, <2>2 DEF Mistaken
  <2> QED
    BY <2>1, <2>2
<1> QED
  BY <1>4, <1>5

LEMMA OwnerStep ==
    ASSUME \A q \in Queues : q.tid \in Procs => q.tid = q.proc
    PROVE  OwnerInv /\ ReadInv /\ [Next]_vars => OwnerInv'
<1> SUFFICES ASSUME OwnerInv, ReadInv, [Next]_vars PROVE OwnerInv'
  OBVIOUS
<1>1. Typed /\ UNCHANGED <<mode, pid_filter_>> /\ live' \subseteq live
  BY DEF ReadInv, Next, vars, options, System, Event, Attach, TracerDies, ProcExit,
         Main, StartKprobe, StartFails, Fork, ArmRead, ArmFails, ArmTimeout, StopBegin,
         Reap, StopEnd, Reader, Read, Leave, HandleLine, system
<1>2. PICK n \in 0 .. Len(events) + 1 : UpTo(n)
  BY DEF ReadInv, StreamInv
<1>3. /\ Len(events) \in Nat /\ n \in Nat
      /\ \A i \in DOMAIN announced : announced[i].ev \in 1 .. Len(events)
  BY <1>1, <1>2, StreamFacts DEF UpTo
<1>4. ASSUME UNCHANGED announced, \A i \in 1 .. Len(events) : events'[i] = events[i]
      PROVE  OwnerInv'
  <2> SUFFICES ASSUME NEW i \in DOMAIN announced
               PROVE  Owned(announced[i])' \/ Mistaken(announced[i])'
    BY <1>4 DEF OwnerInv
  <2> DEFINE a == announced[i]
  <2>1. Owned(a) \/ Mistaken(a)
    BY DEF OwnerInv
  <2>2. a.ev \in 1 .. Len(events) /\ a' = a
    BY <1>3, <1>4
  <2>3. (Owned(a) => Owned(a)') /\ (Mistaken(a) => Mistaken(a)')
    BY <1>1, <1>4, <2>2, StillAttributed
  <2> QED
    BY <2>1, <2>3
<1>5. CASE System
  <2>1. UNCHANGED announced
    BY <1>5 DEF System, reader
  <2>2. \A i \in 1 .. Len(events) : events'[i] = events[i]
    <3>1. ASSUME NEW q \in Queues, Event(q) PROVE <2>2
      <4>1. events \in Seq(Queues) /\ events' = Append(events, q)
        BY <1>1, <3>1 DEF Typed, Event
      <4> QED
        BY <4>1
    <3> QED
      BY <1>5, <3>1 DEF System, Attach, TracerDies, ProcExit
  <2> QED
    BY <1>4, <2>1, <2>2
<1>6. CASE Main \/ Read \/ Leave \/ UNCHANGED vars
  <2>1. UNCHANGED <<announced, events>>
    BY <1>6 DEF Main, StartKprobe, StartFails, Fork, ArmRead, ArmFails, ArmTimeout,
                StopBegin, Reap, StopEnd, Read, Leave, system, reader, vars
  <2> QED
    BY <1>4, <2>1
<1>7. CASE HandleLine
  <2>1. /\ n \in 0 .. Len(events)
        /\ Min({i \in DOMAIN buf : buf[i].end}) = 2 /\ buf[2].ev = n
    BY <1>1, <1>2, <1>7, TakeLine DEF UpTo
  <2>2. UNCHANGED <<events, live>>
    BY <1>7 DEF HandleLine, system
  <2>3. CASE n = 0
    <3>1. UNCHANGED announced
      <4> DEFINE last == Min({i \in DOMAIN buf : buf[i].end})
      <4>1. buf[last].ev = 0 => UNCHANGED announced
        BY <1>7 DEF HandleLine
      <4>2. buf[last].ev = 0
        BY <2>1, <2>3
      <4> QED
        BY <4>1, <4>2
    <3> QED
      BY <1>4, <2>2, <3>1
  <2>4. CASE n # 0
    <3>1. n \in 1 .. Len(events)
      BY <1>3, <2>1, <2>4
    <3>2. \/ UNCHANGED announced
          \/ \E pid \in Nat :
                /\ Announce(n, pid)
                /\ \A u : LET a == [ev |-> n, pid |-> pid, uid |-> u]
                          IN  Owned(a) \/ Mistaken(a)
      BY <1>1, <1>7, <2>1, <3>1, AttributedRight
    <3>3. ASSUME NEW pid \in Nat, Announce(n, pid),
                 \A u : LET a == [ev |-> n, pid |-> pid, uid |-> u]
                        IN  Owned(a) \/ Mistaken(a)
          PROVE  OwnerInv'
      <4>1. /\ \A i \in DOMAIN announced : announced'[i] = announced[i]
            /\ announced'[Len(announced) + 1]
                  = [ev |-> n, pid |-> pid, uid |-> next_uid]
            /\ \A i \in DOMAIN announced' :
                  i \in DOMAIN announced \/ i = Len(announced) + 1
        BY <1>1, <1>3, <3>3, AnnounceFacts
      <4>2. \A x : (Owned(x)' <=> Owned(x)) /\ (Mistaken(x)' <=> Mistaken(x))
        BY <1>1, <2>2 DEF Owned, Mistaken, Wanted, TargetGone, Candidates
      <4>3. ASSUME NEW i \in DOMAIN announced'
            PROVE  Owned(announced'[i]) \/ Mistaken(announced'[i])
        <5>1. CASE i \in DOMAIN announced
          BY <4>1, <5>1 DEF OwnerInv
        <5>2. CASE i = Len(announced) + 1
          BY <3>3, <4>1, <5>2
        <5> QED
          BY <4>1, <5>1, <5>2
      <4> QED
        BY <4>2, <4>3 DEF OwnerInv
    <3> QED
      BY <1>4, <2>2, <3>2, <3>3
  <2> QED
    BY <2>3, <2>4
<1> QED
  BY <1>5, <1>6, <1>7 DEF Next, Reader

\* The announcements are in order, each queue once and under a uid of its own, of
\* the process asked for and attributed to the process that created the queue, or in
\* bpftrace mode to one that a name in common or the end of the process leads to,
\* whatever names processes and threads have.  Needed for it: a thread id that is the
\* pid of a process is that of its own main thread, as the kernel's ids are.
THEOREM AnnouncedRightHolds ==
    ASSUME \A q \in Queues : q.tid \in Procs => q.tid = q.proc
    PROVE  Spec => []AnnouncedRight
<1>1. Init => OwnerInv
  BY DEF Init, OwnerInv
<1>2. OwnerInv /\ ReadInv => AnnouncedRight
  BY DEF OwnerInv, ReadInv, OrderInv, AnnouncedRight
<1>3. OwnerInv /\ ReadInv /\ [Next]_vars => OwnerInv'
  BY OwnerStep
<1> QED
  BY <1>1, <1>2, <1>3, ReadInit, ReadStep, PlaceStep, PTL DEF Spec
=============================================================================
