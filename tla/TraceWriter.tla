----------------------------- MODULE TraceWriter ------------------------------
(***************************************************************************)
(* The trace writer (src/trace_writer.cpp): what the parser and the AIS    *)
(* monitor Add while time passes, and the events Write makes of it in the  *)
(* Perfetto and in the JSON format, as a viewer puts them together again.  *)
(*                                                                         *)
(* Time is counted in units of kMinDurSec (a tenth of the microsecond that *)
(* the JSON format counts in).  AQL and SDMA records, which the code keeps *)
(* and sorts apart, never share a track and are one list here.             *)
(***************************************************************************)
EXTENDS Naturals, Sequences, Functions, FiniteSets, FiniteSetsExt

CONSTANTS
    Tracks,      \* AQL and SDMA queues, each with a track of its own
    Pids,        \* processes that call the AIS ioctl
    Significant, \* JSON numbers have as many digits as this has zeros: 10^6 in the code
    Units,       \* the powers of ten up to the unit of the last digit of any time
    Boot,        \* the clock when hsa-snoop starts
    MaxTime,     \* bound: the clock
    MaxMade      \* bound: records made

ASSUME PidAssumption == Pids \subseteq Nat
ASSUME ClockAssumption == Boot \in Nat
\* A packet is made at MaxTime at the latest and its slice ends a unit later.
ASSUME PrintAssumption ==
    /\ Significant \in Nat \ {0} /\ Units \subseteq Nat \ {0}
    /\ \A t \in Boot .. MaxTime + 1 : \E u \in Units : t < u * Significant

VARIABLES
    now,
    pending,      \* for each queue the submit times of its unconsumed packets
    records_,     \* the records added for the queues (AQL and SDMA)
    ais_records_, \* the records added for the AIS ioctls
    trace         \* what Write has written, or nothing yet

writervars == <<now, pending, records_, ais_records_, trace>>

Nothing == [format |-> "nothing"]

Made == Len(records_) + Len(ais_records_)
          + MapThenSumSet(LAMBDA q : Len(pending[q]), Tracks)

WriterInit ==
    /\ now = Boot
    /\ pending = [q \in Tracks |-> <<>>]
    /\ records_ = <<>> /\ ais_records_ = <<>>
    /\ trace = Nothing

-----------------------------------------------------------------------------
(* Records.                                                                *)

Tick ==
    /\ trace = Nothing
    /\ now < MaxTime
    /\ now' = now + 1
    /\ UNCHANGED <<pending, records_, ais_records_, trace>>

\* The parser sees a packet for the first time ...
Submit(q) ==
    /\ trace = Nothing
    /\ Made < MaxMade
    /\ pending' = [pending EXCEPT ![q] = Append(@, now)]
    /\ UNCHANGED <<now, records_, ais_records_, trace>>

\* ... and adds its record when the queue has consumed it.
Add(q) ==
    /\ trace = Nothing
    /\ pending[q] # <<>>
    /\ pending' = [pending EXCEPT ![q] = Tail(@)]
    /\ records_' = Append(records_, [track  |-> q,
                                     submit |-> Head(pending[q]),
                                     complete |-> now])
    /\ UNCHANGED <<now, ais_records_, trace>>

\* A packet that was consumed when the parser sees it first has its record added at
\* once; those of the older ones, which were consumed too, follow in the same poll.
AddFast(q) ==
    /\ trace = Nothing
    /\ Made < MaxMade
    /\ LET record(submit) == [track |-> q, submit |-> submit, complete |-> now]
       IN  records_' = Append(records_, record(now))
                         \o [i \in 1 .. Len(pending[q]) |-> record(pending[q][i])]
    /\ pending' = [pending EXCEPT ![q] = <<>>]
    /\ UNCHANGED <<now, ais_records_, trace>>

\* AIS tracks: 0xA1500000 | pid << 16 | the hash of the device, here its upper
\* half for one device: pid with the bits of 0xA150 set.
AisTrackUuid(pid) ==
    pid + MapThenSumSet(LAMBDA bit : IF (pid \div 2^bit) % 2 = 0 THEN 2^bit ELSE 0,
                        {4, 6, 8, 13, 15})

\* An AIS record begins and ends when the ioctl is entered.
AddAis(pid) ==
    /\ trace = Nothing
    /\ Made < MaxMade
    /\ ais_records_' = Append(ais_records_, [track  |-> AisTrackUuid(pid),
                                             pid    |-> pid,
                                             submit |-> now,
                                             complete |-> now])
    /\ UNCHANGED <<now, pending, records_, trace>>

-----------------------------------------------------------------------------
(* Write.                                                                  *)

\* A slice lasts at least kMinDurSec.
End(r) == IF r.complete - r.submit < 1 THEN r.submit + 1 ELSE r.complete

\* The begin and end events of the records, pushed in their order.
Events(recs) ==
    [k \in 1 .. 2 * Len(recs) |->
        LET i == (k + 1) \div 2
        IN  IF k % 2 = 1
              THEN [ts |-> recs[i].submit, begin |-> TRUE, i |-> i,
                    track |-> recs[i].track]
              ELSE [ts |-> End(recs[i]), begin |-> FALSE, i |-> i,
                    track |-> recs[i].track]]

\* Mutant: at one time begins come first.
BeforeBeginFirst(a, b) ==
    \/ a.ts < b.ts
    \/ a.ts = b.ts /\ a.begin /\ ~b.begin
    \/ a.ts = b.ts /\ a.begin = b.begin /\ a.i < b.i

\* By time, ends before begins, and otherwise stable.
Before(a, b) ==
    \/ a.ts < b.ts
    \/ a.ts = b.ts /\ ~a.begin /\ b.begin
    \/ a.ts = b.ts /\ a.begin = b.begin /\ a.i < b.i

\* The place of the k-th event in that order, and the events put in their places.
Rank(evs, k) == Cardinality({j \in DOMAIN evs : j = k \/ Before(evs[j], evs[k])})
Sorted(evs) == [n \in DOMAIN evs |-> evs[CHOOSE k \in DOMAIN evs : Rank(evs, k) = n]]

TrackEvents(recs) == Sorted(Events(recs))

\* A double in the stream's default format: rounded to six significant digits.
Printed(t) ==
    LET u == Min({v \in Units : t < v * Significant})
    IN  ((t + u \div 2) \div u) * u

\* A complete event has the time it begins at and its duration.
Complete(recs, i, dur) ==
    LET from == Printed(recs[i].submit)
    IN  [i |-> i, from |-> from, to |-> from + Printed(dur)]

\* Mutant: the duration is not raised to the least one.
CompleteEventsRaw(recs) ==
    [i \in 1 .. Len(recs) |-> Complete(recs, i, recs[i].complete - recs[i].submit)]

\* One complete event for each record.
CompleteEvents(recs) ==
    [i \in 1 .. Len(recs) |-> Complete(recs, i, End(recs[i]) - recs[i].submit)]

\* The writer is written once, in the format asked for, when everything has
\* stopped; packets that are still pending have been drained into records or
\* given up by then.
WriteJson ==
    /\ trace = Nothing
    /\ trace' = [format |-> "json", queues |-> CompleteEvents(records_),
                 ais |-> CompleteEvents(ais_records_)]
    /\ UNCHANGED <<now, pending, records_, ais_records_>>

WritePerfetto ==
    /\ trace = Nothing
    /\ trace' = [format |-> "perfetto", queues |-> TrackEvents(records_),
                 ais |-> TrackEvents(ais_records_)]
    /\ UNCHANGED <<now, pending, records_, ais_records_>>

-----------------------------------------------------------------------------
WriterNext ==
    \/ Tick \/ WriteJson \/ WritePerfetto
    \/ \E q \in Tracks : Submit(q) \/ Add(q) \/ AddFast(q)
    \/ \E p \in Pids : AddAis(p)

WriterSpec == WriterInit /\ [][WriterNext]_writervars

-----------------------------------------------------------------------------
(* The viewer.  An end event closes the slice of its track that was opened *)
(* last and is still open.                                                 *)

Depth(evs, from, to, t) ==
    Cardinality({k \in from .. to : evs[k].track = t /\ evs[k].begin})
      - Cardinality({k \in from .. to : evs[k].track = t /\ ~evs[k].begin})

\* The begin event that the end event k closes.
Closes(evs, k) ==
    Max({j \in 1 .. k - 1 :
           /\ evs[j].track = evs[k].track /\ evs[j].begin
           /\ Depth(evs, j, k - 1, evs[k].track) = 1})

\* The slices shown.
Shown(evs) ==
    {[i |-> evs[Closes(evs, k)].i, from |-> evs[Closes(evs, k)].ts,
      to |-> evs[k].ts] : k \in {k \in DOMAIN evs : ~evs[k].begin}}

\* What should be shown of the i-th record of a list.
Slice(recs, i) == [i |-> i, from |-> recs[i].submit, to |-> End(recs[i])]

-----------------------------------------------------------------------------
(* Properties.                                                             *)

\* Two records of one track overlap for longer than a moment.
Overlap(r, s) == r.track = s.track /\ r.submit < End(s) /\ s.submit < End(r)

\* In a Perfetto trace every end event finds a slice of its track to close and no
\* slice is left open, also for slices of no length, slices that touch and
\* processes that share a track; and a record that overlaps no other one of its
\* queue is shown as it is, from its submission to its consumption ("slices
\* represent approximate enqueue-to-queue-consumed residency",
\* docs/perfetto.md:35; of overlapping ones the viewer swaps ends).
PerfettoFaithful ==
    trace.format = "perfetto" =>
        /\ \A evs \in {trace.queues, trace.ais} : \A k \in DOMAIN evs :
              /\ Depth(evs, 1, k, evs[k].track) >= 0
              /\ Depth(evs, 1, Len(evs), evs[k].track) = 0
        /\ \A i \in DOMAIN records_ :
              (\A j \in DOMAIN records_ \ {i} : ~Overlap(records_[i], records_[j]))
                => Slice(records_, i) \in Shown(trace.queues)

\* In a JSON trace the slices begin in the order in which the records do, also where
\* printing makes times equal, each within half a unit of the last digit of its time,
\* and none is without length ("kMinDurSec", trace_writer.cpp:176), however short.
JsonKeepsOrder ==
    trace.format = "json" =>
        \A i, j \in DOMAIN records_ :
            LET e == trace.queues[i]  t == records_[i].submit IN
            /\ t <= records_[j].submit => e.from <= trace.queues[j].from
            /\ 2 * (Significant \div 10) * (e.from - t) <= t
            /\ 2 * (Significant \div 10) * (t - e.from) <= t
            /\ e.from < e.to
=============================================================================
