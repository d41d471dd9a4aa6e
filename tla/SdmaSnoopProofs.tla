--------------------------- MODULE SdmaSnoopProofs ----------------------------
(***************************************************************************)
(* For any ring size, any packets and any garbage lengths: the SDMA walk   *)
(* reports in order and without a gap, it stays on packet boundaries until *)
(* something is skipped or lapped, and it implements the ledger.  For any  *)
(* packet of any version, published dword by dword, and any pages: what    *)
(* was decided on a part of it stays, and the record of a copy is right.   *)
(***************************************************************************)
EXTENDS SdmaSnoop, SdmaWindow, FiniteSetTheorems, TLAPS

Sent == [at : Nat, len : Nat \ {0}, need : Nat, known : BOOLEAN]

\* The variables the argument speaks of have their types.
Typed ==
    /\ sent \in Seq(Sent)
    /\ written \in Nat /\ wptr \in Nat /\ rptr \in Nat
    /\ pc \in Pcs
    /\ wsnap \in Nat /\ rsnap \in Nat /\ next_id \in Nat
    /\ primed \in BOOLEAN /\ synced \in BOOLEAN
    /\ sdma_seq \in Nat
    /\ sdma_inflight \subseteq Record
    /\ emitted \in Seq(Record)

\* A sample is never ahead of the pointer it was taken from, nor the walk of
\* what is published; before priming nothing is decoded.
Pointers ==
    /\ rptr <= wptr /\ wptr <= written /\ written <= MaxDwords
    /\ wsnap <= wptr /\ rsnap <= rptr /\ next_id <= wptr
    /\ pc \in {"decode", "drain"} => primed
    /\ ~primed => sdma_inflight = {} /\ emitted = <<>>

\* The records in flight lie behind next_id one after the other, in the order
\* of their numbers, behind all that were reported; until the queue ends they
\* are the ones whose numbers have not been reported.
Flight ==
    /\ \A r \in sdma_inflight :
          /\ r.at < r.end /\ r.end <= next_id
          /\ Len(emitted) <= r.seq /\ r.seq < sdma_seq
    /\ \A r, s \in sdma_inflight :
          \/ r = s
          \/ r.seq < s.seq /\ r.end <= s.at
          \/ s.seq < r.seq /\ s.end <= r.at
    /\ ~Closed => \A k \in Len(emitted) .. sdma_seq - 1 :
                      \E r \in sdma_inflight : r.seq = k
    /\ \A i \in DOMAIN emitted :
          /\ emitted[i].end <= next_id
          /\ \A r \in sdma_inflight : emitted[i].end <= r.at
    /\ Len(emitted) <= sdma_seq

\* The packets lie one behind the other up to what is written.
Contiguous ==
    \A i \in DOMAIN sent :
        sent[i].at + sent[i].len =
            IF i = Len(sent) THEN written ELSE sent[i + 1].at

IInv == Typed /\ Pointers /\ Flight /\ ReportedInSequence /\ Contiguous /\ InSync

-----------------------------------------------------------------------------
\* Pointers are published in bytes and read back as the dwords they were.
LEMMA PointersReadBack ==
    ASSUME NEW d \in Nat
    PROVE  RingBytesToDwords(ByteOffset(d)) = d
  BY DEF RingBytesToDwords, ByteOffset

\* A record that is appended is reported after the others.
LEMMA EmitAppends ==
    ASSUME emitted \in Seq(Record), NEW r \in Record, emitted' = Append(emitted, r)
    PROVE  /\ emitted' \in Seq(Record)
           /\ Len(emitted') = Len(emitted) + 1
           /\ \A i \in DOMAIN emitted : emitted'[i] = emitted[i]
           /\ emitted'[Len(emitted) + 1] = r
           /\ DOMAIN emitted' = DOMAIN emitted \cup {Len(emitted) + 1}
           /\ Reported' = Reported \cup Dwords(r)
           /\ {emitted'[i] : i \in DOMAIN emitted'}
                = {emitted[i] : i \in DOMAIN emitted} \cup {r}
<1>1. /\ emitted' \in Seq(Record)
      /\ Len(emitted') = Len(emitted) + 1
      /\ \A i \in DOMAIN emitted : emitted'[i] = emitted[i]
      /\ emitted'[Len(emitted) + 1] = r
  OBVIOUS
<1>2. DOMAIN emitted' = DOMAIN emitted \cup {Len(emitted) + 1}
  OBVIOUS
<1>3. {emitted'[i] : i \in DOMAIN emitted'}
        = {emitted[i] : i \in DOMAIN emitted} \cup {r}
  BY <1>1, <1>2
<1>4. Reported' = Reported \cup Dwords(r)
  <2>1. \A i \in DOMAIN emitted : Dwords(emitted'[i]) = Dwords(emitted[i])
    BY <1>1
  <2>2. Dwords(emitted'[Len(emitted) + 1]) = Dwords(r)
    BY <1>1
  <2>3. Reported' = UNION {Dwords(emitted'[i]) : i \in DOMAIN emitted'}
    BY DEF Reported, Dwords
  <2>4. QED
    BY <1>2, <2>1, <2>2, <2>3 DEF Reported
<1>5. QED
  BY <1>1, <1>2, <1>3, <1>4

\* While the boundaries are known and the header is not lapped, a length that
\* is decoded at next_id is that of the packet submitted there.
LEMMA DecodedLength ==
    ASSUME IInv, synced, primed, Looping, ~Lapped(next_id),
           NEW len \in SeenLens(next_id), len > 0
    PROVE  \E j \in DOMAIN sent :
              sent[j].at = next_id /\ sent[j].len = len /\ sent[j].known
<1> DEFINE headers == {i \in DOMAIN sent : sent[i].at = ShownAt(next_id)}
           p == sent[CHOOSE i \in headers : TRUE]
<1>1. ShownAt(next_id) = next_id
  BY DEF Lapped
<1>2. next_id \in Boundaries /\ next_id < written
  BY DEF IInv, Typed, Pointers, InSync, Looping
<1>3. PICK i \in DOMAIN sent : sent[i].at = next_id
  BY <1>2 DEF IInv, Typed, Boundaries
<1>4. headers # {}
  BY <1>1, <1>3
<1>5. len \in IF ~p.known \/ win < p.need THEN {0}
              ELSE IF Lapped(next_id) /\ p.need > 1 THEN GarbageLens \cup {p.len}
              ELSE {p.len}
  BY <1>4 DEF SeenLens
<1>6. (CHOOSE h \in headers : TRUE) \in headers
  BY <1>4
<1>7. p.known /\ len = p.len
  BY <1>5
<1>8. QED
  BY <1>1, <1>6, <1>7

\* A decoded length is a number.
LEMMA DecodedNat ==
    ASSUME IInv, NEW len \in SeenLens(next_id)
    PROVE  len \in Nat
<1> DEFINE headers == {i \in DOMAIN sent : sent[i].at = ShownAt(next_id)}
<1>1. CASE headers = {}
  BY <1>1, GarbageAssumption DEF SeenLens
<1>2. CASE headers # {}
  <2> DEFINE p == sent[CHOOSE i \in headers : TRUE]
  <2>1. (CHOOSE i \in headers : TRUE) \in headers
    BY <1>2
  <2>2. p \in Sent
    BY <2>1 DEF IInv, Typed
  <2>3. len \in {0} \cup GarbageLens \cup {p.len}
    BY <1>2 DEF SeenLens
  <2> HIDE DEF p
  <2>4. QED
    BY <2>2, <2>3, GarbageAssumption DEF Sent
<1>3. QED
  BY <1>1, <1>2

\* The end of a packet is the beginning of the next one.
LEMMA NextBoundary ==
    ASSUME IInv, NEW j \in DOMAIN sent
    PROVE  sent[j].at + sent[j].len \in Boundaries
<1>1. j \in 1 .. Len(sent)
  BY DEF IInv, Typed
<1>2. CASE j = Len(sent)
  BY <1>2 DEF IInv, Contiguous, Boundaries
<1>3. CASE j # Len(sent)
  <2>1. j + 1 \in DOMAIN sent
    BY <1>1, <1>3 DEF IInv, Typed
  <2>2. sent[j].at + sent[j].len = sent[j + 1].at
    BY <1>3 DEF IInv, Contiguous
  <2>3. QED
    BY <2>1, <2>2 DEF Boundaries
<1>4. QED
  BY <1>2, <1>3

-----------------------------------------------------------------------------
\* Nothing is written, sampled or decoded at first.
LEMMA InitIInv == Init => IInv
<1> SUFFICES ASSUME Init PROVE IInv
  OBVIOUS
<1> USE SizesAssumption DEF Init
<1>1. Typed
  <2>1. <<>> \in Seq(Sent) /\ <<>> \in Seq(Record)
    OBVIOUS
  <2>2. QED
    BY <2>1 DEF Typed, Pcs
<1>2. Pointers /\ Flight /\ ReportedInSequence /\ Contiguous
  BY DEF Pointers, Flight, ReportedInSequence, Contiguous
<1>3. InSync
  BY DEF InSync
<1>4. QED
  BY <1>1, <1>2, <1>3 DEF IInv

\* The producer and the engine: boundaries and packets stay what they are.
LEMMA TracedStep == IInv /\ Traced => IInv'
<1> SUFFICES ASSUME IInv, Traced PROVE IInv'
  OBVIOUS
<1>1. /\ UNCHANGED <<pc, wsnap, rsnap, next_id, primed, sdma_seq>>
      /\ UNCHANGED <<sdma_inflight, emitted, synced>>
  BY DEF Traced, qstate, history
<1>2. ASSUME /\ UNCHANGED <<sent, written>>
             /\ wptr' \in Nat /\ rptr' \in Nat
             /\ wptr <= wptr' /\ rptr <= rptr'
             /\ rptr' <= wptr' /\ wptr' <= written
      PROVE  IInv'
  <2>1. Typed'
    BY <1>1, <1>2 DEF IInv, Typed
  <2>2. Pointers'
    BY <1>1, <1>2 DEF IInv, Typed, Pointers
  <2>3. Flight'
    BY <1>1 DEF IInv, Flight, Closed
  <2>4. ReportedInSequence'
    <3>1. \A i \in DOMAIN emitted : emitted[i] \in Record
      BY DEF IInv, Typed
    <3>2. \A i \in DOMAIN emitted : emitted[i].end \in Nat
      BY <3>1, SizesAssumption DEF Record, Positions
    <3>3. QED
      BY <1>1, <1>2, <3>2 DEF IInv, Typed, ReportedInSequence
  <2>5. Contiguous' /\ InSync'
    BY <1>1, <1>2 DEF IInv, Contiguous, InSync, Boundaries, Records, Genuine
  <2>6. QED
    BY <2>1, <2>2, <2>3, <2>4, <2>5 DEF IInv
<1>3. ASSUME NEW p \in Packets, Submit(p) PROVE IInv'
  <2> DEFINE rec == [at |-> written, len |-> p.len, need |-> p.need,
                     known |-> p.known]
  <2>1. p.len \in Nat \ {0} /\ p.need \in Nat /\ p.known \in BOOLEAN
    BY PacketsAssumption, SizesAssumption
  <2>2. /\ rec \in Sent /\ rec.at = written /\ rec.len = p.len
    BY <2>1 DEF IInv, Typed, Sent
  <2>3. /\ sent' = Append(sent, rec) /\ written' = written + p.len
        /\ written' <= MaxDwords /\ UNCHANGED <<wptr, rptr>>
    BY <1>3 DEF Submit
  <2> HIDE DEF rec
  <2>4. /\ sent' \in Seq(Sent) /\ Len(sent') = Len(sent) + 1
        /\ DOMAIN sent' = 1 .. Len(sent) + 1
        /\ DOMAIN sent = 1 .. Len(sent) /\ Len(sent) \in Nat
        /\ \A i \in DOMAIN sent : sent'[i] = sent[i]
        /\ sent'[Len(sent) + 1] = rec
    BY <2>2, <2>3 DEF IInv, Typed
  <2>5. Typed'
    BY <1>1, <2>1, <2>3, <2>4 DEF IInv, Typed
  <2>6. Pointers'
    BY <1>1, <2>1, <2>3 DEF IInv, Typed, Pointers
  <2>7. Flight' /\ ReportedInSequence'
    BY <1>1, <2>3 DEF IInv, Flight, Closed, ReportedInSequence
  <2>8. Contiguous'
    <3> SUFFICES ASSUME NEW i \in DOMAIN sent'
                 PROVE  sent'[i].at + sent'[i].len =
                          IF i = Len(sent') THEN written' ELSE sent'[i + 1].at
      BY DEF Contiguous
    <3>1. CASE i = Len(sent) + 1
      BY <3>1, <2>2, <2>3, <2>4
    <3>2. CASE i = Len(sent)
      BY <3>2, <2>2, <2>4 DEF IInv, Contiguous
    <3>3. CASE i \in 1 .. Len(sent) - 1
      <4>1. i \in DOMAIN sent /\ i + 1 \in DOMAIN sent
        BY <3>3, <2>4
      <4>2. QED
        BY <4>1, <3>3, <2>4 DEF IInv, Contiguous
    <3>4. QED
      BY <2>4, <3>1, <3>2, <3>3
  <2>9. InSync'
    <3>1. DOMAIN sent \subseteq DOMAIN sent' /\ Len(sent) + 1 \in DOMAIN sent'
      BY <2>4
    <3>2. written \in Boundaries'
      BY <2>2, <2>4, <3>1 DEF Boundaries
    <3>3. \A i \in DOMAIN sent : sent[i].at \in Boundaries'
      BY <2>4, <3>1 DEF Boundaries
    <3>4. Boundaries \subseteq Boundaries'
      BY <3>2, <3>3 DEF Boundaries
    <3>5. \A r : Genuine(r) => Genuine(r)'
      BY <2>4, <3>1 DEF Genuine
    <3>6. Records' = Records
      BY <1>1 DEF Records
    <3>7. QED
      BY <1>1, <3>4, <3>5, <3>6 DEF IInv, InSync
  <2>10. QED
    BY <2>5, <2>6, <2>7, <2>8, <2>9 DEF IInv
<1>4. CASE Publish
  BY <1>2, <1>4 DEF Publish, IInv, Typed, Pointers
<1>5. CASE Consume
  BY <1>2, <1>5 DEF Consume, IInv, Typed, Pointers
<1>6. CASE ProcessExit
  BY <1>2, <1>6 DEF ProcessExit, IInv, Typed, Pointers
<1>7. QED
  BY <1>3, <1>4, <1>5, <1>6 DEF Traced

\* A step that leaves the queue alone, but for the samples of its pointers.
LEMMA QuietStep ==
    ASSUME IInv,
           UNCHANGED <<sent, written, wptr, rptr>>,
           UNCHANGED <<next_id, primed, sdma_seq, sdma_inflight, emitted, synced>>,
           pc' \in Pcs, pc' \in {"decode", "drain"} => primed, Closed => Closed',
           wsnap' \in Nat, wsnap' <= wptr, rsnap' \in Nat, rsnap' <= rptr
    PROVE  IInv'
<1>1. Typed' /\ Pointers'
  BY DEF IInv, Typed, Pointers
<1>2. Flight' /\ ReportedInSequence' /\ Contiguous'
  BY DEF IInv, Flight, ReportedInSequence, Contiguous
<1>3. InSync'
  BY DEF IInv, InSync, Boundaries, Records, Genuine
<1>4. QED
  BY <1>1, <1>2, <1>3 DEF IInv

\* Leaving Run, or erasing an evicted queue, drops what is in flight.
LEMMA AbandonStep ==
    IInv /\ (LeaveRun \/ Erase) /\ UNCHANGED <<traced, running>> => IInv'
<1> SUFFICES ASSUME IInv, LeaveRun \/ Erase, UNCHANGED <<traced, running>>
             PROVE  IInv'
  OBVIOUS
<1>1. /\ pc' \in {"gone", "stopped"} /\ sdma_inflight' = {}
      /\ UNCHANGED <<sent, written, wptr, rptr, wsnap, rsnap, next_id, primed>>
      /\ UNCHANGED <<sdma_seq, emitted, synced>>
  BY DEF LeaveRun, Erase, traced, history
<1>2. Typed' /\ Pointers'
  BY <1>1 DEF IInv, Typed, Pointers, Pcs
<1>3. Flight' /\ ReportedInSequence' /\ Contiguous'
  BY <1>1 DEF IInv, Flight, Closed, ReportedInSequence, Contiguous
<1>4. InSync'
  BY <1>1 DEF IInv, InSync, Boundaries, Records, Genuine
<1>5. QED
  BY <1>2, <1>3, <1>4 DEF IInv

\* Moving the walk to a position within what is published, without a record:
\* priming, the overrun guard and the resynchronisation.
LEMMA MoveStep ==
    ASSUME IInv,
           UNCHANGED <<sent, written, wptr, rptr>>,
           UNCHANGED <<sdma_seq, sdma_inflight, emitted>>,
           next_id' \in Nat, next_id <= next_id' \/ ~primed, next_id' <= wptr,
           primed' = TRUE, synced' \in BOOLEAN,
           synced' => (synced \/ ~primed) /\ next_id' \in Boundaries,
           pc \notin {"gone", "stopped"}, pc' \in {"idle", "decode", "drain"},
           wsnap' \in Nat, wsnap' <= wptr, rsnap' \in Nat, rsnap' <= rptr
    PROVE  IInv'
<1>1. Typed' /\ Pointers'
  BY DEF IInv, Typed, Pointers, Pcs
<1>2. Flight'
  <2>1. CASE ~primed
    <3>1. sdma_inflight = {} /\ emitted = <<>>
      BY <2>1 DEF IInv, Pointers
    <3>2. QED
      BY <3>1 DEF IInv, Flight, Closed
  <2>2. CASE primed
    <3>1. \A r \in sdma_inflight : r.end \in Nat
      BY SizesAssumption DEF IInv, Typed, Record, Positions
    <3>2. \A i \in DOMAIN emitted : emitted[i].end \in Nat
      <4>1. \A i \in DOMAIN emitted : emitted[i] \in Record
        BY DEF IInv, Typed
      <4>2. QED
        BY <4>1, SizesAssumption DEF Record, Positions
    <3>3. next_id <= next_id' /\ next_id \in Nat
      BY <2>2 DEF IInv, Typed
    <3>4. QED
      BY <3>1, <3>2, <3>3 DEF IInv, Flight, Closed
  <2>3. QED
    BY <2>1, <2>2
<1>3. ReportedInSequence' /\ Contiguous'
  BY DEF IInv, ReportedInSequence, Contiguous
<1>4. InSync'
  <2>1. Boundaries' = Boundaries /\ Records' = Records
    BY DEF Boundaries, Records
  <2>2. \A r : Genuine(r)' <=> Genuine(r)
    BY DEF Genuine
  <2>3. ~primed => Records = {}
    BY DEF IInv, Pointers, Records
  <2>4. QED
    BY <2>1, <2>2, <2>3 DEF IInv, InSync
<1>5. QED
  BY <1>1, <1>2, <1>3, <1>4 DEF IInv

\* Priming, and the overrun guard.
LEMMA ReadRptrStep == IInv /\ ReadRptr /\ UNCHANGED <<traced, running>> => IInv'
<1> SUFFICES ASSUME IInv, ReadRptr, UNCHANGED <<traced, running>>
             PROVE  IInv'
  OBVIOUS
<1>1. /\ UNCHANGED <<sent, written, wptr, rptr, sdma_seq, sdma_inflight>>
      /\ pc = "rptr" /\ emitted' = emitted
  BY DEF ReadRptr, Prime, SkipOverrun, traced
<1>2. RingBytesToDwords(ByteOffset(rptr)) = rptr
  BY PointersReadBack DEF IInv, Typed
<1>3. CASE Prime
  <2>1. /\ next_id' = wsnap /\ primed' = TRUE /\ ~primed /\ pc' = "idle"
        /\ wsnap' = 0 /\ rsnap' = 0 /\ synced' = (wsnap \in Boundaries)
    BY <1>3 DEF Prime
  <2>2. synced' \in BOOLEAN /\ (synced' => next_id' \in Boundaries)
    <3>1. synced' \in BOOLEAN
      BY <2>1
    <3>2. synced' => wsnap \in Boundaries
      BY <2>1
    <3>3. QED
      BY <2>1, <3>1, <3>2
  <2>3. wsnap \in Nat /\ wsnap <= wptr /\ 0 <= wptr /\ 0 <= rptr
    BY DEF IInv, Typed, Pointers
  <2>4. QED
    BY <1>1, <2>1, <2>2, <2>3, MoveStep
<1>4. CASE SkipOverrun /\ wsnap > next_id + RingDw
  <2>1. /\ next_id' = wsnap - RingDw /\ primed /\ primed' = primed
        /\ pc' = "decode" /\ wsnap' = wsnap /\ rsnap' = rptr /\ synced' = FALSE
    BY <1>2, <1>4 DEF SkipOverrun
  <2>2. /\ wsnap - RingDw \in Nat /\ next_id <= wsnap - RingDw
        /\ wsnap - RingDw <= wptr
    BY <1>4, SizesAssumption DEF IInv, Typed, Pointers
  <2>3. primed' = TRUE /\ synced' \in BOOLEAN /\ ~synced'
    BY <2>1 DEF IInv, Typed
  <2>4. wsnap \in Nat /\ wsnap <= wptr /\ rptr \in Nat /\ rptr <= rptr
    BY DEF IInv, Typed, Pointers
  <2>5. QED
    BY <1>1, <2>1, <2>2, <2>3, <2>4, MoveStep
<1>5. CASE SkipOverrun /\ ~(wsnap > next_id + RingDw)
  <2>1. /\ UNCHANGED <<next_id, primed, synced, wsnap>> /\ primed
        /\ pc' = "decode" /\ rsnap' = rptr
    BY <1>2, <1>5 DEF SkipOverrun
  <2>2. QED
    BY <1>1, <2>1, QuietStep DEF IInv, Typed, Pointers, Pcs, Closed
<1>6. QED
  BY <1>3, <1>4, <1>5 DEF ReadRptr

\* A packet is decoded: its record comes behind all others.
LEMMA TakeStep ==
    ASSUME IInv, Looping, NEW len \in SeenLens(next_id), Take(len),
           UNCHANGED <<traced, running>>,
           UNCHANGED <<wsnap, rsnap, primed, emitted>>
    PROVE  IInv'
<1> DEFINE rec == [at |-> next_id, end |-> next_id + len, seq |-> sdma_seq,
                   lapped |-> Lapped(next_id)]
<1>1. /\ sdma_inflight' = sdma_inflight \cup {rec} /\ sdma_seq' = sdma_seq + 1
      /\ next_id' = next_id + len /\ pc' = pc /\ pc = "decode"
      /\ synced' = (synced /\ ~Lapped(next_id))
      /\ len > 0 /\ len <= wsnap - next_id
      /\ UNCHANGED <<sent, written, wptr, rptr>>
  BY DEF Take, Looping, avail, traced
<1>2. len \in Nat
  BY DecodedNat
<1>3. /\ next_id \in Nat /\ next_id + len \in Nat /\ next_id < next_id + len
      /\ next_id + len <= wptr /\ next_id + len <= MaxDwords
      /\ primed
  BY <1>1, <1>2, SizesAssumption DEF IInv, Typed, Pointers
<1>4. rec \in Record /\ rec.at = next_id /\ rec.end = next_id + len /\ rec.seq = sdma_seq
  BY <1>3, SizesAssumption DEF Record, Positions, Lapped, IInv, Typed
<1> HIDE DEF rec
<1>5. Typed'
  BY <1>1, <1>3, <1>4 DEF IInv, Typed
<1>6. Pointers'
  BY <1>1, <1>3 DEF IInv, Typed, Pointers
<1>7. Flight'
  <2>1. /\ \A r \in sdma_inflight : r.at \in Nat /\ r.end \in Nat /\ r.seq \in Nat
        /\ Len(emitted) \in Nat /\ sdma_seq \in Nat
    BY SizesAssumption DEF IInv, Typed, Record, Positions
  <2>2. \A i \in DOMAIN emitted : emitted[i].end \in Nat
    <3>1. \A i \in DOMAIN emitted : emitted[i] \in Record
      BY DEF IInv, Typed
    <3>2. QED
      BY <3>1, SizesAssumption DEF Record, Positions
  <2>3. \A r \in sdma_inflight' :
          /\ r.at < r.end /\ r.end <= next_id'
          /\ Len(emitted') <= r.seq /\ r.seq < sdma_seq'
    BY <1>1, <1>3, <1>4, <2>1 DEF IInv, Flight
  <2>4. \A r, s \in sdma_inflight' :
          \/ r = s
          \/ r.seq < s.seq /\ r.end <= s.at
          \/ s.seq < r.seq /\ s.end <= r.at
    BY <1>1, <1>3, <1>4, <2>1 DEF IInv, Flight
  <2>5. \A k \in Len(emitted') .. sdma_seq' - 1 : \E r \in sdma_inflight' : r.seq = k
    <3>1. rec \in sdma_inflight'
      BY <1>1
    <3>2. ASSUME NEW k \in Len(emitted) .. sdma_seq - 1
          PROVE  \E r \in sdma_inflight' : r.seq = k
      BY <1>1 DEF IInv, Flight, Closed
    <3>3. QED
      BY <1>1, <1>4, <2>1, <3>1, <3>2
  <2>6. \A i \in DOMAIN emitted' :
          /\ emitted'[i].end <= next_id'
          /\ \A r \in sdma_inflight' : emitted'[i].end <= r.at
    BY <1>1, <1>3, <1>4, <2>1, <2>2 DEF IInv, Flight
  <2>7. Len(emitted') <= sdma_seq'
    BY <1>1, <2>1 DEF IInv, Flight
  <2>8. QED
    BY <2>3, <2>4, <2>5, <2>6, <2>7 DEF Flight
<1>8. ReportedInSequence' /\ Contiguous'
  BY <1>1 DEF IInv, ReportedInSequence, Contiguous
<1>9. InSync'
  <2> SUFFICES ASSUME synced' PROVE next_id' \in Boundaries' /\ \A r \in Records' : Genuine(r)'
    BY DEF InSync
  <2>1. synced /\ ~Lapped(next_id)
    BY <1>1
  <2>2. PICK j \in DOMAIN sent :
          sent[j].at = next_id /\ sent[j].len = len /\ sent[j].known
    BY <1>1, <1>3, <2>1, DecodedLength
  <2>3. next_id + len \in Boundaries
    BY <2>2, NextBoundary
  <2>4. Genuine(rec)
    BY <2>2, <1>4 DEF Genuine
  <2>5. Boundaries' = Boundaries /\ Records' = Records \cup {rec}
    BY <1>1 DEF Boundaries, Records
  <2>6. \A r : Genuine(r)' <=> Genuine(r)
    BY <1>1 DEF Genuine
  <2>7. \A r \in Records : Genuine(r)
    BY <1>3, <2>1 DEF IInv, InSync
  <2>8. QED
    BY <1>1, <2>3, <2>4, <2>5, <2>6, <2>7
<1>10. QED
  BY <1>5, <1>6, <1>7, <1>8, <1>9 DEF IInv

\* The oldest record in flight is reported: it has the next number.
LEMMA DrainStep ==
    ASSUME IInv, DrainOne, UNCHANGED <<traced, running>>,
           UNCHANGED <<next_id, primed, sdma_seq, synced>>
    PROVE  IInv'
<1>1. PICK r \in sdma_inflight :
         /\ \A s \in sdma_inflight : r.end <= s.end
         /\ r.end <= rsnap
         /\ emitted' = Append(emitted, r)
         /\ sdma_inflight' = sdma_inflight \ {r}
  BY DEF DrainOne
<1>2. /\ pc = "drain" /\ UNCHANGED <<pc, wsnap, rsnap>>
      /\ UNCHANGED <<sent, written, wptr, rptr>>
  BY DEF DrainOne, traced
<1>3. /\ \A s \in sdma_inflight :
             s \in Record /\ s.at \in Nat /\ s.end \in Nat /\ s.seq \in Nat
      /\ Len(emitted) \in Nat /\ sdma_seq \in Nat /\ next_id \in Nat
      /\ rsnap \in Nat /\ rptr \in Nat /\ DOMAIN emitted = 1 .. Len(emitted)
  BY SizesAssumption DEF IInv, Typed, Record, Positions
<1>4. /\ emitted' \in Seq(Record) /\ Len(emitted') = Len(emitted) + 1
      /\ \A i \in DOMAIN emitted : emitted'[i] = emitted[i]
      /\ emitted'[Len(emitted) + 1] = r
      /\ DOMAIN emitted' = DOMAIN emitted \cup {Len(emitted) + 1}
      /\ {emitted'[i] : i \in DOMAIN emitted'}
           = {emitted[i] : i \in DOMAIN emitted} \cup {r}
  BY <1>1, <1>3, EmitAppends DEF IInv, Typed
<1>5. r.seq = Len(emitted)
  <2>1. Len(emitted) <= r.seq /\ r.seq < sdma_seq /\ r.at < r.end
    BY DEF IInv, Flight
  <2>2. PICK s \in sdma_inflight : s.seq = Len(emitted)
    <3>1. Len(emitted) \in Len(emitted) .. sdma_seq - 1
      BY <1>3, <2>1
    <3>2. QED
      BY <1>2, <3>1 DEF IInv, Flight, Closed
  <2>3. \/ r = s
        \/ r.seq < s.seq /\ r.end <= s.at
        \/ s.seq < r.seq /\ s.end <= r.at
    BY DEF IInv, Flight
  <2>4. r.end <= s.end
    BY <1>1
  <2>5. QED
    BY <1>3, <2>1, <2>2, <2>3, <2>4
<1>6. \A s \in sdma_inflight' : s \in sdma_inflight /\ r.seq < s.seq /\ r.end <= s.at
  <2> SUFFICES ASSUME NEW s \in sdma_inflight, s # r
               PROVE  r.seq < s.seq /\ r.end <= s.at
    BY <1>1
  <2>1. \/ r.seq < s.seq /\ r.end <= s.at
        \/ s.seq < r.seq /\ s.end <= r.at
    BY DEF IInv, Flight
  <2>2. Len(emitted) <= s.seq
    BY DEF IInv, Flight
  <2>3. QED
    BY <1>3, <1>5, <2>1, <2>2
<1>7. Typed' /\ Pointers'
  <2>1. primed
    BY <1>2 DEF IInv, Pointers
  <2>2. QED
    BY <1>1, <1>2, <1>4, <2>1 DEF IInv, Typed, Pointers
<1>8. Flight'
  <2>1. \A s \in sdma_inflight' :
          /\ s.at < s.end /\ s.end <= next_id'
          /\ Len(emitted') <= s.seq /\ s.seq < sdma_seq'
    BY <1>3, <1>4, <1>5, <1>6 DEF IInv, Flight
  <2>2. \A s, t \in sdma_inflight' :
          \/ s = t
          \/ s.seq < t.seq /\ s.end <= t.at
          \/ t.seq < s.seq /\ t.end <= s.at
    BY <1>6 DEF IInv, Flight
  <2>3. ASSUME NEW k \in Len(emitted') .. sdma_seq' - 1
        PROVE  \E s \in sdma_inflight' : s.seq = k
    <3>1. k \in Len(emitted) .. sdma_seq - 1 /\ k # r.seq
      <4>1. sdma_seq' = sdma_seq
        OBVIOUS
      <4>2. k \in Len(emitted) + 1 .. sdma_seq - 1
        BY <1>4, <4>1
      <4>3. Len(emitted) \in Nat /\ sdma_seq \in Nat /\ r.seq = Len(emitted)
        BY <1>3, <1>5
      <4> DEFINE n == Len(emitted)
      <4> HIDE DEF n
      <4>4. k \in n + 1 .. sdma_seq - 1 /\ n \in Nat
        BY <4>2, <4>3 DEF n
      <4>5. k \in n .. sdma_seq - 1 /\ k # n
        BY <4>3, <4>4
      <4>6. QED
        BY <4>3, <4>5 DEF n
    <3>2. PICK s \in sdma_inflight : s.seq = k
      BY <1>2, <3>1 DEF IInv, Flight, Closed
    <3>3. QED
      BY <1>1, <3>1, <3>2
  <2>4. ASSUME NEW i \in DOMAIN emitted'
        PROVE  /\ emitted'[i].end <= next_id'
               /\ \A s \in sdma_inflight' : emitted'[i].end <= s.at
    <3>1. CASE i \in DOMAIN emitted
      BY <3>1, <1>4, <1>6 DEF IInv, Flight
    <3>2. CASE i = Len(emitted) + 1
      BY <3>2, <1>4, <1>6 DEF IInv, Flight
    <3>3. QED
      BY <3>1, <3>2, <1>4
  <2>5. Len(emitted') <= sdma_seq'
    BY <1>3, <1>4, <1>5 DEF IInv, Flight
  <2>6. QED
    BY <2>1, <2>2, <2>3, <2>4, <2>5 DEF Flight
<1>9. ReportedInSequence'
  <2> SUFFICES ASSUME NEW i \in DOMAIN emitted'
               PROVE  /\ emitted'[i].seq = i - 1
                      /\ i > 1 => emitted'[i - 1].end <= emitted'[i].at
                      /\ emitted'[i].end <= rptr'
    BY DEF ReportedInSequence
  <2>1. CASE i \in DOMAIN emitted
    <3>1. i > 1 => i - 1 \in DOMAIN emitted
      BY <2>1, <1>3
    <3>2. QED
      BY <2>1, <3>1, <1>2, <1>4 DEF IInv, ReportedInSequence
  <2>2. CASE i = Len(emitted) + 1
    <3>1. i > 1 => i - 1 \in DOMAIN emitted
      BY <2>2, <1>3
    <3>2. i > 1 => emitted'[i - 1].end <= r.at
      BY <3>1, <1>4 DEF IInv, Flight
    <3>3. r.end <= rptr
      BY <1>1, <1>3 DEF IInv, Pointers
    <3>4. QED
      BY <2>2, <3>2, <3>3, <1>2, <1>3, <1>4, <1>5
  <2>3. QED
    BY <2>1, <2>2, <1>4
<1>10. Contiguous'
  BY <1>2 DEF IInv, Contiguous
<1>11. InSync'
  <2>1. Records' \subseteq Records
    BY <1>1, <1>4 DEF Records
  <2>2. Boundaries' = Boundaries /\ \A s : Genuine(s)' <=> Genuine(s)
    BY <1>2 DEF Boundaries, Genuine
  <2>3. QED
    BY <2>1, <2>2 DEF IInv, InSync
<1>12. QED
  BY <1>7, <1>8, <1>9, <1>10, <1>11 DEF IInv

\* The other steps of a decode pass: the walk waits, gives up or has arrived.
LEMMA DecodeStep == IInv /\ Decode /\ UNCHANGED <<traced, running>> => IInv'
<1> SUFFICES ASSUME IInv, Decode, UNCHANGED <<traced, running>> PROVE IInv'
  OBVIOUS
<1>1. /\ UNCHANGED <<wsnap, rsnap, primed, emitted>>
      /\ UNCHANGED <<sent, written, wptr, rptr>>
  BY DEF Decode, traced
<1>2. pc = "decode" /\ primed
  BY DEF Decode, DecodeWindow, DecodeEnd, Looping, IInv, Pointers
<1>3. ASSUME NEW len \in SeenLens(next_id), Looping, Take(len) PROVE IInv'
  BY <1>1, <1>3, TakeStep
<1>4. ASSUME NEW len, Looping, Resync(len) PROVE IInv'
  <2>1. /\ next_id' = wsnap /\ synced' = (synced /\ wsnap \in Boundaries)
        /\ pc' = "drain" /\ UNCHANGED <<sdma_seq, sdma_inflight>>
    BY <1>4 DEF Resync
  <2>2. /\ wsnap \in Nat /\ next_id <= wsnap /\ wsnap <= wptr
        /\ rsnap \in Nat /\ rsnap <= rptr
    BY <1>4 DEF Looping, IInv, Typed, Pointers
  <2>3. synced' \in BOOLEAN /\ (synced' => synced /\ next_id' \in Boundaries)
    BY <2>1
  <2>4. QED
    BY <1>1, <1>2, <2>1, <2>2, <2>3, MoveStep
<1>5. ASSUME NEW len, Await(len) PROVE IInv'
  BY <1>1, <1>2, <1>5, QuietStep DEF Await, IInv, Typed, Pointers, Pcs, Closed
<1>6. CASE DecodeEnd
  BY <1>1, <1>2, <1>6, QuietStep DEF DecodeEnd, IInv, Typed, Pointers, Pcs, Closed
<1>7. QED
  BY <1>3, <1>4, <1>5, <1>6 DEF Decode, DecodeWindow

\* Every step of the specification keeps the invariant.
LEMMA StepIInv == IInv /\ [Next]_vars => IInv'
<1> SUFFICES ASSUME IInv, [Next]_vars PROVE IInv'
  OBVIOUS
<1>1. CASE Traced
  BY <1>1, TracedStep
<1>2. CASE Stop \/ UNCHANGED vars
  BY <1>2, QuietStep DEF Stop, vars, traced, qstate, history, IInv, Typed, Pointers, Closed
<1>3. CASE Poller
  <2>1. UNCHANGED <<traced, running>>
    BY <1>3 DEF Poller
  <2>2. CASE LeaveRun \/ Erase
    BY <2>1, <2>2, AbandonStep
  <2>3. CASE StartPass
    BY <2>1, <2>3, QuietStep
       DEF StartPass, traced, history, IInv, Typed, Pointers, Pcs, Closed
  <2>4. CASE ReadWptr
    <3>1. wsnap' = wptr
      BY <2>4, PointersReadBack DEF ReadWptr, IInv, Typed
    <3>2. QED
      BY <2>1, <2>4, <3>1, QuietStep
         DEF ReadWptr, traced, qstate, history, IInv, Typed, Pointers, Pcs, Closed
  <2>5. CASE PtrReadFails
    BY <2>1, <2>5, QuietStep
       DEF PtrReadFails, traced, history, IInv, Typed, Pointers, Pcs, Closed
  <2>6. CASE ReadRptr
    BY <2>1, <2>6, ReadRptrStep
  <2>7. CASE Decode
    BY <2>1, <2>7, DecodeStep
  <2>8. CASE Drain
    <3>1. CASE DrainOne
      BY <2>1, <2>8, <3>1, DrainStep DEF Drain
    <3>2. CASE DrainEnd
      BY <2>1, <2>8, <3>2, QuietStep
         DEF Drain, DrainEnd, traced, IInv, Typed, Pointers, Pcs, Closed
    <3>3. QED
      BY <2>8, <3>1, <3>2 DEF Drain
  <2>9. QED
    BY <1>3, <2>2, <2>3, <2>4, <2>5, <2>6, <2>7, <2>8 DEF Poller
<1>4. QED
  BY <1>1, <1>2, <1>3 DEF Next

\* The invariant holds in every reachable state.
THEOREM SdmaInvariance == Spec => []IInv
  BY InitIInv, StepIInv, PTL DEF Spec

\* The i-th record that reaches the sink is the i-th packet decoded, in ring order
\* and only after the engine has read past it (PollSdmaQueue), for every ring
\* size, packet format and garbage.
THEOREM ReportsInSequence == Spec => []ReportedInSequence
<1>1. IInv => ReportedInSequence
  BY DEF IInv
<1>2. QED
  BY <1>1, SdmaInvariance, PTL

\* Until it is lapped, or has to start or resume within a packet, the walk stands
\* on a packet boundary and every record is a packet that was submitted, with its
\* own length, whatever part of it was published when it was decoded.
THEOREM StaysInSync == Spec => []InSync
<1>1. IInv => InSync
  BY DEF IInv
<1>2. QED
  BY <1>1, SdmaInvariance, PTL

-----------------------------------------------------------------------------
(* Refinement: one poller step is one ledger step or a stutter.            *)

\* The phase of the ledger and the dwords it holds.
Phase == IF Closed THEN "closed" ELSE IF primed THEN "open" ELSE "new"
Held == UNION {Dwords(r) : r \in sdma_inflight}

\* The ledger is new and empty at first.
LEMMA InitLedger == Init => Ledger!Init
<1> SUFFICES ASSUME Init PROVE Ledger!Init
  OBVIOUS
<1>1. Held = {} /\ Reported = {}
  BY DEF Init, Held, Reported
<1>2. QED
  BY <1>1 DEF Init, Ledger!Init, Closed, Held

\* A step that changes neither the books nor the phase is a stutter.
LEMMA LedgerStutter ==
    ASSUME UNCHANGED <<next_id, base, sdma_inflight, emitted, skipped>>,
           Phase' = Phase
    PROVE  UNCHANGED Ledger!ledger
<1>1. Held' = Held /\ Reported' = Reported
  BY DEF Held, Reported
<1>2. QED
  BY <1>1 DEF Ledger!ledger, Phase, Held

\* Priming opens the ledger; the overrun guard skips dwords, or stutters.
LEMMA ReadRptrRefines == IInv /\ ReadRptr => [Ledger!Next]_(Ledger!ledger)
<1> SUFFICES ASSUME IInv, ReadRptr PROVE [Ledger!Next]_(Ledger!ledger)
  OBVIOUS
<1>1. pc = "rptr" /\ UNCHANGED <<sdma_inflight, emitted>>
  BY DEF ReadRptr, Prime, SkipOverrun
<1>2. Held' = Held /\ Reported' = Reported
  BY <1>1 DEF Held, Reported
<1>3. CASE Prime
  <2>1. wsnap \in Positions
    BY SizesAssumption DEF IInv, Typed, Pointers, Positions
  <2>2. Ledger!Open(wsnap)
    BY <1>1, <1>2, <1>3 DEF Prime, Ledger!Open, Closed, Held
  <2>3. QED
    BY <2>1, <2>2 DEF Ledger!Next
<1>4. CASE SkipOverrun /\ wsnap > next_id + RingDw
  <2>1. wsnap - RingDw \in Positions /\ wsnap - RingDw > next_id
    BY <1>4, SizesAssumption DEF IInv, Typed, Pointers, Positions
  <2>2. Ledger!Skip(wsnap - RingDw)
    BY <1>1, <1>2, <1>4, <2>1 DEF SkipOverrun, Ledger!Skip, Ledger!Walk, Closed, Held
  <2>3. QED
    BY <2>1, <2>2 DEF Ledger!Next
<1>5. CASE SkipOverrun /\ ~(wsnap > next_id + RingDw)
  <2>1. UNCHANGED <<next_id, base, skipped, primed>> /\ pc' = "decode"
    BY <1>5 DEF SkipOverrun
  <2>2. QED
    BY <1>1, <2>1, LedgerStutter DEF Phase, Closed
<1>6. QED
  BY <1>3, <1>4, <1>5 DEF ReadRptr

\* A decoded packet is held; what is given up at an unknown opcode is skipped.
LEMMA DecodeRefines == IInv /\ Decode => [Ledger!Next]_(Ledger!ledger)
<1> SUFFICES ASSUME IInv, Decode PROVE [Ledger!Next]_(Ledger!ledger)
  OBVIOUS
<1>1. /\ pc = "decode" /\ primed /\ primed' = primed
      /\ UNCHANGED <<base, emitted>>
  BY DEF Decode, DecodeWindow, DecodeEnd, Looping, IInv, Pointers
<1>2. Reported' = Reported
  BY <1>1 DEF Reported
<1>3. ASSUME NEW len \in SeenLens(next_id), Looping, Take(len) PROVE Ledger!Next
  <2> DEFINE rec == [at |-> next_id, end |-> next_id + len, seq |-> sdma_seq,
                     lapped |-> Lapped(next_id)]
  <2>1. /\ sdma_inflight' = sdma_inflight \cup {rec} /\ next_id' = next_id + len
        /\ UNCHANGED <<pc, skipped>> /\ len > 0 /\ len <= wsnap - next_id
    BY <1>3 DEF Take, avail
  <2>2. len \in Nat
    BY <1>3, DecodedNat
  <2>3. next_id + len \in Positions /\ next_id + len > next_id
    BY <2>1, <2>2, SizesAssumption DEF IInv, Typed, Pointers, Positions
  <2>4. Dwords(rec) = next_id .. (next_id + len) - 1
    BY DEF Dwords
  <2> HIDE DEF rec
  <2>5. Held' = Held \cup (next_id .. (next_id + len) - 1)
    BY <2>1, <2>4 DEF Held, Dwords
  <2>6. Ledger!Hold(next_id + len)
    BY <1>1, <1>2, <2>1, <2>3, <2>5 DEF Ledger!Hold, Ledger!Walk, Closed, Held
  <2>7. QED
    BY <2>3, <2>6 DEF Ledger!Next
<1>4. ASSUME NEW len, Looping, Resync(len) PROVE Ledger!Next
  <2>1. /\ next_id' = wsnap /\ pc' = "drain" /\ sdma_inflight' = sdma_inflight
        /\ skipped' = skipped \cup (next_id .. wsnap - 1)
    BY <1>4 DEF Resync
  <2>2. wsnap \in Positions /\ wsnap > next_id
    BY <1>4, SizesAssumption DEF Looping, IInv, Typed, Pointers, Positions
  <2>3. Held' = Held
    BY <2>1 DEF Held
  <2>4. Ledger!Skip(wsnap)
    BY <1>1, <1>2, <2>1, <2>2, <2>3 DEF Ledger!Skip, Ledger!Walk, Closed, Held
  <2>5. QED
    BY <2>2, <2>4 DEF Ledger!Next
<1>5. ASSUME \/ \E len : Await(len)
             \/ DecodeEnd
      PROVE  UNCHANGED Ledger!ledger
  <2>1. UNCHANGED <<next_id, sdma_inflight, skipped>> /\ pc' = "drain"
    BY <1>5 DEF Await, DecodeEnd
  <2>2. QED
    BY <1>1, <2>1, LedgerStutter DEF Phase, Closed
<1>6. QED
  BY <1>3, <1>4, <1>5 DEF Decode, DecodeWindow

\* Draining reports the dwords of one record, which no other record has.
LEMMA DrainRefines == IInv /\ Drain => [Ledger!Next]_(Ledger!ledger)
<1> SUFFICES ASSUME IInv, Drain PROVE [Ledger!Next]_(Ledger!ledger)
  OBVIOUS
<1>1. /\ pc = "drain" /\ primed
      /\ UNCHANGED <<next_id, primed, base, skipped>>
  BY DEF Drain, DrainOne, DrainEnd, IInv, Pointers
<1>2. CASE DrainEnd
  BY <1>1, <1>2, LedgerStutter DEF DrainEnd, Phase, Closed
<1>3. CASE DrainOne
  <2>1. PICK r \in sdma_inflight : /\ emitted' = Append(emitted, r)
                                   /\ sdma_inflight' = sdma_inflight \ {r}
    BY <1>3 DEF DrainOne
  <2>2. pc' = pc
    BY <1>3 DEF DrainOne
  <2>3. \A s \in sdma_inflight : s \in Record /\ s.at \in Nat /\ s.end \in Nat
    BY SizesAssumption DEF IInv, Typed, Record, Positions
  <2>4. Reported' = Reported \cup Dwords(r)
    BY <2>1, <2>3, EmitAppends DEF IInv, Typed
  <2>5. Dwords(r) # {} /\ Dwords(r) \subseteq Held
    <3>1. r.at \in Dwords(r)
      BY <2>3 DEF Dwords, IInv, Flight
    <3>2. QED
      BY <3>1 DEF Held
  <2>6. ASSUME NEW s \in sdma_inflight, s # r
        PROVE  Dwords(s) \cap Dwords(r) = {}
    <3>1. r.end <= s.at \/ s.end <= r.at
      BY <2>6 DEF IInv, Flight
    <3>2. QED
      BY <2>3, <3>1 DEF Dwords
  <2>7. Held' = UNION {Dwords(s) : s \in sdma_inflight \ {r}}
    BY <2>1 DEF Held, Dwords
  <2>8. Held' = Held \ Dwords(r)
    BY <2>6, <2>7 DEF Held
  <2>9. Ledger!Report(Dwords(r))
    BY <1>1, <2>2, <2>4, <2>5, <2>8 DEF Ledger!Report, Closed, Held
  <2>10. Dwords(r) \in SUBSET Held
    BY <2>5
  <2>11. QED
    BY <2>9, <2>10 DEF Ledger!Next, Held
<1>4. QED
  BY <1>2, <1>3 DEF Drain

\* Eviction and Stop close the ledger.
LEMMA AbandonRefines == IInv /\ (LeaveRun \/ Erase) => Ledger!Next
<1> SUFFICES ASSUME IInv, LeaveRun \/ Erase PROVE Ledger!Next
  OBVIOUS
<1>1. /\ pc \in {"sweep", "idle"} /\ pc' \in {"gone", "stopped"}
      /\ sdma_inflight' = {}
      /\ UNCHANGED <<next_id, primed, base, emitted, skipped>>
  BY DEF LeaveRun, Erase, history
<1>2. Held' = {} /\ Reported' = Reported
  BY <1>1 DEF Held, Reported
<1>3. Ledger!Close
  BY <1>1, <1>2 DEF Ledger!Close, Closed, Held
<1>4. QED
  BY <1>3 DEF Ledger!Next

\* Every step of the specification is a step of the ledger or a stutter.
LEMMA StepLedger == IInv /\ [Next]_vars => [Ledger!Next]_(Ledger!ledger)
<1> SUFFICES ASSUME IInv, [Next]_vars PROVE [Ledger!Next]_(Ledger!ledger)
  OBVIOUS
<1>1. CASE Traced \/ Stop \/ UNCHANGED vars
  <2>1. UNCHANGED <<pc, primed, next_id, base, sdma_inflight, emitted, skipped>>
    BY <1>1 DEF Traced, Stop, vars, qstate, history
  <2>2. QED
    BY <2>1, LedgerStutter DEF Phase, Closed
<1>2. CASE Poller
  <2>1. CASE LeaveRun \/ Erase
    BY <2>1, AbandonRefines
  <2>2. CASE StartPass \/ ReadWptr \/ PtrReadFails
    <3>1. /\ UNCHANGED <<primed, next_id, base, sdma_inflight, emitted, skipped>>
          /\ pc \notin {"gone", "stopped"} /\ pc' \notin {"gone", "stopped"}
      BY <2>2 DEF StartPass, ReadWptr, PtrReadFails, qstate, history
    <3>2. QED
      BY <3>1, LedgerStutter DEF Phase, Closed
  <2>3. QED
    BY <1>2, <2>1, <2>2, ReadRptrRefines, DecodeRefines, DrainRefines DEF Poller
<1>3. QED
  BY <1>1, <1>2 DEF Next

\* The SDMA walk implements the ledger that the AQL poller implements too: it
\* moves forwards only, over each dword once, and every decoded packet is reported
\* unless the queue ends.
THEOREM RefinesLedger == Spec => ImplementsLedger
  BY InitLedger, StepLedger, SdmaInvariance, PTL
     DEF Spec, ImplementsLedger, Ledger!Spec

-----------------------------------------------------------------------------
(* The window at the front of the ring, and the record of a copy           *)
(* (SdmaWindow), for any packets, pages and size of the page cache.        *)

\* What the cached pages are worth: there are never too many, and a page that is
\* not in doubt is what its entry says.
Sound(cache, doubted) ==
    /\ cache \in [DOMAIN cache -> BOOLEAN]
    /\ IsFiniteSet(DOMAIN cache) /\ Cardinality(DOMAIN cache) <= PageCacheMax
    /\ \A p \in DOMAIN cache \ doubted : cache[p] = Host(p)

WindowInv ==
    /\ IsSupportedVersion(version) /\ packet \in Headers /\ dwords \in Nat \ {0}
    /\ packet.bytes <= CountRange(version, packet.sub)
    /\ backing \in [Pages -> {"host", "away", "device"}]
    /\ Sound(page_host, doubtful)
    /\ copy.sure => copy.dir = copy.truth
    /\ copy.bytes = copy.moved

\* One lookup of a page: its answer is right if the page is not in doubt after it,
\* and the cache is as sound as before and within its limit, emptied or not.
LEMMA LookupSound ==
    ASSUME backing \in [Pages -> {"host", "away", "device"}],
           NEW cache, NEW doubted, Sound(cache, doubted), NEW p \in Pages, NEW fails
    PROVE  /\ Sound(Remembered(fails, cache, p), Doubt(fails, cache, doubted, p))
           /\ IsHostVA(fails, cache, p) \in BOOLEAN
           /\ p \notin Doubt(fails, cache, doubted, p) =>
                IsHostVA(fails, cache, p) = Host(p)
<1> DEFINE after == Remembered(fails, cache, p)
           still == Doubt(fails, cache, doubted, p)
<1>1. CASE p \in DOMAIN cache
  BY <1>1 DEF Sound, Remembered, Doubt, IsHostVA
<1>2. CASE p \notin DOMAIN cache
  <2> DEFINE answer == VirtToPhys(fails, p) # 0
  <2>1. /\ after = [q \in Kept(cache) \cup {p} |-> IF q = p THEN answer ELSE cache[q]]
        /\ IsHostVA(fails, cache, p) = answer
        /\ still = (doubted \ {p}) \cup {q \in {p} : backing[q] = "away" \/ q \in fails}
    BY <1>2 DEF Remembered, IsHostVA, Doubt
  <2>2. answer \in BOOLEAN /\ (p \notin still => answer = Host(p))
    BY <2>1 DEF VirtToPhys, Host
  <2>3. Kept(cache) \subseteq DOMAIN cache
    BY DEF Kept
  <2> HIDE DEF answer
  <2>4. DOMAIN after = Kept(cache) \cup {p}
    BY <2>1
  <2>5. after \in [DOMAIN after -> BOOLEAN]
    BY <2>1, <2>2, <2>3, <2>4 DEF Sound
  <2>6. IsFiniteSet(DOMAIN after) /\ Cardinality(DOMAIN after) <= PageCacheMax
    <3>1. IsFiniteSet(Kept(cache)) /\ Cardinality(Kept(cache)) < PageCacheMax
      <4>1. CASE Cardinality(DOMAIN cache) >= PageCacheMax
        BY <4>1, FS_EmptySet, CacheAssumption DEF Kept
      <4>2. CASE ~(Cardinality(DOMAIN cache) >= PageCacheMax)
        BY <4>2, FS_CardinalityType, CacheAssumption DEF Kept, Sound
      <4>3. QED
        BY <4>1, <4>2
    <3>2. p \notin Kept(cache)
      BY <1>2, <2>3
    <3>3. Cardinality(Kept(cache)) \in Nat
      BY <3>1, FS_CardinalityType
    <3>4. /\ IsFiniteSet(Kept(cache) \cup {p})
          /\ Cardinality(Kept(cache) \cup {p}) = Cardinality(Kept(cache)) + 1
      BY <3>1, <3>2, FS_AddElement
    <3>5. QED
      BY <2>4, <3>1, <3>3, <3>4, CacheAssumption
  <2>7. ASSUME NEW q \in DOMAIN after \ still PROVE after[q] = Host(q)
    <3>1. CASE q = p
      BY <2>1, <2>2, <2>4, <2>7, <3>1
    <3>2. CASE q # p
      <4>1. q \in DOMAIN cache \ doubted /\ after[q] = cache[q]
        BY <2>1, <2>3, <2>4, <2>7, <3>2
      <4>2. QED
        BY <4>1 DEF Sound
    <3>3. QED
      BY <3>1, <3>2
  <2>8. QED
    BY <2>1, <2>2, <2>5, <2>6, <2>7 DEF Sound
<1>3. QED
  BY <1>1, <1>2

AtLeastSeven == {n \in Nat : n >= 7}

\* A linear copy, broadcast or not, has at least the seven dwords that its record is
\* made from, in every version.
LEMMA LinearCopyLength ==
    ASSUME NEW v, NEW p \in Headers, NEW n \in Nat \ {0},
           IsSupportedVersion(v), p.op = COPY, IsLinearCopy(v, p.sub)
    PROVE  PacketLenDwords(v, p, n) \in AtLeastSeven
<1>1. PacketLenDwords(v, p, n) = CopyPacketLen(v, p)
  BY DEF PacketLenDwords, NOP, COPY, WRITE, POLL_REGMEM, CONST_FILL, PTEPDE,
         TIMESTAMP, VERSION_SPECIFIC_16, GCR_REQ, V6_DUMMY_TRAP
<1>2. p.sub \in {LINEAR, LINEAR_BC} /\ (v = "V4" => p.sub = LINEAR)
  BY DEF IsLinearCopy
<1>3. ASSUME NEW table, NEW sub, NEW l \in Nat, <<sub, l>> \in table,
             \A e \in table : e[1] = sub => e[2] \in AtLeastSeven
      PROVE  Lookup(table, sub) \in AtLeastSeven
  <2> DEFINE hits == {e \in table : e[1] = sub}
  <2>1. <<sub, l>> \in hits
    BY <1>3
  <2>2. Lookup(table, sub) = (CHOOSE e \in hits : TRUE)[2]
    BY <2>1 DEF Lookup
  <2>3. (CHOOSE e \in hits : TRUE) \in hits
    BY <2>1
  <2>4. QED
    BY <2>2, <2>3, <1>3
<1>4. CASE HeaderBroadcast(p)
  <2>1. p.sub = LINEAR
    BY <1>2, <1>4 DEF HeaderBroadcast, LINEAR, TILED, LINEAR_BC
  <2>2. CopyPacketLen(v, p) = Lookup(BroadcastLen, LINEAR)
    BY <1>4, <2>1 DEF CopyPacketLen
  <2>3. <<LINEAR, 9>> \in BroadcastLen /\ \A e \in BroadcastLen : e[2] \in AtLeastSeven
    BY DEF BroadcastLen, AtLeastSeven
  <2>4. QED
    BY <1>1, <1>3, <2>2, <2>3
<1>5. CASE ~HeaderBroadcast(p) /\ v = "V4"
  <2>1. CopyPacketLen(v, p) = Lookup(CopyLenV4, p.sub)
    BY <1>5 DEF CopyPacketLen
  <2>2. <<p.sub, 7>> \in CopyLenV4 /\ \A e \in CopyLenV4 : e[2] \in AtLeastSeven
    BY <1>2, <1>5 DEF CopyLenV4, LINEAR, AtLeastSeven
  <2>3. QED
    BY <1>1, <1>3, <2>1, <2>2
<1>6. \A e \in CopyLenV6 : e[2] \in AtLeastSeven
  BY DEF CopyLenV6, AtLeastSeven
<1>7. CASE ~HeaderBroadcast(p) /\ v = "V7"
  <2>1. CopyPacketLen(v, p) = Lookup(CopyLenV7, p.sub)
    BY <1>7 DEF CopyPacketLen
  <2>2. <<p.sub, 8>> \in CopyLenV7 /\ \A e \in CopyLenV7 : e[2] \in AtLeastSeven
    BY <1>2, <1>6 DEF CopyLenV7, AtLeastSeven
  <2>3. QED
    BY <1>1, <1>3, <2>1, <2>2
<1>8. CASE ~HeaderBroadcast(p) /\ v = "V6"
  <2>1. CopyPacketLen(v, p) = Lookup(CopyLenV6, p.sub)
    BY <1>8 DEF CopyPacketLen
  <2>2. <<p.sub, 7>> \in CopyLenV6
    BY <1>2 DEF CopyLenV6, LINEAR, LINEAR_BC
  <2>3. QED
    BY <1>1, <1>3, <1>6, <2>1, <2>2
<1>9. QED
  BY <1>4, <1>5, <1>7, <1>8 DEF IsSupportedVersion

\* The byte count is read back from the field it was written to.
LEMMA CopyBytesRight ==
    ASSUME NEW v, NEW p \in Headers, IsLinearCopy(v, p.sub),
           p.bytes <= CountRange(v, p.sub)
    PROVE  LinearCopyBytes(v, p.sub, CountDword(v, p)) = p.bytes
<1>1. ASSUME NEW m \in Nat \ {0}, NEW q \in Nat, NEW x \in 0 .. (m - 1)
      PROVE  (q * m + x) % m = x
  OBVIOUS
<1>2. p.rest \in Nat /\ p.bytes \in Nat \ {0}
  BY HeadersAssumption
<1>3. CountRange(v, p.sub) \in Nat \ {0}
  BY DEF CountRange
<1>4. (v \in {"V6", "V7"} /\ p.sub = LINEAR) <=> ~(v = "V4" \/ p.sub = LINEAR_BC)
  BY DEF IsLinearCopy, LINEAR, LINEAR_BC
<1>5. LinearCopyBytes(v, p.sub, CountDword(v, p)) =
        (CountDword(v, p) % CountRange(v, p.sub)) + 1
  BY <1>4 DEF LinearCopyBytes, CountRange
<1> DEFINE m == CountRange(v, p.sub)
           x == p.bytes - 1
<1>6. x \in 0 .. (m - 1) /\ x + 1 = p.bytes
  BY <1>2, <1>3
<1>7. CountDword(v, p) = p.rest * m + x
  <2>1. p.rest * m \in Nat
    BY <1>2, <1>3
  <2>2. QED
    BY <1>2, <2>1 DEF CountDword
<1> HIDE DEF m, x
<1>8. (p.rest * m + x) % m = x
  BY <1>1, <1>2, <1>3, <1>6 DEF m
<1>9. QED
  BY <1>5, <1>6, <1>7, <1>8 DEF m

\* The ring shows one dword and no page is cached at first.
LEMMA InitWindow == WindowInit => WindowInv
<1> SUFFICES ASSUME WindowInit PROVE WindowInv
  OBVIOUS
<1>1. Sound(page_host, doubtful)
  <2>1. DOMAIN page_host = {} /\ page_host \in [{} -> BOOLEAN]
    BY DEF WindowInit
  <2>2. QED
    BY <2>1, FS_EmptySet, CacheAssumption DEF Sound
<1>2. copy.sure = FALSE /\ copy.bytes = copy.moved
  BY DEF WindowInit, NoCopy
<1>3. QED
  BY <1>1, <1>2 DEF WindowInit, WindowInv

\* A copy that is taken is recorded right, and every page that changes what it is
\* behind its entry is in doubt.
LEMMA StepWindow == WindowInv /\ [WindowNext]_windowvars => WindowInv'
<1> SUFFICES ASSUME WindowInv, [WindowNext]_windowvars PROVE WindowInv'
  OBVIOUS
<1>1. CASE PublishDword
  BY <1>1 DEF PublishDword, memory, WindowInv, Sound, Host
<1>2. ASSUME NEW p \in Pages, ChangePage(p) PROVE WindowInv'
  <2>1. PICK b \in {"host", "away", "device"} \ {backing[p]} :
          /\ backing' = [backing EXCEPT ![p] = b]
          /\ doubtful' = IF p \in DOMAIN page_host /\ "device" \in {b, backing[p]}
                           THEN doubtful \cup {p} ELSE doubtful
    BY <1>2 DEF ChangePage
  <2>2. UNCHANGED <<version, packet, dwords, page_host, copy>>
    BY <1>2 DEF ChangePage
  <2>3. backing' \in [Pages -> {"host", "away", "device"}]
    BY <2>1 DEF WindowInv
  <2>4. ASSUME NEW q \in DOMAIN page_host \ doubtful' PROVE page_host[q] = Host(q)'
    <3>1. q \notin doubtful /\ page_host[q] = Host(q)
      BY <2>1, <2>4 DEF WindowInv, Sound
    <3>2. Host(q)' = Host(q)
      BY <2>1, <2>4 DEF WindowInv, Host
    <3>3. QED
      BY <3>1, <3>2
  <2>5. Sound(page_host, doubtful)'
    BY <2>2, <2>4 DEF WindowInv, Sound
  <2>6. QED
    BY <2>2, <2>3, <2>5 DEF WindowInv
<1>3. ASSUME NEW src \in Pages, NEW dst \in Pages, NEW fails \in SUBSET {src, dst},
             TakeCopy(fails, src, dst)
      PROVE  WindowInv'
  <2> DEFINE cache == Remembered(fails, page_host, src)
             first == Doubt(fails, page_host, doubtful, src)
             second == Doubt(fails, cache, first, dst)
  <2>1. /\ page_host' = Remembered(fails, cache, dst)
        /\ doubtful' = second \cap DOMAIN page_host'
        /\ dwords' = 1
        /\ UNCHANGED <<version, packet, backing>>
        /\ IsLinearCopy(version, packet.sub)
    BY <1>3 DEF TakeCopy
  <2>2. copy' = [bytes |-> LinearCopyBytes(version, packet.sub,
                                           CountDword(version, packet)),
                 moved |-> packet.bytes,
                 dir |-> ClassifyDir(fails, src, dst),
                 truth |-> Direction(Host(src), Host(dst)),
                 sure |-> src \notin first /\ dst \notin second]
    BY <1>3 DEF TakeCopy
  <2>3. /\ Sound(cache, first)
        /\ src \notin first => IsHostVA(fails, page_host, src) = Host(src)
    BY LookupSound DEF WindowInv
  <2>4. /\ Sound(Remembered(fails, cache, dst), second)
        /\ dst \notin second => IsHostVA(fails, cache, dst) = Host(dst)
    BY <2>3, LookupSound DEF WindowInv
  <2>5. ClassifyDir(fails, src, dst) =
          Direction(IsHostVA(fails, page_host, src), IsHostVA(fails, cache, dst))
    BY DEF ClassifyDir
  <2> HIDE DEF cache, first, second
  <2>6. copy'.sure => copy'.dir = copy'.truth
    BY <2>2, <2>3, <2>4, <2>5
  <2>7. copy'.bytes = copy'.moved
    BY <2>1, <2>2, CopyBytesRight DEF WindowInv
  <2>8. Sound(page_host, doubtful)'
    <3>1. Sound(page_host', doubtful')
      BY <2>1, <2>4 DEF Sound
    <3>2. QED
      BY <2>1, <3>1 DEF Sound, Host
  <2>9. QED
    BY <2>1, <2>6, <2>7, <2>8 DEF WindowInv
<1>4. CASE UNCHANGED windowvars
  BY <1>4 DEF windowvars, WindowInv, Sound, Host
<1>5. QED
  BY <1>1, <1>2, <1>3, <1>4 DEF WindowNext

\* The record that PollSdmaQueue makes of a linear copy has the right direction
\* unless a page was in doubt, the bytes the copy moves and its seven dwords in the
\* window, and the page cache stays within kPageCacheMax, for any packets and
\* pages, however the pages change.
THEOREM CopiesRecordedRight == WindowSpec => []CopyRecordRight
<1>1. WindowInv => CopyRecordRight
  <2> SUFFICES ASSUME WindowInv PROVE CopyRecordRight
    OBVIOUS
  <2>1. ASSUME Takes, packet.op = COPY, IsLinearCopy(version, packet.sub)
        PROVE  navail >= 7
    <3>1. navail \in Nat \ {0}
      BY WindowAssumption DEF WindowInv, navail, Min2
    <3>2. packet_len \in Nat /\ packet_len >= 7
      BY <2>1, <3>1, LinearCopyLength DEF WindowInv, packet_len, AtLeastSeven
    <3>3. dwords \in Nat /\ packet_len <= dwords
      BY <2>1 DEF WindowInv, Takes
    <3>4. dwords >= 7
      BY <3>2, <3>3
    <3>5. QED
      BY <3>3, <3>4, WindowAssumption DEF navail, Min2
  <2>2. QED
    BY <2>1 DEF WindowInv, Sound, CopyRecordRight
<1>2. QED
  BY <1>1, InitWindow, StepWindow, PTL DEF WindowSpec

\* The length of a packet depends on how much of it is visible only below the four
\* dwords of a WRITE's header, and then it is not known yet.
LEMMA LengthSettles ==
    ASSUME NEW v, NEW p, NEW n \in Nat \ {0}, NEW m \in Nat, n <= m
    PROVE  /\ PacketLenDwords(v, p, n) # 0 =>
                PacketLenDwords(v, p, m) = PacketLenDwords(v, p, n)
           /\ n >= 4 => PacketLenDwords(v, p, m) = PacketLenDwords(v, p, n)
<1>1. /\ WriteLen(p, n) # 0 => WriteLen(p, m) = WriteLen(p, n)
      /\ n >= 4 => WriteLen(p, m) = WriteLen(p, n)
  BY DEF WriteLen
<1>2. ~(n < 1) /\ ~(m < 1)
  OBVIOUS
<1>3. CASE p.op = WRITE
  <2>1. ASSUME NEW k \in {n, m}
        PROVE  PacketLenDwords(v, p, k) =
                 IF ~IsSupportedVersion(v) THEN 0 ELSE WriteLen(p, k)
    BY <1>2, <1>3 DEF PacketLenDwords, NOP, COPY, WRITE, POLL_REGMEM, CONST_FILL,
           PTEPDE, TIMESTAMP, VERSION_SPECIFIC_16, GCR_REQ, V6_DUMMY_TRAP
  <2>2. QED
    BY <1>1, <2>1
<1>4. CASE p.op # WRITE
  BY <1>2, <1>4 DEF PacketLenDwords
<1>5. QED
  BY <1>3, <1>4

\* Lengths are numbers.
LEMMA LengthType ==
    ASSUME NEW v, NEW p \in Headers, NEW n \in Nat
    PROVE  PacketLenDwords(v, p, n) \in Nat
<1>1. ASSUME NEW table, NEW sub, \A e \in table : e[2] \in Nat
      PROVE  Lookup(table, sub) \in Nat
  <2> DEFINE hits == {e \in table : e[1] = sub}
  <2>1. hits # {} => (CHOOSE e \in hits : TRUE) \in hits
    OBVIOUS
  <2>2. QED
    BY <1>1, <2>1 DEF Lookup
<1>2. p.nop \in Nat /\ p.dw \in Nat
  BY HeadersAssumption
<1>3. CopyPacketLen(v, p) \in Nat
  <2>1. \A e \in BroadcastLen \cup CopyLenV4 \cup CopyLenV6 \cup CopyLenV7 : e[2] \in Nat
    BY DEF BroadcastLen, CopyLenV4, CopyLenV6, CopyLenV7
  <2>2. Lookup(BroadcastLen, p.sub) \in Nat /\ Lookup(CopyLenV4, p.sub) \in Nat
    BY <1>1, <2>1
  <2>3. Lookup(CopyLenV6, p.sub) \in Nat /\ Lookup(CopyLenV7, p.sub) \in Nat
    BY <1>1, <2>1
  <2>4. QED
    BY <2>2, <2>3 DEF CopyPacketLen
<1>4. PollPacketLen(v, p.sub) \in Nat
  BY <1>1 DEF PollPacketLen
<1>5. PtePdePacketLen(v, p.sub) \in Nat
  BY <1>1 DEF PtePdePacketLen
<1>6. Lookup({<<0, 5>>, <<1, 6>>}, p.sub) \in Nat
  BY <1>1
<1>7. Lookup(FixedLen, p.op) \in Nat
  BY <1>1 DEF FixedLen
<1>8. WriteLen(p, n) \in Nat
  <2>1. 2^20 \in Nat /\ 2^20 > 0
    OBVIOUS
  <2>2. p.dw % 2^20 \in Nat
    BY <1>2, <2>1
  <2>3. QED
    BY <2>2 DEF WriteLen
<1>9. QED
  BY <1>2, <1>3, <1>4, <1>5, <1>6, <1>7, <1>8
     DEF PacketLenDwords, NOP, COPY, WRITE, POLL_REGMEM, CONST_FILL, PTEPDE,
         TIMESTAMP, VERSION_SPECIFIC_16, GCR_REQ, V6_DUMMY_TRAP

\* PollSdmaQueue never revises what it concluded from a partly visible packet: a
\* length, a resync or a packet taken stays so when more dwords arrive, for every
\* version and packet.
THEOREM DecisionsAreFinal == WindowSpec => DecisionIsFinal
<1> DEFINE Final == dwords' > dwords =>
                      /\ packet_len # 0 => packet_len' = packet_len
                      /\ Resyncs => Resyncs'
                      /\ Takes => Takes'
<1>1. WindowInv /\ [WindowNext]_windowvars => [Final]_windowvars
  <2> SUFFICES ASSUME WindowInv, WindowNext, dwords' > dwords
               PROVE  /\ packet_len # 0 => packet_len' = packet_len
                      /\ Resyncs => Resyncs'
                      /\ Takes => Takes'
    OBVIOUS
  <2>1. PublishDword
    BY DEF WindowNext, WindowInv, ChangePage, TakeCopy
  <2>2. /\ dwords \in Nat \ {0} /\ dwords' = dwords + 1
        /\ UNCHANGED <<version, packet>>
    BY <2>1 DEF WindowInv, PublishDword
  <2>3. /\ navail \in Nat \ {0} /\ navail' \in Nat /\ navail <= navail'
        /\ dwords >= 4 => navail >= 4
    BY <2>2, WindowAssumption DEF navail, Min2
  <2>4. packet_len' = PacketLenDwords(version, packet, navail')
    BY <2>2 DEF packet_len
  <2>5. /\ packet_len # 0 => packet_len' = packet_len
        /\ dwords >= 4 => packet_len' = packet_len
    BY <2>3, <2>4, LengthSettles DEF packet_len
  <2>6. Resyncs => Resyncs'
    BY <2>2, <2>5 DEF Resyncs
  <2>7. Takes => Takes'
    <3>1. packet_len \in Nat
      BY <2>3, LengthType DEF WindowInv, packet_len
    <3>2. QED
      BY <2>2, <2>5, <3>1 DEF Takes
  <2>8. QED
    BY <2>5, <2>6, <2>7
<1>2. QED
  BY <1>1, InitWindow, StepWindow, PTL DEF WindowSpec, DecisionIsFinal
=============================================================================
