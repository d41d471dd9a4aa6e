---------------------------- MODULE AqlSnoopProofs ----------------------------
(***************************************************************************)
(* Proofs about AqlSnoop, for every ring size, every number of packets,    *)
(* every eviction threshold and every behaviour of producers, GPU and      *)
(* failing reads.                                                          *)
(***************************************************************************)
EXTENDS AqlSnoop, FiniteSetTheorems, TLAPS

\* The sampled pointers never run ahead of the real ones, and the poller never
\* gets ahead of the sampled write pointer.
Pointers ==
    /\ rptr <= wptr
    /\ wsnap <= wptr
    /\ rsnap <= rptr
    /\ base <= next_id
    /\ next_id <= wptr
    /\ pc \in {"decode", "drain"} => primed
    /\ pc \notin {"sweep", "gone"} => read_fail_count < EvictThreshold

\* The books of one queue: nothing is on them before priming, one record per
\* id is in flight.
Books ==
    /\ ~primed => inflight = {} /\ emitted = <<>> /\ missed = {} /\ dropped = 0
    /\ IsFiniteSet(Inflight)
    /\ \A r, s \in inflight : r.id = s.id => r = s

IInv ==
    /\ TypeOK
    /\ Pointers
    /\ Books
    /\ Accounting
    /\ EmittedOnce
    /\ CompletedIsConsumed

-----------------------------------------------------------------------------
(* Lemmas about the operators of the model.                                *)

\* A dispatch id falls on a slot of the ring.
LEMMA SlotInRing ==
    ASSUME NEW id \in Nat
    PROVE  SlotOf(id) \in 0 .. Slots - 1
BY SlotsAssumption DEF SlotOf

\* What DecodeSlot returns is a record filed under the id it was asked for.
LEMMA DecodedRecord ==
    ASSUME TypeOK, NEW id \in Ids
    PROVE  /\ DecodeSlot(id, ring[SlotOf(id)]) \in Record
           /\ DecodeSlot(id, ring[SlotOf(id)]).id = id
<1>1. id \in Nat
  BY MaxPacketsAssumption DEF Ids
<1>2. ring[SlotOf(id)] \in Slot
  BY <1>1, SlotInRing DEF TypeOK
<1> QED
  BY <1>2 DEF DecodeSlot, Record, Slot, Types, HeaderTypes, TypeOK

\* Handing a record to the sink adds its id to the emitted ones.
LEMMA EmitAppends ==
    ASSUME TypeOK, NEW r \in Record, emitted' = Append(emitted, r)
    PROVE  /\ emitted' \in Seq(Record)
           /\ Len(emitted') = Len(emitted) + 1
           /\ Emitted' = Emitted \cup {r.id}
           /\ \A i \in DOMAIN emitted : emitted'[i] = emitted[i]
           /\ emitted'[Len(emitted) + 1] = r
           /\ DOMAIN emitted' = DOMAIN emitted \cup {Len(emitted) + 1}
<1>1. emitted \in Seq(Record)
  BY DEF TypeOK
<1>2. /\ emitted' \in Seq(Record)
      /\ Len(emitted') = Len(emitted) + 1
      /\ \A i \in DOMAIN emitted : emitted'[i] = emitted[i]
      /\ emitted'[Len(emitted) + 1] = r
      /\ DOMAIN emitted' = DOMAIN emitted \cup {Len(emitted) + 1}
  BY <1>1
<1>3. Emitted' = Emitted \cup {r.id}
  BY <1>2 DEF Emitted
<1> QED
  BY <1>2, <1>3

\* Emitted ids and ids in flight are dispatch ids.
LEMMA RecordIds ==
    ASSUME TypeOK
    PROVE  /\ Ids \subseteq Int
           /\ \A id \in Emitted : id \in Ids
           /\ \A id \in Inflight : id \in Ids
<1>1. Ids \subseteq Int
  BY MaxPacketsAssumption DEF Ids
<1>2. \A i \in DOMAIN emitted : emitted[i] \in Record
  BY DEF TypeOK
<1>3. \A r \in Record : r.id \in Ids
  BY DEF Record
<1>4. \A id \in Emitted : id \in Ids
  BY <1>2, <1>3 DEF Emitted
<1>5. \A id \in Inflight : id \in Ids
  BY <1>3 DEF Inflight, TypeOK
<1> QED
  BY <1>1, <1>4, <1>5

\* If the id of the record is new, every id is still emitted at most once.
LEMMA EmitOnce ==
    ASSUME TypeOK, EmittedOnce, NEW r \in Record, r.id \notin Emitted,
           emitted' = Append(emitted, r)
    PROVE  EmittedOnce'
<1>1. /\ \A i \in DOMAIN emitted : emitted'[i] = emitted[i]
      /\ emitted'[Len(emitted) + 1] = r
      /\ DOMAIN emitted' = DOMAIN emitted \cup {Len(emitted) + 1}
  BY EmitAppends
<1>2. \A i \in DOMAIN emitted : emitted[i].id # r.id
  BY DEF Emitted
<1> QED
  BY <1>1, <1>2 DEF EmittedOnce

-----------------------------------------------------------------------------
(* The inductive invariant, one lemma per actor.                           *)

\* The books are empty and every pointer is 0 at first.
LEMMA InitIInv == Init => IInv
<1> SUFFICES ASSUME Init PROVE IInv
  OBVIOUS
<1> USE SlotsAssumption, MaxPacketsAssumption, EvictAssumption, KindsAssumption
<1>1. TypeOK
  <2>1. (CHOOSE k \in Kinds : TRUE) \in Kinds
    OBVIOUS
  <2>2. ring \in [0 .. Slots - 1 -> Slot]
    BY DEF Init, Slot, HeaderTypes
  <2>3. kind \in [Ids -> Kinds] /\ stage \in [Ids -> Stages]
    BY <2>1 DEF Init, Stages
  <2>4. /\ emitted \in Seq(Record) /\ inflight \subseteq Record
        /\ missed \subseteq Ids
    BY DEF Init
  <2>5. /\ alive \in BOOLEAN /\ running \in BOOLEAN /\ primed \in BOOLEAN
        /\ evict \in BOOLEAN /\ pc \in Pcs
    BY DEF Init, Pcs
  <2>6. /\ wptr = 0 /\ rptr = 0 /\ wsnap = 0 /\ rsnap = 0 /\ next_id = 0
        /\ last_rptr = 0 /\ dropped = 0 /\ read_fail_count = 0 /\ base = 0
    BY DEF Init
  <2> QED
    BY <2>2, <2>3, <2>4, <2>5, <2>6 DEF TypeOK
<1>2. Emitted = {} /\ Inflight = {}
  BY DEF Init, Emitted, Inflight
<1>3. IsFiniteSet(Inflight) /\ Cardinality(Inflight) = 0
  BY <1>2, FS_EmptySet
<1>4. Pointers /\ Books
  BY <1>3 DEF Init, Pointers, Books
<1>5. Accounting /\ EmittedOnce /\ CompletedIsConsumed
  BY <1>2 DEF Init, Accounting, EmittedOnce, CompletedIsConsumed, Tracked
<1> QED
  BY <1>1, <1>4, <1>5 DEF IInv

\* The traced process and the GPU change neither the books nor the samples;
\* the real pointers only grow.
LEMMA TracedStep == IInv /\ Traced => IInv'
<1> SUFFICES ASSUME IInv, Traced PROVE IInv'
  OBVIOUS
<1> USE SlotsAssumption, MaxPacketsAssumption, EvictAssumption, KindsAssumption
<1>1. UNCHANGED <<running, pc, wsnap, rsnap, qstate, history>>
  BY DEF Traced
<1>2. /\ alive' \in BOOLEAN
      /\ wptr' \in 0 .. MaxPackets /\ rptr' \in 0 .. MaxPackets
      /\ wptr' >= wptr /\ rptr' >= rptr /\ rptr' <= wptr'
      /\ stage' \in [Ids -> Stages] /\ kind' \in [Ids -> Kinds]
      /\ ring' \in [0 .. Slots - 1 -> Slot]
  <2> USE DEF IInv, TypeOK, Pointers
  <2>1. ASSUME NEW k \in Kinds, Reserve(k)
        PROVE  /\ stage' \in [Ids -> Stages] /\ kind' \in [Ids -> Kinds]
               /\ wptr' = wptr + 1 /\ wptr' \in 0 .. MaxPackets
               /\ UNCHANGED <<alive, rptr, ring>>
    <3>1. stage' \in [Ids -> Stages]
      BY <2>1 DEF Reserve, Stages
    <3>2. kind' \in [Ids -> Kinds]
      BY <2>1 DEF Reserve
    <3>3. wptr' = wptr + 1 /\ wptr' \in 0 .. MaxPackets
      BY <2>1 DEF Reserve
    <3> QED
      BY <2>1, <3>1, <3>2, <3>3 DEF Reserve
  <2>2. ASSUME NEW id \in Ids, WriteBody(id) \/ Publish(id) \/ GpuReset(id)
        PROVE  /\ ring' \in [0 .. Slots - 1 -> Slot]
               /\ stage' \in [Ids -> Stages]
               /\ UNCHANGED <<alive, wptr, rptr, kind>>
    <3>1. kind[id].type \in Types /\ kind[id].barrier \in BOOLEAN
      BY DEF KindSet
    <3>2. \E s \in Slot : ring' = [ring EXCEPT ![SlotOf(id)] = s]
      BY <2>2, <3>1 DEF WriteBody, Publish, GpuReset, Slot, HeaderTypes
    <3>3. ring' \in [0 .. Slots - 1 -> Slot]
      BY <3>2
    <3> QED
      BY <2>2, <3>3 DEF WriteBody, Publish, GpuReset, Stages
  <2>3. CASE GpuAdvance
    <3>1. /\ rptr' = rptr + 1 /\ rptr < wptr
          /\ UNCHANGED <<alive, wptr, ring, stage, kind>>
      BY <2>3 DEF GpuAdvance
    <3> QED
      BY <3>1
  <2>4. CASE ProcessExit
    <3>1. alive' \in BOOLEAN /\ UNCHANGED <<wptr, rptr, ring, stage, kind>>
      BY <2>4 DEF ProcessExit
    <3> QED
      BY <3>1
  <2>5. CASE \E k \in Kinds : Reserve(k)
    <3>1. /\ stage' \in [Ids -> Stages] /\ kind' \in [Ids -> Kinds]
          /\ wptr' = wptr + 1 /\ wptr' \in 0 .. MaxPackets
          /\ UNCHANGED <<alive, rptr, ring>>
      BY <2>1, <2>5
    <3> QED
      BY <3>1
  <2>6. CASE \E id \in Ids : WriteBody(id) \/ Publish(id) \/ GpuReset(id)
    <3>1. /\ ring' \in [0 .. Slots - 1 -> Slot]
          /\ stage' \in [Ids -> Stages]
          /\ UNCHANGED <<alive, wptr, rptr, kind>>
      BY <2>2, <2>6
    <3> QED
      BY <3>1
  <2> QED
    BY <2>3, <2>4, <2>5, <2>6 DEF Traced
<1>3. TypeOK'
  BY <1>1, <1>2 DEF IInv, TypeOK, qstate, history
<1>4. Pointers'
  BY <1>1, <1>2 DEF IInv, TypeOK, Pointers, qstate, history
<1>5. Emitted' = Emitted /\ Inflight' = Inflight
  BY <1>1 DEF Emitted, Inflight, qstate, history
<1>6. Books' /\ Accounting' /\ EmittedOnce'
  BY <1>1, <1>5 DEF IInv, Books, Accounting, EmittedOnce, Tracked, qstate,
                    history
<1>7. CompletedIsConsumed'
  <2>1. \A id \in Emitted : id \in Int /\ id < rptr
    BY RecordIds DEF IInv, CompletedIsConsumed
  <2>2. rptr \in Int /\ rptr' \in Int /\ rptr' >= rptr
    BY <1>2 DEF IInv, TypeOK
  <2> QED
    BY <1>5, <2>1, <2>2 DEF CompletedIsConsumed
<1> QED
  BY <1>3, <1>4, <1>6, <1>7 DEF IInv

\* The steps that leave the books alone: entering a pass, reading wptr, a
\* failing read, the end of either loop, and Stop.
Bookless ==
    \/ StartPass \/ ReadWptr \/ PtrReadFails
    \/ ((DecodeStall \/ DecodeEnd)
          /\ UNCHANGED <<wsnap, rsnap, last_rptr, primed, read_fail_count,
                         evict, base>>)
    \/ (DrainEnd /\ UNCHANGED <<next_id, primed, dropped, read_fail_count,
                                evict, base, missed>>)

\* The poller's steps that touch no book: the parts of the invariant
\* about records are carried over; the pointers and the failure count move.
LEMMA BooklessStep == IInv /\ Bookless /\ UNCHANGED <<traced, running>> => IInv'
<1> SUFFICES ASSUME IInv, Bookless, UNCHANGED <<traced, running>> PROVE IInv'
  OBVIOUS
<1> USE SlotsAssumption, MaxPacketsAssumption, EvictAssumption
<1>1. UNCHANGED <<next_id, primed, dropped, inflight, history>>
  BY DEF Bookless, StartPass, ReadWptr, PtrReadFails, DecodeStall, DecodeEnd,
         DrainEnd, qstate, history
<1>2. /\ pc' \in Pcs /\ evict' \in BOOLEAN
      /\ wsnap' \in 0 .. wptr /\ rsnap' \in 0 .. rptr
      /\ last_rptr' \in 0 .. MaxPackets
      /\ read_fail_count' \in 0 .. EvictThreshold
      /\ pc' \notin {"sweep", "gone"} => read_fail_count' < EvictThreshold
      /\ pc' \in {"decode", "drain"} => primed
      /\ pc' \in {"gone", "stopped"} => pc \in {"gone", "stopped"}
  <2> USE DEF IInv, TypeOK, Pointers, Pcs, qstate, history, traced
  <2>1. CASE StartPass
    <3>1. /\ pc' \in {"wptr", "sweep"} /\ evict' \in BOOLEAN
          /\ UNCHANGED <<wsnap, rsnap, last_rptr, read_fail_count, primed>>
      BY <2>1 DEF StartPass
    <3>2. read_fail_count < EvictThreshold
      BY <2>1 DEF StartPass
    <3> QED
      BY <3>1, <3>2
  <2>2. CASE ReadWptr
    BY <2>2 DEF ReadWptr
  <2>3. CASE PtrReadFails
    <3>1. /\ read_fail_count' = read_fail_count + 1
          /\ read_fail_count < EvictThreshold
          /\ wsnap' = 0
          /\ UNCHANGED <<rsnap, last_rptr>>
          /\ pc \in {"wptr", "rptr"}
      BY <2>3 DEF PtrReadFails
    <3>2. CASE read_fail_count' >= EvictThreshold
      <4>1. evict' = TRUE /\ pc' = "sweep"
        BY <2>3, <3>2 DEF PtrReadFails
      <4> QED
        BY <3>1, <4>1
    <3>3. CASE ~(read_fail_count' >= EvictThreshold)
      <4>1. evict' = evict /\ pc' = "idle"
        BY <2>3, <3>3 DEF PtrReadFails
      <4> QED
        BY <3>1, <3>3, <4>1
    <3> QED
      BY <3>2, <3>3
  <2>4. CASE /\ DecodeStall \/ DecodeEnd
             /\ UNCHANGED <<wsnap, rsnap, last_rptr, primed, read_fail_count,
                            evict, base>>
    BY <2>4 DEF DecodeStall, DecodeEnd, Looping
  <2>5. CASE /\ DrainEnd
             /\ UNCHANGED <<next_id, primed, dropped, read_fail_count, evict,
                            base, missed>>
    BY <2>5 DEF DrainEnd
  <2> QED
    BY <2>1, <2>2, <2>3, <2>4, <2>5 DEF Bookless
<1>3. TypeOK'
  BY <1>1, <1>2 DEF IInv, TypeOK, traced, history
<1>4. Pointers'
  BY <1>1, <1>2 DEF IInv, TypeOK, Pointers, traced, history
<1>5. Emitted' = Emitted /\ Inflight' = Inflight
  BY <1>1 DEF Emitted, Inflight, history
<1>6. pc \in {"gone", "stopped"} => pc' \in {"gone", "stopped"}
  BY DEF Bookless, StartPass, ReadWptr, PtrReadFails, DecodeStall, DecodeEnd,
         DrainEnd, Looping
<1>7. Tracked' => Tracked
  BY <1>1, <1>6 DEF Tracked
<1>8. Books' /\ Accounting' /\ EmittedOnce'
  BY <1>1, <1>5, <1>7 DEF IInv, Books, Accounting, EmittedOnce, history
<1>9. CompletedIsConsumed'
  BY <1>5 DEF IInv, CompletedIsConsumed, traced
<1> QED
  BY <1>3, <1>4, <1>8, <1>9 DEF IInv

\* Priming and the overrun guard: next_id moves to wsnap or to a ring behind
\* it, and what is skipped is booked as dropped.
LEMMA ReadRptrStep == IInv /\ ReadRptr /\ UNCHANGED <<traced, running>> => IInv'
<1> SUFFICES ASSUME IInv, ReadRptr, UNCHANGED <<traced, running>> PROVE IInv'
  OBVIOUS
<1> USE SlotsAssumption, MaxPacketsAssumption, EvictAssumption
<1>1. /\ pc = "rptr" /\ read_fail_count' = 0
      /\ UNCHANGED <<inflight, evict, emitted, alive, wptr, rptr, ring, stage,
                     kind, running>>
  BY DEF ReadRptr, Prime, SkipOverrun, traced
<1>2. Emitted' = Emitted /\ Inflight' = Inflight
  BY <1>1 DEF Emitted, Inflight
<1>3. EmittedOnce' /\ CompletedIsConsumed'
  BY <1>1, <1>2 DEF IInv, EmittedOnce, CompletedIsConsumed
<1>4. CASE Prime
  <2>1. /\ ~primed /\ primed' = TRUE /\ next_id' = wsnap /\ base' = wsnap
        /\ last_rptr' = rptr /\ pc' = "idle" /\ wsnap' = 0 /\ rsnap' = 0
        /\ UNCHANGED <<dropped, missed>>
    BY <1>4 DEF Prime
  <2>2. TypeOK'
    BY <1>1, <2>1 DEF IInv, TypeOK, Pcs
  <2>3. Pointers'
    BY <1>1, <2>1 DEF IInv, TypeOK, Pointers
  <2>4. inflight = {} /\ emitted = <<>> /\ missed = {} /\ dropped = 0
    BY <2>1 DEF IInv, Books
  <2>5. Emitted = {} /\ Inflight = {}
    BY <2>4 DEF Emitted, Inflight
  <2>6. Books'
    BY <1>1, <1>2, <2>1 DEF IInv, Books
  <2>7. Accounting'
    <3>1. Cardinality(Inflight) = 0 /\ Len(emitted) = 0
      BY <2>4, <2>5, FS_EmptySet
    <3>2. base' .. next_id' - 1 = {}
      BY <2>1 DEF IInv, TypeOK
    <3> QED
      BY <1>1, <1>2, <2>1, <2>4, <2>5, <3>1, <3>2 DEF Accounting, IInv, TypeOK
  <2> QED
    BY <1>3, <2>2, <2>3, <2>6, <2>7 DEF IInv
<1>5. CASE SkipOverrun
  <2>1. /\ primed /\ primed' = primed /\ pc' = "decode" /\ rsnap' = rptr
        /\ UNCHANGED <<wsnap, last_rptr, base>>
    BY <1>5 DEF SkipOverrun
  <2>2. PICK n \in Nat : /\ next_id' = next_id + n
                         /\ n = 0 \/ next_id + n = wsnap - Slots
                         /\ dropped' = dropped + n
                         /\ missed' = missed \cup (next_id .. next_id' - 1)
    <3>1. CASE wsnap > next_id + Slots
      <4>1. wsnap - Slots - next_id \in Nat
        BY <3>1 DEF IInv, TypeOK
      <4>2. /\ next_id' = next_id + (wsnap - Slots - next_id)
            /\ dropped' = dropped + (wsnap - Slots - next_id)
            /\ missed' = missed \cup (next_id .. next_id' - 1)
        BY <1>5, <3>1 DEF IInv, TypeOK, SkipOverrun
      <4>3. next_id + (wsnap - Slots - next_id) = wsnap - Slots
        BY DEF IInv, TypeOK
      <4> QED
        BY <4>1, <4>2, <4>3
    <3>2. CASE ~(wsnap > next_id + Slots)
      <4>1. UNCHANGED <<dropped, next_id, missed>>
        BY <1>5, <3>2 DEF SkipOverrun
      <4>2. next_id .. next_id - 1 = {}
        BY DEF IInv, TypeOK
      <4>3. next_id + 0 = next_id /\ dropped + 0 = dropped
        BY DEF IInv, TypeOK
      <4> QED
        BY <4>1, <4>2, <4>3
    <3> QED
      BY <3>1, <3>2
  <2>3. next_id' \in next_id .. wptr
    BY <2>2 DEF IInv, TypeOK, Pointers
  <2>4. Tracked
    BY <1>1, <2>1 DEF Tracked
  <2>5. /\ Inflight \cup Emitted \cup missed = base .. next_id - 1
        /\ Inflight \cap Emitted = {}
        /\ Inflight \cap missed = {}
        /\ Emitted \cap missed = {}
        /\ Cardinality(Inflight) + Len(emitted) + dropped = next_id - base
    BY <2>4 DEF IInv, Accounting
  <2>6. Cardinality(Inflight) \in Nat /\ Len(emitted) \in Nat
    BY FS_CardinalityType DEF IInv, Books, TypeOK
  <2>7. dropped' \in 0 .. MaxPackets
    BY <2>2, <2>3, <2>5, <2>6 DEF IInv, TypeOK
  <2>8. missed' \subseteq Ids
    BY <2>2, <2>3 DEF IInv, TypeOK, Ids
  <2>9. TypeOK'
    BY <1>1, <2>1, <2>3, <2>7, <2>8 DEF IInv, TypeOK, Pcs
  <2>10. Pointers'
    BY <1>1, <2>1, <2>3 DEF IInv, TypeOK, Pointers
  <2>11. Books'
    BY <1>1, <1>2, <2>1 DEF IInv, Books
  <2>12. Accounting'
    <3>1. base .. next_id' - 1 = (base .. next_id - 1) \cup (next_id .. next_id' - 1)
      BY <2>3 DEF IInv, TypeOK, Pointers
    <3>2. (base .. next_id - 1) \cap (next_id .. next_id' - 1) = {}
      <4>1. ASSUME NEW x \in base .. next_id - 1, x \in next_id .. next_id' - 1
            PROVE  FALSE
        BY <4>1 DEF IInv, TypeOK
      <4> QED
        BY <4>1
    <3>3. Cardinality(Inflight) + Len(emitted) + dropped' = next_id' - base
      BY <2>2, <2>5, <2>6 DEF IInv, TypeOK
    <3>4. /\ Inflight \cup Emitted \cup missed' = base .. next_id' - 1
          /\ Inflight \cap missed' = {}
          /\ Emitted \cap missed' = {}
      BY <2>2, <2>5, <3>1, <3>2
    <3> QED
      BY <1>1, <1>2, <2>1, <2>5, <3>3, <3>4 DEF Accounting
  <2> QED
    BY <1>3, <2>9, <2>10, <2>11, <2>12 DEF IInv
<1> QED
  BY <1>4, <1>5 DEF ReadRptr

\* What the books say about a queue that is being polled.
LEMMA BooksFacts ==
    ASSUME IInv, Tracked
    PROVE  /\ Inflight \cup Emitted \cup missed = base .. next_id - 1
           /\ Inflight \cap Emitted = {}
           /\ Inflight \cap missed = {}
           /\ Emitted \cap missed = {}
           /\ Cardinality(Inflight) + Len(emitted) + dropped = next_id - base
           /\ Cardinality(Inflight) \in Nat /\ Len(emitted) \in Nat
           /\ base .. next_id = (base .. next_id - 1) \cup {next_id}
           /\ next_id \notin base .. next_id - 1
<1>1. Cardinality(Inflight) \in Nat /\ Len(emitted) \in Nat
  BY FS_CardinalityType DEF IInv, Books, TypeOK
<1>2. /\ base .. next_id = (base .. next_id - 1) \cup {next_id}
      /\ next_id \notin base .. next_id - 1
  BY MaxPacketsAssumption DEF IInv, TypeOK, Pointers
<1> QED
  BY <1>1, <1>2 DEF IInv, Accounting

\* The decode loop moves next_id on by one and books the id exactly once.
LEMMA DecodeStep ==
    IInv /\ (DecodeEmit \/ DecodeHold \/ DecodeMiss)
         /\ UNCHANGED <<wsnap, rsnap, last_rptr, primed, read_fail_count, evict,
                        base>>
         /\ UNCHANGED <<traced, running>> => IInv'
<1> SUFFICES ASSUME IInv, DecodeEmit \/ DecodeHold \/ DecodeMiss,
                    UNCHANGED <<wsnap, rsnap, last_rptr, primed,
                                read_fail_count, evict, base>>,
                    UNCHANGED <<traced, running>>
             PROVE  IInv'
  OBVIOUS
<1> USE SlotsAssumption, MaxPacketsAssumption, EvictAssumption
<1>1. /\ pc = "decode" /\ pc' = "decode" /\ next_id < wsnap
      /\ next_id' = next_id + 1
  BY DEF DecodeEmit, DecodeHold, DecodeMiss, Looping
<1>2. UNCHANGED <<alive, wptr, rptr, ring, stage, kind>>
  BY DEF traced
<1>3. next_id \in Ids /\ next_id' \in 0 .. MaxPackets /\ next_id' <= wptr
  BY <1>1 DEF IInv, TypeOK, Pointers, Ids
<1>4. Tracked /\ primed /\ base <= next_id
  BY <1>1 DEF IInv, Pointers, Tracked
<1>5. Pointers'
  BY <1>1, <1>2, <1>3 DEF IInv, TypeOK, Pointers
<1>6. ASSUME inflight' \subseteq Record, emitted' \in Seq(Record),
             missed' \subseteq Ids, dropped' \in 0 .. MaxPackets
      PROVE  TypeOK'
  BY <1>1, <1>2, <1>3, <1>6 DEF IInv, TypeOK
<1>7. base' .. next_id' - 1 = (base .. next_id - 1) \cup {next_id}
  <2>1. next_id' - 1 = next_id
    BY <1>1 DEF IInv, TypeOK
  <2> QED
    BY <1>4, <2>1, BooksFacts
<1> DEFINE rec == DecodeSlot(next_id, ring[SlotOf(next_id)])
<1>8. rec \in Record /\ rec.id = next_id
  BY <1>3, DecodedRecord DEF IInv
<1>9. next_id \notin Inflight /\ next_id \notin Emitted /\ next_id \notin missed
  BY <1>4, BooksFacts
<1> HIDE DEF rec
<1>10. CASE DecodeEmit
  <2>1. /\ emitted' = Append(emitted, rec)
        /\ UNCHANGED <<dropped, inflight, missed>>
        /\ next_id < rsnap
    BY <1>10 DEF DecodeEmit, rec
  <2>2. /\ emitted' \in Seq(Record)
        /\ Len(emitted') = Len(emitted) + 1
        /\ Emitted' = Emitted \cup {next_id}
    BY <1>8, <2>1, EmitAppends DEF IInv
  <2>3. EmittedOnce'
    BY <1>8, <1>9, <2>1, EmitOnce DEF IInv
  <2>4. Inflight' = Inflight
    BY <2>1 DEF Inflight
  <2>5. TypeOK'
    BY <1>6, <2>1, <2>2 DEF IInv, TypeOK
  <2>6. Books'
    BY <1>4, <2>1, <2>4 DEF IInv, Books
  <2>7. CompletedIsConsumed'
    <3>1. next_id < rptr
      BY <2>1 DEF IInv, TypeOK, Pointers
    <3> QED
      BY <1>2, <2>2, <3>1 DEF IInv, CompletedIsConsumed
  <2>8. Cardinality(Inflight') + Len(emitted') + dropped' = next_id' - base'
    BY <1>1, <1>4, <2>1, <2>2, <2>4, BooksFacts DEF IInv, TypeOK
  <2>9. Accounting'
    BY <1>4, <1>7, <1>9, <2>1, <2>2, <2>4, <2>8, BooksFacts DEF Accounting
  <2> QED
    BY <1>5, <2>3, <2>5, <2>6, <2>7, <2>9 DEF IInv
<1>11. CASE DecodeHold
  <2>1. /\ inflight' = inflight \cup {rec}
        /\ UNCHANGED <<dropped, emitted, missed>>
    BY <1>11 DEF DecodeHold, rec
  <2>2. Inflight' = Inflight \cup {next_id} /\ Emitted' = Emitted
    BY <1>8, <2>1 DEF Inflight, Emitted
  <2>3. /\ IsFiniteSet(Inflight')
        /\ Cardinality(Inflight') = Cardinality(Inflight) + 1
    BY <1>9, <2>2, FS_AddElement DEF IInv, Books
  <2>4. TypeOK'
    BY <1>6, <1>8, <2>1 DEF IInv, TypeOK
  <2>5. \A r \in inflight : r.id # next_id
    BY <1>9 DEF Inflight
  <2>6. Books'
    BY <1>4, <1>8, <2>1, <2>3, <2>5 DEF IInv, Books
  <2>7. EmittedOnce' /\ CompletedIsConsumed'
    BY <1>2, <2>1, <2>2 DEF IInv, EmittedOnce, CompletedIsConsumed
  <2>8. Cardinality(Inflight') + Len(emitted') + dropped' = next_id' - base'
    <3>1. Len(emitted') = Len(emitted) /\ base' = base /\ dropped' = dropped
      BY <2>1
    <3>2. /\ Cardinality(Inflight) + Len(emitted) + dropped = next_id - base
          /\ Cardinality(Inflight) \in Nat /\ Len(emitted) \in Nat
      BY <1>4, BooksFacts
    <3>3. next_id \in Int /\ base \in Int /\ dropped \in Int
      BY DEF IInv, TypeOK
    <3> QED
      BY <1>1, <2>3, <3>1, <3>2, <3>3
  <2>9. Accounting'
    BY <1>4, <1>7, <1>9, <2>1, <2>2, <2>8, BooksFacts DEF Accounting
  <2> QED
    BY <1>5, <2>4, <2>6, <2>7, <2>9 DEF IInv
<1>12. CASE DecodeMiss
  <2>1. /\ dropped' = dropped + 1 /\ missed' = missed \cup {next_id}
        /\ UNCHANGED <<inflight, emitted>>
    BY <1>12 DEF DecodeMiss
  <2>2. Inflight' = Inflight /\ Emitted' = Emitted
    BY <2>1 DEF Inflight, Emitted
  <2>3. dropped' \in 0 .. MaxPackets
    <3>1. dropped <= next_id - base
      BY <1>4, BooksFacts DEF IInv, TypeOK
    <3> QED
      BY <1>1, <1>3, <2>1, <3>1 DEF IInv, TypeOK
  <2>4. TypeOK'
    BY <1>3, <1>6, <2>1, <2>3 DEF IInv, TypeOK
  <2>5. Books'
    BY <1>4, <2>1, <2>2 DEF IInv, Books
  <2>6. EmittedOnce' /\ CompletedIsConsumed'
    BY <1>2, <2>1, <2>2 DEF IInv, EmittedOnce, CompletedIsConsumed
  <2>7. Cardinality(Inflight') + Len(emitted') + dropped' = next_id' - base'
    <3>1. /\ Len(emitted') = Len(emitted) /\ base' = base
          /\ Cardinality(Inflight') = Cardinality(Inflight)
      BY <2>1, <2>2
    <3>2. /\ Cardinality(Inflight) + Len(emitted) + dropped = next_id - base
          /\ Cardinality(Inflight) \in Nat /\ Len(emitted) \in Nat
      BY <1>4, BooksFacts
    <3>3. next_id \in Int /\ base \in Int /\ dropped \in Int
      BY DEF IInv, TypeOK
    <3> QED
      BY <1>1, <2>1, <3>1, <3>2, <3>3
  <2>8. Accounting'
    BY <1>4, <1>7, <1>9, <2>1, <2>2, <2>7, BooksFacts DEF Accounting
  <2> QED
    BY <1>5, <2>4, <2>5, <2>6, <2>8 DEF IInv
<1> QED
  BY <1>10, <1>11, <1>12

\* The drain loop moves one record from the in-flight map to the sink.
LEMMA DrainStep ==
    IInv /\ DrainOne
         /\ UNCHANGED <<next_id, primed, dropped, read_fail_count, evict, base,
                        missed>>
         /\ UNCHANGED <<traced, running>> => IInv'
<1> SUFFICES ASSUME IInv, DrainOne,
                    UNCHANGED <<next_id, primed, dropped, read_fail_count,
                                evict, base, missed>>,
                    UNCHANGED <<traced, running>>
             PROVE  IInv'
  OBVIOUS
<1> USE MaxPacketsAssumption
<1>1. PICK r \in inflight : /\ r.id < rsnap
                            /\ emitted' = Append(emitted, r)
                            /\ inflight' = inflight \ {r}
  BY DEF DrainOne
<1>2. /\ pc = "drain" /\ UNCHANGED <<pc, wsnap, rsnap, last_rptr>>
      /\ UNCHANGED <<alive, wptr, rptr, ring, stage, kind>>
  BY DEF DrainOne, traced
<1>3. Tracked /\ primed
  BY <1>2 DEF IInv, Pointers, Tracked
<1>4. r \in Record /\ r.id \in Inflight
  BY DEF IInv, TypeOK, Inflight
<1>5. r.id \notin Emitted
  BY <1>3, <1>4, BooksFacts
<1>6. /\ emitted' \in Seq(Record)
      /\ Len(emitted') = Len(emitted) + 1
      /\ Emitted' = Emitted \cup {r.id}
  BY <1>1, <1>4, EmitAppends DEF IInv
<1>7. EmittedOnce'
  BY <1>1, <1>4, <1>5, EmitOnce DEF IInv
<1>8. Inflight' = Inflight \ {r.id}
  BY <1>1 DEF IInv, Books, Inflight
<1>9. /\ IsFiniteSet(Inflight')
      /\ Cardinality(Inflight') = Cardinality(Inflight) - 1
  BY <1>4, <1>8, FS_RemoveElement DEF IInv, Books
<1>10. TypeOK'
  BY <1>1, <1>2, <1>6 DEF IInv, TypeOK
<1>11. Pointers'
  BY <1>2 DEF IInv, Pointers
<1>12. Books'
  BY <1>1, <1>3, <1>9 DEF IInv, Books
<1>13. CompletedIsConsumed'
  <2>1. r.id < rptr
    BY <1>1, <1>4 DEF IInv, TypeOK, Pointers, Record, Ids
  <2> QED
    BY <1>2, <1>6, <2>1 DEF IInv, CompletedIsConsumed
<1>14. Accounting'
  <2>1. /\ Inflight' \cup Emitted' \cup missed' = base' .. next_id' - 1
        /\ Inflight' \cap Emitted' = {}
        /\ Inflight' \cap missed' = {}
        /\ Emitted' \cap missed' = {}
    BY <1>3, <1>4, <1>6, <1>8, BooksFacts
  <2>2. Cardinality(Inflight') + Len(emitted') + dropped' = next_id' - base'
    <3>1. /\ Cardinality(Inflight) + Len(emitted) + dropped = next_id - base
          /\ Cardinality(Inflight) \in Nat /\ Len(emitted) \in Nat
      BY <1>3, BooksFacts
    <3>2. next_id \in Int /\ base \in Int /\ dropped \in Int
      BY DEF IInv, TypeOK
    <3>3. UNCHANGED <<next_id, base, dropped>>
      OBVIOUS
    <3> QED
      BY <1>6, <1>9, <3>1, <3>2, <3>3
  <2> QED
    BY <2>1, <2>2 DEF Accounting
<1> QED
  BY <1>7, <1>10, <1>11, <1>12, <1>13, <1>14 DEF IInv

\* Erasing an evicted queue, or leaving Run, drops what is in flight and
\* nothing else.
LEMMA AbandonStep ==
    IInv /\ (Erase \/ LeaveRun) /\ UNCHANGED <<traced, running>> => IInv'
<1> SUFFICES ASSUME IInv, Erase \/ LeaveRun, UNCHANGED <<traced, running>>
             PROVE  IInv'
  OBVIOUS
<1>1. /\ pc' \in {"gone", "stopped"} /\ inflight' = {}
      /\ pc' = "stopped" => pc = "idle"
      /\ UNCHANGED <<wsnap, rsnap, next_id, last_rptr, primed, dropped,
                     read_fail_count, evict, base, emitted, missed>>
      /\ UNCHANGED <<alive, wptr, rptr, ring, stage, kind, running>>
  BY DEF Erase, LeaveRun, traced, history
<1>2. TypeOK'
  BY <1>1 DEF IInv, TypeOK, Pcs
<1>3. Pointers'
  BY <1>1 DEF IInv, Pointers
<1>4. Inflight' = {} /\ Emitted' = Emitted
  BY <1>1 DEF Inflight, Emitted
<1>5. Books'
  BY <1>1, <1>4, FS_EmptySet DEF IInv, Books
<1>6. Accounting'
  BY <1>1 DEF Accounting, Tracked
<1>7. EmittedOnce' /\ CompletedIsConsumed'
  BY <1>1, <1>4 DEF IInv, EmittedOnce, CompletedIsConsumed
<1> QED
  BY <1>2, <1>3, <1>5, <1>6, <1>7 DEF IInv

\* Stop, and stuttering, leave the queue alone.
LEMMA QuietStep == IInv /\ (Stop \/ UNCHANGED vars) => IInv'
<1> SUFFICES ASSUME IInv, Stop \/ UNCHANGED vars PROVE IInv'
  OBVIOUS
<1>1. /\ UNCHANGED <<alive, wptr, rptr, ring, stage, kind, pc, wsnap, rsnap>>
      /\ UNCHANGED <<next_id, last_rptr, primed, dropped, inflight,
                     read_fail_count, evict, base, emitted, missed>>
      /\ running' \in BOOLEAN
  BY DEF IInv, TypeOK, Stop, vars, traced, qstate, history
<1>2. TypeOK'
  BY <1>1 DEF IInv, TypeOK
<1>3. Emitted' = Emitted /\ Inflight' = Inflight
  BY <1>1 DEF Emitted, Inflight
<1>4. Pointers' /\ Books'
  BY <1>1, <1>3 DEF IInv, Pointers, Books
<1>5. Accounting' /\ EmittedOnce' /\ CompletedIsConsumed'
  BY <1>1, <1>3 DEF IInv, Accounting, EmittedOnce, CompletedIsConsumed, Tracked
<1> QED
  BY <1>2, <1>4, <1>5 DEF IInv

\* Every step of the specification keeps the invariant.
LEMMA StepIInv == IInv /\ [Next]_vars => IInv'
<1> SUFFICES ASSUME IInv, [Next]_vars PROVE IInv'
  OBVIOUS
<1>1. CASE Traced
  BY <1>1, TracedStep
<1>2. CASE Stop \/ UNCHANGED vars
  BY <1>2, QuietStep
<1>3. CASE Poller
  <2>1. UNCHANGED <<traced, running>>
    BY <1>3 DEF Poller
  <2>2. CASE LeaveRun \/ Erase
    BY <2>1, <2>2, AbandonStep
  <2>3. CASE StartPass \/ ReadWptr \/ PtrReadFails
    BY <2>1, <2>3, BooklessStep DEF Bookless
  <2>4. CASE ReadRptr
    BY <2>1, <2>4, ReadRptrStep
  <2>5. CASE Decode
    BY <2>1, <2>5, DecodeStep, BooklessStep DEF Decode, Bookless
  <2>6. CASE Drain
    BY <2>1, <2>6, DrainStep, BooklessStep DEF Drain, Bookless
  <2> QED
    BY <1>3, <2>2, <2>3, <2>4, <2>5, <2>6 DEF Poller
<1> QED
  BY <1>1, <1>2, <1>3 DEF Next

\* IInv holds in every reachable state.
THEOREM Invariance == Spec => []IInv
BY InitIInv, StepIInv, PTL DEF Spec

\* The state of the ring, of the poller and of its queue keep their types:
\* next_id, dropped and the in-flight records never leave the packets that
\* were submitted, and read_fail_count never exceeds the eviction threshold.
THEOREM TypeCorrect == Spec => []TypeOK
<1>1. IInv => TypeOK
  BY DEF IInv
<1> QED
  BY <1>1, Invariance, PTL

\* Whatever producers, GPU and failing reads do, every packet from the priming
\* point up to next_id is exactly one of: in flight, reported, counted as
\* dropped.
THEOREM AccountingHolds == Spec => []Accounting
<1>1. IInv => Accounting
  BY DEF IInv
<1> QED
  BY <1>1, Invariance, PTL

\* No dispatch id reaches the sink twice.
THEOREM EmittedOnceHolds == Spec => []EmittedOnce
<1>1. IInv => EmittedOnce
  BY DEF IInv
<1> QED
  BY <1>1, Invariance, PTL

\* A record reported as completed is one the GPU has consumed.
THEOREM CompletedIsConsumedHolds == Spec => []CompletedIsConsumed
<1>1. IInv => CompletedIsConsumed
  BY DEF IInv
<1> QED
  BY <1>1, Invariance, PTL

-----------------------------------------------------------------------------
(* Refinement: one poller step is one ledger step or a stutter.            *)

\* The phase of the abstract ledger.
Phase == IF pc \in {"gone", "stopped"} THEN "closed"
         ELSE IF primed THEN "open" ELSE "new"

\* A queue that is not primed is a ledger that is not open.
LEMMA InitLedger == Init => Ledger!Init
<1> SUFFICES ASSUME Init PROVE Ledger!Init
  OBVIOUS
<1>1. Emitted = {} /\ Inflight = {}
  BY DEF Init, Emitted, Inflight
<1> QED
  BY <1>1 DEF Init, Ledger!Init

\* A step that changes neither the books nor the phase is a stutter.
LEMMA LedgerStutter ==
    ASSUME UNCHANGED <<next_id, inflight, base, emitted, missed>>,
           Phase' = Phase
    PROVE  UNCHANGED Ledger!ledger
<1>1. Emitted' = Emitted /\ Inflight' = Inflight
  BY DEF Emitted, Inflight
<1> QED
  BY <1>1 DEF Ledger!ledger, Phase

\* Steps of the process, the GPU and the poller's bookless steps stutter.
LEMMA QuietRefines ==
    IInv /\ (Traced \/ Stop \/ UNCHANGED vars \/ Bookless)
        => UNCHANGED Ledger!ledger
<1> SUFFICES ASSUME IInv, Traced \/ Stop \/ UNCHANGED vars \/ Bookless
             PROVE  UNCHANGED Ledger!ledger
  OBVIOUS
<1>1. CASE Traced \/ Stop \/ UNCHANGED vars
  <2>1. UNCHANGED <<pc, primed, next_id, inflight, base, emitted, missed>>
    BY <1>1 DEF Traced, Stop, vars, qstate, history
  <2> QED
    BY <2>1, LedgerStutter DEF Phase
<1>2. CASE Bookless
  <2>1. UNCHANGED <<primed, next_id, inflight, base, emitted, missed>>
    BY <1>2 DEF Bookless, StartPass, ReadWptr, PtrReadFails, DecodeStall,
                DecodeEnd, DrainEnd, qstate, history
  <2>2. pc \notin {"gone", "stopped"} /\ pc' \notin {"gone", "stopped"}
    BY <1>2 DEF Bookless, StartPass, ReadWptr, PtrReadFails, DecodeStall,
                DecodeEnd, DrainEnd, Looping
  <2> QED
    BY <2>1, <2>2, LedgerStutter DEF Phase
<1> QED
  BY <1>1, <1>2

\* Priming opens the ledger; the overrun guard skips units, or stutters.
LEMMA ReadRptrRefines ==
    IInv /\ ReadRptr => [Ledger!Next]_(Ledger!ledger)
<1> SUFFICES ASSUME IInv, ReadRptr PROVE [Ledger!Next]_(Ledger!ledger)
  OBVIOUS
<1> USE MaxPacketsAssumption, SlotsAssumption
<1>1. pc = "rptr" /\ UNCHANGED <<inflight, emitted>>
  BY DEF ReadRptr, Prime, SkipOverrun
<1>2. Emitted' = Emitted /\ Inflight' = Inflight
  BY <1>1 DEF Emitted, Inflight
<1>3. CASE Prime
  <2>1. wsnap \in 0 .. MaxPackets
    BY DEF IInv, TypeOK
  <2>2. Ledger!Open(wsnap)
    BY <1>1, <1>2, <1>3 DEF Prime, Ledger!Open
  <2> QED
    BY <2>1, <2>2 DEF Ledger!Next
<1>4. CASE SkipOverrun /\ wsnap > next_id + Slots
  <2>1. /\ wsnap - Slots \in 0 .. MaxPackets /\ wsnap - Slots > next_id
    BY <1>4 DEF IInv, TypeOK
  <2>2. Ledger!Skip(wsnap - Slots)
    BY <1>1, <1>2, <1>4, <2>1 DEF SkipOverrun, Ledger!Skip, Ledger!Walk
  <2> QED
    BY <2>1, <2>2 DEF Ledger!Next
<1>5. CASE SkipOverrun /\ ~(wsnap > next_id + Slots)
  <2>1. /\ UNCHANGED <<next_id, base, missed, primed>>
        /\ pc' = "decode"
    BY <1>5 DEF SkipOverrun
  <2> QED
    BY <1>1, <2>1, LedgerStutter DEF Phase
<1> QED
  BY <1>3, <1>4, <1>5 DEF ReadRptr

\* A decode step holds, reports or skips one unit.
LEMMA DecodeRefines ==
    IInv /\ (DecodeEmit \/ DecodeHold \/ DecodeMiss)
         /\ UNCHANGED <<primed, base>>
      => [Ledger!Next]_(Ledger!ledger)
<1> SUFFICES ASSUME IInv, DecodeEmit \/ DecodeHold \/ DecodeMiss,
                    UNCHANGED <<primed, base>>
             PROVE  Ledger!Next
  OBVIOUS
<1> USE MaxPacketsAssumption
<1>1. /\ pc = "decode" /\ pc' = "decode" /\ next_id < wsnap
      /\ next_id' = next_id + 1
  BY DEF DecodeEmit, DecodeHold, DecodeMiss, Looping
<1>2. primed
  BY <1>1 DEF IInv, Pointers
<1>3. /\ next_id \in Ids /\ next_id + 1 \in 0 .. MaxPackets
      /\ next_id + 1 > next_id
  BY <1>1 DEF IInv, TypeOK, Ids
<1>4. next_id .. (next_id + 1) - 1 = {next_id}
  BY <1>3 DEF Ids
<1> DEFINE rec == DecodeSlot(next_id, ring[SlotOf(next_id)])
<1>5. rec \in Record /\ rec.id = next_id
  BY <1>3, DecodedRecord DEF IInv
<1> HIDE DEF rec
<1>6. CASE DecodeEmit
  <2>1. emitted' = Append(emitted, rec) /\ UNCHANGED <<inflight, missed>>
    BY <1>6 DEF DecodeEmit, rec
  <2>2. Emitted' = Emitted \cup {next_id} /\ Inflight' = Inflight
    BY <1>5, <2>1, EmitAppends DEF IInv, Inflight
  <2>3. Ledger!ReportAtOnce(next_id + 1)
    BY <1>1, <1>2, <1>3, <1>4, <2>1, <2>2 DEF Ledger!ReportAtOnce, Ledger!Walk
  <2> QED
    BY <1>3, <2>3 DEF Ledger!Next
<1>7. CASE DecodeHold
  <2>1. inflight' = inflight \cup {rec} /\ UNCHANGED <<emitted, missed>>
    BY <1>7 DEF DecodeHold, rec
  <2>2. Inflight' = Inflight \cup {next_id} /\ Emitted' = Emitted
    BY <1>5, <2>1 DEF Inflight, Emitted
  <2>3. Ledger!Hold(next_id + 1)
    BY <1>1, <1>2, <1>3, <1>4, <2>1, <2>2 DEF Ledger!Hold, Ledger!Walk
  <2> QED
    BY <1>3, <2>3 DEF Ledger!Next
<1>8. CASE DecodeMiss
  <2>1. missed' = missed \cup {next_id} /\ UNCHANGED <<inflight, emitted>>
    BY <1>8 DEF DecodeMiss
  <2>2. Inflight' = Inflight /\ Emitted' = Emitted
    BY <2>1 DEF Inflight, Emitted
  <2>3. Ledger!Skip(next_id + 1)
    BY <1>1, <1>2, <1>3, <1>4, <2>1, <2>2 DEF Ledger!Skip, Ledger!Walk
  <2> QED
    BY <1>3, <2>3 DEF Ledger!Next
<1> QED
  BY <1>6, <1>7, <1>8

\* Draining reports held units.
LEMMA DrainRefines ==
    IInv /\ DrainOne /\ UNCHANGED <<next_id, primed, base, missed>>
      => [Ledger!Next]_(Ledger!ledger)
<1> SUFFICES ASSUME IInv, DrainOne, UNCHANGED <<next_id, primed, base, missed>>
             PROVE  Ledger!Next
  OBVIOUS
<1>1. PICK r \in inflight : /\ emitted' = Append(emitted, r)
                            /\ inflight' = inflight \ {r}
  BY DEF DrainOne
<1>2. pc = "drain" /\ pc' = pc /\ primed
  BY DEF DrainOne, IInv, Pointers
<1>3. r \in Record /\ r.id \in Inflight
  BY DEF IInv, TypeOK, Inflight
<1>4. Emitted' = Emitted \cup {r.id}
  BY <1>1, <1>3, EmitAppends DEF IInv
<1>5. Inflight' = Inflight \ {r.id}
  BY <1>1 DEF IInv, Books, Inflight
<1>6. Ledger!Report({r.id})
  BY <1>2, <1>3, <1>4, <1>5 DEF Ledger!Report
<1>7. {r.id} \in SUBSET Inflight
  BY <1>3
<1> QED
  BY <1>6, <1>7 DEF Ledger!Next

\* Eviction and Stop close the ledger.
LEMMA AbandonRefines == IInv /\ (Erase \/ LeaveRun) => Ledger!Next
<1> SUFFICES ASSUME IInv, Erase \/ LeaveRun PROVE Ledger!Next
  OBVIOUS
<1>1. /\ pc \in {"sweep", "idle"} /\ pc' \in {"gone", "stopped"}
      /\ inflight' = {}
      /\ UNCHANGED <<next_id, primed, base, emitted, missed>>
  BY DEF Erase, LeaveRun, history
<1>2. Inflight' = {} /\ Emitted' = Emitted
  BY <1>1 DEF Inflight, Emitted
<1>3. Ledger!Close
  BY <1>1, <1>2 DEF Ledger!Close
<1> QED
  BY <1>3 DEF Ledger!Next

\* Every step of the specification is a step of the ledger or a stutter.
LEMMA StepLedger == IInv /\ [Next]_vars => [Ledger!Next]_(Ledger!ledger)
<1> SUFFICES ASSUME IInv, [Next]_vars PROVE [Ledger!Next]_(Ledger!ledger)
  OBVIOUS
<1>1. CASE Traced \/ Stop \/ UNCHANGED vars
  BY <1>1, QuietRefines
<1>2. CASE Poller
  <2>1. CASE LeaveRun \/ Erase
    BY <2>1, AbandonRefines
  <2>2. CASE StartPass \/ ReadWptr \/ PtrReadFails
    BY <2>2, QuietRefines DEF Bookless
  <2>3. CASE ReadRptr
    BY <2>3, ReadRptrRefines
  <2>4. CASE Decode
    BY <2>4, DecodeRefines, QuietRefines DEF Decode, Bookless
  <2>5. CASE Drain
    BY <2>5, DrainRefines, QuietRefines DEF Drain, Bookless
  <2> QED
    BY <1>2, <2>1, <2>2, <2>3, <2>4, <2>5 DEF Poller
<1> QED
  BY <1>1, <1>2 DEF Next

\* The AQL poller implements the ledger, for every ring size and every
\* interleaving: it walks forwards only, and a decoded packet is reported
\* unless the queue ends.
THEOREM RefinesLedger == Spec => ImplementsLedger
BY InitLedger, StepLedger, Invariance, PTL
   DEF Spec, ImplementsLedger, Ledger!Spec

-----------------------------------------------------------------------------
(* What the records hold.                                                  *)

\* No record in flight has been passed by last_rptr, from the end of one drain
\* loop until the next decode loop.
Drained ==
    pc \in {"idle", "wptr", "rptr"} /\ primed => \A r \in inflight : r.id >= last_rptr

\* PollQueue's drain loop ends only when the in-flight map holds nothing below the
\* sampled rptr, and a poll that fails leaves both as they are.
THEOREM NothingOverdueHolds == Spec => []NothingOverdue
<1>1. Init => Drained
  BY DEF Init, Drained
<1>2. IInv /\ Drained /\ [Next]_vars => Drained'
  <2> SUFFICES ASSUME IInv, Drained, [Next]_vars PROVE Drained'
    OBVIOUS
  <2>1. CASE Traced \/ Stop \/ UNCHANGED vars
    <3>1. UNCHANGED <<pc, primed, inflight, last_rptr>>
      BY <2>1 DEF Traced, Stop, vars, qstate
    <3> QED
      BY <3>1 DEF Drained
  <2>2. CASE LeaveRun \/ Erase
    BY <2>2 DEF LeaveRun, Erase, Drained
  <2>3. CASE StartPass \/ ReadWptr \/ PtrReadFails
    <3>1. pc \in {"idle", "wptr", "rptr"} /\ UNCHANGED <<primed, inflight, last_rptr>>
      BY <2>3 DEF StartPass, ReadWptr, PtrReadFails, qstate
    <3> QED
      BY <3>1 DEF Drained
  <2>4. CASE ReadRptr
    <3>1. CASE Prime
      BY <2>4, <3>1 DEF ReadRptr, Prime, IInv, Books, Drained
    <3>2. CASE SkipOverrun
      BY <3>2 DEF SkipOverrun, Drained
    <3> QED
      BY <2>4, <3>1, <3>2 DEF ReadRptr
  <2>5. CASE Decode
    BY <2>5 DEF Decode, DecodeEmit, DecodeHold, DecodeMiss, DecodeStall, DecodeEnd,
                Looping, Drained
  <2>6. CASE Drain
    BY <2>6 DEF Drain, DrainOne, DrainEnd, Drained
  <2> QED
    BY <2>1, <2>2, <2>3, <2>4, <2>5, <2>6 DEF Next, Poller
<1>3. Drained => NothingOverdue
  BY DEF Drained, NothingOverdue
<1> QED
  BY <1>1, <1>2, <1>3, Invariance, PTL DEF Spec

\* Division by the ring size.
LEMMA SlotDivision ==
    ASSUME NEW id \in Nat
    PROVE  \E q \in Int : id = Slots * q + SlotOf(id)
<1>1. id = Slots * (id \div Slots) + (id % Slots) /\ id \div Slots \in Int
  BY SlotsAssumption, Z3
<1> QED
  BY <1>1 DEF SlotOf

\* Two packets of one slot are a whole number of laps apart.
LEMMA SameSlotLap ==
    ASSUME NEW i \in Nat, NEW j \in Nat, i < j, SlotOf(i) = SlotOf(j)
    PROVE  i + Slots <= j
<1>1. PICK p \in Int : i = Slots * p + SlotOf(i)
  BY SlotDivision
<1>2. PICK q \in Int : j = Slots * q + SlotOf(j)
  BY SlotDivision
<1>3. SlotOf(i) \in Int /\ Slots \in Int
  BY SlotInRing, SlotsAssumption
<1>4. Slots * p < Slots * q
  BY <1>1, <1>2, <1>3
<1>5. p + 1 <= q
  <2>1. p < q
    BY <1>4, SlotsAssumption, Z3
  <2> QED
    BY <2>1
<1>6. Slots * p + Slots <= Slots * q
  <2>1. Slots * (p + 1) <= Slots * q
    BY <1>5, SlotsAssumption, Z3
  <2>2. Slots * (p + 1) = Slots * p + Slots
    BY SlotsAssumption, Z3
  <2> QED
    BY <2>1, <2>2
<1> QED
  BY <1>1, <1>2, <1>3, <1>6

\* One lap earlier is the same slot.
LEMMA LapBefore ==
    ASSUME NEW id \in Nat, id >= Slots
    PROVE  id - Slots \in Nat /\ SlotOf(id - Slots) = SlotOf(id)
<1>1. id - Slots \in Nat /\ Slots \in Nat /\ Slots > 0
  BY SlotsAssumption
<1>2. PICK p \in Int : id = Slots * p + SlotOf(id)
  BY SlotDivision
<1>3. PICK q \in Int : id - Slots = Slots * q + SlotOf(id - Slots)
  BY <1>1, SlotDivision
<1>4. SlotOf(id) \in 0 .. Slots - 1 /\ SlotOf(id - Slots) \in 0 .. Slots - 1
  BY <1>1, SlotInRing
<1> DEFINE d == p - q - 1
           a == SlotOf(id)
           b == SlotOf(id - Slots)
           m == Slots * p
           n == Slots * q
<1>5. Slots * d = b - a
  <2>1. Slots * d = m - n - Slots
    BY <1>1, Z3
  <2>2. m \in Int /\ n \in Int /\ a \in Int /\ b \in Int
    BY <1>1, <1>4
  <2>3. id = m + a /\ id - Slots = n + b
    BY <1>2, <1>3
  <2> HIDE DEF a, b, m, n
  <2>4. m - n - Slots = b - a
    BY <1>1, <2>2, <2>3
  <2> QED
    BY <2>1, <2>4
<1>6. d \in Int
  OBVIOUS
<1> HIDE DEF d
<1>7. d = 0
  <2>1. Slots * d < Slots /\ Slots * d > -Slots
    BY <1>1, <1>4, <1>5
  <2>2. CASE d >= 1
    <3>1. Slots * d >= Slots
      BY <1>1, <1>6, <2>2, Z3
    <3> QED
      BY <1>1, <1>6, <2>1, <3>1
  <2>3. CASE d <= -1
    <3>1. Slots * d <= -Slots
      BY <1>1, <1>6, <2>3, Z3
    <3> QED
      BY <1>1, <1>6, <2>1, <3>1
  <2> QED
    BY <1>6, <2>2, <2>3
<1> QED
  BY <1>1, <1>4, <1>5, <1>7

-----------------------------------------------------------------------------
\* A packet whose body has been written.
Used == {"written", "published", "reset"}

\* The ring as producers and GPU keep it: ids are reserved in order and consumed
\* only when published, a slot is written again only when all its earlier packets
\* are consumed and reset, so that it shows its latest packet, and shows a type
\* exactly as long as that packet is published.
ReservedInOrder == \A i \in Ids : stage[i] # "free" => i < wptr

ConsumedPublished ==
    /\ \A i \in Ids : i < rptr => stage[i] \in {"published", "reset"}
    /\ ~LateReset => \A i \in Ids : i < rptr => stage[i] = "reset"

LapsReset ==
    \A i, j \in Ids : i < j /\ SlotOf(i) = SlotOf(j) /\ stage[j] \in Used =>
                         stage[i] = "reset"

ShowsLatest == \A i \in Ids : stage[i] \in Used => ring[SlotOf(i)].owner >= i

ShowsType ==
    \A s \in 0 .. Slots - 1 :
        LET o == ring[s].owner IN
        /\ o = NoPacket => ring[s].type = "Invalid"
        /\ o # NoPacket =>
              /\ SlotOf(o) = s /\ stage[o] \in Used
              /\ ring[s].type # "Invalid" => stage[o] = "published"
              /\ stage[o] = "published" => ring[s].type = kind[o].type

RingInv ==
    /\ ReservedInOrder
    /\ ConsumedPublished
    /\ LapsReset
    /\ ShowsLatest
    /\ ShowsType
    /\ OverReserve \/ wptr <= rptr + Slots

LEMMA RingInvInit == Init => RingInv
BY SlotsAssumption, MaxPacketsAssumption
   DEF Init, RingInv, ReservedInOrder, ConsumedPublished, LapsReset, ShowsLatest,
       ShowsType, Used, NoPacket, Ids

\* A producer, or the GPU, writes the slot of a packet that has not been reset.
LEMMA SlotWrite ==
    ASSUME TypeOK, RingInv, NEW id \in Ids, NEW st \in Used, NEW ty, NEW b,
           stage[id] \notin {"free", "reset"},
           ring' = [ring EXCEPT ![SlotOf(id)] =
                       [type |-> ty, barrier |-> b, owner |-> id]],
           stage' = [stage EXCEPT ![id] = st],
           UNCHANGED <<wptr, rptr, kind>>,
           ty # "Invalid" => st = "published",
           st = "published" => ty = kind[id].type,
           \A i \in Ids : i < id /\ SlotOf(i) = SlotOf(id) => stage[i] = "reset",
           id < rptr => st \in {"published", "reset"},
           id < rptr /\ ~LateReset => st = "reset"
    PROVE  RingInv'
<1>1. /\ \A i \in Ids : i \in Nat /\ SlotOf(i) \in 0 .. Slots - 1
      /\ ring \in [0 .. Slots - 1 -> Slot] /\ stage \in [Ids -> Stages]
  <2>1. \A i \in Ids : i \in Nat
    BY MaxPacketsAssumption DEF Ids
  <2> QED
    BY <2>1, SlotInRing DEF TypeOK
<1>2. /\ stage'[id] = st
      /\ \A i \in Ids : i # id => stage'[i] = stage[i]
      /\ ring'[SlotOf(id)] = [type |-> ty, barrier |-> b, owner |-> id]
      /\ \A s \in 0 .. Slots - 1 : s # SlotOf(id) => ring'[s] = ring[s]
  BY <1>1
<1>3. ReservedInOrder'
  BY <1>2 DEF RingInv, ReservedInOrder
<1>4. ConsumedPublished'
  BY <1>2 DEF RingInv, ConsumedPublished
<1>5. LapsReset'
  <2> SUFFICES ASSUME NEW i \in Ids, NEW j \in Ids,
                      i < j, SlotOf(i) = SlotOf(j), stage'[j] \in Used
               PROVE  stage'[i] = "reset"
    BY DEF LapsReset, SlotOf
  <2>1. CASE j = id
    <3>1. i # id
      BY <1>1, <2>1
    <3> QED
      BY <1>2, <2>1, <3>1
  <2>2. CASE j # id
    <3>1. stage[i] = "reset"
      BY <1>2, <2>2 DEF RingInv, LapsReset
    <3> QED
      BY <1>2, <3>1
  <2> QED
    BY <2>1, <2>2
<1>6. ShowsLatest'
  <2> SUFFICES ASSUME NEW i \in Ids, stage'[i] \in Used
               PROVE  ring'[SlotOf(i)].owner >= i
    BY DEF ShowsLatest, SlotOf
  <2>1. CASE SlotOf(i) = SlotOf(id)
    <3>1. ~(id < i)
      <4>1. SUFFICES ASSUME id < i PROVE FALSE
        OBVIOUS
      <4>2. i # id
        BY <1>1, <4>1
      <4> QED
        BY <1>2, <2>1, <4>1, <4>2 DEF RingInv, LapsReset
    <3> QED
      BY <1>1, <1>2, <2>1, <3>1
  <2>2. CASE SlotOf(i) # SlotOf(id)
    BY <1>1, <1>2, <2>2 DEF RingInv, ShowsLatest
  <2> QED
    BY <2>1, <2>2
<1>7. ShowsType'
  <2> SUFFICES ASSUME NEW s \in 0 .. Slots - 1
               PROVE  /\ ring'[s].owner = NoPacket => ring'[s].type = "Invalid"
                      /\ ring'[s].owner # NoPacket =>
                            /\ SlotOf(ring'[s].owner) = s
                            /\ stage'[ring'[s].owner] \in Used
                            /\ ring'[s].type # "Invalid" =>
                                  stage'[ring'[s].owner] = "published"
                            /\ stage'[ring'[s].owner] = "published" =>
                                  ring'[s].type = kind'[ring'[s].owner].type
    BY DEF ShowsType, SlotOf
  <2>1. CASE s = SlotOf(id)
    <3>1. id # NoPacket
      BY <1>1 DEF NoPacket
    <3>2. ring'[s].owner = id /\ ring'[s].type = ty
      BY <1>2, <2>1
    <3> QED
      BY <1>2, <2>1, <3>1, <3>2
  <2>2. CASE s # SlotOf(id)
    <3>1. ring'[s] = ring[s] /\ ring[s].owner \in Ids \cup {NoPacket}
      BY <1>1, <1>2, <2>2 DEF Slot
    <3>2. CASE ring[s].owner = NoPacket
      BY <3>1, <3>2 DEF RingInv, ShowsType
    <3>3. CASE ring[s].owner # NoPacket
      <4>1. ring[s].owner \in Ids /\ ring[s].owner # id
        BY <2>2, <3>1, <3>3 DEF RingInv, ShowsType
      <4> QED
        BY <1>2, <3>1, <3>3, <4>1 DEF RingInv, ShowsType
    <3> QED
      BY <3>2, <3>3
  <2> QED
    BY <2>1, <2>2
<1> QED
  BY <1>3, <1>4, <1>5, <1>6, <1>7 DEF RingInv

\* Producers and GPU keep the ring in order.
LEMMA RingInvStep == IInv /\ RingInv /\ Traced => RingInv'
<1> SUFFICES ASSUME IInv, RingInv, Traced PROVE RingInv'
  OBVIOUS
<1>1. TypeOK /\ rptr <= wptr
  BY DEF IInv, Pointers
<1>2. \A i \in Ids : i \in Nat
  BY MaxPacketsAssumption DEF Ids
<1>3. ASSUME NEW k \in Kinds, Reserve(k) PROVE RingInv'
  <2>1. /\ wptr \in Ids /\ wptr' = wptr + 1 /\ wptr \in Nat
        /\ OverReserve \/ wptr < rptr + Slots
        /\ stage' = [stage EXCEPT ![wptr] = "reserved"]
        /\ kind' = [kind EXCEPT ![wptr] = k]
        /\ UNCHANGED <<rptr, ring>>
    BY <1>1, <1>3, MaxPacketsAssumption DEF Reserve, TypeOK, Ids
  <2>2. stage[wptr] = "free"
    BY <1>2, <2>1 DEF RingInv, ReservedInOrder
  <2>3. /\ stage'[wptr] = "reserved"
        /\ \A i \in Ids : i # wptr => stage'[i] = stage[i] /\ kind'[i] = kind[i]
    BY <1>1, <2>1 DEF TypeOK
  <2>4. ReservedInOrder'
    BY <1>2, <2>1, <2>3 DEF RingInv, ReservedInOrder
  <2>5. ConsumedPublished'
    BY <1>1, <1>2, <2>1, <2>2, <2>3 DEF RingInv, ConsumedPublished
  <2>6. LapsReset'
    <3> SUFFICES ASSUME NEW i \in Ids, NEW j \in Ids,
                        i < j, SlotOf(i) = SlotOf(j), stage'[j] \in Used
                 PROVE  stage'[i] = "reset"
      BY DEF LapsReset, SlotOf
    <3>1. j # wptr
      BY <2>3 DEF Used
    <3>2. stage[i] = "reset"
      BY <2>3, <3>1 DEF RingInv, LapsReset
    <3> QED
      BY <2>2, <2>3, <3>2
  <2>7. ShowsLatest'
    <3> SUFFICES ASSUME NEW i \in Ids, stage'[i] \in Used
                 PROVE  ring'[SlotOf(i)].owner >= i
      BY DEF ShowsLatest, SlotOf
    <3>1. i # wptr
      BY <2>3 DEF Used
    <3> QED
      BY <2>1, <2>3, <3>1 DEF RingInv, ShowsLatest
  <2>8. ShowsType'
    <3>1. \A s \in 0 .. Slots - 1 : ring[s].owner # NoPacket =>
             ring[s].owner \in Ids /\ ring[s].owner # wptr
      BY <1>1, <2>2 DEF TypeOK, Slot, RingInv, ShowsType, Used
    <3> QED
      BY <2>1, <2>3, <3>1 DEF RingInv, ShowsType, SlotOf
  <2>9. OverReserve \/ wptr' <= rptr' + Slots
    BY <1>1, <2>1, SlotsAssumption DEF TypeOK
  <2> QED
    BY <2>4, <2>5, <2>6, <2>7, <2>8, <2>9 DEF RingInv
<1>4. ASSUME NEW id \in Ids, WriteBody(id) PROVE RingInv'
  <2>1. /\ stage[id] = "reserved" /\ stage' = [stage EXCEPT ![id] = "written"]
        /\ ring' = [ring EXCEPT ![SlotOf(id)] =
                       [type |-> "Invalid", barrier |-> FALSE, owner |-> id]]
        /\ id >= Slots => stage[id - Slots] = "reset"
        /\ UNCHANGED <<wptr, rptr, kind>>
    BY <1>4 DEF WriteBody
  <2>2. ~(id < rptr)
    BY <2>1 DEF RingInv, ConsumedPublished
  <2>3. ASSUME NEW i \in Ids, i < id, SlotOf(i) = SlotOf(id)
        PROVE  stage[i] = "reset"
    <3>1. i + Slots <= id /\ id >= Slots /\ Slots \in Nat /\ Slots > 0
      BY <1>2, <2>3, SameSlotLap, SlotsAssumption
    <3>2. /\ id - Slots \in Ids /\ SlotOf(id - Slots) = SlotOf(id)
          /\ stage[id - Slots] = "reset"
      BY <1>2, <2>1, <3>1, LapBefore, MaxPacketsAssumption DEF Ids
    <3>3. i = id - Slots \/ i < id - Slots
      BY <1>2, <3>1
    <3> QED
      BY <2>3, <3>2, <3>3 DEF RingInv, LapsReset, Used
  <2>4. "written" \in Used
    BY DEF Used
  <2> QED
    BY <1>1, <2>1, <2>2, <2>3, <2>4, SlotWrite
<1>5. ASSUME NEW id \in Ids, Publish(id) PROVE RingInv'
  <2>1. /\ stage[id] = "written" /\ stage' = [stage EXCEPT ![id] = "published"]
        /\ ring' = [ring EXCEPT ![SlotOf(id)] =
                       [type |-> kind[id].type, barrier |-> kind[id].barrier,
                        owner |-> id]]
        /\ UNCHANGED <<wptr, rptr, kind>>
    BY <1>5 DEF Publish
  <2>2. ~(id < rptr)
    BY <2>1 DEF RingInv, ConsumedPublished
  <2>3. \A i \in Ids : i < id /\ SlotOf(i) = SlotOf(id) => stage[i] = "reset"
    BY <2>1 DEF RingInv, LapsReset, Used
  <2>4. "published" \in Used
    BY DEF Used
  <2> QED
    BY <1>1, <2>1, <2>2, <2>3, <2>4, SlotWrite
<1>6. ASSUME NEW id \in Ids, GpuReset(id) PROVE RingInv'
  <2>1. /\ stage[id] = "published" /\ stage' = [stage EXCEPT ![id] = "reset"]
        /\ ring' = [ring EXCEPT ![SlotOf(id)] =
                       [type |-> "Invalid", barrier |-> FALSE, owner |-> id]]
        /\ UNCHANGED <<wptr, rptr, kind>>
    BY <1>6 DEF GpuReset
  <2>2. \A i \in Ids : i < id /\ SlotOf(i) = SlotOf(id) => stage[i] = "reset"
    BY <2>1 DEF RingInv, LapsReset, Used
  <2>3. "reset" \in Used
    BY DEF Used
  <2> QED
    BY <1>1, <2>1, <2>2, <2>3, SlotWrite
<1>7. CASE GpuAdvance
  <2>1. /\ stage[rptr] = "reset" \/ (LateReset /\ stage[rptr] = "published")
        /\ rptr < wptr /\ rptr' = rptr + 1 /\ UNCHANGED <<wptr, ring, stage, kind>>
    BY <1>7 DEF GpuAdvance
  <2>2. ConsumedPublished'
    <3>1. \A i \in Ids : i < rptr' => i < rptr \/ i = rptr
      BY <1>1, <1>2, <2>1 DEF TypeOK
    <3> QED
      BY <2>1, <3>1 DEF RingInv, ConsumedPublished
  <2>3. OverReserve \/ wptr' <= rptr' + Slots
    BY <1>1, <2>1, SlotsAssumption DEF RingInv, TypeOK
  <2>4. ReservedInOrder' /\ LapsReset' /\ ShowsLatest' /\ ShowsType'
    BY <2>1 DEF RingInv, ReservedInOrder, LapsReset, ShowsLatest, ShowsType, SlotOf
  <2> QED
    BY <2>2, <2>3, <2>4 DEF RingInv
<1>8. CASE ProcessExit
  <2>1. UNCHANGED <<wptr, rptr, ring, stage, kind>>
    BY <1>8 DEF ProcessExit
  <2> QED
    BY <2>1 DEF RingInv, ReservedInOrder, ConsumedPublished, LapsReset, ShowsLatest,
                ShowsType, SlotOf
<1> QED
  BY <1>3, <1>4, <1>5, <1>6, <1>7, <1>8 DEF Traced

LEMMA RingInvariance == Spec => [](IInv /\ RingInv)
<1>1. IInv /\ RingInv /\ [Next]_vars => RingInv'
  <2>1. UNCHANGED traced => (RingInv => RingInv')
    BY DEF traced, RingInv, ReservedInOrder, ConsumedPublished, LapsReset, ShowsLatest,
           ShowsType, SlotOf
  <2>2. Poller \/ Stop \/ UNCHANGED vars => UNCHANGED traced
    BY DEF Poller, Stop, vars
  <2> QED
    BY <2>1, <2>2, RingInvStep DEF Next
<1> QED
  BY <1>1, RingInvInit, Invariance, PTL DEF Spec

\* A packet the GPU has consumed, or that is in the ring, has left its body in its
\* slot, or a packet some laps later has.
LEMMA SlotHolds ==
    ASSUME IInv, RingInv, NEW id \in Ids, stage[id] \in Used
    PROVE  LET o == ring[SlotOf(id)].owner IN
           /\ o \in Ids /\ o # NoPacket /\ SlotOf(o) = SlotOf(id) /\ stage[o] \in Used
           /\ o = id \/ (o >= id + Slots /\ stage[id] = "reset")
<1> DEFINE o == ring[SlotOf(id)].owner
<1>1. id \in Nat /\ SlotOf(id) \in 0 .. Slots - 1
  <2>1. id \in Nat
    BY MaxPacketsAssumption DEF Ids
  <2> QED
    BY <2>1, SlotInRing
<1>2. o \in Ids \cup {NoPacket} /\ o >= id
  BY <1>1 DEF IInv, TypeOK, Slot, RingInv, ShowsLatest
<1>3. o \in Ids /\ o # NoPacket /\ o \in Nat
  BY <1>1, <1>2, MaxPacketsAssumption DEF NoPacket, Ids
<1>4. SlotOf(o) = SlotOf(id) /\ stage[o] \in Used
  BY <1>1, <1>3 DEF RingInv, ShowsType
<1> HIDE DEF o
<1>5. CASE id < o
  <2>1. stage[id] = "reset"
    BY <1>3, <1>4, <1>5 DEF RingInv, LapsReset
  <2>2. id + Slots <= o
    BY <1>1, <1>3, <1>4, <1>5, SameSlotLap
  <2>3. o >= id + Slots
    BY <1>1, <1>3, <2>2, SlotsAssumption
  <2> QED
    BY <1>3, <1>4, <2>1, <2>3 DEF o
<1>6. CASE o = id
  BY <1>3, <1>4, <1>6 DEF o
<1> QED
  BY <1>1, <1>2, <1>3, <1>5, <1>6

\* What FaithfulUnlessLapped says of one record.
Faithful(r) ==
    /\ stage[r.id] \in {"published", "reset"}
    /\ \/ r.owner = r.id /\ TypeKept(r)
       \/ r.owner >= r.seen /\ r.owner >= r.id + Slots

\* The decode loop stays within one ring of the sampled write pointer.
Guarded == pc = "decode" => wsnap <= next_id + Slots

\* A slot that decodes is not the leftover of an earlier lap: that packet is
\* consumed, because the id has been reserved, and so its header is Invalid, and
\* an Invalid header is believed only of an id the GPU has consumed.
LEMMA DecodedFaithful ==
    ASSUME ~OverReserve, ~LateReset, IInv, RingInv, Guarded, Looping,
           Decodable(next_id, ring[SlotOf(next_id)])
    PROVE  Faithful(DecodeSlot(next_id, ring[SlotOf(next_id)]))
<1> DEFINE id == next_id
           slot == ring[SlotOf(id)]
           o == slot.owner
<1>1. /\ id \in Ids /\ id \in Nat /\ id < wsnap /\ wsnap <= wptr /\ rsnap <= rptr
      /\ wsnap <= id + Slots /\ wsnap \in Nat /\ wptr \in Nat /\ rptr \in Nat
      /\ rsnap \in Nat /\ Slots \in Nat /\ Slots > 0
  BY MaxPacketsAssumption, SlotsAssumption
     DEF Looping, IInv, TypeOK, Pointers, Guarded, Ids
<1>2. SlotOf(id) \in 0 .. Slots - 1 /\ slot \in Slot
  BY <1>1, SlotInRing DEF IInv, TypeOK
<1>3. stage[id] \in {"published", "reset"}
  <2>1. CASE slot.type = "Invalid"
    <3>1. id < rsnap
      BY <2>1 DEF Decodable, FastReset
    <3> QED
      BY <1>1, <3>1 DEF RingInv, ConsumedPublished
  <2>2. CASE slot.type # "Invalid"
    <3>1. o \in Ids /\ SlotOf(o) = SlotOf(id) /\ stage[o] = "published"
      BY <1>2, <2>2 DEF RingInv, ShowsType, Slot
    <3>2. o \in Nat
      BY <3>1, MaxPacketsAssumption DEF Ids
    <3>3. ~(o < id)
      <4>1. SUFFICES ASSUME o < id PROVE FALSE
        OBVIOUS
      <4>2. o + Slots <= id
        BY <1>1, <3>1, <3>2, <4>1, SameSlotLap
      <4>3. o < rptr
        <5>1. wptr <= rptr + Slots
          BY DEF RingInv
        <5> HIDE DEF o, id
        <5> QED
          BY <1>1, <3>2, <4>2, <5>1
      <4> QED
        BY <3>1, <4>3 DEF RingInv, ConsumedPublished
    <3>4. CASE o = id
      BY <3>1, <3>4
    <3>5. CASE id < o
      BY <1>1, <3>1, <3>5 DEF RingInv, LapsReset, Used
    <3> HIDE DEF o, id
    <3> QED
      BY <1>1, <3>2, <3>3, <3>4, <3>5
  <2> QED
    BY <2>1, <2>2
<1>4. /\ o \in Ids /\ o # NoPacket /\ stage[o] \in Used
      /\ o = id \/ o >= id + Slots
  BY <1>1, <1>3, SlotHolds DEF Used
<1>5. CASE o >= id + Slots
  <2>1. o \in Nat
    BY <1>4, MaxPacketsAssumption DEF Ids
  <2>2. o >= wsnap
    <3> HIDE DEF o, id
    <3> QED
      BY <1>1, <1>5, <2>1
  <2> QED
    BY <1>3, <1>5, <2>2 DEF Faithful, DecodeSlot
<1>6. CASE o = id
  <2>1. CASE slot.type # "Invalid"
    <3>1. slot.type = kind[id].type
      BY <1>2, <1>4, <1>6, <2>1 DEF RingInv, ShowsType
    <3> QED
      BY <1>3, <1>6, <2>1, <3>1 DEF Faithful, DecodeSlot, TypeKept
  <2>2. CASE slot.type = "Invalid"
    <3>1. kind[id].kobj
      BY <1>6, <2>2 DEF Decodable, FastReset, KernelObjectSet
    <3> QED
      BY <1>3, <1>6, <2>2, <3>1 DEF Faithful, DecodeSlot, TypeKept
  <2> QED
    BY <2>1, <2>2
<1> QED
  BY <1>4, <1>5, <1>6

\* Producers and GPU never take a published packet back, and what was reserved
\* under an id stays.
LEMMA PublishedStays ==
    ASSUME IInv, RingInv, [Next]_vars
    PROVE  /\ \A i \in Ids : stage[i] \in {"published", "reset"} =>
                                stage'[i] \in {"published", "reset"}
           /\ \A i \in Ids : i < wptr => kind'[i] = kind[i]
           /\ rptr' >= rptr /\ wptr' >= wptr /\ (alive' => alive)
<1>1. /\ stage \in [Ids -> Stages] /\ kind \in [Ids -> Kinds]
      /\ wptr \in Int /\ rptr \in Int /\ \A i \in Ids : i \in Int
  BY MaxPacketsAssumption DEF IInv, TypeOK, Ids
<1>2. ASSUME NEW k \in Kinds, Reserve(k)
      PROVE  /\ \A i \in Ids : i # wptr => stage'[i] = stage[i] /\ kind'[i] = kind[i]
             /\ wptr \in Ids /\ stage[wptr] = "free" /\ wptr' = wptr + 1
             /\ UNCHANGED <<rptr, alive>>
  BY <1>1, <1>2, MaxPacketsAssumption
     DEF Reserve, IInv, TypeOK, RingInv, ReservedInOrder, Ids
<1>3. CASE \E k \in Kinds : Reserve(k)
  BY <1>1, <1>2, <1>3
<1>4. CASE \E id \in Ids : WriteBody(id) \/ Publish(id) \/ GpuReset(id)
  BY <1>1, <1>4 DEF WriteBody, Publish, GpuReset
<1>5. CASE GpuAdvance \/ ProcessExit \/ UNCHANGED traced
  BY <1>1, <1>5 DEF GpuAdvance, ProcessExit, traced
<1> QED
  BY <1>3, <1>4, <1>5 DEF Next, Traced, Poller, Stop, vars

\* PollQueue and DecodeSlot: a record is made of a published packet and holds it,
\* with its type, unless the producer wrapped over the slot after the poll had
\* sampled wptr; of producers that wait for room before they reserve and a GPU that
\* resets a header before it advances rptr.
THEOREM FaithfulUnlessLappedHolds ==
    ASSUME ~OverReserve, ~LateReset
    PROVE  Spec => []FaithfulUnlessLapped
<1> DEFINE FInv == Guarded /\ FaithfulUnlessLapped
<1>1. Init => FInv
  BY DEF Init, Guarded, FaithfulUnlessLapped, Records
<1>2. IInv /\ RingInv /\ FInv /\ [Next]_vars => FInv'
  <2> SUFFICES ASSUME IInv, RingInv, FInv, [Next]_vars PROVE FInv'
    OBVIOUS
  <2>1. /\ next_id \in Int /\ wsnap \in Int /\ Slots \in Int /\ Slots > 0
        /\ next_id \in Nat
    BY SlotsAssumption, MaxPacketsAssumption DEF IInv, TypeOK
  <2>2. Guarded'
    <3>1. CASE Traced \/ Stop \/ UNCHANGED vars
      BY <3>1 DEF Traced, Stop, vars, qstate, Guarded
    <3>2. CASE LeaveRun \/ Erase \/ StartPass \/ ReadWptr \/ PtrReadFails \/ Drain
      BY <3>2 DEF LeaveRun, Erase, StartPass, ReadWptr, PtrReadFails, Drain, DrainOne,
                  DrainEnd, Guarded
    <3>3. CASE ReadRptr
      <4>1. CASE Prime
        BY <4>1 DEF Prime, Guarded
      <4>2. CASE SkipOverrun /\ wsnap > next_id + Slots
        BY <2>1, <4>2 DEF SkipOverrun, Guarded
      <4>3. CASE SkipOverrun /\ ~(wsnap > next_id + Slots)
        BY <2>1, <4>3 DEF SkipOverrun, Guarded
      <4> QED
        BY <3>3, <4>1, <4>2, <4>3 DEF ReadRptr
    <3>4. CASE Decode
      <4>1. pc = "decode" /\ wsnap' = wsnap /\ (next_id' = next_id \/ next_id' = next_id + 1)
        BY <3>4 DEF Decode, DecodeEmit, DecodeHold, DecodeMiss, DecodeStall, DecodeEnd,
                    Looping
      <4> QED
        BY <2>1, <4>1 DEF Guarded
    <3> QED
      BY <3>1, <3>2, <3>3, <3>4 DEF Next, Poller
  <2>3. \A r \in Records : r.id \in Ids /\ Faithful(r)
    <3>1. \A r \in Records : r \in Record
      BY DEF Records, IInv, TypeOK
    <3> QED
      BY <3>1 DEF FaithfulUnlessLapped, Faithful, Record
  <2>4. ASSUME NEW r, r.id \in Ids, Faithful(r) PROVE Faithful(r)'
    <3>1. stage[r.id] \in {"published", "reset"} /\ r.id < wptr
      BY <2>4 DEF Faithful, RingInv, ReservedInOrder
    <3>2. stage'[r.id] \in {"published", "reset"} /\ kind'[r.id] = kind[r.id]
      BY <2>4, <3>1, PublishedStays
    <3> QED
      BY <2>4, <3>2 DEF Faithful, TypeKept
  <2> DEFINE rec == DecodeSlot(next_id, ring[SlotOf(next_id)])
  <2>5. \A r \in Records' : r \in Records \/ (r = rec /\ r.id \in Ids /\ Faithful(r))
    <3>1. emitted \in Seq(Record)
      BY DEF IInv, TypeOK
    <3>2. CASE Traced \/ Stop \/ UNCHANGED vars \/ ReadRptr
      <4>1. UNCHANGED <<inflight, emitted>>
        BY <3>2 DEF Traced, Stop, vars, qstate, history, ReadRptr, Prime, SkipOverrun
      <4> QED
        BY <4>1 DEF Records
    <3>3. CASE LeaveRun \/ Erase \/ StartPass \/ ReadWptr \/ PtrReadFails
      <4>1. inflight' \subseteq inflight /\ emitted' = emitted
        BY <3>3 DEF LeaveRun, Erase, StartPass, ReadWptr, PtrReadFails, qstate, history
      <4> QED
        BY <4>1 DEF Records
    <3>4. CASE Drain
      <4>1. CASE DrainEnd
        BY <4>1 DEF DrainEnd, Records
      <4>2. CASE DrainOne
        <5>1. PICK r \in inflight : /\ emitted' = Append(emitted, r)
                                    /\ inflight' = inflight \ {r}
          BY <4>2 DEF DrainOne
        <5>2. r \in Record
          BY DEF IInv, TypeOK
        <5>3. \A i \in DOMAIN emitted' : emitted'[i] = r \/
                  (i \in DOMAIN emitted /\ emitted'[i] = emitted[i])
          BY <5>1, <5>2, EmitAppends DEF IInv
        <5> QED
          BY <5>1, <5>3 DEF Records
      <4> QED
        BY <3>4, <4>1, <4>2 DEF Drain
    <3>5. CASE DecodeMiss \/ DecodeStall \/ DecodeEnd
      BY <3>5 DEF DecodeMiss, DecodeStall, DecodeEnd, Records
    <3>6. CASE DecodeEmit \/ DecodeHold
      <4>1. Looping /\ Decodable(next_id, ring[SlotOf(next_id)]) /\ next_id \in Ids
        BY <2>1, <3>6, MaxPacketsAssumption
           DEF DecodeEmit, DecodeHold, Looping, IInv, TypeOK, Ids
      <4>2. Faithful(rec)
        BY <4>1, DecodedFaithful
      <4>3. rec \in Record /\ rec.id \in Ids
        BY <4>1, DecodedRecord DEF IInv
      <4> HIDE DEF rec
      <4>4. CASE DecodeEmit
        <5>1. emitted' = Append(emitted, rec) /\ inflight' = inflight
          BY <4>4 DEF DecodeEmit, rec
        <5>2. \A i \in DOMAIN emitted' : emitted'[i] = rec \/
                  (i \in DOMAIN emitted /\ emitted'[i] = emitted[i])
          BY <4>3, <5>1, EmitAppends DEF IInv
        <5> QED
          BY <4>2, <4>3, <5>1, <5>2 DEF Records
      <4>5. CASE DecodeHold
        <5>1. inflight' = inflight \cup {rec} /\ emitted' = emitted
          BY <4>5 DEF DecodeHold, rec
        <5> QED
          BY <4>2, <4>3, <5>1 DEF Records
      <4> QED
        BY <3>6, <4>4, <4>5
    <3> QED
      BY <3>2, <3>3, <3>4, <3>5, <3>6 DEF Next, Poller, Decode
  <2>6. \A r \in Records' : Faithful(r)'
    BY <2>3, <2>4, <2>5
  <2>7. FaithfulUnlessLapped'
    BY <2>6 DEF FaithfulUnlessLapped, Faithful
  <2> QED
    BY <2>2, <2>7
<1>3. FInv => FaithfulUnlessLapped
  OBVIOUS
<1> HIDE DEF FInv
<1> QED
  BY <1>1, <1>2, <1>3, RingInvariance, PTL DEF Spec

\* The overrun guard and the decode loop give up only packets the GPU has consumed,
\* and while memory can be read a dispatch only when its slot has been reserved
\* again: the fast-reset path of DecodeSlot recovers every other.
THEOREM OnlyLostDroppedHolds ==
    ASSUME ~OverReserve, ~ReadFaults
    PROVE  Spec => []OnlyLostDropped
<1>1. Init => OnlyLostDropped
  BY DEF Init, OnlyLostDropped
<1>2. IInv /\ RingInv /\ OnlyLostDropped /\ [Next]_vars => OnlyLostDropped'
  <2> SUFFICES ASSUME IInv, RingInv, OnlyLostDropped, [Next]_vars,
                      NEW id \in missed'
               PROVE  /\ id < rptr'
                      /\ alive' /\ kind'[id].kobj => id + Slots < wptr'
    BY DEF OnlyLostDropped
  <2>1. /\ next_id \in Nat /\ wsnap \in Nat /\ Slots \in Nat /\ Slots > 0
        /\ wptr \in Nat /\ rptr \in Nat /\ rsnap \in Nat
        /\ wsnap <= wptr /\ rsnap <= rptr /\ rptr <= wptr /\ wptr <= rptr + Slots
        /\ wptr' \in Int /\ rptr' \in Int /\ wptr' >= wptr /\ rptr' >= rptr
    <3>1. TypeOK'
      BY StepIInv DEF IInv
    <3>2. wptr' \in Int /\ rptr' \in Int
      BY <3>1, MaxPacketsAssumption DEF TypeOK
    <3> QED
      BY <3>2, PublishedStays, SlotsAssumption, MaxPacketsAssumption
         DEF IInv, TypeOK, Pointers, RingInv
  <2>2. ASSUME id \in Ids, id < rptr, alive /\ kind[id].kobj => id + Slots < wptr
        PROVE  /\ id < rptr'
               /\ alive' /\ kind'[id].kobj => id + Slots < wptr'
    <3>1. id \in Int /\ id < wptr
      BY <2>1, <2>2, MaxPacketsAssumption DEF Ids
    <3>2. kind'[id] = kind[id] /\ (alive' => alive)
      BY <2>2, <3>1, PublishedStays
    <3> QED
      BY <2>1, <2>2, <3>1, <3>2
  <2>3. CASE id \in missed
    BY <2>2, <2>3 DEF OnlyLostDropped, IInv, TypeOK
  <2>4. CASE id \notin missed /\ ReadRptr
    <3>1. wsnap > next_id + Slots /\ id \in next_id .. wsnap - Slots - 1
      BY <2>4 DEF ReadRptr, Prime, SkipOverrun
    <3>2. id \in Ids /\ id < rptr /\ id + Slots < wptr
      BY <2>1, <3>1, MaxPacketsAssumption DEF Ids, IInv, TypeOK
    <3> QED
      BY <2>2, <3>2
  <2>5. CASE id \notin missed /\ DecodeMiss
    <3>1. id = next_id /\ NotDecoded /\ id < rsnap /\ Looping
      BY <2>5 DEF DecodeMiss
    <3>2. id \in Ids /\ id < rptr
      BY <2>1, <3>1, MaxPacketsAssumption DEF Looping, Ids, IInv, TypeOK
    <3>3. stage[id] \in Used
      BY <3>2 DEF RingInv, ConsumedPublished, Used
    <3>4. ASSUME alive, kind[id].kobj PROVE id + Slots < wptr
      <4> DEFINE o == ring[SlotOf(id)].owner
      <4>1. /\ o \in Ids /\ o # NoPacket /\ stage[o] \in Used
            /\ o = id \/ o >= id + Slots
        BY <3>2, <3>3, SlotHolds
      <4>2. ~Decodable(id, ring[SlotOf(id)])
        BY <3>1, <3>4 DEF NotDecoded
      <4>3. o # id
        BY <3>1, <3>4, <4>1, <4>2 DEF Decodable, FastReset, KernelObjectSet
      <4>4. o < wptr /\ o \in Int /\ id \in Int
        BY <3>2, <4>1, MaxPacketsAssumption DEF RingInv, ReservedInOrder, Used, Ids
      <4> HIDE DEF o
      <4> QED
        BY <2>1, <4>1, <4>3, <4>4
    <3> QED
      BY <2>2, <3>2, <3>4
  <2>6. CASE ~ReadRptr /\ ~DecodeMiss
    <3>1. missed' = missed
      BY <2>6 DEF Next, Traced, Stop, vars, history, Poller, LeaveRun, StartPass,
         ReadWptr, PtrReadFails, Decode, DecodeEmit, DecodeHold, DecodeStall, DecodeEnd,
         Drain, Erase
    <3> QED
      BY <2>3, <3>1
  <2> QED
    BY <2>3, <2>4, <2>5, <2>6
<1> QED
  BY <1>1, <1>2, RingInvariance, PTL DEF Spec
=============================================================================
