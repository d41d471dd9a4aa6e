------------------------------- MODULE AqlSnoop -------------------------------
(***************************************************************************)
(* The AQL ring snooper of src/parser.cpp: RingParser polls, from outside, *)
(* the ring a traced process shares with its GPU, without any              *)
(* synchronisation with either of them.                                    *)
(*                                                                         *)
(* Actors, all interleaved:                                                *)
(*   - the threads of the traced process: reserve a packet id (wptr), wait *)
(*     for room, write the packet body, publish its header;                *)
(*   - the GPU's packet processor: consumes packets in order, sets the     *)
(*     header of a consumed packet back to Invalid and advances rptr;      *)
(*   - the poller thread (RingParser::Run, PollQueue, DecodeSlot): every   *)
(*     read of the process's memory is a step of its own;                  *)
(*   - the main thread, which may stop the parser.                         *)
(*                                                                         *)
(* A packet is identified by its dispatch id.  The contents of a slot are  *)
(* abstracted to the id of the packet whose body is there ("owner") and to *)
(* its header.  One 64-byte slot read is one step: the slot is one aligned *)
(* cache line, and every mixture of two packets in it is a case of a lap   *)
(* that the properties already allow for.                                  *)
(***************************************************************************)
EXTENDS Integers, FiniteSets, Sequences

CONSTANTS
    Slots,           \* QueueInfo::num_slots(): packets the ring holds
    MaxPackets,      \* bound: packets the traced process submits in all
    EvictThreshold,  \* 50 in PollQueue: pointer-read failures in a row
    Kinds,           \* the kinds of packet submitted
    OverReserve,     \* producers may reserve ids of a full ring and wait
    LateReset,       \* the GPU may advance rptr before it resets the header
    ReadFaults       \* reads of a live process's memory may fail

Ids == 0 .. MaxPackets - 1
NoPacket == -1      \* no packet body was ever written to the slot

\* aql::PacketType, as far as the parser tells the types apart.
Types == {"KernelDispatch", "Other"}
HeaderTypes == Types \cup {"Invalid"}

\* A packet as submitted: its type, its barrier bit, and whether the 64-bit
\* word at the offset of kernel_object is non-zero (for a barrier packet the
\* word is dep_signal[3], for an agent dispatch it is arg[2]).
KindSet == [type : Types, barrier : BOOLEAN, kobj : BOOLEAN]

ASSUME SlotsAssumption == Slots \in Nat \ {0}
ASSUME MaxPacketsAssumption == MaxPackets \in Nat
ASSUME EvictAssumption == EvictThreshold \in Nat \ {0}
ASSUME KindsAssumption == Kinds \subseteq KindSet /\ Kinds # {}
ASSUME ModeAssumption == /\ OverReserve \in BOOLEAN
                         /\ LateReset \in BOOLEAN
                         /\ ReadFaults \in BOOLEAN

-----------------------------------------------------------------------------
VARIABLES
    alive,    \* the traced process exists
    wptr,     \* write_dispatch_id: the next id to reserve
    rptr,     \* read_dispatch_id: ids below it are consumed
    ring,     \* the slots of the ring
    stage,    \* how far each id has come
    kind      \* what was submitted under each id

VARIABLES
    running,          \* RingParser::running_
    pc,               \* where the poller thread is
    wsnap,            \* PollQueue's local wptr (0 outside PollQueue)
    rsnap,            \* PollQueue's local rptr (0 outside PollQueue)
    next_id,          \* QueueState::next_id
    last_rptr,        \* QueueState::last_rptr
    primed,           \* QueueState::primed
    dropped,          \* QueueState::dropped
    inflight,         \* QueueState::inflight, as the set of its records
    read_fail_count,  \* QueueState::read_fail_count
    evict             \* QueueState::evict

VARIABLES             \* history, read by the properties only
    base,             \* the next_id that priming chose
    emitted,          \* the records handed to sink_, in order
    missed            \* the ids that were counted as dropped

traced == <<alive, wptr, rptr, ring, stage, kind>>
qstate == <<next_id, last_rptr, primed, dropped, inflight, read_fail_count,
            evict>>
history == <<base, emitted, missed>>
vars == <<traced, running, pc, wsnap, rsnap, qstate, history>>

Slot == [type : HeaderTypes, barrier : BOOLEAN, owner : Ids \cup {NoPacket}]
Stages == {"free", "reserved", "written", "published", "reset"}

\* A PacketRecord: the id it is filed under, the decoded type and barrier
\* bit, the packet its body came from, and (history) the wptr the poll saw.
Record == [id : Ids, type : Types, barrier : BOOLEAN,
           owner : Ids \cup {NoPacket}, seen : 0 .. MaxPackets]

\* "idle": between passes; "wptr", "rptr": about to read that pointer;
\* "decode", "drain": PollQueue's two loops; "sweep": the queue is marked for
\* eviction; "gone": erased from queues_; "stopped": the thread has left Run.
Pcs == {"idle", "wptr", "rptr", "decode", "drain", "sweep", "gone", "stopped"}

Emitted == {emitted[i].id : i \in DOMAIN emitted}
Inflight == {r.id : r \in inflight}
SlotOf(id) == id % Slots

Init ==
    /\ alive = TRUE
    /\ wptr = 0 /\ rptr = 0
    /\ ring = [s \in 0 .. Slots - 1 |->
                 [type |-> "Invalid", barrier |-> FALSE, owner |-> NoPacket]]
    /\ stage = [i \in Ids |-> "free"]
    /\ kind = [i \in Ids |-> CHOOSE k \in Kinds : TRUE]
    /\ running = TRUE
    /\ pc = "idle"
    /\ wsnap = 0 /\ rsnap = 0
    /\ next_id = 0 /\ last_rptr = 0 /\ primed = FALSE /\ dropped = 0
    /\ inflight = {} /\ read_fail_count = 0 /\ evict = FALSE
    /\ base = 0 /\ emitted = <<>> /\ missed = {}

-----------------------------------------------------------------------------
(* The traced process and its GPU (external to the repository).            *)

Reserve(k) ==
    /\ alive
    /\ wptr < MaxPackets
    /\ OverReserve \/ wptr < rptr + Slots
    /\ wptr' = wptr + 1
    /\ stage' = [stage EXCEPT ![wptr] = "reserved"]
    /\ kind' = [kind EXCEPT ![wptr] = k]
    /\ UNCHANGED <<alive, rptr, ring>>

\* The slot is free once the packet one lap before has been consumed and its
\* header reset; the header stays Invalid while the body is written.
WriteBody(id) ==
    /\ alive
    /\ stage[id] = "reserved"
    /\ id < rptr + Slots
    /\ id >= Slots => stage[id - Slots] = "reset"
    /\ ring' = [ring EXCEPT ![SlotOf(id)] =
                   [type |-> "Invalid", barrier |-> FALSE, owner |-> id]]
    /\ stage' = [stage EXCEPT ![id] = "written"]
    /\ UNCHANGED <<alive, wptr, rptr, kind>>

Publish(id) ==
    /\ alive
    /\ stage[id] = "written"
    /\ ring' = [ring EXCEPT ![SlotOf(id)] =
                   [type |-> kind[id].type, barrier |-> kind[id].barrier,
                    owner |-> id]]
    /\ stage' = [stage EXCEPT ![id] = "published"]
    /\ UNCHANGED <<alive, wptr, rptr, kind>>

\* The packet processor sets a packet's header back to Invalid when it takes
\* the packet, or (LateReset) some time after it has advanced rptr.
GpuReset(id) ==
    /\ alive
    /\ id = rptr \/ (LateReset /\ id < rptr)
    /\ stage[id] = "published"
    /\ ring' = [ring EXCEPT ![SlotOf(id)] =
                   [type |-> "Invalid", barrier |-> FALSE, owner |-> id]]
    /\ stage' = [stage EXCEPT ![id] = "reset"]
    /\ UNCHANGED <<alive, wptr, rptr, kind>>

GpuAdvance ==
    /\ alive
    /\ rptr < wptr
    /\ stage[rptr] = "reset" \/ (LateReset /\ stage[rptr] = "published")
    /\ rptr' = rptr + 1
    /\ UNCHANGED <<alive, wptr, ring, stage, kind>>

ProcessExit ==
    /\ alive
    /\ alive' = FALSE
    /\ UNCHANGED <<wptr, rptr, ring, stage, kind>>

Traced ==
    /\ \/ \E k \in Kinds : Reserve(k)
       \/ \E id \in Ids : WriteBody(id) \/ Publish(id) \/ GpuReset(id)
       \/ GpuAdvance
       \/ ProcessExit
    /\ UNCHANGED <<running, pc, wsnap, rsnap, qstate, history>>

-----------------------------------------------------------------------------
(* The poller thread: one pass of RingParser::Run over this queue.         *)

\* running_ is read between passes only; the parser is destroyed with its
\* queues, in-flight records included.
LeaveRun ==
    /\ pc = "idle"
    /\ ~running
    /\ pc' = "stopped"
    /\ inflight' = {}
    /\ UNCHANGED <<wsnap, rsnap, next_id, last_rptr, primed, dropped,
                   read_fail_count, evict, history>>

\* ProcAlive is asked once per pass, before the queue is polled.
StartPass ==
    /\ pc = "idle"
    /\ running
    /\ IF alive THEN pc' = "wptr" /\ UNCHANGED evict
                ELSE pc' = "sweep" /\ evict' = TRUE
    /\ UNCHANGED <<wsnap, rsnap, next_id, last_rptr, primed, dropped,
                   inflight, read_fail_count, history>>

ReadWptr ==
    /\ pc = "wptr"
    /\ alive
    /\ wsnap' = wptr
    /\ pc' = "rptr"
    /\ UNCHANGED <<rsnap, qstate, history>>

\* Mutant: the eviction threshold is off by one.
EvictOneLate ==
    /\ pc \in {"wptr", "rptr"}
    /\ ReadFaults \/ ~alive
    /\ read_fail_count' = read_fail_count + 1
    /\ IF read_fail_count' > EvictThreshold
         THEN pc' = "sweep" /\ evict' = TRUE
         ELSE pc' = "idle" /\ UNCHANGED evict
    /\ wsnap' = 0
    /\ UNCHANGED <<rsnap, next_id, last_rptr, primed, dropped,
                   inflight, history>>

\* Either pointer is unreadable: always for a dead process, transiently for a
\* live one.
PtrReadFails ==
    /\ pc \in {"wptr", "rptr"}
    /\ ReadFaults \/ ~alive
    /\ read_fail_count' = read_fail_count + 1
    /\ IF read_fail_count' >= EvictThreshold
         THEN pc' = "sweep" /\ evict' = TRUE
         ELSE pc' = "idle" /\ UNCHANGED evict
    /\ wsnap' = 0
    /\ UNCHANGED <<rsnap, next_id, last_rptr, primed, dropped,
                   inflight, history>>

\* The first successful poll: only activity from now on is reported.
Prime ==
    /\ ~primed
    /\ next_id' = wsnap
    /\ base' = wsnap
    /\ last_rptr' = rptr
    /\ primed' = TRUE
    /\ pc' = "idle"
    /\ wsnap' = 0 /\ rsnap' = 0
    /\ UNCHANGED <<dropped, emitted, missed>>

\* Mutant: no guard against slots that were wrapped over.
NoOverrunGuard ==
    /\ primed
    /\ pc' = "decode"
    /\ rsnap' = rptr
    /\ UNCHANGED <<wsnap, next_id, last_rptr, primed, dropped, base, emitted,
                   missed>>

\* The producer is more than a ring ahead: skip what it has wrapped over.
SkipOverrun ==
    /\ primed
    /\ IF wsnap > next_id + Slots
         THEN /\ dropped' = dropped + ((wsnap - next_id) - Slots)
              /\ next_id' = wsnap - Slots
              /\ missed' = missed \cup (next_id .. wsnap - Slots - 1)
         ELSE UNCHANGED <<dropped, next_id, missed>>
    /\ pc' = "decode"
    /\ rsnap' = rptr
    /\ UNCHANGED <<wsnap, last_rptr, primed, base, emitted>>

ReadRptr ==
    /\ pc = "rptr"
    /\ alive
    /\ read_fail_count' = 0
    /\ Prime \/ SkipOverrun
    /\ UNCHANGED <<inflight, evict>>

-----------------------------------------------------------------------------
(* PollQueue's decode loop, one slot per step.                             *)

KernelObjectSet(slot) == slot.owner # NoPacket /\ kind[slot.owner].kobj

\* Mutant: the fast-reset path forgotten.
NoFastReset(id, slot) == FALSE

\* DecodeSlot succeeds on a published header, and on an Invalid one when the
\* id is already consumed and the body looks like a dispatch.
FastReset(id, slot) ==
    slot.type = "Invalid" /\ id < rsnap /\ KernelObjectSet(slot)

Decodable(id, slot) == slot.type # "Invalid" \/ FastReset(id, slot)

DecodeSlot(id, slot) ==
    [id |-> id, owner |-> slot.owner, seen |-> wsnap,
     type |-> IF slot.type = "Invalid" THEN "KernelDispatch" ELSE slot.type,
     barrier |-> slot.type # "Invalid" /\ slot.barrier]

Looping == pc = "decode" /\ next_id < wsnap

\* Mutant: reported as completed as soon as it is decoded.
EmitUnconsumed ==
    LET slot == ring[SlotOf(next_id)] IN
    /\ Looping /\ alive
    /\ Decodable(next_id, slot)
    /\ emitted' = Append(emitted, DecodeSlot(next_id, slot))
    /\ next_id' = next_id + 1
    /\ UNCHANGED <<pc, dropped, inflight, missed>>

\* Already consumed: reported at once, as completed.
DecodeEmit ==
    LET slot == ring[SlotOf(next_id)] IN
    /\ Looping /\ alive
    /\ Decodable(next_id, slot)
    /\ next_id < rsnap
    /\ emitted' = Append(emitted, DecodeSlot(next_id, slot))
    /\ next_id' = next_id + 1
    /\ UNCHANGED <<pc, dropped, inflight, missed>>

DecodeHold ==
    LET slot == ring[SlotOf(next_id)] IN
    /\ Looping /\ alive
    /\ Decodable(next_id, slot)
    /\ next_id >= rsnap
    /\ inflight' = inflight \cup {DecodeSlot(next_id, slot)}
    /\ next_id' = next_id + 1
    /\ UNCHANGED <<pc, dropped, emitted, missed>>

\* DecodeSlot fails: the slot cannot be read, or shows no packet yet.
NotDecoded ==
    \/ ReadFaults
    \/ ~alive
    \/ ~Decodable(next_id, ring[SlotOf(next_id)])

\* Mutants: a missed packet is passed over without being counted; a consumed
\* packet that cannot be decoded is retried.
MissUncounted ==
    /\ Looping
    /\ NotDecoded
    /\ next_id < rsnap
    /\ next_id' = next_id + 1
    /\ UNCHANGED <<pc, dropped, inflight, emitted, missed>>

MissRetried ==
    /\ Looping
    /\ NotDecoded
    /\ next_id < rsnap
    /\ pc' = "drain"
    /\ UNCHANGED <<next_id, dropped, inflight, emitted, missed>>

\* Consumed, but its contents are gone.
DecodeMiss ==
    /\ Looping
    /\ NotDecoded
    /\ next_id < rsnap
    /\ dropped' = dropped + 1
    /\ missed' = missed \cup {next_id}
    /\ next_id' = next_id + 1
    /\ UNCHANGED <<pc, inflight, emitted>>

\* Pending publication: stop here and retry on the next poll.
DecodeStall ==
    /\ Looping
    /\ NotDecoded
    /\ next_id >= rsnap
    /\ pc' = "drain"
    /\ UNCHANGED <<next_id, dropped, inflight, emitted, missed>>

DecodeEnd ==
    /\ pc = "decode"
    /\ next_id >= wsnap
    /\ pc' = "drain"
    /\ UNCHANGED <<next_id, dropped, inflight, emitted, missed>>

Decode ==
    /\ DecodeEmit \/ DecodeHold \/ DecodeMiss \/ DecodeStall \/ DecodeEnd
    /\ UNCHANGED <<wsnap, rsnap, last_rptr, primed, read_fail_count, evict,
                   base>>

-----------------------------------------------------------------------------
(* PollQueue's drain loop, and the end of the pass.                        *)

\* Mutants: the drain loop takes one record per poll; a poll drops what it has
\* not drained.
DrainEndEarly ==
    /\ pc = "drain"
    /\ last_rptr' = rsnap
    /\ pc' = "idle"
    /\ wsnap' = 0 /\ rsnap' = 0
    /\ UNCHANGED <<inflight, emitted>>

DrainEndClears ==
    /\ pc = "drain"
    /\ \A r \in inflight : r.id >= rsnap
    /\ last_rptr' = rsnap
    /\ pc' = "idle"
    /\ wsnap' = 0 /\ rsnap' = 0
    /\ inflight' = {}
    /\ UNCHANGED emitted

DrainOne ==
    /\ pc = "drain"
    /\ \E r \in inflight :
          /\ \A s \in inflight : r.id <= s.id
          /\ r.id < rsnap
          /\ emitted' = Append(emitted, r)
          /\ inflight' = inflight \ {r}
    /\ UNCHANGED <<pc, wsnap, rsnap, last_rptr>>

DrainEnd ==
    /\ pc = "drain"
    /\ \A r \in inflight : r.id >= rsnap
    /\ last_rptr' = rsnap
    /\ pc' = "idle"
    /\ wsnap' = 0 /\ rsnap' = 0
    /\ UNCHANGED <<inflight, emitted>>

Drain ==
    /\ DrainOne \/ DrainEnd
    /\ UNCHANGED <<next_id, primed, dropped, read_fail_count, evict, base,
                   missed>>

\* The end of Run's pass: an evicted QueueState is destroyed.
Erase ==
    /\ pc = "sweep"
    /\ pc' = "gone"
    /\ inflight' = {}
    /\ UNCHANGED <<wsnap, rsnap, next_id, last_rptr, primed, dropped,
                   read_fail_count, evict, history>>

Poller ==
    /\ \/ LeaveRun \/ StartPass \/ ReadWptr \/ PtrReadFails \/ ReadRptr
       \/ Decode \/ Drain \/ Erase
    /\ UNCHANGED <<traced, running>>

\* RingParser::Stop: the caller clears running_ and joins the thread.
Stop ==
    /\ running
    /\ running' = FALSE
    /\ UNCHANGED <<traced, pc, wsnap, rsnap, qstate, history>>

Next == Traced \/ Poller \/ Stop

Spec == Init /\ [][Next]_vars

\* The threads of the process publish what they reserved while it lives and
\* the GPU consumes what is published; the poller thread keeps being
\* scheduled.  Nothing is assumed of reads (they may fail for ever), of new
\* submissions, of process exit or of Stop.
Fairness ==
    /\ \A id \in Ids : WF_vars(Traced /\ (WriteBody(id) \/ Publish(id)))
    /\ \A id \in Ids : WF_vars(Traced /\ GpuReset(id))
    /\ WF_vars(Traced /\ GpuAdvance)
    /\ WF_vars(Poller)

FairSpec == Spec /\ Fairness

-----------------------------------------------------------------------------
(* Properties.                                                             *)

TypeOK ==
    /\ alive \in BOOLEAN
    /\ wptr \in 0 .. MaxPackets
    /\ rptr \in 0 .. MaxPackets
    /\ ring \in [0 .. Slots - 1 -> Slot]
    /\ stage \in [Ids -> Stages]
    /\ kind \in [Ids -> Kinds]
    /\ running \in BOOLEAN
    /\ pc \in Pcs
    /\ wsnap \in 0 .. MaxPackets
    /\ rsnap \in 0 .. MaxPackets
    /\ next_id \in 0 .. MaxPackets
    /\ last_rptr \in 0 .. MaxPackets
    /\ primed \in BOOLEAN
    /\ dropped \in 0 .. MaxPackets
    /\ inflight \subseteq Record
    /\ read_fail_count \in 0 .. EvictThreshold
    /\ evict \in BOOLEAN
    /\ base \in 0 .. MaxPackets
    /\ emitted \in Seq(Record)
    /\ missed \subseteq Ids

\* The queue state still exists: it has neither been erased nor destroyed.
Tracked == primed /\ pc \notin {"gone", "stopped"}

\* Every packet from the priming point up to next_id is accounted for exactly
\* once: it is held in flight, or it was handed to the sink, or it was counted
\* as dropped; the dropped counter agrees.  Whatever the producers, the GPU
\* and the failing reads do, no id is skipped or counted twice.
Accounting ==
    Tracked =>
        /\ Inflight \cup Emitted \cup missed = base .. next_id - 1
        /\ Inflight \cap Emitted = {}
        /\ Inflight \cap missed = {}
        /\ Emitted \cap missed = {}
        /\ Cardinality(Inflight) + Len(emitted) + dropped = next_id - base

\* The sink never sees two records of one dispatch id: not from the fast-reset
\* path and the drain loop, not from two polls.
EmittedOnce ==
    \A i, j \in DOMAIN emitted : emitted[i].id = emitted[j].id => i = j

\* A record is reported as completed only when the GPU has consumed the
\* packet it is filed under, although rptr was sampled earlier and the record
\* was decoded later.
CompletedIsConsumed == \A id \in Emitted : id < rptr

\* Between passes nothing stays in flight that the last sampled rptr had
\* already passed: no completion is deferred by the break out of either loop.
NothingOverdue ==
    pc = "idle" /\ primed => \A r \in inflight : r.id >= last_rptr

\* The queue as an abstract ledger of packet ids.
Ledger == INSTANCE PacketLedger WITH
    Units <- 0 .. MaxPackets,
    phase <- IF pc \in {"gone", "stopped"} THEN "closed"
             ELSE IF primed THEN "open" ELSE "new",
    start <- base,
    next <- next_id,
    held <- Inflight,
    reported <- Emitted,
    skipped <- missed

\* The poller implements the ledger: it only walks forwards, a decoded packet
\* is never turned into a dropped one, and nothing but the end of the queue
\* abandons a packet in flight.
ImplementsLedger == Ledger!Spec

\* Every record ever made, wherever it is now.
Records == inflight \cup {emitted[i] : i \in DOMAIN emitted}

\* The record has the type of its packet.  (A barrier with four dependencies has
\* a word at the offset of kernel_object, and may be taken for a dispatch.)
TypeKept(r) ==
    \/ r.type = kind[r.id].type
    \/ kind[r.id].kobj /\ kind[r.id].type # "KernelDispatch"

\* A record is made of a published packet only ("so we don't decode a
\* half-written packet", parser.cpp:116) and holds the packet it is filed under,
\* with its type, unless the producer wrapped over the slot with a packet it
\* reserved only after the poll sampled wptr: the overrun guard keeps the poller
\* off every slot that was wrapped over before the sample, and Invalid headers
\* keep it off slots that are reserved but not published.
FaithfulUnlessLapped ==
    \A r \in Records :
        /\ stage[r.id] \in {"published", "reset"}
        /\ \/ r.owner = r.id /\ TypeKept(r)
           \/ r.owner >= r.seen /\ r.owner >= r.id + Slots

\* Nothing is given up too early: only packets the GPU has consumed are counted
\* as dropped, by the overrun guard and by the decode loop alike, and while
\* memory can be read a kernel dispatch only when the producer has reserved its
\* slot again, since the fast-reset path of DecodeSlot recovers every consumed
\* dispatch whose body is still there.
OnlyLostDropped ==
    \A id \in missed :
        /\ id < rptr
        /\ alive /\ kind[id].kobj => id + Slots < wptr

\* What the poller is done with: reported, counted as dropped, or abandoned
\* with the whole queue.
Settled(id) == id \in Emitted \cup missed \/ pc \in {"gone", "stopped"}

\* Every packet published after priming is eventually settled, although reads
\* may fail for ever and the process may die at any point.
EventuallySettled ==
    \A id \in Ids :
        (primed /\ base <= id /\ id < wptr) ~> Settled(id)
=============================================================================
