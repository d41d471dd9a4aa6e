------------------------------- MODULE SdmaSnoop ------------------------------
(***************************************************************************)
(* The SDMA half of src/parser.cpp: PollSdmaQueue strides over a ring of   *)
(* variable-length packets.  Nothing in the ring marks where a packet      *)
(* begins; the poller knows it only by adding up the lengths it decoded.   *)
(*                                                                         *)
(* Positions are dwords since the queue was created.  The ring itself is   *)
(* not a variable: a slot shows the last dword written to it, so what a    *)
(* read of position d returns follows from how far the producer has        *)
(* written.  Pointers are published as byte offsets.                       *)
(***************************************************************************)
EXTENDS SdmaPackets, FiniteSets, Sequences

CONSTANTS
    RingDw,          \* QueueInfo::num_dwords()
    MaxDwords,       \* bound: dwords the producer writes in all
    WaitBelow,       \* 4: dwords that always suffice to find the length
    EvictThreshold,  \* 50: pointer-read failures in a row
    Packets,         \* the packets submitted: length, dwords that are needed
                     \* to find it, and whether the opcode is known
    GarbageLens,     \* lengths that dwords which are no header may decode to
    PartialPublish,  \* the producer may publish part of a packet
    ReadFaults       \* reads of a live process's memory may fail

ASSUME SizesAssumption ==
    /\ RingDw \in Nat \ {0} /\ MaxDwords \in Nat
    /\ Window \in Nat /\ WaitBelow \in 1 .. Window
    /\ EvictThreshold \in Nat \ {0}
ASSUME PacketsAssumption ==
    /\ Packets \subseteq [len : 1 .. RingDw, need : 1 .. WaitBelow,
                          known : BOOLEAN]
    /\ \A p \in Packets : p.need <= p.len
ASSUME GarbageAssumption == GarbageLens \subseteq Nat
ASSUME ModesAssumption == PartialPublish \in BOOLEAN /\ ReadFaults \in BOOLEAN

Positions == 0 .. MaxDwords

VARIABLES
    alive,
    sent,             \* the packets written so far, in ring order
    written,          \* dwords written
    wptr,             \* dwords published
    rptr              \* dwords consumed by the engine

VARIABLES
    running, pc,      \* as in AqlSnoop
    wsnap, rsnap,     \* PollSdmaQueue's local wptr and rptr, in dwords
    next_id, last_rptr, primed, dropped,
    sdma_seq,         \* QueueState::sdma_seq
    sdma_inflight,    \* QueueState::sdma_inflight, as the set of its records
    read_fail_count, evict

VARIABLES             \* history, read by the properties only
    base,             \* the next_id that priming chose
    emitted,          \* the records handed to sdma_sink_, in order
    skipped,          \* the dwords counted as dropped
    synced            \* nothing has happened that may lose the boundaries

traced == <<alive, sent, written, wptr, rptr>>
qstate == <<next_id, last_rptr, primed, dropped, sdma_seq, sdma_inflight,
            read_fail_count, evict>>
history == <<base, emitted, skipped, synced>>
vars == <<traced, running, pc, wsnap, rsnap, qstate, history>>

Pcs == {"idle", "wptr", "rptr", "decode", "drain", "sweep", "gone", "stopped"}

\* An SdmaRecord: where it was decoded, its end_dw, its sequence number and
\* (history) whether the header had been overwritten by a later lap.
Record == [at : Positions, end : Positions, seq : Nat, lapped : BOOLEAN]

Boundaries == {sent[i].at : i \in DOMAIN sent} \cup {written}

Init ==
    /\ alive = TRUE /\ sent = <<>> /\ written = 0 /\ wptr = 0 /\ rptr = 0
    /\ running = TRUE /\ pc = "idle" /\ wsnap = 0 /\ rsnap = 0
    /\ next_id = 0 /\ last_rptr = 0 /\ primed = FALSE /\ dropped = 0
    /\ sdma_seq = 0 /\ sdma_inflight = {} /\ read_fail_count = 0
    /\ evict = FALSE
    /\ base = 0 /\ emitted = <<>> /\ skipped = {} /\ synced = TRUE

-----------------------------------------------------------------------------
(* The traced process and the copy engine (external to the repository).    *)

\* The runtime waits for room, then writes the packet.
Submit(p) ==
    /\ alive
    /\ written + p.len <= MaxDwords
    /\ written + p.len <= rptr + RingDw
    /\ sent' = Append(sent, [at |-> written, len |-> p.len, need |-> p.need,
                             known |-> p.known])
    /\ written' = written + p.len
    /\ UNCHANGED <<alive, wptr, rptr>>

Publish ==
    /\ alive
    /\ \E w \in wptr + 1 .. written :
          /\ PartialPublish \/ w \in Boundaries
          /\ wptr' = w
    /\ UNCHANGED <<alive, sent, written, rptr>>

Consume ==
    /\ alive
    /\ \E r \in rptr + 1 .. wptr : rptr' = r
    /\ UNCHANGED <<alive, sent, written, wptr>>

ProcessExit ==
    /\ alive
    /\ alive' = FALSE
    /\ UNCHANGED <<sent, written, wptr, rptr>>

Traced ==
    /\ (\E p \in Packets : Submit(p)) \/ Publish \/ Consume \/ ProcessExit
    /\ UNCHANGED <<running, pc, wsnap, rsnap, qstate, history>>

\* The queue pointers as KFD and ROCr publish them.
ByteOffset(dword) == 4 * dword

-----------------------------------------------------------------------------
(* The poller thread's pass over this queue, as in AqlSnoop.               *)

LeaveRun ==
    /\ pc = "idle"
    /\ ~running
    /\ pc' = "stopped"
    /\ sdma_inflight' = {}
    /\ UNCHANGED <<wsnap, rsnap, next_id, last_rptr, primed, dropped, sdma_seq,
                   read_fail_count, evict, history>>

StartPass ==
    /\ pc = "idle"
    /\ running
    /\ IF alive THEN pc' = "wptr" /\ UNCHANGED evict
                ELSE pc' = "sweep" /\ evict' = TRUE
    /\ UNCHANGED <<wsnap, rsnap, next_id, last_rptr, primed, dropped, sdma_seq,
                   sdma_inflight, read_fail_count, history>>

ReadWptr ==
    /\ pc = "wptr"
    /\ alive
    /\ wsnap' = RingBytesToDwords(ByteOffset(wptr))
    /\ pc' = "rptr"
    /\ UNCHANGED <<rsnap, qstate, history>>

PtrReadFails ==
    /\ pc \in {"wptr", "rptr"}
    /\ ReadFaults \/ ~alive
    /\ read_fail_count' = read_fail_count + 1
    /\ IF read_fail_count' >= EvictThreshold
         THEN pc' = "sweep" /\ evict' = TRUE
         ELSE pc' = "idle" /\ UNCHANGED evict
    /\ wsnap' = 0
    /\ UNCHANGED <<rsnap, next_id, last_rptr, primed, dropped, sdma_seq,
                   sdma_inflight, history>>

Prime ==
    /\ ~primed
    /\ next_id' = wsnap
    /\ base' = wsnap
    /\ synced' = (wsnap \in Boundaries)
    /\ last_rptr' = RingBytesToDwords(ByteOffset(rptr))
    /\ primed' = TRUE
    /\ pc' = "idle"
    /\ wsnap' = 0 /\ rsnap' = 0
    /\ UNCHANGED <<dropped, emitted, skipped>>

\* "Skip ahead a whole ring": to the oldest dword the ring still holds.
SkipOverrun ==
    /\ primed
    /\ IF wsnap > next_id + RingDw
         THEN /\ dropped' = dropped + ((wsnap - next_id) - RingDw)
              /\ next_id' = wsnap - RingDw
              /\ skipped' = skipped \cup (next_id .. wsnap - RingDw - 1)
              /\ synced' = FALSE
         ELSE UNCHANGED <<dropped, next_id, skipped, synced>>
    /\ pc' = "decode"
    /\ rsnap' = RingBytesToDwords(ByteOffset(rptr))
    /\ UNCHANGED <<wsnap, last_rptr, primed, base, emitted>>

ReadRptr ==
    /\ pc = "rptr"
    /\ alive
    /\ read_fail_count' = 0
    /\ Prime \/ SkipOverrun
    /\ UNCHANGED <<sdma_seq, sdma_inflight, evict>>

-----------------------------------------------------------------------------
(* PollSdmaQueue's decode loop, one window per step.                       *)

\* The position whose dword the slot of d shows now.
ShownAt(d) == d + RingDw * ((written - 1 - d) \div RingDw)
Lapped(d) == ShownAt(d) # d

avail == wsnap - next_id
win == IF avail < Window THEN avail ELSE Window

\* What PacketLenDwords can return for the window at d: the length of the
\* packet whose header is there, 0 if its opcode is unknown or the dword with
\* the length is not visible, and any garbage length if the slot holds a dword
\* that is no header, or only the header has been overwritten.
SeenLens(d) ==
    LET headers == {i \in DOMAIN sent : sent[i].at = ShownAt(d)} IN
    IF headers = {} THEN GarbageLens
    ELSE LET p == sent[CHOOSE i \in headers : TRUE] IN
         IF ~p.known \/ win < p.need THEN {0}
         ELSE IF Lapped(d) /\ p.need > 1 THEN GarbageLens \cup {p.len}
         ELSE {p.len}

Looping == pc = "decode" /\ next_id < wsnap

\* Mutant: the stride leaves out the header.
TakeShortStride(len) ==
    /\ len > 0
    /\ len <= avail
    /\ sdma_inflight' = sdma_inflight \cup
          {[at |-> next_id, end |-> next_id + len, seq |-> sdma_seq,
            lapped |-> Lapped(next_id)]}
    /\ sdma_seq' = sdma_seq + 1
    /\ next_id' = next_id + len - 1
    /\ synced' = (synced /\ ~Lapped(next_id))
    /\ UNCHANGED <<pc, dropped, skipped>>

Take(len) ==
    /\ len > 0
    /\ len <= avail
    /\ sdma_inflight' = sdma_inflight \cup
          {[at |-> next_id, end |-> next_id + len, seq |-> sdma_seq,
            lapped |-> Lapped(next_id)]}
    /\ sdma_seq' = sdma_seq + 1
    /\ next_id' = next_id + len
    /\ synced' = (synced /\ ~Lapped(next_id))
    /\ UNCHANGED <<pc, dropped, skipped>>

\* Mutant: the dwords given up are not counted.
ResyncUncounted(len) ==
    /\ len = 0
    /\ avail >= WaitBelow
    /\ next_id' = wsnap
    /\ synced' = (synced /\ wsnap \in Boundaries)
    /\ pc' = "drain"
    /\ UNCHANGED <<sdma_seq, sdma_inflight, dropped, skipped>>

\* An unknown opcode: give up everything up to the write pointer.
Resync(len) ==
    /\ len = 0
    /\ avail >= WaitBelow
    /\ dropped' = dropped + avail
    /\ skipped' = skipped \cup (next_id .. wsnap - 1)
    /\ next_id' = wsnap
    /\ synced' = (synced /\ wsnap \in Boundaries)
    /\ pc' = "drain"
    /\ UNCHANGED <<sdma_seq, sdma_inflight>>

\* Not all of the packet is published yet: retry on the next poll.
Await(len) ==
    /\ (len = 0 /\ avail < WaitBelow) \/ len > avail
    /\ pc' = "drain"
    /\ UNCHANGED <<next_id, dropped, sdma_seq, sdma_inflight, skipped, synced>>

DecodeWindow ==
    /\ Looping /\ alive
    /\ \E len \in SeenLens(next_id) : Take(len) \/ Resync(len) \/ Await(len)

\* The window cannot be read, or the loop has reached the write pointer.
DecodeEnd ==
    /\ pc = "decode"
    /\ next_id >= wsnap \/ ReadFaults \/ ~alive
    /\ pc' = "drain"
    /\ UNCHANGED <<next_id, dropped, sdma_seq, sdma_inflight, skipped, synced>>

Decode ==
    /\ DecodeWindow \/ DecodeEnd
    /\ UNCHANGED <<wsnap, rsnap, last_rptr, primed, read_fail_count, evict,
                   base, emitted>>

-----------------------------------------------------------------------------
\* Mutants: a packet counts as consumed once the engine has begun it; the
\* packet that ends at the read pointer is not drained.
DrainBegun ==
    /\ pc = "drain"
    /\ \E r \in sdma_inflight :
          /\ \A s \in sdma_inflight : r.end <= s.end
          /\ r.at < rsnap
          /\ emitted' = Append(emitted, r)
          /\ sdma_inflight' = sdma_inflight \ {r}
    /\ UNCHANGED <<pc, wsnap, rsnap, last_rptr>>

DrainEndEarly ==
    /\ pc = "drain"
    /\ last_rptr' = rsnap
    /\ pc' = "idle"
    /\ wsnap' = 0 /\ rsnap' = 0
    /\ UNCHANGED <<sdma_inflight, emitted>>

DrainOne ==
    /\ pc = "drain"
    /\ \E r \in sdma_inflight :
          /\ \A s \in sdma_inflight : r.end <= s.end
          /\ r.end <= rsnap
          /\ emitted' = Append(emitted, r)
          /\ sdma_inflight' = sdma_inflight \ {r}
    /\ UNCHANGED <<pc, wsnap, rsnap, last_rptr>>

DrainEnd ==
    /\ pc = "drain"
    /\ \A r \in sdma_inflight : r.end > rsnap
    /\ last_rptr' = rsnap
    /\ pc' = "idle"
    /\ wsnap' = 0 /\ rsnap' = 0
    /\ UNCHANGED <<sdma_inflight, emitted>>

Drain ==
    /\ DrainOne \/ DrainEnd
    /\ UNCHANGED <<next_id, primed, dropped, sdma_seq, read_fail_count, evict,
                   base, skipped, synced>>

Erase ==
    /\ pc = "sweep"
    /\ pc' = "gone"
    /\ sdma_inflight' = {}
    /\ UNCHANGED <<wsnap, rsnap, next_id, last_rptr, primed, dropped, sdma_seq,
                   read_fail_count, evict, history>>

Poller ==
    /\ \/ LeaveRun \/ StartPass \/ ReadWptr \/ PtrReadFails \/ ReadRptr
       \/ Decode \/ Drain \/ Erase
    /\ UNCHANGED <<traced, running>>

Stop ==
    /\ running
    /\ running' = FALSE
    /\ UNCHANGED <<traced, pc, wsnap, rsnap, qstate, history>>

Next == Traced \/ Poller \/ Stop

Spec == Init /\ [][Next]_vars

\* What is written gets published and consumed while the process lives, the
\* poller thread keeps being scheduled, and the mapped ring of a live process
\* does not stay unreadable for ever (an unreadable window is retried, never
\* dropped).  Nothing is assumed of the pointer reads.
Fairness ==
    /\ WF_vars(Traced /\ Publish)
    /\ WF_vars(Traced /\ Consume)
    /\ WF_vars(Poller)
    /\ SF_vars(Poller /\ DecodeWindow)

FairSpec == Spec /\ Fairness

-----------------------------------------------------------------------------
(* Properties.                                                             *)

Dwords(r) == r.at .. r.end - 1
Records == sdma_inflight \cup {emitted[i] : i \in DOMAIN emitted}
Reported == UNION {Dwords(emitted[i]) : i \in DOMAIN emitted}
Closed == pc \in {"gone", "stopped"}

\* The queue as an abstract ledger of dwords.
Ledger == INSTANCE PacketLedger WITH
    Units <- Positions,
    phase <- IF Closed THEN "closed" ELSE IF primed THEN "open" ELSE "new",
    start <- base,
    next <- next_id,
    held <- UNION {Dwords(r) : r \in sdma_inflight},
    reported <- Reported

\* The dword walk implements the ledger: whatever lengths garbage decodes to,
\* the poller moves forwards only, over each dword once, and every decoded
\* packet is reported unless the queue ends.
ImplementsLedger == Ledger!Spec

\* Copies are reported in ring order and without a gap, the i-th record that
\* reaches the sink being the i-th packet decoded, and only when the engine has
\* read past the last dword, although rptr was sampled before the decode loop.
ReportedInSequence ==
    \A i \in DOMAIN emitted :
        /\ emitted[i].seq = i - 1
        /\ i > 1 => emitted[i - 1].end <= emitted[i].at
        /\ emitted[i].end <= rptr

\* A packet that really was submitted, in full.
Genuine(r) == \E i \in DOMAIN sent : /\ sent[i].at = r.at
                                     /\ r.end = r.at + sent[i].len
                                     /\ sent[i].known

\* Until the producer laps the poller (or the walk had to start or resume in
\* the middle of a packet), the poller stands on a packet boundary and every
\* record is a packet that was submitted, with its own length - although it is
\* decoded while the producer is still publishing it.
InSync ==
    synced /\ primed =>
        /\ next_id \in Boundaries
        /\ \A r \in Records : Genuine(r)

\* The poller waits at an unknown opcode for the dwords that would tell an
\* unknown opcode from a length that is not published yet (avail < 4).
AwaitsUnknown ==
    /\ wptr - next_id < WaitBelow
    /\ \E i \in DOMAIN sent : sent[i].at = next_id /\ ~sent[i].known

\* Every dword published after priming is eventually reported or counted as
\* dropped, unless the queue ends or synchronisation is lost; only an unknown
\* opcode among the last dwords of an idle producer stays where it is.
EventuallySettled ==
    \A d \in Positions :
        (primed /\ base <= d /\ d < wptr)
            ~> (d \in Reported \cup skipped \/ Closed \/ ~synced \/ AwaitsUnknown)
=============================================================================
