----------------------------- MODULE SdmaPackets ------------------------------
(***************************************************************************)
(* The SDMA packet tables of src/sdma.cpp: how long the packet at the      *)
(* front of a window of the ring is, and what a linear copy moves.         *)
(*                                                                         *)
(* A packet is abstracted to the header fields the tables look at:         *)
(*   op, sub   opcode and sub-opcode (header bits 0-7 and 8-15)            *)
(*   bit27     the bit LINEAR and TILED copies use for "broadcast"         *)
(*   nop       the 14-bit count of a NOP header                            *)
(*   dw        DW3 of a WRITE, which carries its count                     *)
(*   bytes     what a linear copy moves; rest: what stands above COUNT in  *)
(*             its DW1                                                     *)
(***************************************************************************)
EXTENDS Integers

CONSTANT Window   \* kSdmaWindow (16): dwords of the ring that are read up front

IsSupportedVersion(v) == v \in {"V4", "V6", "V7"}

VersionFromGfxTarget(target) ==
    LET generation == target \div 10000 IN
    CASE generation = 9  -> "V4"
      [] generation = 10 -> "V5"
      [] generation = 11 -> "V6"
      [] generation = 12 -> "V7"
      [] OTHER           -> "Unknown"

\* A length table: pairs of a sub-opcode and its dwords; a sub-opcode that is not
\* in it has length 0.
Lookup(table, sub) ==
    LET hits == {e \in table : e[1] = sub}
    IN  IF hits = {} THEN 0 ELSE (CHOOSE e \in hits : TRUE)[2]

\* opcodes
NOP == 0
COPY == 1
WRITE == 2
POLL_REGMEM == 8
CONST_FILL == 11
PTEPDE == 12
TIMESTAMP == 13
VERSION_SPECIFIC_16 == 16
GCR_REQ == 17
V6_DUMMY_TRAP == 32

\* COPY sub-opcodes
LINEAR == 0
TILED == 1
LINEAR_BC == 16

HeaderBroadcast(p) == p.sub \in {LINEAR, TILED} /\ p.bit27

BroadcastLen == {<<LINEAR, 9>>, <<TILED, 16>>}

CopyLenV4 == {<<0, 7>>, <<1, 13>>, <<3, 8>>, <<4, 13>>, <<5, 14>>, <<6, 15>>,
              <<7, 7>>, <<8, 7>>}

CopyLenV6 == {<<0, 7>>, <<1, 13>>, <<3, 8>>, <<4, 13>>, <<5, 17>>, <<6, 18>>,
              <<7, 7>>, <<8, 7>>, <<16, 7>>, <<17, 13>>, <<20, 13>>, <<21, 14>>,
              <<22, 15>>, <<36, 20>>}

\* v7 adds a metadata dword to the linear copies; the rest is v6.
CopyLenV7 == {<<LINEAR, 8>>, <<LINEAR_BC, 8>>}
               \cup {e \in CopyLenV6 : e[1] \notin {LINEAR, LINEAR_BC}}

CopyPacketLen(v, p) ==
    IF HeaderBroadcast(p) THEN Lookup(BroadcastLen, p.sub)
    ELSE Lookup(CASE v = "V4" -> CopyLenV4
                  [] v = "V7" -> CopyLenV7
                  [] OTHER    -> CopyLenV6, p.sub)

PollPacketLen(v, sub) ==
    IF sub = 4 THEN (IF v \in {"V6", "V7"} THEN 4 ELSE 0)
    ELSE Lookup({<<0, 6>>, <<1, 4>>, <<2, 5>>, <<3, 13>>}, sub)

PtePdePacketLen(v, sub) ==
    IF sub = 2 THEN (IF v = "V4" THEN 7 ELSE 8)
    ELSE Lookup({<<1, 8>>, <<3, 7>>}, sub)

\* The opcodes whose packets all have one length, in every version.
FixedLen == {<<4, 6>>, <<5, 4>>, <<6, 2>>, <<7, 3>>, <<9, 5>>, <<10, 8>>,
             <<14, 3>>, <<15, 2>>}

\* Mutant: one dword more than the count's is asked for.
WriteLenLate(p, navail) ==
    IF p.sub # 0 \/ navail < 5 THEN 0 ELSE 5 + (p.dw % 2^20)

\* A WRITE carries its length in the fourth dword.
WriteLen(p, navail) ==
    IF p.sub # 0 \/ navail < 4 THEN 0 ELSE 5 + (p.dw % 2^20)

PacketLenDwords(v, p, navail) ==
    IF ~IsSupportedVersion(v) \/ navail < 1 THEN 0
    ELSE CASE p.op = NOP          -> 1 + p.nop
           [] p.op = COPY         -> CopyPacketLen(v, p)
           [] p.op = WRITE        -> WriteLen(p, navail)
           [] p.op = POLL_REGMEM  -> PollPacketLen(v, p.sub)
           [] p.op = CONST_FILL   -> Lookup({<<0, 5>>, <<1, 6>>}, p.sub)
           [] p.op = PTEPDE       -> PtePdePacketLen(v, p.sub)
           [] p.op = TIMESTAMP    -> IF p.sub <= 2 THEN 3 ELSE 0
           [] p.op = VERSION_SPECIFIC_16 -> IF v = "V4" THEN 2 ELSE 4
           [] p.op = GCR_REQ       -> IF v = "V4" THEN 0 ELSE 5
           [] p.op = V6_DUMMY_TRAP -> IF v = "V4" THEN 0 ELSE 2
           [] OTHER -> Lookup(FixedLen, p.op)

-----------------------------------------------------------------------------
IsLinearCopy(v, sub) ==
    \/ v = "V4" /\ sub = LINEAR
    \/ v \in {"V6", "V7"} /\ sub \in {LINEAR, LINEAR_BC}

\* COUNT is the byte count minus one, in 30 bits (LINEAR of v6 and v7) or 22.
LinearCopyBytes(v, sub, dw) ==
    IF ~IsLinearCopy(v, sub) THEN 0
    ELSE (dw % (IF v \in {"V6", "V7"} /\ sub = LINEAR THEN 2^30 ELSE 2^22)) + 1

RingBytesToDwords(bytes) == bytes \div 4
=============================================================================
