------------------------------ MODULE SdmaWindow ------------------------------
(***************************************************************************)
(* From the dwords at the front of an SDMA ring to the record of a copy:   *)
(* what PollSdmaQueue concludes from PacketLenDwords while the producer    *)
(* publishes a packet dword by dword, for every version, opcode and        *)
(* sub-opcode; and in which direction it says that a linear copy goes,     *)
(* from what /proc/<pid>/pagemap says of the two pages, or said when they  *)
(* were looked up first.                                                   *)
(***************************************************************************)
EXTENDS SdmaPackets, FiniteSets

CONSTANTS
    Topology,       \* the KFD topology nodes: gpu_id and gfx_target_version
    GpuIds,         \* the GPUs queues are created on
    Headers,        \* the packets published
    Pages,          \* pages of the traced process
    PageCacheMax    \* kPageCacheMax

ASSUME WindowAssumption == Window \in Nat /\ Window >= 7
ASSUME HeadersAssumption ==
    Headers \subseteq [op : Nat, sub : Nat, bit27 : BOOLEAN, nop : Nat, dw : Nat,
                       bytes : Nat \ {0}, rest : Nat]
ASSUME CacheAssumption == PageCacheMax \in Nat \ {0}

VARIABLES
    version,   \* QueueInfo::sdma_version
    packet,    \* the packet being published
    dwords,    \* dwords of the ring from its header up to wptr
    backing,   \* what each page is: "host", "away" (host memory that is not
               \* present: not touched yet, or swapped out) or "device"
    page_host, \* QueueState::page_host
    doubtful,  \* history: the pages whose entry was made while they were away
               \* or unreadable, or that have been remapped since
    copy       \* the last linear copy: bytes and dir as recorded, moved and
               \* truth as they are

windowvars == <<version, packet, dwords, backing, page_host, doubtful, copy>>
memory == <<backing, page_host, doubtful, copy>>

Min2(a, b) == IF a < b THEN a ELSE b
NoCopy == [bytes |-> 0, moved |-> 0, dir |-> "Unknown", truth |-> "Unknown", sure |-> FALSE]

\* The version of the node with that id; a node without the property has
\* target 0 here, as an unknown generation has.
DetectVersion(gpu_id) ==
    LET nodes == {n \in Topology : n.gpu_id = gpu_id}
    IN  IF nodes = {} THEN "Unknown"
        ELSE VersionFromGfxTarget((CHOOSE n \in nodes : TRUE).target)

\* What the COUNT field of a linear copy holds: 22 bits in the v4 layout and in the
\* broadcast-compatible one, 30 in the native layout of v6.
CountRange(v, sub) == IF v = "V4" \/ sub = LINEAR_BC THEN 2^22 ELSE 2^30

\* DW1 as the producer writes it: one less than the bytes, under other bits.
CountDword(v, p) == p.rest * CountRange(v, p.sub) + p.bytes - 1

\* A queue of a GPU whose version on_queue does not refuse, and a packet whose copy
\* is no larger than its COUNT can say.
WindowInit ==
    /\ version \in {DetectVersion(g) : g \in GpuIds}
    /\ IsSupportedVersion(version)
    /\ packet \in Headers /\ packet.bytes <= CountRange(version, packet.sub)
    /\ dwords = 1
    /\ backing = [p \in Pages |-> "away"]
    /\ page_host = <<>> /\ doubtful = {} /\ copy = NoCopy

-----------------------------------------------------------------------------
(* The traced process: the producer, and its memory.                       *)

PublishDword ==
    /\ dwords < Window + 5
    /\ dwords' = dwords + 1
    /\ UNCHANGED <<version, packet, memory>>

Host(p) == backing[p] # "device"

\* A page is touched or swapped out, or its address is mapped anew.
ChangePage(p) ==
    /\ \E b \in {"host", "away", "device"} \ {backing[p]} :
          /\ backing' = [backing EXCEPT ![p] = b]
          /\ doubtful' = IF p \in DOMAIN page_host /\ "device" \in {b, backing[p]}
                           THEN doubtful \cup {p} ELSE doubtful
    /\ UNCHANGED <<version, packet, dwords, page_host, copy>>

-----------------------------------------------------------------------------
(* PollSdmaQueue.                                                          *)

navail == Min2(dwords, Window)
packet_len == PacketLenDwords(version, packet, navail)

\* What one iteration of its loop does: give up and resync at wptr, take the
\* packet, or else wait for more dwords.
Resyncs == packet_len = 0 /\ dwords >= 4
Takes == packet_len > 0 /\ packet_len <= dwords

\* pagemap has a frame for a present page of host memory only; for the pages in
\* fails it cannot be opened or read now.
VirtToPhys(fails, p) == IF backing[p] = "host" /\ p \notin fails THEN 1 ELSE 0

\* IsHostVA: the answer, and the cache after it.
IsHostVA(fails, cache, p) ==
    IF p \in DOMAIN cache THEN cache[p] ELSE VirtToPhys(fails, p) # 0

Kept(cache) == IF Cardinality(DOMAIN cache) >= PageCacheMax THEN {} ELSE DOMAIN cache

Remembered(fails, cache, p) ==
    IF p \in DOMAIN cache THEN cache
    ELSE [q \in Kept(cache) \cup {p} |->
             IF q = p THEN VirtToPhys(fails, p) # 0 ELSE cache[q]]

Direction(src_host, dst_host) ==
    CASE src_host /\ ~dst_host  -> "HostToDevice"
      [] ~src_host /\ dst_host  -> "DeviceToHost"
      [] ~src_host /\ ~dst_host -> "DeviceToDevice"
      [] OTHER                  -> "HostToHost"

\* Mutant: both flags are read from the cache after the two lookups.
ClassifyReread(fails, src, dst) ==
    LET cache == Remembered(fails, Remembered(fails, page_host, src), dst)
        Flag(p) == p \in DOMAIN cache /\ cache[p]
    IN  Direction(Flag(src), Flag(dst))

ClassifyDir(fails, src, dst) ==
    Direction(IsHostVA(fails, page_host, src),
              IsHostVA(fails, Remembered(fails, page_host, src), dst))

\* (History.)  The pages in doubt after p has been looked up.
Doubt(fails, cache, pages, p) ==
    IF p \in DOMAIN cache THEN pages
    ELSE (pages \ {p}) \cup {q \in {p} : backing[q] = "away" \/ q \in fails}

\* A linear copy is taken: bytes and direction are recorded, and the walk goes
\* on with the next packet.
TakeCopy(fails, src, dst) ==
    /\ Takes
    /\ packet.op = COPY /\ IsLinearCopy(version, packet.sub) /\ navail >= 7
    /\ page_host' = Remembered(fails, Remembered(fails, page_host, src), dst)
    /\ LET first == Doubt(fails, page_host, doubtful, src)
           second == Doubt(fails, Remembered(fails, page_host, src), first, dst)
       IN  /\ doubtful' = second \cap DOMAIN page_host'
           /\ copy' = [bytes |-> LinearCopyBytes(version, packet.sub,
                                                 CountDword(version, packet)),
                       moved |-> packet.bytes,
                       dir |-> ClassifyDir(fails, src, dst),
                       truth |-> Direction(Host(src), Host(dst)),
                       sure |-> src \notin first /\ dst \notin second]
    /\ dwords' = 1
    /\ UNCHANGED <<version, packet, backing>>

WindowNext ==
    \/ PublishDword
    \/ \E p \in Pages : ChangePage(p)
    \/ \E src, dst \in Pages : \E fails \in SUBSET {src, dst} :
          TakeCopy(fails, src, dst)

WindowSpec == WindowInit /\ [][WindowNext]_windowvars

-----------------------------------------------------------------------------
(* Properties.                                                             *)

\* What the record of a linear copy says is right.  Its direction is, although
\* it is made of two lookups of which the second may empty the cache that holds
\* the first, unless a page could not be looked up or was not present then, or has
\* been mapped anew since; its byte total is what the copy moves, with the bias and
\* the width of COUNT in every layout ("the byte count minus one", sdma.h:108), up to
\* a field that is full; and no linear copy that is taken goes without them for want of
\* its seven dwords in the window.  The cache never grows past its limit.
CopyRecordRight ==
    /\ copy.sure => copy.dir = copy.truth
    /\ copy.bytes = copy.moved
    /\ Takes /\ packet.op = COPY /\ IsLinearCopy(version, packet.sub) => navail >= 7
    /\ Cardinality(DOMAIN page_host) <= PageCacheMax

\* A decision is never revised by dwords that arrive later: a length once
\* known stays, a resync is never one dword early, so waiting below four
\* dwords is exactly enough for the WRITE packet's count.
DecisionIsFinal ==
    [][dwords' > dwords =>
         /\ packet_len # 0 => packet_len' = packet_len
         /\ Resyncs => Resyncs'
         /\ Takes => Takes']_windowvars
=============================================================================
