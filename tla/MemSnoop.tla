------------------------------- MODULE MemSnoop --------------------------------
(***************************************************************************)
(* What the parser thread finds out about a dispatch by reading the traced *)
(* process: the kernel's name when the packet is decoded (KernelSymbols),  *)
(* and with --mem-snoop, when the record reaches main's sink, how much     *)
(* memory the kernel's arguments point to (ReadKernargSize,                *)
(* ScanKernargFootprint and ReadProcMemViaMem of src/proc_mem.cpp).        *)
(*                                                                         *)
(* The arguments lie in a pool of blocks, one behind the other; a word of  *)
(* a block points to the base of a buffer, into its middle, or nowhere.    *)
(* The process frees and allocates buffers, reuses blocks, unloads code    *)
(* and may replace its address space while records are on their way.       *)
(***************************************************************************)
EXTENDS KernelSymbols, Sequences, FiniteSetsExt

CONSTANTS
    Buffers,     \* a buffer is a mapping of its own
    Declared,    \* words of arguments each kernel's descriptor declares, 0 in a
                 \* descriptor older than v3 or for an implausible size
    Fallback,    \* words scanned where no size is known
    ArgLists,    \* the arguments kernels are launched with: sequences of words
    Blocks,      \* the pool has the blocks 1 .. Blocks
    MaxJobs      \* bound: dispatches whose record has not reached the sink

ASSUME DeclaredAssumption == Declared \in [Names -> Nat]
ASSUME ArgsAssumption == ArgLists \subseteq Seq([to : Buffers, base : BOOLEAN])
ASSUME BlocksAssumption == Blocks \in Nat /\ Fallback \in Nat \ {0}

Base(b) == [to |-> b, base |-> TRUE]
Inner(b) == [to |-> b, base |-> FALSE]

VARIABLES
    regions,     \* the buffers that are mapped
    pool,        \* what each block holds
    jobs,        \* dispatches on their way to the sink; intact (history): the
                 \* block has not been written since
    render,      \* the pool is mapped from /dev/dri/renderD*, which
                 \* process_vm_readv refuses
    cached_fd,   \* the parser thread's cached descriptor: "mine" (of this
                 \* process), "old" (of the address space its pid had before)
                 \* or "none" (none, or one of another pid)
    mem          \* the MemRecord the sink has made

memory == <<regions, pool, jobs, render>>
snoop == <<cached_fd, mem>>
memvars == <<vars, memory, snoop>>

\* counted: the buffers whose bytes are added up; job, code and the reasons why
\* the size or the scan may be missing (history) are what the read was for.
NoMem == [valid |-> FALSE, size |-> 0, counted |-> {}, ptrs |-> 0, args |-> <<>>,
          intact |-> FALSE, code |-> "gone", unsized |-> TRUE, unread |-> TRUE]

MemInit ==
    /\ Init
    /\ regions = {} /\ pool = [b \in 1 .. Blocks |-> <<>>] /\ jobs = {}
    /\ render \in BOOLEAN
    /\ cached_fd = "none" /\ mem = NoMem

-----------------------------------------------------------------------------
(* The traced process.                                                     *)

\* The jobs whose block is written.
Disturb(affected) ==
    {[j EXCEPT !.intact = j.intact /\ j \notin affected] : j \in jobs}

\* A dispatch of a loaded kernel; its arguments may overwrite those of a kernel
\* that has ended but whose record has not been made.
Launch(a, block, args) ==
    /\ Cardinality(jobs) < MaxJobs
    /\ \A i \in DOMAIN args : args[i].to \in regions
    /\ Dispatch(a)
    /\ Declared[mapped[a]] \in {0, Len(args)}
    /\ pool' = [pool EXCEPT ![block] = args]
    /\ jobs' = Disturb({j \in jobs : j.block = block})
                 \cup {[object |-> Gpu[a], name |-> mapped[a], block |-> block,
                        args |-> args, intact |-> TRUE]}
    /\ UNCHANGED <<regions, render, snoop>>

\* A buffer is freed, or memory is mapped where one was.
Remap(b) ==
    /\ regions' = IF b \in regions THEN regions \ {b} ELSE regions \cup {b}
    /\ UNCHANGED <<vars, pool, jobs, render, snoop>>

LoadOrUnload(a) ==
    /\ Unload(a) \/ \E n \in Names : Load(a, n)
    /\ UNCHANGED <<memory, snoop>>

\* exec, or another process gets the pid: the pool is gone until a kernel is
\* launched, and an open descriptor stays with the old address space.
Replace ==
    /\ mapped' = [a \in Addresses |-> None]
    /\ regions' = {} /\ pool' = [b \in 1 .. Blocks |-> <<>>]
    /\ jobs' = Disturb(jobs)
    /\ cached_fd' = IF cached_fd = "mine" THEN "old" ELSE cached_fd
    /\ UNCHANGED <<loaded, pending, cache_, offset_cache_, own, answer, render, mem>>

-----------------------------------------------------------------------------
(* Reading the process.                                                    *)

\* Mutant: the pid is remembered with the failed open.
OpenedOnce(fd, opens) ==
    CASE fd \in {"mine", "old", "failed"} -> fd
      [] opens -> "mine"
      [] OTHER -> "failed"

\* The descriptor after ReadProcMemViaMem, which opens one unless it has one for
\* the pid; open() may fail.
Opened(fd, opens) ==
    CASE fd \in {"mine", "old"} -> fd
      [] opens -> "mine"
      [] OTHER -> "none"

\* The kernel whose descriptor lies where the packet says, as the CPU sees it.
CodeAt(o) == IF o \in Addresses THEN mapped[o] ELSE None

\* ReadKernargSize: words of the block the descriptor declares, 0 if it cannot
\* be read or declares none.
KernargWords(j, fd) ==
    IF CodeAt(j.object) # None /\ (~render \/ fd = "mine")
      THEN Declared[CodeAt(j.object)] ELSE 0

PoolMapped == \E b \in 1 .. Blocks : pool[b] # <<>>

\* How many words are scanned.
ScanWords(size) == IF size = 0 THEN Fallback ELSE size

\* The read may leave the pool.
Overruns(j, n) == j.block = Blocks /\ n > Len(pool[j.block])

\* The n words from the block on, which may run into the block behind it.
Scanned(j, n) ==
    LET behind == IF j.block < Blocks THEN pool[j.block + 1] ELSE <<>>
        all == pool[j.block] \o behind
    IN  SubSeq(all, 1, Min({n, Len(all)}))

\* ScanKernargFootprint: the words that point to the base of a mapping ...
Pointers(words) ==
    {i \in DOMAIN words : words[i].base /\ words[i].to \in regions}

\* ... and the mappings whose bytes are added up, each once.
Counted(words) == {words[i].to : i \in Pointers(words)}

\* The sink, when the packet has been decoded: fd1 and fd2 are the descriptor
\* after the read of the kernel descriptor and after that of the arguments; a
\* read that process_vm_readv does does not touch it.  fits: a read that may leave
\* the pool does not; vmas: ReadVmas finds the mappings.
Sink(j, opens1, opens2, fits, vmas) ==
    /\ [object |-> j.object, name |-> j.name] \notin pending
    /\ LET code == CodeAt(j.object)
           fd1 == IF ~render /\ code # None THEN cached_fd ELSE Opened(cached_fd, opens1)
           size == KernargWords(j, fd1)
           readable == PoolMapped /\ (fits \/ ~Overruns(j, ScanWords(size)))
           fd2 == IF ~render /\ readable THEN fd1 ELSE Opened(fd1, opens2)
           valid == readable /\ (~render \/ fd2 = "mine") /\ vmas
           words == Scanned(j, ScanWords(size))
       IN  /\ cached_fd' = fd2
           /\ mem' = [valid |-> valid, size |-> size,
                      counted |-> IF valid THEN Counted(words) ELSE {},
                      ptrs |-> IF valid THEN Cardinality(Pointers(words)) ELSE 0,
                      args |-> j.args, intact |-> j.intact,
                      code |-> IF code = None THEN "gone"
                               ELSE IF code = j.name THEN "own" ELSE "other",
                      unsized |-> \/ code = None \/ Declared[code] = 0
                                  \/ ~opens1 \/ cached_fd = "old",
                      unread |-> ~readable \/ ~vmas \/ ~opens2 \/ cached_fd = "old"]
    /\ jobs' = jobs \ {j}
    /\ UNCHANGED <<vars, regions, pool, render>>

\* The record is printed or exported, with the sum of what was counted.
Deliver ==
    /\ mem # NoMem
    /\ mem' = NoMem
    /\ UNCHANGED <<vars, memory, cached_fd>>

\* The packet is decoded.
Decode(p) ==
    /\ Resolve(p)
    /\ UNCHANGED <<memory, snoop>>

\* The thread reads a process with another pid.
ReadOther ==
    /\ cached_fd' = "none"
    /\ UNCHANGED <<vars, memory, mem>>

-----------------------------------------------------------------------------
\* A record is delivered at once: no other step reads it, and its delivery
\* commutes with all of them.
MemNext ==
    \/ Deliver
    \/ /\ mem = NoMem
       /\ \/ \E a \in Addresses :
                \/ LoadOrUnload(a)
                \/ \E block \in 1 .. Blocks, args \in ArgLists : Launch(a, block, args)
          \/ \E b \in Buffers : Remap(b)
          \/ Replace
          \/ \E p \in pending : Decode(p)
          \/ \E j \in jobs, opens1, opens2, fits, vmas \in BOOLEAN :
                Sink(j, opens1, opens2, fits, vmas)
          \/ ReadOther

MemSpec == MemInit /\ [][MemNext]_memvars

-----------------------------------------------------------------------------
(* Properties.                                                             *)

\* The dispatch's own words that point to the base of a buffer still mapped, and
\* these buffers.
OwnPointers == {i \in DOMAIN mem.args : mem.args[i].base /\ mem.args[i].to \in regions}
OwnBuffers == {mem.args[i].to : i \in OwnPointers}

\* What main reports of a dispatch whose block has not been reused, however late
\* its record is and whatever else the process has done.  With the size that its
\* own descriptor declares, it is the buffers the dispatch was given that are still
\* mapped, each once, with nothing of the block behind ("attributing their buffers
\* to this dispatch", main.cpp:465); with no size it may be more, and less only if
\* the arguments are longer than the fixed window.  The size is missing only if
\* nothing at the packet's address declares one, the footprint only if the pool or
\* maps cannot be read, and either if open() failed in that very call ("one transient
\* EMFILE would silently disable --mem-snoop", proc_mem.cpp:46) or the cached
\* descriptor belongs to an address space that is gone.
FootprintRight ==
    /\ mem.valid /\ mem.intact =>
         /\ mem.size = 0 /\ Len(mem.args) <= Fallback => OwnBuffers \subseteq mem.counted
         /\ mem.size # 0 /\ mem.code = "own" =>
               /\ mem.counted = OwnBuffers
               /\ mem.ptrs = Cardinality(OwnPointers)
    /\ mem.size = 0 => mem.unsized
    /\ ~mem.valid => mem.unread
=============================================================================
