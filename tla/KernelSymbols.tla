----------------------------- MODULE KernelSymbols ----------------------------
(***************************************************************************)
(* KernelSymbolResolver (src/ksym.cpp): the name of the kernel descriptor  *)
(* a dispatch packet points to, from the symbols of the code objects that  *)
(* are mapped in the traced process when a name is first asked for.        *)
(*                                                                         *)
(* The process loads and unloads code objects, reuses their addresses and  *)
(* dispatches kernels of the loaded ones; the ring parser resolves each    *)
(* packet some time later, perhaps when its code is gone.  A symbol is its *)
(* address and its name; of the walk through maps and ELF tables it is     *)
(* left which of the mapped symbols it finds.                              *)
(***************************************************************************)
EXTENDS Naturals, FiniteSets

CONSTANTS
    Addresses,    \* where descriptors may lie, as the CPU sees them
    Names,        \* kernel names, demangled
    Window,       \* kOffsetMask + 1
    Gpu,          \* the GPU's address of a descriptor, by the CPU's
    MaxPending    \* bound: packets not resolved yet

Objects == Addresses \cup {Gpu[a] : a \in Addresses}
Low(o) == o % Window

None == "none"
Hex == "kernel_0x"
Ambiguous == ""

ASSUME AddressAssumption == Addresses \subseteq Nat /\ Gpu \in [Addresses -> Nat]
ASSUME NameAssumption == {None, Hex, Ambiguous} \cap Names = {}
\* "GPU VAs of code objects differ from CPU VAs, but the offset within the code
\* object is the same" (ksym.cpp:200); elsewhere they are equal.
ASSUME GpuAssumption ==
    /\ \A a \in Addresses : Low(Gpu[a]) = Low(a) /\ Gpu[a] \in {a} \cup (Nat \ Addresses)
    /\ \A a, b \in Addresses : Gpu[a] = Gpu[b] => a = b

VARIABLES
    mapped,          \* the symbols mapped now: name by address
    loaded,          \* history: the names ever loaded with some low bits
    pending,         \* packets dispatched and not resolved
    cache_,
    offset_cache_,
    own,             \* history: the kernel that had an object's address when
                     \* its cache entry was made, if the scan found its symbol
    answer           \* the last question and its answer; sure: the question
                     \* was about the kernel own tells of

vars == <<mapped, loaded, pending, cache_, offset_cache_, own, answer>>

NoAnswer == [object |-> 0, name |-> Hex, got |-> Hex, sure |-> FALSE]
Lows == {Low(a) : a \in Addresses}

Init ==
    /\ mapped = [a \in Addresses |-> None]
    /\ loaded = [l \in Lows |-> {}]
    /\ pending = {}
    /\ cache_ = [o \in Objects |-> None] /\ own = [o \in Objects |-> None]
    /\ offset_cache_ = [l \in Lows |-> None]
    /\ answer = NoAnswer

-----------------------------------------------------------------------------
(* The traced process.                                                     *)

Load(a, n) ==
    /\ mapped[a] = None
    /\ mapped' = [mapped EXCEPT ![a] = n]
    /\ loaded' = [loaded EXCEPT ![Low(a)] = @ \cup {n}]
    /\ UNCHANGED <<pending, cache_, offset_cache_, own, answer>>

\* Unloading, or the end of the process.
Unload(a) ==
    /\ mapped[a] # None
    /\ mapped' = [mapped EXCEPT ![a] = None]
    /\ UNCHANGED <<loaded, pending, cache_, offset_cache_, own, answer>>

Dispatch(a) ==
    /\ mapped[a] # None
    /\ Cardinality(pending) < MaxPending
    /\ pending' = pending \cup {[object |-> Gpu[a], name |-> mapped[a]]}
    /\ UNCHANGED <<mapped, loaded, cache_, offset_cache_, own, answer>>

-----------------------------------------------------------------------------
(* The resolver.                                                           *)

\* What a scan may find: /proc/<pid>/mem or maps may not open, a mapping or a
\* table may not be readable or be of a form that is skipped, and the walk of a
\* table may end early.
Scans == SUBSET {a \in Addresses : mapped[a] # None}

\* ScanCodeObjects and ScanImage: every symbol found replaces what was cached
\* for its address ...
ScannedCache(found) ==
    [o \in Objects |-> IF o \in found THEN mapped[o] ELSE cache_[o]]

\* What has been entered for the low bits l, by this scan or before.
Entered(l, found) ==
    {mapped[a] : a \in {b \in found : Low(b) = l}} \cup {offset_cache_[l]}

\* Mutant: the first name stays.
FirstNameStays(found) ==
    [l \in Lows |->
        IF offset_cache_[l] # None \/ Entered(l, found) = {None}
          THEN offset_cache_[l]
          ELSE CHOOSE n \in Entered(l, found) \ {None} : TRUE]

\* Mutant: low bits that are entered again are ambiguous, whatever the name.
EnteredTwice(found) ==
    [l \in Lows |->
        LET names == Entered(l, found) \ {None}
        IN  IF names = {} THEN None
            ELSE IF offset_cache_[l] = None /\ \E n \in names : names = {n}
                   THEN CHOOSE n \in names : TRUE
            ELSE Ambiguous]

\* ... and the low bits of its address stand for its name, unless they have been
\* entered for another name.
ScannedOffsets(found) ==
    [l \in Lows |->
        LET names == Entered(l, found) \ {None}
        IN  IF names = {} THEN None
            ELSE IF \E n \in names : names = {n} THEN CHOOSE n \in names : TRUE
            ELSE Ambiguous]

\* The name found by a scan, by the low bits, or the hex label.
AfterScan(o, found) ==
    IF ScannedCache(found)[o] # None THEN ScannedCache(found)[o]
    ELSE IF ScannedOffsets(found)[Low(o)] \notin {None, Ambiguous}
           THEN ScannedOffsets(found)[Low(o)]
    ELSE Hex

\* History: the entries made by a scan, and by the lookup of o after it.
OwnAfter(o, found) ==
    [q \in Objects |->
        IF q \in found THEN mapped[q]
        ELSE IF q = o /\ \E a \in found : q = Gpu[a]
          THEN mapped[CHOOSE a \in found : q = Gpu[a]]
        ELSE own[q]]

Hit(p) ==
    /\ cache_[p.object] # None
    /\ answer' = [object |-> p.object, name |-> p.name, got |-> cache_[p.object],
                  sure |-> own[p.object] = p.name]
    /\ UNCHANGED <<cache_, offset_cache_, own>>

\* Whatever the answer is, it is cached.
Miss(p, found) ==
    /\ cache_[p.object] = None
    /\ answer' = [object |-> p.object, name |-> p.name,
                  got |-> AfterScan(p.object, found),
                  sure |-> OwnAfter(p.object, found)[p.object] = p.name]
    /\ cache_' = [ScannedCache(found) EXCEPT ![p.object] = AfterScan(p.object, found)]
    /\ offset_cache_' = ScannedOffsets(found)
    /\ own' = OwnAfter(p.object, found)

Resolve(p) ==
    /\ Hit(p) \/ \E found \in Scans : Miss(p, found)
    /\ pending' = pending \ {p}
    /\ UNCHANGED <<mapped, loaded>>

Next ==
    \/ \E a \in Addresses : Unload(a) \/ Dispatch(a) \/ \E n \in Names : Load(a, n)
    \/ \E p \in pending : Resolve(p)

Spec == Init /\ [][Next]_vars

-----------------------------------------------------------------------------
(* Properties.                                                             *)

TypeOK ==
    /\ mapped \in [Addresses -> Names \cup {None}]
    /\ loaded \in [Lows -> SUBSET Names]
    /\ pending \subseteq [object : Objects, name : Names]
    /\ cache_ \in [Objects -> Names \cup {None, Hex}]
    /\ offset_cache_ \in [Lows -> Names \cup {None, Ambiguous}]
    /\ own \in [Objects -> Names \cup {None}]
    /\ answer # NoAnswer => answer.object \in Objects /\ answer.name \in Names

\* A packet is given the name of another kernel only if the scan that made the
\* entry did not find its own symbol, or its address was another kernel's then
\* (names are cached for ever, ksym.cpp:231); and the other kernel is one that was
\* loaded with the same low bits ("prevents false matches from the wider window",
\* ksym.h:38).
NoFalseMatch ==
    /\ answer # NoAnswer => answer.got \in loaded[Low(answer.object)] \cup {Hex}
    /\ answer.sure => answer.got \in {answer.name, Hex}

\* A kernel whose symbol was found gets its name, not the hex label, unless its
\* address is not the CPU's and a kernel of another name has been loaded
\* with the same low bits: neither unloading nor scanning again loses a name.
HexOnlyWhenAmbiguous ==
    answer.sure /\ answer.got = Hex =>
        /\ answer.object \notin Addresses
        /\ \E m, n \in loaded[Low(answer.object)] : m # n

=============================================================================
