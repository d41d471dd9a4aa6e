-------------------------- MODULE KernelSymbolsProofs -------------------------
(***************************************************************************)
(* For any addresses, names and window, any sequence of loads, unloads and *)
(* dispatches, and scans that find any part of what is mapped: a packet is *)
(* given a wrong name only if its own symbol was not found, and the hex    *)
(* label with its symbol found only where low bits really are ambiguous.   *)
(* And for any arguments, buffers and changes of the traced process, the   *)
(* memory footprint of a dispatch is its own or reported as missing.       *)
(***************************************************************************)
EXTENDS MemSnoop, SequenceTheorems, TLAPS

\* Kernels of two names have been loaded with the low bits l.
Collided(l) == \E m, n \in loaded[l] : m # n

\* What is mapped or waits for its name has been loaded.
ProcessInv ==
    /\ \A a \in Addresses : mapped[a] # None => mapped[a] \in loaded[Low(a)]
    /\ \A p \in pending : p.name \in loaded[Low(p.object)]

\* A name in a table was loaded with these low bits; bits are marked as ambiguous
\* only after a collision.
TableInv ==
    /\ \A o \in Objects : cache_[o] \in loaded[Low(o)] \cup {None, Hex}
    /\ \A l \in Lows : /\ offset_cache_[l] \in loaded[l] \cup {None, Ambiguous}
                       /\ offset_cache_[l] = Ambiguous => Collided(l)

\* The entry made when an object's own symbol was found is its name, or the hex
\* label after a collision.
OwnInv ==
    \A o \in Objects : own[o] # None =>
        \/ cache_[o] = own[o]
        \/ cache_[o] = Hex /\ o \notin Addresses /\ Collided(Low(o))

Inv == TypeOK /\ ProcessInv /\ TableInv /\ OwnInv /\ NoFalseMatch /\ HexOnlyWhenAmbiguous

-----------------------------------------------------------------------------
\* Every object has the low bits of an address.
LEMMA ObjectLows ==
    /\ \A a \in Addresses : a \in Objects /\ Gpu[a] \in Objects /\ Low(a) \in Lows
    /\ \A o \in Objects : Low(o) \in Lows
BY GpuAssumption DEF Objects, Lows

\* What a scan enters for low bits is a name loaded with them, or the mark after a
\* collision; and for the bits of a symbol it found, that symbol's name or the mark.
LEMMA ScanIsJustified ==
    ASSUME Inv, NEW found \in Scans, NEW l \in Lows
    PROVE  /\ ScannedOffsets(found)[l] \in loaded[l] \cup {None, Ambiguous}
           /\ ScannedOffsets(found)[l] = Ambiguous => Collided(l)
           /\ \A a \in found : Low(a) = l =>
                 ScannedOffsets(found)[l] \in {mapped[a], Ambiguous}
<1> DEFINE names == Entered(l, found) \ {None}
<1>0. /\ None \notin Names /\ Ambiguous \notin Names /\ None # Ambiguous
      /\ loaded[l] \subseteq Names
  BY NameAssumption DEF None, Ambiguous, Inv, TypeOK
<1>1. ScannedOffsets(found)[l] =
        IF names = {} THEN None
        ELSE IF \E n \in names : names = {n} THEN CHOOSE n \in names : TRUE
        ELSE Ambiguous
  BY DEF ScannedOffsets
<1>2. ASSUME NEW n \in names
      PROVE  n \in loaded[l] \/ (n = Ambiguous /\ Collided(l))
  <2>1. CASE n = offset_cache_[l]
    BY <2>1 DEF Inv, TableInv
  <2>2. CASE \E a \in found : Low(a) = l /\ n = mapped[a]
    BY <2>2 DEF Inv, ProcessInv, Scans
  <2>3. QED
    BY <2>1, <2>2 DEF Entered
<1>3. ASSUME NEW a \in found, Low(a) = l PROVE mapped[a] \in names
  BY <1>3 DEF Entered, Scans
<1> HIDE DEF names
<1>4. names # {} => (CHOOSE n \in names : TRUE) \in names
  OBVIOUS
<1>5. CASE names = {}
  BY <1>0, <1>1, <1>3, <1>5
<1>6. CASE \E n \in names : names = {n}
  BY <1>0, <1>1, <1>2, <1>3, <1>4, <1>6
<1>7. CASE names # {} /\ ~\E n \in names : names = {n}
  <2>1. PICK m \in names : TRUE
    BY <1>7
  <2>2. PICK n \in names : n # m
    BY <1>7, <2>1
  <2>3. Collided(l)
    BY <1>2, <2>1, <2>2 DEF Collided
  <2>4. QED
    BY <1>0, <1>1, <1>7, <2>3
<1>8. QED
  BY <1>5, <1>6, <1>7

\* The tables keep their types in a scan.
LEMMA ScannedTypes ==
    ASSUME Inv, NEW found \in Scans, NEW o \in Objects
    PROVE  /\ ScannedCache(found) \in [Objects -> Names \cup {None, Hex}]
           /\ ScannedOffsets(found) \in [Lows -> Names \cup {None, Ambiguous}]
           /\ OwnAfter(o, found) \in [Objects -> Names \cup {None}]
<1>0. found \subseteq Addresses
  BY DEF Scans
<1>1. ScannedCache(found) \in [Objects -> Names \cup {None, Hex}]
  BY <1>0 DEF ScannedCache, Inv, TypeOK
<1>2. ASSUME NEW l \in Lows
      PROVE  ScannedOffsets(found)[l] \in Names \cup {None, Ambiguous}
  <2>1. loaded[l] \subseteq Names
    BY DEF Inv, TypeOK
  <2>2. QED
    BY <2>1, ScanIsJustified
<1>3. ScannedOffsets(found) = [l \in Lows |-> ScannedOffsets(found)[l]]
  BY DEF ScannedOffsets
<1>4. ASSUME NEW q \in Objects PROVE OwnAfter(o, found)[q] \in Names \cup {None}
  <2>1. ASSUME NEW a \in found, q = Gpu[a]
        PROVE  (CHOOSE b \in found : q = Gpu[b]) \in Addresses
    BY <2>1, <1>0
  <2>2. QED
    BY <1>0, <2>1 DEF OwnAfter, Inv, TypeOK
<1>5. OwnAfter(o, found) = [q \in Objects |-> OwnAfter(o, found)[q]]
  BY DEF OwnAfter
<1>6. QED
  BY <1>1, <1>2, <1>3, <1>4, <1>5

\* The answer after a scan is a name loaded with the object's low bits or the hex
\* label, and with the object's own symbol found, its name, or the hex label after
\* a collision.
LEMMA MissAnswers ==
    ASSUME Inv, NEW found \in Scans, NEW o \in Objects, cache_[o] = None
    PROVE  /\ AfterScan(o, found) \in loaded[Low(o)] \cup {Hex}
           /\ OwnAfter(o, found)[o] # None =>
                \/ AfterScan(o, found) = OwnAfter(o, found)[o]
                \/ AfterScan(o, found) = Hex /\ o \notin Addresses /\ Collided(Low(o))
<1>0. /\ found \subseteq Addresses /\ \A a \in found : mapped[a] # None
      /\ Low(o) \in Lows
  BY ObjectLows DEF Scans
<1>1. own[o] = None
  BY NameAssumption DEF Inv, OwnInv, TypeOK, None, Hex
<1>2. CASE o \in found
  <2>1. ScannedCache(found)[o] = mapped[o] /\ mapped[o] # None
    BY <1>0, <1>2 DEF ScannedCache
  <2>2. OwnAfter(o, found)[o] = mapped[o]
    BY <1>2 DEF OwnAfter
  <2>3. mapped[o] \in loaded[Low(o)]
    BY <1>0, <1>2 DEF Inv, ProcessInv
  <2>4. QED
    BY <2>1, <2>2, <2>3 DEF AfterScan
<1>3. CASE o \notin found
  <2> DEFINE off == ScannedOffsets(found)[Low(o)]
  <2>1. ScannedCache(found)[o] = None
    BY <1>3 DEF ScannedCache
  <2>2. AfterScan(o, found) = IF off \notin {None, Ambiguous} THEN off ELSE Hex
    BY <2>1 DEF AfterScan
  <2>3. /\ off \in loaded[Low(o)] \cup {None, Ambiguous}
        /\ off = Ambiguous => Collided(Low(o))
        /\ \A a \in found : Low(a) = Low(o) => off \in {mapped[a], Ambiguous}
    BY <1>0, ScanIsJustified
  <2> HIDE DEF off
  <2>4. AfterScan(o, found) \in loaded[Low(o)] \cup {Hex}
    BY <2>2, <2>3
  <2>5. ASSUME OwnAfter(o, found)[o] # None
        PROVE  \/ AfterScan(o, found) = OwnAfter(o, found)[o]
               \/ AfterScan(o, found) = Hex /\ o \notin Addresses /\ Collided(Low(o))
    <3>1. PICK a \in found : o = Gpu[a]
      BY <1>1, <1>3, <2>5 DEF OwnAfter
    <3>2. (CHOOSE b \in found : o = Gpu[b]) = a
      BY <3>1, <1>0, GpuAssumption
    <3>3. OwnAfter(o, found)[o] = mapped[a]
      BY <1>3, <3>1, <3>2 DEF OwnAfter
    <3>4. o \notin Addresses
      BY <1>0, <1>3, <3>1, GpuAssumption
    <3>5. off \in {mapped[a], Ambiguous} /\ mapped[a] # None
      BY <2>3, <3>1, <1>0, GpuAssumption
    <3>6. mapped[a] # Ambiguous
      BY <1>0, NameAssumption DEF Inv, TypeOK, None, Ambiguous
    <3>7. QED
      BY <2>2, <2>3, <3>3, <3>4, <3>5, <3>6
  <2>6. QED
    BY <2>4, <2>5
<1>4. QED
  BY <1>2, <1>3

-----------------------------------------------------------------------------
\* Nothing is mapped, asked or cached at first.
LEMMA InitInv == Init => Inv
<1> SUFFICES ASSUME Init PROVE Inv
  OBVIOUS
<1>1. None # Ambiguous
  BY DEF None, Ambiguous
<1>2. TypeOK
  BY DEF Init, TypeOK
<1>3. ProcessInv /\ TableInv /\ OwnInv
  BY <1>1 DEF Init, ProcessInv, TableInv, OwnInv
<1>4. NoFalseMatch /\ HexOnlyWhenAmbiguous
  BY DEF Init, NoFalseMatch, HexOnlyWhenAmbiguous, NoAnswer
<1>5. QED
  BY <1>2, <1>3, <1>4 DEF Inv

\* What the process loads is added to what was loaded; no table changes.
LEMMA StepProcess ==
    ASSUME Inv, TypeOK', UNCHANGED <<cache_, offset_cache_, own, answer>>,
           \A l \in Lows : loaded[l] \subseteq loaded'[l],
           \A a \in Addresses : mapped'[a] # None => mapped'[a] \in loaded'[Low(a)],
           \A p \in pending' : p.name \in loaded'[Low(p.object)]
    PROVE  Inv'
<1>1. \A l \in Lows : Collided(l) => Collided(l)'
  BY DEF Collided
<1>2. ProcessInv'
  BY DEF ProcessInv
<1>3. TableInv'
  BY <1>1, ObjectLows DEF Inv, TableInv
<1>4. OwnInv'
  BY <1>1, ObjectLows DEF Inv, OwnInv
<1>5. NoFalseMatch'
  BY ObjectLows DEF Inv, TypeOK, NoFalseMatch
<1>6. HexOnlyWhenAmbiguous'
  <2>1. answer.sure => answer # NoAnswer
    BY DEF NoAnswer
  <2>2. QED
    BY <2>1, ObjectLows DEF Inv, TypeOK, HexOnlyWhenAmbiguous
<1>7. QED
  BY <1>2, <1>3, <1>4, <1>5, <1>6 DEF Inv

\* A lookup that misses enters one answer and the names of the symbols it found.
LEMMA StepMiss ==
    ASSUME Inv, NEW p \in pending, NEW found \in Scans, Miss(p, found),
           pending' = pending \ {p}, UNCHANGED <<mapped, loaded>>
    PROVE  Inv'
<1>0. p.object \in Objects /\ p.name \in Names /\ cache_[p.object] = None
  BY DEF Inv, TypeOK, Miss
<1> DEFINE o == p.object
           got == AfterScan(o, found)
           mine == OwnAfter(o, found)
           scanned == ScannedCache(found)
<1>1. /\ got \in loaded[Low(o)] \cup {Hex}
      /\ mine[o] # None =>
           \/ got = mine[o]
           \/ got = Hex /\ o \notin Addresses /\ Collided(Low(o))
  BY <1>0, MissAnswers
<1>2. /\ scanned \in [Objects -> Names \cup {None, Hex}]
      /\ ScannedOffsets(found) \in [Lows -> Names \cup {None, Ambiguous}]
      /\ mine \in [Objects -> Names \cup {None}]
  BY <1>0, ScannedTypes
<1>3. \A l : Collided(l)' <=> Collided(l)
  BY DEF Collided
<1>4. /\ cache_' = [scanned EXCEPT ![o] = got]
      /\ offset_cache_' = ScannedOffsets(found)
      /\ own' = mine
      /\ answer' = [object |-> o, name |-> p.name, got |-> got,
                    sure |-> mine[o] = p.name]
  BY DEF Miss
<1>5. \A q \in Objects : q # o =>
         \/ q \in found /\ scanned[q] = mapped[q] /\ mine[q] = mapped[q]
         \/ scanned[q] = cache_[q] /\ mine[q] = own[q]
  BY DEF ScannedCache, OwnAfter
<1>6. loaded[Low(o)] \subseteq Names
  BY <1>0, ObjectLows DEF Inv, TypeOK
<1> HIDE DEF got, mine, scanned
<1>7. TypeOK'
  BY <1>0, <1>1, <1>2, <1>4, <1>6 DEF Inv, TypeOK
<1>8. ProcessInv'
  BY DEF Inv, ProcessInv
<1>9. ASSUME NEW q \in Objects
      PROVE  /\ cache_'[q] \in loaded[Low(q)] \cup {None, Hex}
             /\ own'[q] # None =>
                  \/ cache_'[q] = own'[q]
                  \/ cache_'[q] = Hex /\ q \notin Addresses /\ Collided(Low(q))
  <2>1. CASE q = o
    BY <1>0, <1>1, <1>2, <1>4, <2>1
  <2>2. CASE q # o
    <3>1. cache_'[q] = scanned[q]
      BY <1>2, <1>4, <2>2
    <3>2. q \in found => mapped[q] \in loaded[Low(q)]
      BY DEF Inv, ProcessInv, Scans
    <3>3. QED
      BY <1>4, <1>5, <2>2, <3>1, <3>2 DEF Inv, TableInv, OwnInv
  <2>3. QED
    BY <2>1, <2>2
<1>10. TableInv'
  BY <1>3, <1>4, <1>9, ScanIsJustified DEF TableInv
<1>11. OwnInv'
  BY <1>3, <1>9 DEF OwnInv
<1>12. /\ answer'.object = o /\ answer'.name = p.name /\ answer'.got = got
       /\ answer'.sure => mine[o] = p.name
  BY <1>4
<1>13. p.name # None /\ p.name # Hex
  BY <1>0, NameAssumption
<1>14. NoFalseMatch'
  BY <1>1, <1>12, <1>13 DEF NoFalseMatch
<1>15. HexOnlyWhenAmbiguous'
  BY <1>1, <1>12, <1>13 DEF HexOnlyWhenAmbiguous, Collided
<1>16. QED
  BY <1>7, <1>8, <1>10, <1>11, <1>14, <1>15 DEF Inv

\* Neither the traced process nor a lookup breaks the invariant.
LEMMA StepInv == Inv /\ [Next]_vars => Inv'
<1> SUFFICES ASSUME Inv, [Next]_vars PROVE Inv'
  OBVIOUS
<1>1. ASSUME NEW a \in Addresses, NEW n \in Names, Load(a, n) PROVE Inv'
  <2>1. TypeOK'
    BY <1>1, ObjectLows DEF Load, Inv, TypeOK
  <2>2. \A l \in Lows : loaded[l] \subseteq loaded'[l]
    BY <1>1 DEF Load, Inv, TypeOK
  <2>3. n \in loaded'[Low(a)]
    BY <1>1, ObjectLows DEF Load, Inv, TypeOK
  <2>4. \A b \in Addresses : mapped'[b] # None => mapped'[b] \in loaded'[Low(b)]
    BY <1>1, <2>2, <2>3, ObjectLows DEF Load, Inv, TypeOK, ProcessInv
  <2>5. \A p \in pending' : p.name \in loaded'[Low(p.object)]
    BY <1>1, <2>2, ObjectLows DEF Load, Inv, TypeOK, ProcessInv
  <2>6. QED
    BY <1>1, <2>1, <2>2, <2>4, <2>5, StepProcess DEF Load
<1>2. ASSUME NEW a \in Addresses, Unload(a) PROVE Inv'
  <2>1. TypeOK'
    BY <1>2 DEF Unload, Inv, TypeOK
  <2>2. QED
    BY <1>2, <2>1, StepProcess DEF Unload, Inv, TypeOK, ProcessInv
<1>3. ASSUME NEW a \in Addresses, Dispatch(a) PROVE Inv'
  <2>1. mapped[a] \in Names /\ mapped[a] \in loaded[Low(Gpu[a])]
    BY <1>3, GpuAssumption DEF Dispatch, Inv, TypeOK, ProcessInv
  <2>2. TypeOK'
    BY <1>3, <2>1, ObjectLows DEF Dispatch, Inv, TypeOK
  <2>3. \A p \in pending' : p.name \in loaded[Low(p.object)]
    BY <1>3, <2>1 DEF Dispatch, Inv, ProcessInv
  <2>4. QED
    BY <1>3, <2>2, <2>3, StepProcess DEF Dispatch, Inv, ProcessInv
<1>4. ASSUME NEW p \in pending, Resolve(p) PROVE Inv'
  <2>1. CASE Hit(p)
    <3>1. p.object \in Objects /\ p.name \in Names
      BY DEF Inv, TypeOK
    <3>2. answer' = [object |-> p.object, name |-> p.name, got |-> cache_[p.object],
                     sure |-> own[p.object] = p.name]
      BY <2>1 DEF Hit
    <3>3. /\ cache_[p.object] \in loaded[Low(p.object)] \cup {Hex}
          /\ cache_[p.object] # None
      BY <2>1, <3>1 DEF Hit, Inv, TableInv
    <3>4. p.name # None /\ p.name # Hex
      BY <3>1, NameAssumption
    <3>5. own[p.object] = p.name =>
            \/ cache_[p.object] = p.name
            \/ cache_[p.object] = Hex /\ p.object \notin Addresses
                 /\ Collided(Low(p.object))
      BY <3>1, <3>4 DEF Inv, OwnInv
    <3>6. UNCHANGED <<mapped, loaded, cache_, offset_cache_, own>> /\ pending' = pending \ {p}
      BY <1>4, <2>1 DEF Resolve, Hit
    <3>7. TypeOK'
      BY <3>1, <3>2, <3>6 DEF Inv, TypeOK
    <3>8. ProcessInv' /\ TableInv' /\ OwnInv'
      BY <3>6 DEF Inv, ProcessInv, TableInv, OwnInv, Collided
    <3>9. NoFalseMatch'
      BY <3>2, <3>3, <3>5, <3>6 DEF NoFalseMatch
    <3>10. HexOnlyWhenAmbiguous'
      BY <3>2, <3>4, <3>5, <3>6 DEF HexOnlyWhenAmbiguous, Collided
    <3>11. QED
      BY <3>7, <3>8, <3>9, <3>10 DEF Inv
  <2>2. CASE \E found \in Scans : Miss(p, found)
    BY <1>4, <2>2, StepMiss DEF Resolve
  <2>3. QED
    BY <1>4, <2>1, <2>2 DEF Resolve
<1>5. CASE UNCHANGED vars
  <2>1. TypeOK'
    BY <1>5 DEF vars, Inv, TypeOK
  <2>2. QED
    BY <1>5, <2>1, StepProcess DEF vars, Inv, ProcessInv
<1>6. QED
  BY <1>1, <1>2, <1>3, <1>4, <1>5 DEF Next

\* KernelSymbolResolver::Resolve gives a packet a wrong name only if the scan that
\* made the entry had not found its symbol or its address was another kernel's then,
\* and never a name not loaded with its low bits, whatever is loaded, unloaded,
\* reused and missed by scans, whatever the window and the GPU's addresses.
THEOREM NeverMisnamed == Spec => []NoFalseMatch
<1>1. Inv => NoFalseMatch
  BY DEF Inv
<1>2. QED
  BY <1>1, InitInv, StepInv, PTL DEF Spec

\* A kernel whose symbol was found gets the hex label (KernelSymbolResolver::Resolve)
\* only where GPU and CPU addresses differ and kernels of two names have had its low
\* bits, whatever was loaded, unloaded and scanned before.
THEOREM LabelledUnlessAmbiguous == Spec => []HexOnlyWhenAmbiguous
<1>1. Inv => HexOnlyWhenAmbiguous
  BY DEF Inv
<1>2. QED
  BY <1>1, InitInv, StepInv, PTL DEF Spec
-----------------------------------------------------------------------------
(* The names and the footprint of a dispatch, read from a process whose    *)
(* code, arguments, buffers and address space change (MemSnoop).           *)

Words == [to : Buffers, base : BOOLEAN]
Job == [object : {Gpu[a] : a \in Addresses}, name : Names, block : 1 .. Blocks,
        args : ArgLists, intact : BOOLEAN]

MemTyped ==
    /\ pool \in [1 .. Blocks -> Seq(Words)]
    /\ jobs \subseteq Job
    /\ \A j \in jobs : Declared[j.name] \in {0, Len(j.args)}
    /\ cached_fd \in {"none", "mine", "old"}

\* A dispatch whose block has not been written finds its arguments there.
JobsInv == \A j \in jobs : j.intact => pool[j.block] = j.args

MemInv == MemTyped /\ JobsInv /\ FootprintRight

\* A job stays intact only if it was and is not affected, and is otherwise as before.
LEMMA DisturbedJobs ==
    ASSUME MemTyped, NEW affected, NEW k \in Disturb(affected)
    PROVE  /\ k \in Job /\ Declared[k.name] \in {0, Len(k.args)}
           /\ k.intact => k \in jobs /\ k \notin affected
<1>1. PICK j \in jobs : k = [j EXCEPT !.intact = j.intact /\ j \notin affected]
  BY DEF Disturb
<1>2. j \in Job
  BY DEF MemTyped
<1>3. /\ k \in Job /\ k.intact = (j.intact /\ j \notin affected)
      /\ k.name = j.name /\ k.args = j.args
  BY <1>1, <1>2 DEF Job
<1>4. k.intact => k = j
  BY <1>1, <1>2, <1>3 DEF Job
<1>5. QED
  BY <1>3, <1>4 DEF MemTyped

\* A scan of n words from the block of an intact dispatch reads its arguments first:
\* all of them if n is large enough, and nothing else if n is their number.
LEMMA ScansOwnArguments ==
    ASSUME MemTyped, NEW j \in jobs, pool[j.block] = j.args, NEW n \in Nat,
           Len(j.args) <= n
    PROVE  /\ \A i \in DOMAIN j.args : i \in DOMAIN Scanned(j, n)
                                       /\ Scanned(j, n)[i] = j.args[i]
           /\ n = Len(j.args) => Scanned(j, n) = j.args
<1> DEFINE args == pool[j.block]
           behind == IF j.block < Blocks THEN pool[j.block + 1] ELSE <<>>
           all == args \o behind
<1>1. j.block \in 1 .. Blocks /\ args = j.args
  BY DEF MemTyped, Job
<1>2. args \in Seq(Words) /\ behind \in Seq(Words)
  BY <1>1, BlocksAssumption DEF MemTyped
<1>3. Scanned(j, n) = SubSeq(all, 1, Min({n, Len(all)}))
  BY DEF Scanned
<1> HIDE DEF args, behind
<1>4. /\ Len(all) = Len(args) + Len(behind) /\ all \in Seq(Words)
      /\ \A i \in 1 .. Len(args) : all[i] = args[i]
  BY <1>2, ConcatProperties
<1> HIDE DEF all
<1>5. PICK m \in Nat : m = Min({n, Len(all)}) /\ Len(args) <= m /\ m <= Len(all)
                       /\ (n = Len(args) => m = Len(args))
  <2>1. Len(args) \in Nat /\ Len(behind) \in Nat /\ Len(all) \in Nat
    BY <1>2, <1>4
  <2>2. \A a, b \in Nat : Min({a, b}) = IF a <= b THEN a ELSE b
    BY DEF Min
  <2>3. QED
    BY <2>1, <2>2, <1>1, <1>4
<1>6. /\ DOMAIN SubSeq(all, 1, m) = 1 .. m
      /\ \A i \in 1 .. m : SubSeq(all, 1, m)[i] = all[i]
  <2>1. all \in Seq(Words) /\ 1 \in 1 .. Len(all) + 1 /\ m \in 0 .. Len(all)
    BY <1>4, <1>5
  <2>2. /\ SubSeq(all, 1, m) \in Seq(Words)
        /\ Len(SubSeq(all, 1, m)) = IF 1 <= m THEN m - 1 + 1 ELSE 0
        /\ \A i \in 1 .. m - 1 + 1 : SubSeq(all, 1, m)[i] = all[1 + i - 1]
    BY <2>1, SubSeqProperties
  <2>3. m - 1 + 1 = m /\ \A i \in 1 .. m : 1 + i - 1 = i
    BY <1>5
  <2>4. Len(SubSeq(all, 1, m)) = m
    BY <1>5, <2>2, <2>3
  <2>5. QED
    BY <2>2, <2>3, <2>4
<1>7. DOMAIN args = 1 .. Len(args) /\ Len(args) \in Nat
  BY <1>2
<1>8. \A i \in DOMAIN args : i \in 1 .. m /\ SubSeq(all, 1, m)[i] = args[i]
  <2> SUFFICES ASSUME NEW i \in DOMAIN args
               PROVE  i \in 1 .. m /\ SubSeq(all, 1, m)[i] = args[i]
    OBVIOUS
  <2>1. i \in 1 .. Len(args)
    BY <1>7
  <2>2. m \in Nat /\ Len(args) <= m
    BY <1>5
  <2>3. i \in 1 .. m
    BY <1>7, <2>1, <2>2
  <2>4. QED
    BY <1>4, <1>6, <2>1, <2>3
<1>9. m = Len(args) => SubSeq(all, 1, m) = args
  BY <1>2, <1>4, <1>6, <1>7
<1>10. QED
  BY <1>1, <1>3, <1>5, <1>6, <1>8, <1>9

\* The record the sink makes is right for an intact dispatch, and missing only for a
\* reason of this very read.
LEMMA SinkRight ==
    ASSUME MemInv, NEW j \in jobs, NEW opens1 \in BOOLEAN, NEW opens2 \in BOOLEAN,
           NEW fits \in BOOLEAN, NEW vmas \in BOOLEAN, TypeOK,
           Sink(j, opens1, opens2, fits, vmas)
    PROVE  FootprintRight'
<1> DEFINE code == CodeAt(j.object)
           fd1 == IF ~render /\ code # None THEN cached_fd ELSE Opened(cached_fd, opens1)
           size == KernargWords(j, fd1)
           readable == PoolMapped /\ (fits \/ ~Overruns(j, ScanWords(size)))
           fd2 == IF ~render /\ readable THEN fd1 ELSE Opened(fd1, opens2)
           valid == readable /\ (~render \/ fd2 = "mine") /\ vmas
           words == Scanned(j, ScanWords(size))
           kind == IF code = None THEN "gone" ELSE IF code = j.name THEN "own" ELSE "other"
           unsized == code = None \/ Declared[code] = 0 \/ ~opens1 \/ cached_fd = "old"
           unread == ~readable \/ ~vmas \/ ~opens2 \/ cached_fd = "old"
<1>1. mem' = [valid |-> valid, size |-> size,
              counted |-> IF valid THEN Counted(words) ELSE {},
              ptrs |-> IF valid THEN Cardinality(Pointers(words)) ELSE 0,
              args |-> j.args, intact |-> j.intact, code |-> kind,
              unsized |-> unsized, unread |-> unread]
  BY DEF Sink
<1>2. valid \/ unread
  <2> HIDE DEF readable
  <2>1. fd1 \in {cached_fd, Opened(cached_fd, opens1)}
    OBVIOUS
  <2>2. fd1 \in {"none", "mine", "old"} /\ (fd1 = "old" => cached_fd = "old")
    BY <2>1 DEF MemInv, MemTyped, Opened
  <2> HIDE DEF fd1
  <2>3. QED
    BY <2>2 DEF Opened
<1>3. size = 0 => unsized
  <2>1. fd1 = "mine" \/ (~render /\ code # None) \/ ~opens1 \/ cached_fd = "old"
    BY DEF MemInv, MemTyped, Opened
  <2> HIDE DEF fd1
  <2>2. QED
    BY <2>1 DEF KernargWords
<1>4. size = 0 \/ (code # None /\ size = Declared[code])
  BY DEF KernargWords
<1>5. code # None => code \in Names
  BY DEF CodeAt, TypeOK
<1>6. size \in Nat
  BY <1>4, <1>5, DeclaredAssumption
<1> HIDE DEF code, size, readable, valid
<1>7. /\ j.args \in Seq(Words) /\ Declared[j.name] \in {0, Len(j.args)}
      /\ Len(j.args) \in Nat
  <2>1. j \in Job /\ Declared[j.name] \in {0, Len(j.args)}
    BY DEF MemInv, MemTyped
  <2>2. j.args \in Seq(Words)
    BY <2>1, ArgsAssumption DEF Job, Words
  <2>3. QED
    BY <2>1, <2>2
<1> DEFINE own1 == {i \in DOMAIN j.args : j.args[i].base /\ j.args[i].to \in regions}
<1>8. ASSUME j.intact, size = 0, Len(j.args) <= Fallback
      PROVE  {j.args[i].to : i \in own1} \subseteq Counted(words)
  <2>1. ScanWords(size) = Fallback /\ Fallback \in Nat
    BY <1>8, BlocksAssumption DEF ScanWords
  <2>2. \A i \in DOMAIN j.args : i \in DOMAIN words /\ words[i] = j.args[i]
    BY <1>8, <2>1, ScansOwnArguments DEF MemInv, JobsInv
  <2> HIDE DEF words
  <2>3. \A i \in own1 : i \in Pointers(words) /\ words[i].to = j.args[i].to
    BY <2>2 DEF Pointers
  <2>4. QED
    BY <2>3 DEF Counted
<1>9. ASSUME j.intact, size # 0, kind = "own"
      PROVE  /\ Counted(words) = {j.args[i].to : i \in own1}
             /\ Pointers(words) = own1
  <2>1. code = j.name
    BY <1>9
  <2>2. size = Len(j.args)
    BY <1>4, <1>7, <1>9, <2>1
  <2>3. ScanWords(size) = Len(j.args)
    BY <1>9, <2>2 DEF ScanWords
  <2>4. words = j.args
    BY <1>7, <1>9, <2>3, ScansOwnArguments DEF MemInv, JobsInv
  <2>5. Pointers(words) = own1
    BY <2>4 DEF Pointers
  <2>6. QED
    BY <2>4, <2>5 DEF Counted
<1>10. UNCHANGED regions
  BY DEF Sink
<1> HIDE DEF words, kind, unsized, unread
<1>11. /\ mem'.valid = valid /\ mem'.size = size /\ mem'.args = j.args
       /\ mem'.intact = j.intact /\ mem'.code = kind
       /\ mem'.unsized = unsized /\ mem'.unread = unread
       /\ valid => mem'.counted = Counted(words)
                   /\ mem'.ptrs = Cardinality(Pointers(words))
  BY <1>1
<1>12. OwnPointers' = own1
  BY <1>10, <1>11 DEF OwnPointers
<1>13. OwnBuffers' = {j.args[i].to : i \in own1}
  BY <1>11, <1>12 DEF OwnBuffers
<1> HIDE DEF own1
<1>14. QED
  BY <1>2, <1>3, <1>8, <1>9, <1>11, <1>12, <1>13 DEF FootprintRight

\* While no record is waiting, the property asks nothing.
LEMMA NoRecordRight == mem = NoMem => FootprintRight
BY DEF NoMem, FootprintRight

\* The pool is empty and nothing is read at first.
LEMMA InitMem == MemInit => MemInv
BY NoRecordRight DEF MemInit, MemInv, MemTyped, JobsInv

\* A launch or a new address space disturbs just the dispatches whose block it
\* writes.
LEMMA StepMem == TypeOK /\ MemInv /\ [MemNext]_memvars => MemInv'
<1> SUFFICES ASSUME TypeOK, MemInv, [MemNext]_memvars PROVE MemInv'
  OBVIOUS
<1> USE DEF MemInv
<1>0. ASSUME mem' = NoMem PROVE FootprintRight'
  BY <1>0 DEF NoMem, FootprintRight
<1>1. ASSUME NEW a \in Addresses, NEW block \in 1 .. Blocks, NEW args \in ArgLists,
             mem = NoMem, Launch(a, block, args)
      PROVE  MemInv'
  <2> DEFINE new == [object |-> Gpu[a], name |-> mapped[a], block |-> block,
                     args |-> args, intact |-> TRUE]
             affected == {j \in jobs : j.block = block}
  <2>1. /\ Declared[mapped[a]] \in {0, Len(args)} /\ mapped[a] # None
        /\ pool' = [pool EXCEPT ![block] = args]
        /\ jobs' = Disturb(affected) \cup {new}
        /\ UNCHANGED <<cached_fd, mem>>
    BY <1>1 DEF Launch, Dispatch, snoop
  <2>2. new \in Job
    BY <2>1 DEF Job, TypeOK
  <2>3. MemTyped'
    <3>1. jobs' \subseteq Job /\ \A j \in jobs' : Declared[j.name] \in {0, Len(j.args)}
      <4>1. new.name = mapped[a] /\ new.args = args
        OBVIOUS
      <4> HIDE DEF new
      <4>2. \A j \in Disturb(affected) : j \in Job /\ Declared[j.name] \in {0, Len(j.args)}
        BY DisturbedJobs
      <4>3. QED
        BY <2>1, <2>2, <4>1, <4>2
    <3>2. pool' \in [1 .. Blocks -> Seq(Words)]
      BY <2>1, ArgsAssumption DEF MemTyped, Words
    <3>3. QED
      BY <2>1, <3>1, <3>2 DEF MemTyped
  <2>4. ASSUME NEW j \in jobs', j.intact PROVE pool'[j.block] = j.args
    <3>1. CASE j = new
      BY <2>1, <3>1 DEF MemTyped
    <3>2. CASE j \in Disturb(affected)
      <4>1. j \in jobs /\ j.block # block
        BY <2>4, <3>2, DisturbedJobs
      <4>2. QED
        BY <2>1, <2>4, <4>1 DEF MemTyped, Job, JobsInv
    <3>3. QED
      BY <2>1, <3>1, <3>2
  <2>5. QED
    BY <1>0, <1>1, <2>1, <2>3, <2>4 DEF JobsInv
<1>2. CASE mem = NoMem /\ Replace
  <2>1. /\ jobs' = Disturb(jobs) /\ pool' = [b \in 1 .. Blocks |-> <<>>]
        /\ cached_fd' \in {"none", "mine", "old"}
        /\ mem' = NoMem
    BY <1>2 DEF Replace, MemTyped
  <2>2. MemTyped'
    BY <2>1, DisturbedJobs DEF MemTyped
  <2>3. JobsInv'
    BY <2>1, DisturbedJobs DEF JobsInv
  <2>4. QED
    BY <1>0, <2>1, <2>2, <2>3
<1>3. ASSUME NEW j \in jobs, NEW opens1 \in BOOLEAN, NEW opens2 \in BOOLEAN,
             NEW fits \in BOOLEAN, NEW vmas \in BOOLEAN,
             Sink(j, opens1, opens2, fits, vmas)
      PROVE  MemInv'
  <2>1. FootprintRight'
    BY <1>3, SinkRight
  <2>2. jobs' = jobs \ {j} /\ UNCHANGED pool
    BY <1>3 DEF Sink
  <2>3. cached_fd' \in {"none", "mine", "old"}
    BY <1>3 DEF Sink, Opened, MemTyped
  <2>4. MemTyped' /\ JobsInv'
    BY <2>2, <2>3 DEF MemTyped, JobsInv
  <2>5. QED
    BY <2>1, <2>4
<1>4. ASSUME UNCHANGED <<pool, jobs>>, cached_fd' \in {cached_fd, "none"},
             mem' = NoMem
      PROVE  MemInv'
  BY <1>0, <1>4 DEF MemTyped, JobsInv
<1>5. CASE Deliver
  BY <1>4, <1>5 DEF Deliver, memory
<1>6. CASE mem = NoMem /\ (ReadOther \/ \E b \in Buffers : Remap(b))
  BY <1>4, <1>6 DEF ReadOther, Remap, memory, snoop
<1>7. CASE mem = NoMem /\ (\/ \E a \in Addresses : LoadOrUnload(a)
                          \/ \E p \in pending : Decode(p))
  BY <1>4, <1>7 DEF LoadOrUnload, Decode, memory, snoop
<1>8. CASE UNCHANGED memvars
  <2>1. UNCHANGED <<regions, pool, jobs, cached_fd, mem>>
    BY <1>8 DEF memvars, memory, snoop
  <2>2. FootprintRight'
    BY <2>1 DEF FootprintRight, OwnBuffers, OwnPointers
  <2>3. QED
    BY <2>1, <2>2 DEF MemTyped, JobsInv
<1>9. QED
  BY <1>1, <1>2, <1>3, <1>5, <1>6, <1>7, <1>8 DEF MemNext

\* The resolver's invariant holds in the larger system too: an address space that
\* is replaced takes all its code with it at once, and packets wait on.
LEMMA StepNames == Inv /\ [MemNext]_memvars => Inv'
<1> SUFFICES ASSUME Inv, [MemNext]_memvars PROVE Inv'
  OBVIOUS
<1>1. CASE [Next]_vars
  BY <1>1, StepInv
<1>2. CASE Replace
  <2>1. /\ mapped' = [a \in Addresses |-> None]
        /\ UNCHANGED <<loaded, pending, cache_, offset_cache_, own, answer>>
    BY <1>2 DEF Replace
  <2>2. TypeOK'
    BY <2>1 DEF Inv, TypeOK
  <2>3. QED
    BY <2>1, <2>2, StepProcess DEF Inv, ProcessInv
<1>3. MemNext => Replace \/ [Next]_vars
  <2>1. ASSUME NEW a \in Addresses, LoadOrUnload(a) PROVE Next
    BY <2>1 DEF LoadOrUnload, Next
  <2>2. ASSUME NEW a \in Addresses, NEW block, NEW args, Launch(a, block, args)
        PROVE  Next
    BY <2>2 DEF Launch, Next
  <2>3. ASSUME NEW p \in pending, Decode(p) PROVE Next
    BY <2>3 DEF Decode, Next
  <2>4. Deliver \/ ReadOther => UNCHANGED vars
    BY DEF Deliver, ReadOther
  <2>5. \A b \in Buffers : Remap(b) => UNCHANGED vars
    BY DEF Remap
  <2>6. ASSUME NEW j \in jobs, NEW opens1, NEW opens2, NEW fits, NEW maps,
               Sink(j, opens1, opens2, fits, maps)
        PROVE  UNCHANGED vars
    BY <2>6 DEF Sink
  <2>7. QED
    BY <2>1, <2>2, <2>3, <2>4, <2>5, <2>6 DEF MemNext
<1>4. QED
  BY <1>1, <1>2, <1>3 DEF memvars

\* What main's sink records of a dispatch whose block is intact (ReadKernargSize,
\* ScanKernargFootprint) is the buffers it was given, with the size its descriptor
\* declares exactly these, and what is missing is missing for a reason of that very
\* read, whatever the process does and however often an open fails.
THEOREM FootprintIsOwn == MemSpec => []FootprintRight
<1>1. MemInit => Inv /\ MemInv
  BY InitInv, InitMem DEF MemInit
<1>2. Inv /\ MemInv /\ [MemNext]_memvars => Inv' /\ MemInv'
  BY StepNames, StepMem DEF Inv
<1>3. MemInv => FootprintRight
  BY DEF MemInv
<1>4. QED
  BY <1>1, <1>2, <1>3, PTL DEF MemSpec

\* While footprints are taken, address spaces replaced and buffers remapped between
\* its steps, KernelSymbolResolver keeps both its guarantees on names.
THEOREM NamesRightThroughout ==
    MemSpec => [](NoFalseMatch /\ HexOnlyWhenAmbiguous)
<1>1. MemInit => Inv
  BY InitInv DEF MemInit
<1>2. Inv => NoFalseMatch /\ HexOnlyWhenAmbiguous
  BY DEF Inv
<1>3. QED
  BY <1>1, <1>2, StepNames, PTL DEF MemSpec
=============================================================================
