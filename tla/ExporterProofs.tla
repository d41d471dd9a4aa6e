---------------------------- MODULE ExporterProofs -----------------------------
(***************************************************************************)
(* The metrics a scrape sees, for any kernels and any number of calls.     *)
(*                                                                         *)
(* A call makes its updates in an order that never goes back: every update *)
(* has a rank, and a call is a sequence of rising rank.  So what is still  *)
(* to be done can be read off the set of the updates that are left.        *)
(***************************************************************************)
EXTENDS Exporter, SequenceTheorems, TLAPS

Counters == {"aql_queues", "sdma_queues", "errors", "launches", "durations",
             "barriers", "sdma_packets", "sdma_copies", "ais_ops", "ais_errors",
             "ais_latency", "ais_size", "xnack"}
Sums == {"sdma_bytes", "ais_bytes", "mapped_total"}
Flags == {"queue_info", "present", "triggered", "ais_active", "pcie_info"}
Gauges == {"last_ts", "lds", "scratch", "mapped"}
Names == Kernels \ {NoKernel}
QueueKinds == {"aql", "sdma"}

Updates ==
    {Inc(m, 1) : m \in Counters} \cup {Inc(m, n) : m \in Sums, n \in Nat}
      \cup {Set(m, 1) : m \in Flags} \cup {Set(m, n) : m \in Gauges, n \in Nat}
      \cup {Drop(k) : k \in Names} \cup {Show(k) : k \in Names} \cup {Launched}
      \cup {Know(kind) : kind \in QueueKinds}

Rank(u) ==
    CASE u.op = "know" -> 1
      [] u.op = "remove" -> 4
      [] u.op = "add" -> 5
      [] u.op = "event" -> 7
      [] u.op \in {"inc", "set"} ->
           CASE u.m \in {"errors", "launches", "sdma_packets", "ais_active", "xnack",
                         "lds"} -> 1
             [] u.m \in {"queue_info", "durations", "sdma_copies", "pcie_info",
                         "scratch"} -> 2
             [] u.m \in {"present", "aql_queues", "last_ts", "sdma_bytes", "ais_ops",
                         "mapped"} -> 3
             [] u.m \in {"sdma_queues", "ais_bytes", "mapped_total"} -> 4
             [] u.m = "ais_errors" -> 5
             [] u.m \in {"triggered", "ais_latency"} -> 6
             [] u.m = "ais_size" -> 7
             [] u.m = "barriers" -> 8

\* The updates of s have rising ranks, from a to below b.
Ranked(s, a, b) ==
    /\ s \in Seq(Updates)
    /\ \A i \in 1 .. Len(s) : a <= Rank(s[i]) /\ Rank(s[i]) < b
    /\ \A i, j \in 1 .. Len(s) : i < j => Rank(s[i]) < Rank(s[j])

\* The updates a call has still to make.
Pending == Range(todo)

Typed ==
    /\ value \in [Metrics -> Nat] /\ now \in Nat
    /\ last_kernel \in Names \cup {NoKernel}
    /\ Ranked(todo, 1, 9)
    /\ known \subseteq QueueKinds

\* Only the holder of meta_mu_ has updates to make.
HolderInv ==
    /\ todo # <<>> => meta_mu \in Threads
    /\ rater = "set" => meta_mu = "rate"

\* A count that bounds another is ahead of it, or is updated before it.
CountInv ==
    /\ value["sdma_copies"] <= value["sdma_packets"]
    /\ Inc("sdma_copies", 1) \in Pending =>
          \/ value["sdma_copies"] < value["sdma_packets"]
          \/ Inc("sdma_packets", 1) \in Pending

AisInv ==
    /\ value["ais_ops"] > 0 => value["ais_active"] > 0
    /\ Inc("ais_ops", 1) \in Pending =>
          value["ais_active"] > 0 \/ Set("ais_active", 1) \in Pending

\* A known queue is shown as soon as the call that registers it is over, and its
\* packets are counted after that.
AqlInv ==
    /\ "aql" \in known => value["aql_queues"] > 0 \/ Inc("aql_queues", 1) \in Pending
    /\ Know("aql") \in Pending => Inc("aql_queues", 1) \in Pending
    /\ Inc("launches", 1) \in Pending \/ Inc("barriers", 1) \in Pending
          => value["aql_queues"] > 0
    /\ value["launches"] > 0 \/ value["barriers"] > 0 => value["aql_queues"] > 0

SdmaInv ==
    /\ "sdma" \in known =>
          /\ value["sdma_queues"] > 0 \/ Inc("sdma_queues", 1) \in Pending
          /\ value["present"] > 0 \/ Set("present", 1) \in Pending
    /\ Know("sdma") \in Pending =>
          Inc("sdma_queues", 1) \in Pending /\ Set("present", 1) \in Pending
    /\ Inc("sdma_packets", 1) \in Pending =>
          value["sdma_queues"] > 0 /\ value["present"] > 0
    /\ value["sdma_packets"] > 0 => value["sdma_queues"] > 0 /\ value["present"] > 0

\* The series of the last kernel, or the gap between its removal and the next one.
KernelInv ==
    /\ \/ info = IF last_kernel = NoKernel THEN {} ELSE {last_kernel}
       \/ info = {} /\ \E k \in Names : Show(k) \in Pending
    /\ \A k \in Names : Drop(k) \in Pending =>
          k = last_kernel /\ \E j \in Names : Show(j) \in Pending
    /\ \A k \in Names : Show(k) \in Pending =>
          info = {} \/ (last_kernel # NoKernel /\ Drop(last_kernel) \in Pending)

MetricsInv == Typed /\ HolderInv /\ CountInv /\ AisInv /\ AqlInv /\ SdmaInv /\ KernelInv

\* The place of a family in a scrape.
Place == [m \in Collected |-> CHOOSE i \in 1 .. Len(Families) : Families[i] = m]

\* What a scrape has collected is no more than what the families it has still to
\* collect, and those it has collected after, show.
CollectedInv ==
    /\ next \in 0 .. Len(Families) + 1 /\ seen \in [Collected -> Nat]
    /\ seen["sdma_copies"] <= value["sdma_packets"]
    /\ next > Place["sdma_packets"] => seen["sdma_copies"] <= seen["sdma_packets"]
    /\ \A p \in Implied : seen[p[1]] > 0 => value[p[2]] > 0
    /\ \A p \in Implied : next > Place[p[2]] /\ seen[p[1]] > 0 => seen[p[2]] > 0
    /\ \A k1, k2 \in shown : k1 = k2

-----------------------------------------------------------------------------
(* Sequences of updates.                                                    *)

\* Every update has a rank.
LEMMA RankType == \A u \in Updates : Rank(u) \in 1 .. 8
<1> SUFFICES ASSUME NEW u \in Updates PROVE Rank(u) \in 1 .. 8
  OBVIOUS
<1>1. CASE \E m \in Counters : u = Inc(m, 1)
  BY <1>1 DEF Counters, Inc, Rank
<1>2. CASE \E m \in Sums, n \in Nat : u = Inc(m, n)
  BY <1>2 DEF Sums, Inc, Rank
<1>3. CASE \E m \in Flags : u = Set(m, 1)
  BY <1>3 DEF Flags, Set, Rank
<1>4. CASE \E m \in Gauges, n \in Nat : u = Set(m, n)
  BY <1>4 DEF Gauges, Set, Rank
<1>5. CASE (\E k \in Names : u = Drop(k) \/ u = Show(k)) \/ u = Launched \/ (\E kind \in QueueKinds : u = Know(kind))
  BY <1>5 DEF Drop, Show, Launched, Know, Rank
<1> QED
  BY <1>1, <1>2, <1>3, <1>4, <1>5 DEF Updates

LEMMA RankedNone ==
    ASSUME NEW a \in Nat, NEW b \in Nat
    PROVE  Ranked(<<>>, a, b) /\ Range(<<>>) = {}
BY DEF Ranked, Range

LEMMA RankedOne ==
    ASSUME NEW u \in Updates, NEW a \in Nat, NEW b \in Nat, a <= Rank(u), Rank(u) < b
    PROVE  Ranked(<<u>>, a, b) /\ Range(<<u>>) = {u}
<1>1. /\ <<u>> \in Seq(Updates) /\ Len(<<u>>) = 1 /\ <<u>>[1] = u
      /\ DOMAIN <<u>> = {1}
  OBVIOUS
<1>2. Range(<<u>>) = {u}
  BY <1>1 DEF Range
<1>3. \A i, j \in 1 .. 1 : ~(i < j)
  OBVIOUS
<1>4. \A i \in 1 .. 1 : i = 1
  OBVIOUS
<1> QED
  BY <1>1, <1>2, <1>3, <1>4 DEF Ranked

\* One call's parts after one another.
LEMMA RankedCat ==
    ASSUME NEW s, NEW t, NEW a \in Nat, NEW b \in Nat, NEW c \in Nat, a <= b, b <= c,
           Ranked(s, a, b), Ranked(t, b, c)
    PROVE  Ranked(s \o t, a, c) /\ Range(s \o t) = Range(s) \cup Range(t)
<1>1. s \in Seq(Updates) /\ t \in Seq(Updates) /\ Len(s) \in Nat /\ Len(t) \in Nat
  BY DEF Ranked
<1>2. Range(s \o t) = Range(s) \cup Range(t)
  BY <1>1, RangeConcatenation
<1>3. /\ s \o t \in Seq(Updates) /\ Len(s \o t) = Len(s) + Len(t)
      /\ \A i \in 1 .. Len(s) + Len(t) :
            (s \o t)[i] = IF i <= Len(s) THEN s[i] ELSE t[i - Len(s)]
  BY <1>1, ConcatProperties
<1>4. ASSUME NEW i \in 1 .. Len(s) + Len(t)
      PROVE  \/ i \in 1 .. Len(s) /\ (s \o t)[i] = s[i]
             \/ /\ i > Len(s) /\ i - Len(s) \in 1 .. Len(t)
                /\ (s \o t)[i] = t[i - Len(s)]
  BY <1>1, <1>3
<1>5. /\ \A i \in 1 .. Len(s) :
            Rank(s[i]) \in Nat /\ a <= Rank(s[i]) /\ Rank(s[i]) < b
      /\ \A i \in 1 .. Len(t) :
            Rank(t[i]) \in Nat /\ b <= Rank(t[i]) /\ Rank(t[i]) < c
  <2>1. \A i \in 1 .. Len(s) : s[i] \in Updates
    BY <1>1
  <2>2. \A i \in 1 .. Len(t) : t[i] \in Updates
    BY <1>1
  <2>3. \A u \in Updates : Rank(u) \in Nat
    BY RankType
  <2> QED
    BY <2>1, <2>2, <2>3 DEF Ranked
<1>6. ASSUME NEW i \in 1 .. Len(s) + Len(t)
      PROVE  a <= Rank((s \o t)[i]) /\ Rank((s \o t)[i]) < c
  BY <1>4, <1>5
<1>7. ASSUME NEW i \in 1 .. Len(s) + Len(t), NEW j \in 1 .. Len(s) + Len(t), i < j
      PROVE  Rank((s \o t)[i]) < Rank((s \o t)[j])
  <2>1. CASE i \in 1 .. Len(s) /\ j \in 1 .. Len(s)
    <3>1. (s \o t)[i] = s[i] /\ (s \o t)[j] = s[j]
      BY <1>1, <1>3, <2>1
    <3> QED
      BY <1>7, <2>1, <3>1 DEF Ranked
  <2>2. CASE i \in 1 .. Len(s) /\ j > Len(s)
    <3>1. /\ (s \o t)[i] = s[i] /\ (s \o t)[j] = t[j - Len(s)]
          /\ j - Len(s) \in 1 .. Len(t)
      BY <1>1, <1>3, <2>2
    <3> QED
      BY <1>5, <2>2, <3>1
  <2>3. CASE i > Len(s)
    <3>1. j > Len(s)
      BY <1>1, <1>7, <2>3
    <3>2. /\ (s \o t)[i] = t[i - Len(s)] /\ (s \o t)[j] = t[j - Len(s)]
          /\ i - Len(s) \in 1 .. Len(t) /\ j - Len(s) \in 1 .. Len(t)
      BY <1>1, <1>3, <2>3, <3>1
    <3>3. i - Len(s) < j - Len(s)
      BY <1>1, <1>7
    <3> QED
      BY <3>2, <3>3 DEF Ranked
  <2> QED
    BY <1>1, <2>1, <2>2, <2>3
<1> QED
  BY <1>2, <1>3, <1>6, <1>7 DEF Ranked

LEMMA RankedTwo ==
    ASSUME NEW u \in Updates, NEW v \in Updates, NEW a \in Nat, NEW b \in Nat,
           a <= Rank(u), Rank(u) < Rank(v), Rank(v) < b
    PROVE  Ranked(<<u, v>>, a, b) /\ Range(<<u, v>>) = {u, v}
<1>1. /\ <<u, v>> \in Seq(Updates) /\ Len(<<u, v>>) = 2
      /\ <<u, v>>[1] = u /\ <<u, v>>[2] = v /\ DOMAIN <<u, v>> = {1, 2}
  OBVIOUS
<1>2. Range(<<u, v>>) = {u, v}
  BY <1>1 DEF Range
<1>3. /\ \A i \in 1 .. 2 : i = 1 \/ i = 2
      /\ \A i, j \in 1 .. 2 : i < j => i = 1 /\ j = 2
  OBVIOUS
<1>4. /\ Rank(u) \in Nat /\ Rank(v) \in Nat /\ a <= Rank(u) /\ a <= Rank(v)
      /\ Rank(u) < b /\ Rank(v) < b
  <2>1. Rank(u) \in Nat /\ Rank(v) \in Nat
    BY RankType
  <2> QED
    BY <2>1
<1> QED
  BY <1>1, <1>2, <1>3, <1>4 DEF Ranked

\* The first update done, the others are left, all of higher rank.
LEMMA RankedTail ==
    ASSUME NEW s, NEW a \in Nat, NEW b \in Nat, Ranked(s, a, b), s # <<>>
    PROVE  /\ Head(s) \in Updates /\ Head(s) \in Range(s)
           /\ Ranked(Tail(s), a, b)
           /\ Range(Tail(s)) = Range(s) \ {Head(s)}
           /\ \A u \in Range(s) : u \in Updates
           /\ \A u \in Range(Tail(s)) : Rank(Head(s)) < Rank(u)
<1>1. /\ s \in Seq(Updates) /\ Len(s) \in Nat /\ Len(s) >= 1
      /\ DOMAIN s = 1 .. Len(s)
      /\ \A i \in 1 .. Len(s) : s[i] \in Updates
  <2>1. s \in Seq(Updates)
    BY DEF Ranked
  <2> QED
    BY <2>1
<1>2. Head(s) = s[1] /\ 1 \in 1 .. Len(s)
  BY <1>1
<1>3. /\ Tail(s) \in Seq(Updates) /\ Len(Tail(s)) = Len(s) - 1
      /\ \A i \in 1 .. Len(s) - 1 : Tail(s)[i] = s[i + 1]
  BY <1>1, HeadTailProperties
<1>4. DOMAIN Tail(s) = 1 .. Len(s) - 1
  <2>1. DOMAIN Tail(s) = 1 .. Len(Tail(s))
    BY <1>3
  <2> QED
    BY <1>3, <2>1
<1>5. ASSUME NEW i \in 1 .. Len(s) - 1
      PROVE  i + 1 \in 1 .. Len(s) /\ 1 < i + 1 /\ Tail(s)[i] = s[i + 1]
  BY <1>1, <1>3
<1>6. \A i \in 1 .. Len(s) - 1 : Rank(s[1]) < Rank(Tail(s)[i])
  BY <1>2, <1>5 DEF Ranked
<1>7. \A u \in Range(Tail(s)) : Rank(Head(s)) < Rank(u)
  BY <1>2, <1>4, <1>6 DEF Range
<1>8. Range(Tail(s)) = Range(s) \ {Head(s)}
  <2>1. ASSUME NEW u \in Range(Tail(s)) PROVE u \in Range(s) /\ u # Head(s)
    <3>1. u \in Range(s)
      BY <1>1, <1>4, <1>5 DEF Range
    <3>2. Rank(Head(s)) \in Nat /\ Rank(Head(s)) < Rank(u)
      BY <1>1, <1>2, <1>7, RankType
    <3> QED
      BY <3>1, <3>2
  <2>2. ASSUME NEW u \in Range(s), u # Head(s) PROVE u \in Range(Tail(s))
    <3>1. PICK i \in 1 .. Len(s) : u = s[i]
      BY <1>1 DEF Range
    <3>2. i - 1 \in 1 .. Len(s) - 1 /\ i - 1 + 1 = i
      BY <1>1, <1>2, <2>2, <3>1
    <3>3. Tail(s)[i - 1] = u
      BY <1>3, <3>1, <3>2
    <3> QED
      BY <1>4, <3>2, <3>3 DEF Range
  <2> QED
    BY <2>1, <2>2
<1>9. Ranked(Tail(s), a, b)
  <2>1. ASSUME NEW i \in 1 .. Len(s) - 1
        PROVE  a <= Rank(Tail(s)[i]) /\ Rank(Tail(s)[i]) < b
    BY <1>5 DEF Ranked
  <2>2. ASSUME NEW i \in 1 .. Len(s) - 1, NEW j \in 1 .. Len(s) - 1, i < j
        PROVE  Rank(Tail(s)[i]) < Rank(Tail(s)[j])
    <3>1. i + 1 < j + 1
      BY <2>2
    <3> QED
      BY <1>5, <3>1 DEF Ranked
  <2> QED
    BY <1>3, <2>1, <2>2 DEF Ranked
<1> QED
  BY <1>1, <1>2, <1>7, <1>8, <1>9 DEF Range

LEMMA RankedIf ==
    ASSUME NEW condition \in BOOLEAN, NEW s, NEW a \in Nat, NEW b \in Nat,
           Ranked(s, a, b)
    PROVE  /\ Ranked(If(condition, s), a, b)
           /\ Range(If(condition, s)) = IF condition THEN Range(s) ELSE {}
BY RankedNone DEF If

\* The ranks of the counters and flags.
LEMMA CounterRank ==
    ASSUME NEW m \in Counters
    PROVE  /\ Inc(m, 1) \in Updates
           /\ m \in {"errors", "launches", "sdma_packets", "xnack"} => Rank(Inc(m, 1)) = 1
           /\ m \in {"durations", "sdma_copies"} => Rank(Inc(m, 1)) = 2
           /\ m \in {"aql_queues", "ais_ops"} => Rank(Inc(m, 1)) = 3
           /\ m = "sdma_queues" => Rank(Inc(m, 1)) = 4
           /\ m = "ais_errors" => Rank(Inc(m, 1)) = 5
           /\ m = "ais_latency" => Rank(Inc(m, 1)) = 6
           /\ m = "ais_size" => Rank(Inc(m, 1)) = 7
           /\ m = "barriers" => Rank(Inc(m, 1)) = 8
<1>1. Inc(m, 1) \in Updates
  BY DEF Updates
<1> QED
  BY <1>1 DEF Inc, Rank

LEMMA FlagRank ==
    ASSUME NEW m \in Flags
    PROVE  /\ Set(m, 1) \in Updates
           /\ m = "ais_active" => Rank(Set(m, 1)) = 1
           /\ m \in {"queue_info", "pcie_info"} => Rank(Set(m, 1)) = 2
           /\ m = "present" => Rank(Set(m, 1)) = 3
           /\ m = "triggered" => Rank(Set(m, 1)) = 6
<1>1. Set(m, 1) \in Updates
  BY DEF Updates
<1> QED
  BY <1>1 DEF Set, Rank

LEMMA AmountRank ==
    ASSUME NEW n \in Nat
    PROVE  /\ Inc("sdma_bytes", n) \in Updates /\ Rank(Inc("sdma_bytes", n)) = 3
           /\ Inc("ais_bytes", n) \in Updates /\ Rank(Inc("ais_bytes", n)) = 4
           /\ Inc("mapped_total", n) \in Updates /\ Rank(Inc("mapped_total", n)) = 4
           /\ Set("lds", n) \in Updates /\ Rank(Set("lds", n)) = 1
           /\ Set("scratch", n) \in Updates /\ Rank(Set("scratch", n)) = 2
           /\ Set("last_ts", n) \in Updates /\ Rank(Set("last_ts", n)) = 3
           /\ Set("mapped", n) \in Updates /\ Rank(Set("mapped", n)) = 3
<1>1. /\ Inc("sdma_bytes", n) \in Updates /\ Inc("ais_bytes", n) \in Updates
      /\ Inc("mapped_total", n) \in Updates
  BY DEF Updates, Sums
<1>2. /\ Set("lds", n) \in Updates /\ Set("scratch", n) \in Updates
      /\ Set("last_ts", n) \in Updates /\ Set("mapped", n) \in Updates
  BY DEF Updates, Gauges
<1>3. /\ Rank(Inc("sdma_bytes", n)) = 3 /\ Rank(Inc("ais_bytes", n)) = 4
      /\ Rank(Inc("mapped_total", n)) = 4
  BY DEF Inc, Rank
<1>4. /\ Rank(Set("lds", n)) = 1 /\ Rank(Set("scratch", n)) = 2
      /\ Rank(Set("last_ts", n)) = 3 /\ Rank(Set("mapped", n)) = 3
  BY DEF Set, Rank
<1> QED
  BY <1>1, <1>2, <1>3, <1>4

LEMMA KernelRank ==
    /\ \A k \in Names : Drop(k) \in Updates /\ Rank(Drop(k)) = 4
    /\ \A k \in Names : Show(k) \in Updates /\ Rank(Show(k)) = 5
    /\ Launched \in Updates /\ Rank(Launched) = 7
    /\ \A kind \in QueueKinds : Know(kind) \in Updates /\ Rank(Know(kind)) = 1
<1>1. /\ \A k \in Names : Drop(k) \in Updates /\ Show(k) \in Updates
      /\ Launched \in Updates /\ \A kind \in QueueKinds : Know(kind) \in Updates
  BY DEF Updates
<1>2. \A k \in Names : Rank(Drop(k)) = 4 /\ Rank(Show(k)) = 5
  BY DEF Drop, Show, Rank
<1>3. Rank(Launched) = 7 /\ \A kind \in QueueKinds : Rank(Know(kind)) = 1
  BY DEF Launched, Know, Rank
<1> QED
  BY <1>1, <1>2, <1>3

-----------------------------------------------------------------------------
(* The calls.                                                              *)

\* What a set of updates must hold for the others in it to be in order.
Sound(p) ==
    /\ Inc("sdma_copies", 1) \in p => Inc("sdma_packets", 1) \in p
    /\ Inc("ais_ops", 1) \in p => Set("ais_active", 1) \in p
    /\ Know("aql") \in p => Inc("aql_queues", 1) \in p
    /\ Know("sdma") \in p => Inc("sdma_queues", 1) \in p /\ Set("present", 1) \in p
    /\ Inc("launches", 1) \in p \/ Inc("barriers", 1) \in p => "aql" \in known
    /\ Inc("sdma_packets", 1) \in p => "sdma" \in known
    /\ \A k \in Names : Drop(k) \in p => k = last_kernel /\ \E j \in Names : Show(j) \in p
    /\ \A k \in Names : Show(k) \in p /\ last_kernel # NoKernel =>
          Drop(last_kernel) \in p

LEMMA RegisterQueueSound ==
    ASSUME NEW kind \in QueueKinds
    PROVE  Ranked(RegisterQueue(kind), 1, 9) /\ Sound(Range(RegisterQueue(kind)))
<1> DEFINE rest == IF kind = "sdma" THEN <<Set("present", 1), Inc("sdma_queues", 1)>>
                                   ELSE <<Inc("aql_queues", 1)>>
           head == <<Know(kind), Set("queue_info", 1)>>
<1>1. Ranked(head, 1, 3) /\ Range(head) = {Know(kind), Set("queue_info", 1)}
  BY KernelRank, FlagRank, RankedTwo DEF Flags
<1>2. /\ Ranked(rest, 3, 9)
      /\ Range(rest) = IF kind = "sdma" THEN {Set("present", 1), Inc("sdma_queues", 1)}
                                        ELSE {Inc("aql_queues", 1)}
  <2>1. CASE kind = "sdma"
    BY <2>1, FlagRank, CounterRank, RankedTwo DEF Flags, Counters
  <2>2. CASE kind # "sdma"
    BY <2>2, CounterRank, RankedOne DEF Counters
  <2> QED
    BY <2>1, <2>2
<1> HIDE DEF head, rest
<1>3. RegisterQueue(kind) = head \o rest
  BY DEF RegisterQueue, head, rest
<1>4. Ranked(head \o rest, 1, 9) /\ Range(head \o rest) = Range(head) \cup Range(rest)
  BY <1>1, <1>2, RankedCat
<1> DEFINE p == Range(RegisterQueue(kind))
<1>5. p = {Know(kind), Set("queue_info", 1)} \cup Range(rest)
  BY <1>1, <1>3, <1>4
<1> HIDE DEF p
<1>6. CASE kind = "sdma"
  BY <1>2, <1>3, <1>4, <1>5, <1>6 DEF Sound, Know, Set, Inc, Drop, Show, p
<1>7. CASE kind = "aql"
  <2>1. p = {Know("aql"), Set("queue_info", 1), Inc("aql_queues", 1)}
    BY <1>2, <1>5, <1>7
  <2>2. Sound(p)
    BY <2>1 DEF Sound, Know, Set, Inc, Drop, Show
  <2> QED
    BY <1>3, <1>4, <2>2 DEF p
<1> QED
  BY <1>6, <1>7 DEF QueueKinds

\* A call that finds no queue, and XNACK: one counter.
LEMMA OneCounterSound ==
    ASSUME NEW m \in {"errors", "xnack"}
    PROVE  Ranked(<<Inc(m, 1)>>, 1, 9) /\ Sound(Range(<<Inc(m, 1)>>))
<1>1. Ranked(<<Inc(m, 1)>>, 1, 9) /\ Range(<<Inc(m, 1)>>) = {Inc(m, 1)}
  BY CounterRank, RankedOne DEF Counters
<1> QED
  BY <1>1 DEF Sound, Set, Inc, Drop, Show, Know

\* A dispatch: launches before durations and triggered, the old kernel's series
\* removed before the new one's is added.
LEMMA AddPacketSound ==
    ASSUME Typed, NEW k \in Kernels \cup {NoKernel}, NEW timed \in BOOLEAN,
           NEW barrier \in BOOLEAN
    PROVE  /\ Ranked(AddPacket(k, timed, barrier), 1, 9)
           /\ Sound(Range(AddPacket(k, timed, barrier)))
<1> DEFINE launch == <<Inc("launches", 1)>>
           time == If(timed, <<Inc("durations", 1)>>)
           stamp == <<Set("last_ts", now)>>
           old == If(last_kernel # NoKernel, <<Drop(last_kernel)>>)
           series == If(k # last_kernel, old \o <<Show(k)>>)
           end == <<Set("triggered", 1), Launched>>
           dispatch == launch \o time \o stamp \o series \o end
           block == If(k # NoKernel, dispatch)
           wait == If(barrier, <<Inc("barriers", 1)>>)
<1>1. CASE "aql" \notin known
  BY <1>1, OneCounterSound DEF AddPacket
<1>2. CASE "aql" \in known
  <2>1. AddPacket(k, timed, barrier) = block \o wait
    BY <1>2 DEF AddPacket
  <2>2. Ranked(launch, 1, 2) /\ Range(launch) = {Inc("launches", 1)}
    BY CounterRank, RankedOne DEF Counters
  <2>3. Ranked(time, 2, 3) /\ Range(time) \subseteq {Inc("durations", 1)}
    BY CounterRank, RankedOne, RankedIf DEF Counters
  <2>4. Ranked(stamp, 3, 4) /\ Range(stamp) = {Set("last_ts", now)}
    BY AmountRank, RankedOne DEF Typed
  <2>5. Ranked(end, 6, 8) /\ Range(end) = {Set("triggered", 1), Launched}
    <3>1. Set("triggered", 1) \in Updates /\ Rank(Set("triggered", 1)) = 6
      BY FlagRank DEF Flags
    <3>2. Launched \in Updates /\ Rank(Launched) = 7
      BY KernelRank
    <3>3. /\ 6 \in Nat /\ 8 \in Nat /\ 6 <= Rank(Set("triggered", 1))
          /\ Rank(Set("triggered", 1)) < Rank(Launched) /\ Rank(Launched) < 8
      BY <3>1, <3>2
    <3> QED
      BY <3>1, <3>2, <3>3, RankedTwo, Zenon
  <2>6. Ranked(wait, 8, 9) /\ Range(wait) \subseteq {Inc("barriers", 1)}
    BY CounterRank, RankedOne, RankedIf DEF Counters
  <2>7. CASE k = NoKernel
    <3>1. Ranked(block, 1, 8) /\ Range(block) = {}
      BY <2>7, RankedNone DEF If
    <3> HIDE DEF block, wait
    <3>2. Ranked(block \o wait, 1, 9) /\ Range(block \o wait) = Range(block) \cup Range(wait)
      BY <2>6, <3>1, RankedCat
    <3>3. Range(block \o wait) \subseteq {Inc("barriers", 1)}
      BY <2>6, <3>1, <3>2
    <3> QED
      BY <1>2, <2>1, <3>2, <3>3 DEF Sound, Set, Inc, Drop, Show, Know
  <2>8. CASE k # NoKernel
    <3>1. k \in Names
      BY <2>8 DEF Names
    <3>2. /\ Ranked(old, 4, 5)
          /\ Range(old) = IF last_kernel # NoKernel THEN {Drop(last_kernel)} ELSE {}
      <4>1. CASE last_kernel # NoKernel
        <5>1. last_kernel \in Names
          BY <4>1 DEF Typed
        <5> QED
          BY <4>1, <5>1, KernelRank, RankedOne DEF If
      <4>2. CASE last_kernel = NoKernel
        BY <4>2, RankedNone DEF If
      <4> QED
        BY <4>1, <4>2
    <3>3. Ranked(<<Show(k)>>, 5, 6) /\ Range(<<Show(k)>>) = {Show(k)}
      BY <3>1, KernelRank, RankedOne
    <3> HIDE DEF launch, time, stamp, old, end, wait
    <3>4. /\ Ranked(old \o <<Show(k)>>, 4, 6)
          /\ Range(old \o <<Show(k)>>) = Range(old) \cup {Show(k)}
      BY <3>2, <3>3, RankedCat
    <3>5. /\ Ranked(series, 4, 6)
          /\ Range(series) = IF k # last_kernel THEN Range(old) \cup {Show(k)} ELSE {}
      BY <3>4, RankedIf
    <3> HIDE DEF series
    <3>6. /\ Ranked(launch \o time, 1, 3)
          /\ Range(launch \o time) = Range(launch) \cup Range(time)
      BY <2>2, <2>3, RankedCat
    <3>7. /\ Ranked(launch \o time \o stamp, 1, 4)
          /\ Range(launch \o time \o stamp) = Range(launch \o time) \cup Range(stamp)
      BY <2>4, <3>6, RankedCat
    <3>8. /\ Ranked(launch \o time \o stamp \o series, 1, 6)
          /\ Range(launch \o time \o stamp \o series)
                = Range(launch \o time \o stamp) \cup Range(series)
      BY <3>5, <3>7, RankedCat
    <3>9. /\ Ranked(dispatch, 1, 8)
          /\ Range(dispatch) = Range(launch \o time \o stamp \o series) \cup Range(end)
      BY <2>5, <3>8, RankedCat
    <3>10. block = dispatch
      BY <2>8 DEF If
    <3> HIDE DEF dispatch, block
    <3>11. /\ Ranked(block \o wait, 1, 9)
           /\ Range(block \o wait) = Range(block) \cup Range(wait)
      BY <2>6, <3>9, <3>10, RankedCat
    <3> DEFINE p == Range(block \o wait)
    <3>12. /\ Inc("launches", 1) \in p
           /\ p \subseteq {Inc("launches", 1), Inc("durations", 1), Set("last_ts", now),
                           Set("triggered", 1), Launched, Inc("barriers", 1)}
                             \cup Range(series)
           /\ Range(series) \subseteq p
      BY <2>2, <2>3, <2>4, <2>5, <2>6, <3>6, <3>7, <3>8, <3>9, <3>10, <3>11
    <3>13. Sound(p)
      <4> HIDE DEF p
      <4>1. /\ Inc("sdma_copies", 1) \notin p /\ Inc("ais_ops", 1) \notin p
            /\ Inc("sdma_packets", 1) \notin p
            /\ Know("aql") \notin p /\ Know("sdma") \notin p
        BY <3>2, <3>5, <3>12 DEF Set, Inc, Drop, Show, Launched, Know
      <4>2. ASSUME NEW j \in Names, Drop(j) \in p
            PROVE  j = last_kernel /\ Show(k) \in p
        <5>1. Drop(j) \in Range(series)
          BY <3>12, <4>2 DEF Set, Inc, Drop, Launched
        <5>2. k # last_kernel /\ Show(k) \in p
          BY <3>5, <3>12, <5>1
        <5>3. last_kernel # NoKernel /\ Drop(j) = Drop(last_kernel)
          BY <3>2, <3>5, <5>1 DEF Drop, Show
        <5> QED
          BY <5>2, <5>3 DEF Drop
      <4>3. ASSUME NEW j \in Names, Show(j) \in p, last_kernel # NoKernel
            PROVE  Drop(last_kernel) \in p
        <5>1. Show(j) \in Range(series)
          BY <3>12, <4>3 DEF Set, Inc, Show, Launched
        <5> QED
          BY <3>2, <3>5, <3>12, <4>3, <5>1
      <4> QED
        BY <1>2, <3>1, <3>12, <4>1, <4>2, <4>3 DEF Sound
    <3> QED
      BY <2>1, <3>11, <3>13
  <2> QED
    BY <2>7, <2>8
<1> QED
  BY <1>1, <1>2

LEMMA AddSdmaSound ==
    ASSUME NEW copy \in BOOLEAN, NEW bytes \in Nat
    PROVE  Ranked(AddSdma(copy, bytes), 1, 9) /\ Sound(Range(AddSdma(copy, bytes)))
<1> DEFINE packet == <<Inc("sdma_packets", 1)>>
           moved == <<Inc("sdma_copies", 1), Inc("sdma_bytes", bytes)>>
           rest == If(copy, moved)
<1>1. CASE "sdma" \notin known
  BY <1>1, OneCounterSound DEF AddSdma
<1>2. CASE "sdma" \in known
  <2>1. AddSdma(copy, bytes) = packet \o rest
    BY <1>2 DEF AddSdma
  <2>2. Ranked(packet, 1, 2) /\ Range(packet) = {Inc("sdma_packets", 1)}
    BY CounterRank, RankedOne DEF Counters
  <2>3. /\ Ranked(moved, 2, 9)
        /\ Range(moved) = {Inc("sdma_copies", 1), Inc("sdma_bytes", bytes)}
    <3>1. Inc("sdma_copies", 1) \in Updates /\ Rank(Inc("sdma_copies", 1)) = 2
      BY CounterRank DEF Counters
    <3>2. Inc("sdma_bytes", bytes) \in Updates /\ Rank(Inc("sdma_bytes", bytes)) = 3
      BY AmountRank
    <3>3. /\ 2 \in Nat /\ 9 \in Nat /\ 2 <= Rank(Inc("sdma_copies", 1))
          /\ Rank(Inc("sdma_copies", 1)) < Rank(Inc("sdma_bytes", bytes))
          /\ Rank(Inc("sdma_bytes", bytes)) < 9
      BY <3>1, <3>2
    <3> QED
      BY <3>1, <3>2, <3>3, RankedTwo, Zenon
  <2> HIDE DEF packet, moved
  <2>4. Ranked(rest, 2, 9) /\ Range(rest) \subseteq Range(moved)
    BY <2>3, RankedIf
  <2> HIDE DEF rest
  <2>5. Ranked(packet \o rest, 1, 9) /\ Range(packet \o rest) = Range(packet) \cup Range(rest)
    BY <2>2, <2>4, RankedCat
  <2>6. /\ Inc("sdma_packets", 1) \in Range(packet \o rest)
        /\ Range(packet \o rest) \subseteq
              {Inc("sdma_packets", 1), Inc("sdma_copies", 1), Inc("sdma_bytes", bytes)}
    BY <2>2, <2>3, <2>4, <2>5
  <2> QED
    BY <1>2, <2>1, <2>5, <2>6 DEF Sound, Set, Inc, Drop, Show, Know
<1> QED
  BY <1>1, <1>2

\* An AIS record: the flag before the operations, the operations before the bytes.
LEMMA AddAisSound ==
    ASSUME NEW device \in BOOLEAN, NEW error \in BOOLEAN, NEW size \in Nat
    PROVE  Ranked(AddAis(device, error, size), 1, 9) /\ Sound(Range(AddAis(device, error, size)))
<1> DEFINE s1 == <<Set("ais_active", 1)>>
           s2 == If(device, <<Set("pcie_info", 1)>>)
           s3 == <<Inc("ais_ops", 1)>>
           s4 == If(~error /\ size > 0, <<Inc("ais_bytes", size)>>)
           s5 == If(error, <<Inc("ais_errors", 1)>>)
           s6 == <<Inc("ais_latency", 1)>>
           s7 == If(size > 0, <<Inc("ais_size", 1)>>)
<1>1. AddAis(device, error, size) = s1 \o s2 \o s3 \o s4 \o s5 \o s6 \o s7
  BY DEF AddAis
<1>2. Ranked(s1, 1, 2) /\ Range(s1) = {Set("ais_active", 1)}
  BY FlagRank, RankedOne DEF Flags
<1>3. Ranked(s2, 2, 3) /\ Range(s2) \subseteq {Set("pcie_info", 1)}
  BY FlagRank, RankedOne, RankedIf DEF Flags
<1>4. Ranked(s3, 3, 4) /\ Range(s3) = {Inc("ais_ops", 1)}
  BY CounterRank, RankedOne DEF Counters
<1>5. Ranked(s4, 4, 5) /\ Range(s4) \subseteq {Inc("ais_bytes", size)}
  <2>1. Ranked(<<Inc("ais_bytes", size)>>, 4, 5)
        /\ Range(<<Inc("ais_bytes", size)>>) = {Inc("ais_bytes", size)}
    <3>1. Inc("ais_bytes", size) \in Updates /\ Rank(Inc("ais_bytes", size)) = 4
      BY AmountRank
    <3>2. /\ 4 \in Nat /\ 5 \in Nat /\ 4 <= Rank(Inc("ais_bytes", size))
          /\ Rank(Inc("ais_bytes", size)) < 5
      BY <3>1
    <3> QED
      BY <3>1, <3>2, RankedOne, Zenon
  <2> QED
    BY <2>1, RankedNone DEF If
<1>6. Ranked(s5, 5, 6) /\ Range(s5) \subseteq {Inc("ais_errors", 1)}
  BY CounterRank, RankedOne, RankedIf DEF Counters
<1>7. Ranked(s6, 6, 7) /\ Range(s6) = {Inc("ais_latency", 1)}
  BY CounterRank, RankedOne DEF Counters
<1>8. Ranked(s7, 7, 9) /\ Range(s7) \subseteq {Inc("ais_size", 1)}
  <2>1. Ranked(<<Inc("ais_size", 1)>>, 7, 9)
        /\ Range(<<Inc("ais_size", 1)>>) = {Inc("ais_size", 1)}
    BY CounterRank, RankedOne DEF Counters
  <2> QED
    BY <2>1, RankedNone DEF If
<1> HIDE DEF s1, s2, s3, s4, s5, s6, s7
<1>9. Ranked(s1 \o s2, 1, 3) /\ Range(s1 \o s2) = Range(s1) \cup Range(s2)
  BY <1>2, <1>3, RankedCat
<1>10. /\ Ranked(s1 \o s2 \o s3, 1, 4)
       /\ Range(s1 \o s2 \o s3) = Range(s1 \o s2) \cup Range(s3)
  BY <1>4, <1>9, RankedCat
<1>11. /\ Ranked(s1 \o s2 \o s3 \o s4, 1, 5)
       /\ Range(s1 \o s2 \o s3 \o s4) = Range(s1 \o s2 \o s3) \cup Range(s4)
  BY <1>5, <1>10, RankedCat
<1>12. /\ Ranked(s1 \o s2 \o s3 \o s4 \o s5, 1, 6)
       /\ Range(s1 \o s2 \o s3 \o s4 \o s5) = Range(s1 \o s2 \o s3 \o s4) \cup Range(s5)
  BY <1>6, <1>11, RankedCat
<1>13. /\ Ranked(s1 \o s2 \o s3 \o s4 \o s5 \o s6, 1, 7)
       /\ Range(s1 \o s2 \o s3 \o s4 \o s5 \o s6)
             = Range(s1 \o s2 \o s3 \o s4 \o s5) \cup Range(s6)
  BY <1>7, <1>12, RankedCat
<1> DEFINE c == AddAis(device, error, size)
<1>14. /\ Ranked(c, 1, 9)
       /\ Range(c) = Range(s1 \o s2 \o s3 \o s4 \o s5 \o s6) \cup Range(s7)
  <2>1. /\ Ranked(s1 \o s2 \o s3 \o s4 \o s5 \o s6 \o s7, 1, 9)
        /\ Range(s1 \o s2 \o s3 \o s4 \o s5 \o s6 \o s7)
              = Range(s1 \o s2 \o s3 \o s4 \o s5 \o s6) \cup Range(s7)
    BY <1>8, <1>13, RankedCat
  <2> QED
    BY <1>1, <2>1
<1>15. /\ Set("ais_active", 1) \in Range(c) /\ Inc("ais_ops", 1) \in Range(c)
       /\ Range(c) \subseteq {Set("ais_active", 1), Set("pcie_info", 1), Inc("ais_ops", 1),
                              Inc("ais_bytes", size), Inc("ais_errors", 1),
                              Inc("ais_latency", 1), Inc("ais_size", 1)}
  BY <1>2, <1>3, <1>4, <1>5, <1>6, <1>7, <1>8, <1>9, <1>10, <1>11, <1>12, <1>13, <1>14
<1> HIDE DEF c
<1>16. Sound(Range(c))
  BY <1>15 DEF Sound, Set, Inc, Drop, Show, Know
<1> QED
  BY <1>14, <1>16 DEF c

LEMMA AddMemSound ==
    ASSUME NEW lds \in Nat, NEW valid \in BOOLEAN, NEW bytes \in Nat
    PROVE  Ranked(AddMem(lds, valid, bytes), 1, 9) /\ Sound(Range(AddMem(lds, valid, bytes)))
<1> DEFINE sizes == <<Set("lds", lds), Set("scratch", lds)>>
           map == <<Set("mapped", bytes), Inc("mapped_total", bytes)>>
           rest == If(valid, map)
<1>1. AddMem(lds, valid, bytes) = sizes \o rest
  BY DEF AddMem
<1>2. Ranked(sizes, 1, 3) /\ Range(sizes) = {Set("lds", lds), Set("scratch", lds)}
  <2>1. /\ Set("lds", lds) \in Updates /\ Rank(Set("lds", lds)) = 1
        /\ Set("scratch", lds) \in Updates /\ Rank(Set("scratch", lds)) = 2
    BY AmountRank
  <2> QED
    BY <2>1, RankedTwo
<1>3. Ranked(map, 3, 9) /\ Range(map) = {Set("mapped", bytes), Inc("mapped_total", bytes)}
  <2>1. /\ Set("mapped", bytes) \in Updates /\ Rank(Set("mapped", bytes)) = 3
        /\ Inc("mapped_total", bytes) \in Updates /\ Rank(Inc("mapped_total", bytes)) = 4
    BY AmountRank
  <2>2. /\ 3 \in Nat /\ 9 \in Nat /\ 3 <= Rank(Set("mapped", bytes))
        /\ Rank(Set("mapped", bytes)) < Rank(Inc("mapped_total", bytes))
        /\ Rank(Inc("mapped_total", bytes)) < 9
    BY <2>1
  <2> QED
    BY <2>1, <2>2, RankedTwo, Zenon
<1> HIDE DEF sizes, map
<1>4. Ranked(rest, 3, 9) /\ Range(rest) \subseteq Range(map)
  BY <1>3, RankedIf
<1> HIDE DEF rest
<1>5. Ranked(sizes \o rest, 1, 9) /\ Range(sizes \o rest) = Range(sizes) \cup Range(rest)
  BY <1>2, <1>4, RankedCat
<1>6. Range(sizes \o rest) \subseteq {Set("lds", lds), Set("scratch", lds),
                                     Set("mapped", bytes), Inc("mapped_total", bytes)}
  BY <1>2, <1>3, <1>4, <1>5
<1>7. Sound(Range(sizes \o rest))
  BY <1>6 DEF Sound, Set, Inc, Drop, Show, Know
<1> QED
  BY <1>1, <1>5, <1>7

LEMMA CallsSound ==
    ASSUME Typed, NEW t \in Threads, NEW c \in Calls(t)
    PROVE  Ranked(c, 1, 9) /\ Sound(Range(c))
<1>1. CASE t = "discovery"
  <2>1. PICK kind \in QueueKinds : c = RegisterQueue(kind)
    BY <1>1 DEF Calls, QueueKinds
  <2> QED
    BY <2>1, RegisterQueueSound
<1>2. CASE t = "parser"
  <2>1. \/ \E k \in Kernels \cup {NoKernel}, timed \in BOOLEAN, barrier \in BOOLEAN :
              c = AddPacket(k, timed, barrier)
        \/ \E copy \in BOOLEAN : c = AddSdma(copy, 1)
        \/ \E lds \in {1}, valid \in BOOLEAN, bytes \in {1} : c = AddMem(lds, valid, bytes)
    <3>1. \/ \E k \in Kernels \cup {NoKernel}, bits \in PacketBits :
                c = AddPacket(k, bits[1], bits[2])
          \/ \E copy \in BOOLEAN : c = AddSdma(copy, 1)
          \/ \E lds \in {1}, valid \in BOOLEAN, bytes \in {1} :
                c = AddMem(lds, valid, bytes)
      BY <1>2 DEF Calls
    <3>2. \A bits \in PacketBits : bits[1] \in BOOLEAN /\ bits[2] \in BOOLEAN
      BY PacketAssumption
    <3> QED
      BY <3>1, <3>2
  <2> QED
    BY <2>1, AddPacketSound, AddSdmaSound, AddMemSound
<1>3. CASE t = "ais"
  <2>1. c = AddAis(FALSE, FALSE, 0) \/ c = AddAis(TRUE, FALSE, 1)
    <3>1. Calls("ais") = {AddAis(FALSE, FALSE, 0), AddAis(TRUE, FALSE, 1)}
      BY DEF Calls
    <3> QED
      BY <1>3, <3>1, Zenon
  <2> QED
    BY <2>1, AddAisSound
<1>4. CASE t = "xnack"
  <2>1. c = <<Inc("xnack", 1)>>
    BY <1>4 DEF Calls, AddXnack
  <2> QED
    BY <2>1, OneCounterSound
<1> QED
  BY <1>1, <1>2, <1>3, <1>4 DEF Threads

-----------------------------------------------------------------------------
(* One update.                                                             *)

\* Which updates change a metric.
LEMMA OfMetric ==
    ASSUME NEW u \in Updates
    PROVE  /\ u.op \in {"inc", "set", "remove", "add", "event", "know"}
           /\ u.op \in {"inc", "set"} => u.m \in Metrics /\ u.n \in Nat
           /\ u.op \in {"inc", "set"} /\ u.m \in Counters => u = Inc(u.m, 1)
           /\ u.op \in {"inc", "set"} /\ u.m \in Flags => u = Set(u.m, 1)
           /\ u.op = "know" => u.m \in QueueKinds /\ u = Know(u.m)
           /\ u.op = "remove" => u.m \in Names /\ u = Drop(u.m)
           /\ u.op = "add" => u.m \in Names /\ u = Show(u.m)
<1>1. CASE \E m \in Counters : u = Inc(m, 1)
  BY <1>1 DEF Counters, Flags, Inc, Set, Metrics
<1>2. CASE \E m \in Sums, n \in Nat : u = Inc(m, n)
  BY <1>2 DEF Sums, Counters, Flags, Inc, Set, Metrics
<1>3. CASE \E m \in Flags : u = Set(m, 1)
  BY <1>3 DEF Flags, Counters, Inc, Set, Metrics
<1>4. CASE \E m \in Gauges, n \in Nat : u = Set(m, n)
  BY <1>4 DEF Gauges, Flags, Counters, Inc, Set, Metrics
<1>5. CASE (\E k \in Names : u = Drop(k) \/ u = Show(k)) \/ u = Launched \/ (\E kind \in QueueKinds : u = Know(kind))
  BY <1>5 DEF Drop, Show, Launched, Know, QueueKinds
<1> QED
  BY <1>1, <1>2, <1>3, <1>4, <1>5 DEF Updates

\* What is left, and what the first pending update does.
LEMMA UpdateFacts ==
    ASSUME Typed, Update, NEW h, h = Head(todo)
    PROVE  /\ h \in Updates /\ h \in Pending /\ todo # <<>>
           /\ Ranked(todo', 1, 9)
           /\ Pending' = Pending \ {h}
           /\ \A u \in Pending' : Rank(h) < Rank(u)
           /\ value' \in [Metrics -> Nat]
           /\ \A m \in Counters :
                 \/ h = Inc(m, 1) /\ value'[m] = value[m] + 1
                 \/ h # Inc(m, 1) /\ value'[m] = value[m]
           /\ \A m \in Flags :
                 \/ h = Set(m, 1) /\ value'[m] = 1
                 \/ h # Set(m, 1) /\ value'[m] = value[m]
<1>1. todo # <<>> /\ todo' = Tail(todo) /\ Ranked(todo, 1, 9)
  BY DEF Typed, Update
<1>2. /\ h \in Updates /\ h \in Pending
      /\ Ranked(todo', 1, 9) /\ Pending' = Pending \ {h}
      /\ \A u \in Pending' : Rank(h) < Rank(u)
  BY <1>1, RankedTail DEF Pending
<1>3. value' = CASE h.op = "inc" -> [value EXCEPT ![h.m] = @ + h.n]
                 [] h.op = "set" -> [value EXCEPT ![h.m] = h.n]
                 [] OTHER -> value
  BY DEF Update
<1>4. value \in [Metrics -> Nat]
  BY DEF Typed
<1>5. /\ h.op \in {"inc", "set", "remove", "add", "event", "know"}
      /\ h.op \in {"inc", "set"} => h.m \in Metrics /\ h.n \in Nat
      /\ h.op \in {"inc", "set"} /\ h.m \in Counters => h = Inc(h.m, 1)
      /\ h.op \in {"inc", "set"} /\ h.m \in Flags => h = Set(h.m, 1)
  BY <1>2, OfMetric
<1>6. value' \in [Metrics -> Nat]
  BY <1>3, <1>4, <1>5
<1>7. ASSUME NEW m \in Metrics
      PROVE  /\ h.op = "inc" /\ h.m = m => value'[m] = value[m] + h.n
             /\ h.op = "set" /\ h.m = m => value'[m] = h.n
             /\ ~(h.op \in {"inc", "set"} /\ h.m = m) => value'[m] = value[m]
  BY <1>3, <1>4, <1>5
<1>8. ASSUME NEW m \in Counters
      PROVE  \/ h = Inc(m, 1) /\ value'[m] = value[m] + 1
             \/ h # Inc(m, 1) /\ value'[m] = value[m]
  <2>1. m \in Metrics
    BY DEF Counters, Metrics
  <2>2. Inc(m, 1).op = "inc" /\ Inc(m, 1).m = m /\ Inc(m, 1).n = 1
    BY DEF Inc
  <2> QED
    BY <1>5, <1>7, <2>1, <2>2
<1>9. ASSUME NEW m \in Flags
      PROVE  \/ h = Set(m, 1) /\ value'[m] = 1
             \/ h # Set(m, 1) /\ value'[m] = value[m]
  <2>1. m \in Metrics
    BY DEF Flags, Metrics
  <2>2. Set(m, 1).op = "set" /\ Set(m, 1).m = m /\ Set(m, 1).n = 1
    BY DEF Set
  <2> QED
    BY <1>5, <1>7, <2>1, <2>2
<1> QED
  BY <1>1, <1>2, <1>6, <1>8, <1>9

LEMMA UpdateKeeps == MetricsInv /\ Update => MetricsInv'
<1> SUFFICES ASSUME MetricsInv, Update PROVE MetricsInv'
  OBVIOUS
<1> DEFINE h == Head(todo)
<1>1. Typed /\ HolderInv /\ CountInv /\ AisInv /\ AqlInv /\ SdmaInv /\ KernelInv
  BY DEF MetricsInv
<1>2. /\ h \in Updates /\ h \in Pending /\ todo # <<>>
      /\ Ranked(todo', 1, 9)
      /\ Pending' = Pending \ {h}
      /\ \A u \in Pending' : Rank(h) < Rank(u)
      /\ value' \in [Metrics -> Nat]
      /\ \A m \in Counters :
            \/ h = Inc(m, 1) /\ value'[m] = value[m] + 1
            \/ h # Inc(m, 1) /\ value'[m] = value[m]
      /\ \A m \in Flags :
            \/ h = Set(m, 1) /\ value'[m] = 1
            \/ h # Set(m, 1) /\ value'[m] = value[m]
  BY <1>1, UpdateFacts
<1>3. /\ last_kernel' = IF h.op = "add" THEN h.m ELSE last_kernel
      /\ info' = CASE h.op = "remove" -> info \ {h.m}
                   [] h.op = "add" -> info \cup {h.m}
                   [] OTHER -> info
      /\ UNCHANGED <<now, rater>>
      /\ known' = IF h.op = "know" THEN known \cup {h.m} ELSE known
      /\ todo' = Tail(todo)
      /\ meta_mu' = IF Len(todo) = 1 THEN "free" ELSE meta_mu
  BY DEF Update, rates
<1>4. /\ h.op \in {"inc", "set", "remove", "add", "event", "know"}
      /\ h.op = "remove" => h.m \in Names /\ h = Drop(h.m)
      /\ h.op = "add" => h.m \in Names /\ h = Show(h.m)
      /\ h.op = "know" => h.m \in QueueKinds /\ h = Know(h.m)
  BY <1>2, OfMetric
<1>5. HolderInv'
  <2>1. todo \in Seq(Updates)
    BY <1>1 DEF Typed, Ranked
  <2>2. meta_mu \in Threads /\ rater # "set"
    BY <1>1, <1>2 DEF HolderInv, Threads
  <2>3. todo' # <<>> => Len(todo) # 1
    BY <1>2, <1>3, <2>1
  <2> QED
    BY <1>3, <2>2, <2>3 DEF HolderInv
<1> HIDE DEF h
<1>6. Typed'
  BY <1>1, <1>2, <1>3, <1>4 DEF Typed
<1>7. \A m \in Counters \cup Flags : value[m] \in Nat
  BY <1>1 DEF Typed, Metrics, Counters, Flags
<1>8. /\ Inc("sdma_packets", 1) \in Pending' => Rank(h) < 1
      /\ Set("ais_active", 1) \in Pending' => Rank(h) < 1
      /\ \A k \in Names : Drop(k) \in Pending' => Rank(h) < 4
      /\ \A k \in Names : Show(k) \in Pending' => Rank(h) < 5
      /\ Rank(h) \in 1 .. 8
  <2>1. Rank(Inc("sdma_packets", 1)) = 1
    BY CounterRank DEF Counters
  <2>2. Rank(Set("ais_active", 1)) = 1
    BY FlagRank DEF Flags
  <2> QED
    BY <1>2, <2>1, <2>2, KernelRank, RankType
<1>9. /\ Inc("sdma_packets", 1) # Inc("sdma_copies", 1)
      /\ Inc("ais_ops", 1) # Set("ais_active", 1)
  BY DEF Inc, Set
<1>10. CountInv'
  <2>1. \/ h = Inc("sdma_packets", 1) /\ value'["sdma_packets"] = value["sdma_packets"] + 1
        \/ h # Inc("sdma_packets", 1) /\ value'["sdma_packets"] = value["sdma_packets"]
    BY <1>2 DEF Counters
  <2>2. \/ h = Inc("sdma_copies", 1) /\ value'["sdma_copies"] = value["sdma_copies"] + 1
        \/ h # Inc("sdma_copies", 1) /\ value'["sdma_copies"] = value["sdma_copies"]
    BY <1>2 DEF Counters
  <2>3. value["sdma_copies"] \in Nat /\ value["sdma_packets"] \in Nat
    BY <1>7 DEF Counters
  <2> QED
    BY <1>1, <1>2, <1>8, <1>9, <2>1, <2>2, <2>3 DEF CountInv
<1>11. AisInv'
  <2>1. \/ h = Inc("ais_ops", 1) /\ value'["ais_ops"] = value["ais_ops"] + 1
        \/ h # Inc("ais_ops", 1) /\ value'["ais_ops"] = value["ais_ops"]
    BY <1>2 DEF Counters
  <2>2. \/ h = Set("ais_active", 1) /\ value'["ais_active"] = 1
        \/ h # Set("ais_active", 1) /\ value'["ais_active"] = value["ais_active"]
    BY <1>2 DEF Flags
  <2>3. value["ais_ops"] \in Nat /\ value["ais_active"] \in Nat
    BY <1>7 DEF Counters, Flags
  <2> QED
    BY <1>1, <1>2, <1>8, <1>9, <2>1, <2>2, <2>3 DEF AisInv
<1>13. /\ \A kind \in QueueKinds : kind \in known' => kind \in known \/ h = Know(kind)
       /\ \A kind \in QueueKinds, m \in Metrics, n \in Nat :
             Know(kind) # Inc(m, n) /\ Know(kind) # Set(m, n)
  BY <1>3, <1>4 DEF Know, Inc, Set, QueueKinds
<1>14. AqlInv'
  <2>1. \/ h = Inc("aql_queues", 1) /\ value'["aql_queues"] = value["aql_queues"] + 1
        \/ h # Inc("aql_queues", 1) /\ value'["aql_queues"] = value["aql_queues"]
    BY <1>2 DEF Counters
  <2>2. \/ h = Inc("launches", 1) /\ value'["launches"] = value["launches"] + 1
        \/ h # Inc("launches", 1) /\ value'["launches"] = value["launches"]
    BY <1>2 DEF Counters
  <2>3. \/ h = Inc("barriers", 1) /\ value'["barriers"] = value["barriers"] + 1
        \/ h # Inc("barriers", 1) /\ value'["barriers"] = value["barriers"]
    BY <1>2 DEF Counters
  <2>4. /\ value["aql_queues"] \in Nat /\ value["launches"] \in Nat
        /\ value["barriers"] \in Nat
    BY <1>7 DEF Counters
  <2>5. /\ "aql" \in known' => "aql" \in known \/ h = Know("aql")
        /\ Know("aql") # Inc("aql_queues", 1)
    BY <1>13 DEF QueueKinds, Metrics
  <2>6. value["aql_queues"] > 0 => value'["aql_queues"] > 0
    BY <2>1, <2>4
  <2>7. Know("aql") \in Pending' => Inc("aql_queues", 1) \in Pending'
    <3>1. CASE h = Inc("aql_queues", 1)
      <4>1. Rank(h) = 3
        BY <3>1, CounterRank DEF Counters
      <4>2. Rank(Know("aql")) = 1
        BY KernelRank DEF QueueKinds
      <4> QED
        BY <1>2, <4>1, <4>2
    <3> QED
      BY <1>1, <1>2, <3>1 DEF AqlInv
  <2>8. "aql" \in known' => value'["aql_queues"] > 0 \/ Inc("aql_queues", 1) \in Pending'
    BY <1>1, <1>2, <2>1, <2>4, <2>5, <2>6 DEF AqlInv
  <2>9. Inc("launches", 1) \in Pending' \/ Inc("barriers", 1) \in Pending'
          => value'["aql_queues"] > 0
    BY <1>1, <1>2, <2>6 DEF AqlInv
  <2>10. value'["launches"] > 0 \/ value'["barriers"] > 0 => value'["aql_queues"] > 0
    BY <1>1, <1>2, <2>2, <2>3, <2>4, <2>6 DEF AqlInv
  <2> QED
    BY <2>7, <2>8, <2>9, <2>10 DEF AqlInv
<1>15. SdmaInv'
  <2>1. \/ h = Inc("sdma_queues", 1) /\ value'["sdma_queues"] = value["sdma_queues"] + 1
        \/ h # Inc("sdma_queues", 1) /\ value'["sdma_queues"] = value["sdma_queues"]
    BY <1>2 DEF Counters
  <2>2. \/ h = Set("present", 1) /\ value'["present"] = 1
        \/ h # Set("present", 1) /\ value'["present"] = value["present"]
    BY <1>2 DEF Flags
  <2>3. \/ h = Inc("sdma_packets", 1) /\ value'["sdma_packets"] = value["sdma_packets"] + 1
        \/ h # Inc("sdma_packets", 1) /\ value'["sdma_packets"] = value["sdma_packets"]
    BY <1>2 DEF Counters
  <2>4. /\ value["sdma_queues"] \in Nat /\ value["present"] \in Nat
        /\ value["sdma_packets"] \in Nat
    BY <1>7 DEF Counters, Flags
  <2>5. /\ "sdma" \in known' => "sdma" \in known \/ h = Know("sdma")
        /\ Know("sdma") # Inc("sdma_queues", 1) /\ Know("sdma") # Set("present", 1)
    BY <1>13 DEF QueueKinds, Metrics
  <2>6. /\ value["sdma_queues"] > 0 => value'["sdma_queues"] > 0
        /\ value["present"] > 0 => value'["present"] > 0
    BY <2>1, <2>2, <2>4
  <2>7. Know("sdma") \in Pending' =>
           Inc("sdma_queues", 1) \in Pending' /\ Set("present", 1) \in Pending'
    <3>1. CASE h = Inc("sdma_queues", 1) \/ h = Set("present", 1)
      <4>1. Rank(h) \in {3, 4}
        BY <3>1, CounterRank, FlagRank DEF Counters, Flags
      <4>2. Rank(Know("sdma")) = 1
        BY KernelRank DEF QueueKinds
      <4> QED
        BY <1>2, <4>1, <4>2
    <3> QED
      BY <1>1, <1>2, <3>1 DEF SdmaInv
  <2>8. "sdma" \in known' =>
           /\ value'["sdma_queues"] > 0 \/ Inc("sdma_queues", 1) \in Pending'
           /\ value'["present"] > 0 \/ Set("present", 1) \in Pending'
    BY <1>1, <1>2, <2>1, <2>2, <2>4, <2>5, <2>6 DEF SdmaInv
  <2>9. Inc("sdma_packets", 1) \in Pending' =>
           value'["sdma_queues"] > 0 /\ value'["present"] > 0
    BY <1>1, <1>2, <2>6 DEF SdmaInv
  <2>10. value'["sdma_packets"] > 0 => value'["sdma_queues"] > 0 /\ value'["present"] > 0
    BY <1>1, <1>2, <2>3, <2>4, <2>6 DEF SdmaInv
  <2> QED
    BY <2>7, <2>8, <2>9, <2>10 DEF SdmaInv
<1>12. KernelInv'
  <2>1. \A j, k \in Names : Drop(j) # Show(k)
    BY DEF Drop, Show
  <2>2. CASE h.op = "remove"
    <3>1. PICK k \in Names : h = Drop(k) /\ h.m = k
      BY <1>4, <2>2
    <3>2. k = last_kernel /\ last_kernel # NoKernel /\ last_kernel' = last_kernel
      BY <1>1, <1>2, <1>3, <2>2, <3>1 DEF KernelInv, Names
    <3>3. info' = {}
      BY <1>1, <1>3, <2>2, <3>1, <3>2 DEF KernelInv
    <3>4. PICK j \in Names : Show(j) \in Pending'
      BY <1>1, <1>2, <2>1, <3>1 DEF KernelInv
    <3>5. \A i \in Names : Drop(i) \notin Pending'
      BY <1>2, <1>8, <3>1, KernelRank
    <3> QED
      BY <3>3, <3>4, <3>5 DEF KernelInv
  <2>3. CASE h.op = "add"
    <3>1. PICK k \in Names : h = Show(k) /\ h.m = k
      BY <1>4, <2>3
    <3>2. Rank(h) = 5
      BY <3>1, KernelRank
    <3>3. \A i \in Names : Drop(i) \notin Pending' /\ Show(i) \notin Pending'
      BY <1>8, <3>2
    <3>4. \A i \in Names : Drop(i) \notin Pending
      BY <1>2, <2>1, <3>1, <3>3
    <3>5. info = {}
      <4>1. last_kernel # NoKernel => last_kernel \in Names
        BY <1>1 DEF Typed
      <4> QED
        BY <1>1, <1>2, <3>1, <3>4, <4>1 DEF KernelInv
    <3>6. info' = {k} /\ last_kernel' = k /\ k # NoKernel
      BY <1>3, <2>3, <3>1, <3>5 DEF Names
    <3> QED
      BY <3>3, <3>6 DEF KernelInv
  <2>4. CASE h.op \notin {"remove", "add"}
    <3>1. UNCHANGED <<info, last_kernel>>
      BY <1>3, <1>4, <2>4
    <3>2. \A k \in Names : /\ Drop(k) \in Pending' <=> Drop(k) \in Pending
                           /\ Show(k) \in Pending' <=> Show(k) \in Pending
      <4>1. \A k \in Names : h # Drop(k) /\ h # Show(k)
        BY <2>4 DEF Drop, Show
      <4> QED
        BY <1>2, <4>1
    <3>3. last_kernel # NoKernel => last_kernel \in Names
      BY <1>1 DEF Typed
    <3> QED
      BY <1>1, <3>1, <3>2, <3>3 DEF KernelInv
  <2> QED
    BY <2>2, <2>3, <2>4
<1> QED
  BY <1>5, <1>6, <1>10, <1>11, <1>12, <1>14, <1>15 DEF MetricsInv

\* A call begins with the metrics as the last one left them.
LEMMA CallKeeps == ASSUME MetricsInv, NEW t \in Threads, Call(t) PROVE MetricsInv'
<1>1. Typed /\ HolderInv /\ CountInv /\ AisInv /\ AqlInv /\ SdmaInv /\ KernelInv
  BY DEF MetricsInv
<1>2. /\ meta_mu = "free" /\ meta_mu' = t
      /\ UNCHANGED <<value, info, last_kernel, now, rater, known>>
  BY DEF Call, rates
<1>3. PICK c \in Calls(t) : todo' = c
  BY DEF Call
<1>4. Ranked(todo', 1, 9) /\ Sound(Pending')
  <2>1. Ranked(c, 1, 9) /\ Sound(Range(c))
    BY <1>1, CallsSound
  <2>2. Sound(Range(c)) => Sound(Pending')
    BY <1>3 DEF Pending
  <2> QED
    BY <1>3, <2>1, <2>2
<1>5. todo = <<>> /\ Pending = {}
  <2>1. todo = <<>>
    BY <1>1, <1>2 DEF HolderInv, Threads
  <2> QED
    BY <2>1 DEF Pending, Range
<1>6. Typed'
  BY <1>1, <1>2, <1>4 DEF Typed
<1>7. HolderInv'
  BY <1>1, <1>2 DEF HolderInv, Threads
<1>8. CountInv' /\ AisInv' /\ AqlInv' /\ SdmaInv'
  <2>1. CountInv'
    BY <1>1, <1>2, <1>4 DEF CountInv, Sound
  <2>2. AisInv'
    BY <1>1, <1>2, <1>4 DEF AisInv, Sound
  <2>3. AqlInv'
    BY <1>1, <1>2, <1>4, <1>5 DEF AqlInv, Sound
  <2>4. SdmaInv'
    BY <1>1, <1>2, <1>4, <1>5 DEF SdmaInv, Sound
  <2> QED
    BY <2>1, <2>2, <2>3, <2>4
<1>9. KernelInv'
  <2>1. info = IF last_kernel = NoKernel THEN {} ELSE {last_kernel}
    BY <1>1, <1>5 DEF KernelInv
  <2> QED
    BY <1>2, <1>4, <2>1 DEF KernelInv, Sound
<1> QED
  BY <1>6, <1>7, <1>8, <1>9 DEF MetricsInv

LEMMA ExportingKeeps == MetricsInv /\ Exporting => MetricsInv'
<1> SUFFICES ASSUME MetricsInv, Exporting PROVE MetricsInv'
  OBVIOUS
<1>1. ASSUME NEW t \in Threads, Call(t) PROVE MetricsInv'
  BY <1>1, CallKeeps
<1>2. CASE Update
  BY <1>2, UpdateKeeps
\* The others touch neither the metrics nor what is pending.
<1>3. ASSUME UNCHANGED <<todo, value, info, last_kernel, known>>, now' \in Nat, HolderInv'
      PROVE  MetricsInv'
  <2>1. Pending' = Pending
    BY <1>3 DEF Pending
  <2>2. Typed'
    BY <1>3 DEF MetricsInv, Typed
  <2>3. CountInv' /\ AisInv'
    BY <1>3, <2>1 DEF MetricsInv, CountInv, AisInv
  <2>4. AqlInv' /\ SdmaInv'
    BY <1>3, <2>1 DEF MetricsInv, AqlInv, SdmaInv
  <2>5. KernelInv'
    BY <1>3, <2>1 DEF MetricsInv, KernelInv
  <2> QED
    BY <1>3, <2>2, <2>3, <2>4, <2>5 DEF MetricsInv
<1>4. HolderInv /\ now \in Nat
  BY DEF MetricsInv, Typed
<1>5. CASE Return
  <2>1. HolderInv'
    BY <1>4, <1>5 DEF Return, HolderInv, rates, Threads
  <2> QED
    BY <1>3, <1>4, <1>5, <2>1 DEF Return
<1>6. CASE RateWakes \/ RatePrunes
  <2>1. HolderInv'
    BY <1>4, <1>6 DEF RateWakes, RatePrunes, HolderInv, lock
  <2> QED
    BY <1>3, <1>4, <1>6, <2>1 DEF RateWakes, RatePrunes
<1>7. CASE RateZeroes
  <2>1. HolderInv'
    BY <1>4, <1>7 DEF RateZeroes, HolderInv, Threads
  <2> QED
    BY <1>3, <1>4, <1>7, <2>1 DEF RateZeroes
<1>8. CASE RateSets
  <2>1. HolderInv'
    BY <1>4, <1>8 DEF RateSets, HolderInv, Threads
  <2> QED
    BY <1>3, <1>4, <1>8, <2>1 DEF RateSets
<1>9. CASE Tick
  <2>1. HolderInv' /\ now' \in Nat
    BY <1>4, <1>9 DEF Tick, HolderInv, lock, rates
  <2> QED
    BY <1>3, <1>9, <2>1 DEF Tick
<1>10. CASE Destroy \/ Join
  <2>1. HolderInv'
    BY <1>4, <1>10 DEF Destroy, Join, HolderInv, lock, rates
  <2> QED
    BY <1>3, <1>4, <1>10, <2>1 DEF Destroy, Join
<1> QED
  BY <1>1, <1>2, <1>5, <1>6, <1>7, <1>8, <1>9, <1>10 DEF Exporting, RateThread

-----------------------------------------------------------------------------
(* A scrape.                                                               *)

\* Where the families are.
LEMMA Places ==
    /\ Len(Families) = 10
    /\ Collected = {"launches", "barriers", "sdma_copies", "sdma_packets", "ais_ops",
                    "aql_queues", "info", "sdma_queues", "present", "ais_active"}
    /\ \A i \in 1 .. 10 : Families[i] \in Collected
    /\ \A m \in Collected : Place[m] \in 1 .. 10
    /\ \A i \in 1 .. 10, m \in Collected : Families[i] = m <=> i = Place[m]
    /\ Place["sdma_copies"] = 3 /\ Place["sdma_packets"] = 4
    /\ \A p \in Implied :
          /\ p[1] \in Collected \ {"info"} /\ p[2] \in Collected \ {"info"}
          /\ Place[p[1]] < Place[p[2]]
<1>1. /\ Len(Families) = 10
      /\ Families[1] = "launches" /\ Families[2] = "barriers"
      /\ Families[3] = "sdma_copies" /\ Families[4] = "sdma_packets"
      /\ Families[5] = "ais_ops" /\ Families[6] = "aql_queues"
      /\ Families[7] = "info" /\ Families[8] = "sdma_queues"
      /\ Families[9] = "present" /\ Families[10] = "ais_active"
  BY DEF Families
<1>2. \A i \in 1 .. 10 : i \in {1, 2, 3, 4, 5, 6, 7, 8, 9, 10}
  OBVIOUS
<1>3. Collected = {Families[i] : i \in 1 .. 10}
  BY <1>1 DEF Collected
<1>4. Collected = {"launches", "barriers", "sdma_copies", "sdma_packets", "ais_ops",
                   "aql_queues", "info", "sdma_queues", "present", "ais_active"}
  BY <1>1, <1>2, <1>3
<1>5. \A i, j \in 1 .. 10 : Families[i] = Families[j] => i = j
  BY <1>1, <1>2
<1>6. ASSUME NEW m \in Collected
      PROVE  Place[m] \in 1 .. 10 /\ Families[Place[m]] = m
  <2>1. \E i \in 1 .. 10 : Families[i] = m
    BY <1>3
  <2>2. Place[m] = CHOOSE i \in 1 .. 10 : Families[i] = m
    BY <1>1 DEF Place
  <2> QED
    BY <2>1, <2>2
<1>7. \A i \in 1 .. 10, m \in Collected : Families[i] = m <=> i = Place[m]
  BY <1>5, <1>6
<1>8. /\ Place["launches"] = 1 /\ Place["barriers"] = 2 /\ Place["sdma_copies"] = 3
      /\ Place["sdma_packets"] = 4 /\ Place["ais_ops"] = 5 /\ Place["aql_queues"] = 6
      /\ Place["sdma_queues"] = 8 /\ Place["present"] = 9 /\ Place["ais_active"] = 10
  BY <1>1, <1>4, <1>7
<1>9. ASSUME NEW p \in Implied
      PROVE  /\ p[1] \in Collected \ {"info"} /\ p[2] \in Collected \ {"info"}
             /\ Place[p[1]] < Place[p[2]]
  BY <1>4, <1>8 DEF Implied
<1>10. \A i \in 1 .. 10 : Families[i] \in Collected
  BY <1>3
<1> HIDE DEF Families, Collected
<1> QED
  BY <1>1, <1>4, <1>6, <1>7, <1>8, <1>9, <1>10

\* What holds of the metrics at every moment.
LEMMA ImpliedNow ==
    ASSUME MetricsInv
    PROVE  /\ \A p \in Implied : value[p[1]] > 0 => value[p[2]] > 0
           /\ \A m \in Collected \ {"info"} : value[m] \in Nat
<1>1. \A p \in Implied : value[p[1]] > 0 => value[p[2]] > 0
  BY DEF MetricsInv, AisInv, AqlInv, SdmaInv, Implied
<1>2. Collected \ {"info"} \subseteq Metrics
  BY Places DEF Metrics
<1> QED
  BY <1>1, <1>2 DEF MetricsInv, Typed

\* Whatever else happens, what is shown goes on being shown.
LEMMA Latched ==
    ASSUME MetricsInv, Exporting
    PROVE  /\ \A p \in Implied : value[p[2]] > 0 => value'[p[2]] > 0
           /\ value["sdma_packets"] <= value'["sdma_packets"]
<1>1. Typed /\ \A m \in Metrics : value[m] \in Nat
  BY DEF MetricsInv, Typed
<1>2. \A p \in Implied : p[2] \in {"aql_queues", "sdma_queues", "present", "ais_active"}
  BY DEF Implied
<1>3. CASE Update
  <2> DEFINE h == Head(todo)
  <2>1. /\ \A m \in Counters :
             \/ h = Inc(m, 1) /\ value'[m] = value[m] + 1
             \/ h # Inc(m, 1) /\ value'[m] = value[m]
        /\ \A m \in Flags :
             \/ h = Set(m, 1) /\ value'[m] = 1
             \/ h # Set(m, 1) /\ value'[m] = value[m]
    BY <1>1, <1>3, UpdateFacts
  <2> HIDE DEF h
  <2>2. \A m \in {"aql_queues", "sdma_queues", "sdma_packets"} : value[m] <= value'[m]
    BY <1>1, <2>1 DEF Counters, Metrics
  <2>3. \A m \in {"present", "ais_active"} : value[m] > 0 => value'[m] > 0
    BY <1>1, <2>1 DEF Flags, Metrics
  <2>4. \A m \in {"aql_queues", "sdma_queues"} : value[m] > 0 => value'[m] > 0
    BY <1>1, <2>1 DEF Counters, Metrics
  <2> QED
    BY <1>2, <2>2, <2>3, <2>4
<1>4. CASE ~Update
  <2>1. value' = value
    BY <1>4 DEF Exporting, Call, Return, RateThread, RateWakes, RatePrunes, RateZeroes,
                RateSets, Tick, Destroy, Join
  <2> QED
    BY <1>1, <2>1 DEF Metrics
<1> QED
  BY <1>3, <1>4

ScrapeInv == MetricsInv /\ CollectedInv

LEMMA ScrapeStep == ScrapeInv /\ [Next]_vars => ScrapeInv'
<1> SUFFICES ASSUME ScrapeInv, [Next]_vars PROVE ScrapeInv'
  OBVIOUS
<1>1. MetricsInv /\ CollectedInv
  BY DEF ScrapeInv
<1>2. CASE Exporting /\ UNCHANGED scrape
  <2>1. MetricsInv'
    BY <1>1, <1>2, ExportingKeeps
  <2>2. UNCHANGED <<next, seen, shown>>
    BY <1>2 DEF scrape
  <2>3. seen["sdma_copies"] <= value'["sdma_packets"]
    <3>1. /\ seen["sdma_copies"] \in Nat /\ value["sdma_packets"] \in Nat
          /\ value'["sdma_packets"] \in Nat
      BY <1>1, <2>1, Places DEF CollectedInv, MetricsInv, Typed, Metrics
    <3> QED
      BY <1>1, <1>2, <3>1, Latched DEF CollectedInv
  <2>4. \A p \in Implied : seen[p[1]] > 0 => value'[p[2]] > 0
    BY <1>1, <1>2, Latched DEF CollectedInv
  <2> QED
    BY <1>1, <2>1, <2>2, <2>3, <2>4 DEF ScrapeInv, CollectedInv
<1>3. ASSUME UNCHANGED Exports PROVE MetricsInv' /\ value' = value /\ info' = info
  <2>1. UNCHANGED <<lock, todo, value, info, last_kernel, known, now, rates>>
    BY <1>3 DEF Exports
  <2>2. UNCHANGED <<meta_mu, rater>> /\ Pending' = Pending
    BY <2>1 DEF lock, rates, Pending
  <2>3. Typed' /\ HolderInv'
    BY <1>1, <2>1, <2>2 DEF MetricsInv, Typed, HolderInv
  <2>4. CountInv' /\ AisInv'
    BY <1>1, <2>1, <2>2 DEF MetricsInv, CountInv, AisInv
  <2>5. AqlInv' /\ SdmaInv'
    BY <1>1, <2>1, <2>2 DEF MetricsInv, AqlInv, SdmaInv
  <2>6. KernelInv'
    BY <1>1, <2>1, <2>2 DEF MetricsInv, KernelInv
  <2> QED
    BY <2>1, <2>3, <2>4, <2>5, <2>6 DEF MetricsInv
<1>4. CASE BeginScrape
  <2>1. MetricsInv' /\ value' = value
    BY <1>3, <1>4 DEF BeginScrape
  <2>2. next = 0 /\ next' = 1 /\ UNCHANGED <<seen, shown>>
    BY <1>4 DEF BeginScrape
  <2>3. next' \in 0 .. Len(Families) + 1
    BY <2>2, Places
  <2>4. ~(next' > Place["sdma_packets"]) /\ \A p \in Implied : ~(next' > Place[p[2]])
    BY <2>2, Places
  <2> QED
    BY <1>1, <2>1, <2>2, <2>3, <2>4 DEF ScrapeInv, CollectedInv
<1>7. CASE EndScrape
  <2>1. MetricsInv' /\ value' = value
    BY <1>3, <1>7 DEF EndScrape
  <2>2. next' = 0 /\ shown' = {} /\ seen' = [m \in Collected |-> 0]
    BY <1>7 DEF EndScrape
  <2>3. seen' \in [Collected -> Nat] /\ \A m \in Collected : seen'[m] = 0
    BY <2>2
  <2>4. value["sdma_packets"] \in Nat
    BY <1>1, Places, ImpliedNow
  <2>5. /\ seen'["sdma_copies"] = 0 /\ seen'["sdma_packets"] = 0
        /\ \A p \in Implied : seen'[p[1]] = 0
    BY <2>3, Places
  <2>6. next' \in 0 .. Len(Families) + 1
    BY <2>2, Places
  <2> QED
    BY <2>1, <2>2, <2>3, <2>4, <2>5, <2>6 DEF ScrapeInv, CollectedInv
<1>5. CASE CollectFamily
  <2> DEFINE m == Families[next]
  <2>1. MetricsInv' /\ value' = value
    BY <1>3, <1>5 DEF CollectFamily
  <2>2. /\ next \in 1 .. 10 /\ next' = next + 1 /\ next' \in 0 .. Len(Families) + 1
        /\ seen' = IF m = "info" THEN seen ELSE [seen EXCEPT ![m] = value[m]]
        /\ shown' = IF m = "info" THEN info ELSE shown
    BY <1>1, <1>5, Places DEF CollectFamily, CollectedInv
  <2>3. /\ m \in Collected /\ next = Place[m]
        /\ \A n \in Collected : m = n <=> next = Place[n]
    BY <2>2, Places
  <2> HIDE DEF m
  <2>4. seen \in [Collected -> Nat]
    BY <1>1 DEF CollectedInv
  <2>5. /\ seen' \in [Collected -> Nat]
        /\ m # "info" => seen'[m] = value[m]
        /\ \A n \in Collected : n # m => seen'[n] = seen[n]
    <3>1. m # "info" => value[m] \in Nat
      BY <1>1, <2>3, ImpliedNow
    <3> QED
      BY <2>2, <2>3, <2>4, <3>1
  <2>6. \A k1, k2 \in shown' : k1 = k2
    <3>1. \A k1, k2 \in info : k1 = k2
      BY <1>1 DEF MetricsInv, KernelInv
    <3> QED
      BY <1>1, <2>2, <3>1 DEF CollectedInv
  <2>7. \A n \in Collected : next' > Place[n] => next > Place[n] \/ n = m
    BY <2>2, <2>3, Places
  <2>8. ASSUME NEW p \in Implied
        PROVE  /\ seen'[p[1]] > 0 => value[p[2]] > 0
               /\ next' > Place[p[2]] /\ seen'[p[1]] > 0 => seen'[p[2]] > 0
    <3>1. /\ p[1] \in Collected \ {"info"} /\ p[2] \in Collected \ {"info"}
          /\ Place[p[1]] < Place[p[2]] /\ Place[p[1]] \in 1 .. 10
          /\ Place[p[2]] \in 1 .. 10
      BY Places
    <3>2. /\ value[p[1]] > 0 => value[p[2]] > 0
          /\ seen[p[1]] > 0 => value[p[2]] > 0
          /\ next > Place[p[2]] /\ seen[p[1]] > 0 => seen[p[2]] > 0
      BY <1>1, ImpliedNow DEF CollectedInv
    <3>3. CASE m = p[1]
      BY <2>2, <2>3, <2>5, <3>1, <3>2, <3>3
    <3>4. CASE m = p[2]
      BY <2>3, <2>5, <3>1, <3>2, <3>4
    <3>5. CASE m # p[1] /\ m # p[2]
      BY <2>5, <2>7, <3>1, <3>2, <3>5
    <3> QED
      BY <3>3, <3>4, <3>5
  <2>9. /\ seen'["sdma_copies"] <= value["sdma_packets"]
        /\ next' > Place["sdma_packets"] => seen'["sdma_copies"] <= seen'["sdma_packets"]
    <3>1. /\ Place["sdma_copies"] = 3 /\ Place["sdma_packets"] = 4
          /\ "sdma_copies" \in Collected /\ "sdma_packets" \in Collected
      BY Places
    <3>2. /\ value["sdma_copies"] <= value["sdma_packets"]
          /\ seen["sdma_copies"] <= value["sdma_packets"]
          /\ next > 4 => seen["sdma_copies"] <= seen["sdma_packets"]
      BY <1>1, <3>1 DEF MetricsInv, CountInv, CollectedInv
    <3>3. CASE next = 3
      <4>1. m = "sdma_copies" /\ ~(next' > 4)
        BY <2>2, <2>3, <3>1, <3>3
      <4> QED
        BY <2>5, <3>1, <3>2, <4>1
    <3>4. CASE next = 4
      <4>1. m = "sdma_packets"
        BY <2>2, <2>3, <3>1, <3>4
      <4> QED
        BY <2>5, <3>1, <3>2, <4>1
    <3>5. CASE next # 3 /\ next # 4
      <4>1. m # "sdma_copies" /\ m # "sdma_packets"
        BY <2>3, <3>1, <3>5
      <4> QED
        BY <2>2, <2>5, <3>1, <3>2, <3>5, <4>1
    <3> QED
      BY <3>3, <3>4, <3>5
  <2> QED
    BY <2>1, <2>2, <2>5, <2>6, <2>8, <2>9 DEF ScrapeInv, CollectedInv
<1>6. CASE UNCHANGED vars
  <2>1. UNCHANGED Exports /\ UNCHANGED <<next, seen, shown>>
    BY <1>6 DEF vars, Exports, scrape
  <2>2. MetricsInv' /\ value' = value
    BY <1>3, <2>1
  <2> QED
    BY <1>1, <2>1, <2>2 DEF ScrapeInv, CollectedInv
<1> QED
  BY <1>2, <1>4, <1>5, <1>6, <1>7 DEF Next

\* A scrape that collects family after family, with any registrations and records
\* in between, shows a queue for every packet it counts, no more copies than
\* packets, active AIS with every AIS operation, and at most one last kernel.
THEOREM ScrapeConsistentHolds == Spec => []ScrapeConsistent
<1>1. Init => ScrapeInv
  <2> SUFFICES ASSUME Init PROVE ScrapeInv
    OBVIOUS
  <2>1. todo = <<>> /\ Pending = {} /\ Ranked(todo, 1, 9)
    <3>1. Ranked(<<>>, 1, 9) /\ Range(<<>>) = {}
      BY RankedNone
    <3> QED
      BY <3>1 DEF Init, Pending
  <2>2. Typed /\ HolderInv
    BY <2>1 DEF Init, Typed, HolderInv
  <2>3. CountInv /\ AisInv /\ AqlInv /\ SdmaInv
    BY <2>1 DEF Init, CountInv, AisInv, AqlInv, SdmaInv, Metrics
  <2>4. KernelInv
    BY <2>1 DEF Init, KernelInv
  <2>5. /\ next = 0 /\ seen \in [Collected -> Nat] /\ shown = {}
        /\ \A m \in Collected : seen[m] = 0
        /\ value["sdma_packets"] = 0
    BY Places DEF Init, Metrics
  <2>6. CollectedInv
    BY <2>5, Places DEF CollectedInv
  <2> QED
    BY <2>2, <2>3, <2>4, <2>6 DEF ScrapeInv, MetricsInv
<1>2. ScrapeInv => ScrapeConsistent
  <2> SUFFICES ASSUME ScrapeInv, next > Len(Families)
               PROVE  /\ seen["sdma_copies"] <= seen["sdma_packets"]
                      /\ \A p \in Implied : seen[p[1]] > 0 => seen[p[2]] > 0
                      /\ \A k1, k2 \in shown : k1 = k2
    BY DEF ScrapeConsistent
  <2>1. CollectedInv /\ next \in 0 .. 11 /\ next > 10
    BY Places DEF ScrapeInv, CollectedInv
  <2>2. next > Place["sdma_packets"] /\ \A p \in Implied : next > Place[p[2]]
    BY <2>1, Places
  <2> QED
    BY <2>1, <2>2 DEF CollectedInv
<1> QED
  BY <1>1, <1>2, ScrapeStep, PTL DEF Spec
=============================================================================
