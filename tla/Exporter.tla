------------------------------ MODULE Exporter --------------------------------
(***************************************************************************)
(* The Prometheus exporter (src/prometheus_exporter.cpp): the threads that *)
(* Add records and register queues under meta_mu_, the rate thread, and    *)
(* a scrape, which takes neither lock and collects one metric family after *)
(* the other, with updates in between.                                     *)
(*                                                                         *)
(* A call is the sequence of the updates it makes, one step each, in the   *)
(* order of the code.  The series of one GPU are modelled; those of        *)
(* another one are separate objects treated alike.                         *)
(***************************************************************************)
EXTENDS Naturals, Sequences

CONSTANTS
    Kernels,     \* kernel names
    PacketBits,  \* packets: whether its duration is known, and its barrier bit
    MaxCalls,    \* bound: calls of all threads
    MaxTime,     \* bound: the clock
    Window,      \* rate_window_sec_
    MaxScrapes   \* bound: scrapes

Threads == {"discovery", "parser", "ais", "xnack"}

ASSUME PacketAssumption == PacketBits \subseteq BOOLEAN \X BOOLEAN
ASSUME BoundAssumption ==
    /\ MaxCalls \in Nat /\ MaxTime \in Nat /\ Window \in 1 .. MaxTime - 1
    /\ MaxScrapes \in Nat

Metrics == {"queue_info", "aql_queues", "sdma_queues", "present", "errors",
            "launches", "durations", "last_ts", "triggered", "barriers",
            "sdma_packets", "sdma_copies", "sdma_bytes", "ais_active",
            "pcie_info", "ais_ops", "ais_bytes", "ais_errors", "ais_latency",
            "ais_size", "xnack", "lds", "scratch", "mapped", "mapped_total"}

VARIABLES
    meta_mu,     \* who holds meta_mu_
    rate_mu,     \* who holds rate_mu_
    todo,        \* the updates the holder of meta_mu_ has still to make
    calls,       \* calls made
    known,       \* the kinds of the queues in queue_meta_
    value,       \* the value of each metric (0: absent or zero)
    info,        \* the kernels with a hsa_last_kernel_launch_info series
    last_kernel, \* last_kernel_state_: the name the code remembers
    events,      \* launch_events_: the times of the launches
    now,         \* steady_clock
    rate,        \* hsa_kernel_launches_per_second times the window
    rater,       \* the rate thread
    cutoff,      \* its locals (0 outside of their use)
    count,
    rate_running_,
    main,        \* the destructor
    scrapes,     \* scrapes begun
    next,        \* the place of the scrape in Families (0: none is under way)
    seen,        \* the values it has collected
    shown        \* the kernels of the info series it has collected

lock == <<meta_mu, rate_mu>>
rates == <<rate, rater, cutoff, count>>
scrape == <<scrapes, next, seen, shown>>
vars == <<lock, todo, calls, known, value, info, last_kernel, events, now, rates,
          rate_running_, main, scrape>>

NoKernel == "no kernel"

\* The families in the order Registry::Collect takes them: the counters, then the
\* gauges, each in the order the constructor registers them.  The families that
\* no property compares are left out; the updates of a scrape's pauses are not.
Families == <<"launches", "barriers", "sdma_copies", "sdma_packets", "ais_ops",
              "aql_queues", "info", "sdma_queues", "present", "ais_active">>
Collected == {Families[i] : i \in 1 .. Len(Families)}

Init ==
    /\ meta_mu = "free" /\ rate_mu = "free" /\ todo = <<>>
    /\ calls = 0 /\ known = {}
    /\ value = [m \in Metrics |-> 0]
    /\ info = {} /\ last_kernel = NoKernel
    /\ events = <<>> /\ now = 0
    /\ rate = 0 /\ rater = "sleep" /\ cutoff = 0 /\ count = 0
    /\ rate_running_ = TRUE
    /\ main = "running"
    /\ scrapes = 0 /\ next = 0
    /\ seen = [m \in Collected |-> 0] /\ shown = {}

-----------------------------------------------------------------------------
(* The calls, as sequences of updates.                                     *)

Inc(m, n) == [op |-> "inc", m |-> m, n |-> n]
Set(m, n) == [op |-> "set", m |-> m, n |-> n]
Drop(k) == [op |-> "remove", m |-> k, n |-> 0]
Show(k) == [op |-> "add", m |-> k, n |-> 0]
Launched == [op |-> "event", m |-> NoKernel, n |-> 0]
Know(kind) == [op |-> "know", m |-> kind, n |-> 0]

If(condition, updates) == IF condition THEN updates ELSE <<>>

RegisterQueue(kind) ==
    <<Know(kind), Set("queue_info", 1)>>
      \o (IF kind = "sdma" THEN <<Set("present", 1), Inc("sdma_queues", 1)>>
                           ELSE <<Inc("aql_queues", 1)>>)

\* A packet: a dispatch of kernel k, or (NoKernel) another packet.
AddPacket(k, timed, barrier) ==
    IF "aql" \notin known THEN <<Inc("errors", 1)>>
    ELSE If(k # NoKernel,
            <<Inc("launches", 1)>>
              \o If(timed, <<Inc("durations", 1)>>)
              \o <<Set("last_ts", now)>>
              \o If(k # last_kernel,
                    If(last_kernel # NoKernel, <<Drop(last_kernel)>>) \o <<Show(k)>>)
              \o <<Set("triggered", 1), Launched>>)
         \o If(barrier, <<Inc("barriers", 1)>>)

\* Mutant: a copy is counted by direction before it is counted by opcode.
AddSdmaCopiesFirst(copy, bytes) ==
    IF "sdma" \notin known THEN <<Inc("errors", 1)>>
    ELSE If(copy, <<Inc("sdma_copies", 1), Inc("sdma_bytes", bytes)>>)
           \o <<Inc("sdma_packets", 1)>>

AddSdma(copy, bytes) ==
    IF "sdma" \notin known THEN <<Inc("errors", 1)>>
    ELSE <<Inc("sdma_packets", 1)>>
           \o If(copy, <<Inc("sdma_copies", 1), Inc("sdma_bytes", bytes)>>)

\* An AIS record, of a known PCIe device or not; the monitor makes them
\* completed and without an error.
AddAis(device, error, size) ==
    <<Set("ais_active", 1)>>
      \o If(device, <<Set("pcie_info", 1)>>)
      \o <<Inc("ais_ops", 1)>>
      \o If(~error /\ size > 0, <<Inc("ais_bytes", size)>>)
      \o If(error, <<Inc("ais_errors", 1)>>)
      \o <<Inc("ais_latency", 1)>>
      \o If(size > 0, <<Inc("ais_size", 1)>>)

AddXnack == <<Inc("xnack", 1)>>

AddMem(lds, valid, bytes) ==
    <<Set("lds", lds), Set("scratch", lds)>>
      \o If(valid, <<Set("mapped", bytes), Inc("mapped_total", bytes)>>)

\* The calls a thread makes.
Calls(t) ==
    CASE t = "discovery" -> {RegisterQueue(kind) : kind \in {"aql", "sdma"}}
      [] t = "parser" ->
           {AddPacket(k, bits[1], bits[2]) :
              k \in Kernels \cup {NoKernel}, bits \in PacketBits}
             \cup {AddSdma(copy, 1) : copy \in BOOLEAN}
             \cup {AddMem(lds, valid, bytes) :
                     lds \in {1}, valid \in BOOLEAN, bytes \in {1}}
      [] t = "ais" -> {AddAis(FALSE, FALSE, 0), AddAis(TRUE, FALSE, 1)}
      [] t = "xnack" -> {AddXnack}

\* Launches are made early enough for the last of them to leave the window.
Call(t) ==
    /\ main = "running"
    /\ meta_mu = "free"
    /\ calls < MaxCalls
    /\ now < MaxTime - Window
    /\ \E c \in Calls(t) : todo' = c
    /\ meta_mu' = t
    /\ calls' = calls + 1
    /\ UNCHANGED <<rate_mu, known, value, info, last_kernel, events, now, rates,
                   rate_running_, main>>

\* The next update; a launch is pushed under rate_mu_.
Update ==
    /\ todo # <<>>
    /\ LET u == Head(todo)
       IN  /\ u.op = "event" => rate_mu = "free"
           /\ value' = CASE u.op = "inc" -> [value EXCEPT ![u.m] = @ + u.n]
                         [] u.op = "set" -> [value EXCEPT ![u.m] = u.n]
                         [] OTHER -> value
           /\ info' = CASE u.op = "remove" -> info \ {u.m}
                        [] u.op = "add" -> info \cup {u.m}
                        [] OTHER -> info
           /\ last_kernel' = IF u.op = "add" THEN u.m ELSE last_kernel
           /\ events' = IF u.op = "event" THEN Append(events, now) ELSE events
           /\ known' = IF u.op = "know" THEN known \cup {u.m} ELSE known
    /\ todo' = Tail(todo)
    /\ meta_mu' = IF Len(todo) = 1 THEN "free" ELSE meta_mu
    /\ UNCHANGED <<rate_mu, calls, now, rates, rate_running_, main>>

\* A call that changes nothing.
Return ==
    /\ meta_mu \in Threads
    /\ todo = <<>>
    /\ meta_mu' = "free"
    /\ UNCHANGED <<rate_mu, todo, calls, known, value, info, last_kernel, events,
                   now, rates, rate_running_, main>>

-----------------------------------------------------------------------------
(* The rate thread.                                                        *)

RateWakes ==
    /\ rater = "sleep"
    /\ rater' = IF rate_running_ THEN "prune" ELSE "ended"
    /\ cutoff' = IF now >= Window THEN now - Window ELSE 0
    /\ UNCHANGED <<lock, todo, calls, known, value, info, last_kernel, events, now,
                   rate, count, rate_running_, main>>

\* Mutant: rate_mu_ is kept until the gauges are set.
RatePrunesLocked ==
    /\ rater = "prune"
    /\ rate_mu = "free"
    /\ rate_mu' = "rate"
    /\ events' = SelectSeq(events, LAMBDA ts : ts >= cutoff)
    /\ count' = Len(events')
    /\ rater' = "zero"
    /\ UNCHANGED <<meta_mu, todo, calls, known, value, info, last_kernel, now,
                   rate, cutoff, rate_running_, main>>

\* Mutant: launches that have left the window are counted for ever.
RatePrunesNothing ==
    /\ rater = "prune"
    /\ rate_mu = "free"
    /\ count' = Len(events)
    /\ rater' = "zero"
    /\ UNCHANGED <<lock, todo, calls, known, value, info, last_kernel, events, now,
                   rate, cutoff, rate_running_, main>>

\* The launches before the cutoff are forgotten and the others counted, under
\* rate_mu_.
RatePrunes ==
    /\ rater = "prune"
    /\ rate_mu = "free"
    /\ events' = SelectSeq(events, LAMBDA ts : ts >= cutoff)
    /\ count' = Len(events')
    /\ cutoff' = 0
    /\ rater' = "zero"
    /\ UNCHANGED <<lock, todo, calls, known, value, info, last_kernel, now, rate,
                   rate_running_, main>>

RateZeroes ==
    /\ rater = "zero"
    /\ meta_mu = "free"
    /\ meta_mu' = "rate"
    /\ rate' = 0
    /\ rater' = "set"
    /\ UNCHANGED <<rate_mu, todo, calls, known, value, info, last_kernel, events,
                   now, cutoff, count, rate_running_, main>>

RateSets ==
    /\ rater = "set"
    /\ rate' = IF count > 0 THEN count ELSE rate
    /\ meta_mu' = "free"
    /\ rate_mu' = "free"
    /\ rater' = "sleep"
    /\ cutoff' = 0 /\ count' = 0
    /\ UNCHANGED <<todo, calls, known, value, info, last_kernel, events, now,
                   rate_running_, main>>

RateThread == RateWakes \/ RatePrunes \/ RateZeroes \/ RateSets

-----------------------------------------------------------------------------
Tick ==
    /\ now < MaxTime
    /\ now' = now + 1
    /\ UNCHANGED <<lock, todo, calls, known, value, info, last_kernel, events,
                   rates, rate_running_, main>>

\* The destructor, when the other threads have stopped.
Destroy ==
    /\ main = "running"
    /\ now = MaxTime
    /\ meta_mu \notin Threads
    /\ main' = "join"
    /\ rate_running_' = FALSE
    /\ UNCHANGED <<lock, todo, calls, known, value, info, last_kernel, events, now,
                   rates>>

Join ==
    /\ main = "join"
    /\ rater = "ended"
    /\ main' = "destroyed"
    /\ UNCHANGED <<lock, todo, calls, known, value, info, last_kernel, events, now,
                   rates, rate_running_>>

-----------------------------------------------------------------------------
(* A scrape, or the snapshot (Registry::Collect).                          *)

Exports == <<lock, todo, calls, known, value, info, last_kernel, events, now, rates,
             rate_running_, main>>

BeginScrape ==
    /\ next = 0
    /\ scrapes < MaxScrapes
    /\ scrapes' = scrapes + 1
    /\ next' = 1
    /\ UNCHANGED <<Exports, seen, shown>>

\* One family, under the family's own lock: no series is added to it or removed
\* from it meanwhile.
CollectFamily ==
    /\ next \in 1 .. Len(Families)
    /\ LET m == Families[next]
       IN  /\ seen' = IF m = "info" THEN seen ELSE [seen EXCEPT ![m] = value[m]]
           /\ shown' = IF m = "info" THEN info ELSE shown
    /\ next' = next + 1
    /\ UNCHANGED <<Exports, scrapes>>

\* The answer is sent, and forgotten.
EndScrape ==
    /\ next > Len(Families)
    /\ next' = 0 /\ seen' = [m \in Collected |-> 0] /\ shown' = {}
    /\ UNCHANGED <<Exports, scrapes>>

-----------------------------------------------------------------------------
Exporting ==
    \/ \E t \in Threads : Call(t)
    \/ Update \/ Return \/ RateThread \/ Tick \/ Destroy \/ Join

Next == (Exporting /\ UNCHANGED scrape) \/ BeginScrape \/ CollectFamily \/ EndScrape

\* Threads are scheduled and time passes; that a record arrives, that somebody
\* scrapes, or that the exporter is destroyed, is not promised.
Spec ==
    /\ Init /\ [][Next]_vars
    /\ WF_vars((Update \/ Return) /\ UNCHANGED scrape)
    /\ WF_vars(RateThread /\ UNCHANGED scrape)
    /\ WF_vars(Tick /\ UNCHANGED scrape)
    /\ WF_vars(Join /\ UNCHANGED scrape)

-----------------------------------------------------------------------------
(* Properties.                                                             *)

\* A scrape that counts one thing shows the other, too: the queues of the packets
\* it counts, SDMA engines where there are SDMA packets, active AIS where there are
\* AIS operations.
Implied == {<<"launches", "aql_queues">>, <<"barriers", "aql_queues">>,
            <<"sdma_packets", "sdma_queues">>, <<"sdma_packets", "present">>,
            <<"ais_ops", "ais_active">>}

\* What a whole scrape has collected fits together, although registrations, records
\* and further calls came between its families: no more copies than packets, what
\* is counted is shown as present, and a GPU never has two "last" kernels.
ScrapeConsistent ==
    next > Len(Families) =>
        /\ seen["sdma_copies"] <= seen["sdma_packets"]
        /\ \A p \in Implied : seen[p[1]] > 0 => seen[p[2]] > 0
        /\ \A k1, k2 \in shown : k1 = k2

\* Every Add returns: meta_mu_ and rate_mu_ are never waited for in a circle.
CallReturns == (meta_mu \in Threads) ~> (meta_mu \notin Threads)

\* The last launch has left the window and no other is on its way.
Quiet ==
    /\ now = MaxTime
    /\ \A i \in 1 .. Len(todo) : todo[i] # Launched
    /\ \A i \in 1 .. Len(events) : events[i] + Window < now

\* When nothing has been launched for the window, the rate becomes zero and stays
\* there, without another launch to trigger it.
RateDecays == Quiet ~> [](rate = 0 \/ main # "running")
=============================================================================
