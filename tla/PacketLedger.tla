----------------------------- MODULE PacketLedger -----------------------------
(***************************************************************************)
(* What a ring poller promises about one queue, whatever the format of the *)
(* ring: it walks the ring forwards, once, and every unit it walks over    *)
(* (an AQL packet id, an SDMA dword) is put on exactly one account.        *)
(*                                                                         *)
(*   held      decoded, not yet consumed by the GPU                        *)
(*   reported  handed to the sink as completed                             *)
(*   skipped   given up, and counted as dropped                            *)
(*                                                                         *)
(* A held unit can only become a reported one - unless the queue is        *)
(* closed, which abandons everything held.                                 *)
(***************************************************************************)
EXTENDS Naturals

CONSTANT Units    \* the positions a poller may move to

VARIABLES
    phase,     \* "new", "open" or "closed"
    start,     \* the first unit that is accounted for
    next,      \* the first unit not yet walked over
    held, reported, skipped

ledger == <<phase, start, next, held, reported, skipped>>

Init ==
    /\ phase = "new"
    /\ start = 0 /\ next = 0
    /\ held = {} /\ reported = {} /\ skipped = {}

\* Begin at the producer's current position.
Open(u) ==
    /\ phase = "new"
    /\ phase' = "open"
    /\ start' = u
    /\ next' = u
    /\ UNCHANGED <<held, reported, skipped>>

Walk(u) == next .. u - 1    \* the units walked over by moving next to u

Hold(u) ==
    /\ phase = "open"
    /\ u > next
    /\ held' = held \cup Walk(u)
    /\ next' = u
    /\ UNCHANGED <<phase, start, reported, skipped>>

ReportAtOnce(u) ==
    /\ phase = "open"
    /\ u > next
    /\ reported' = reported \cup Walk(u)
    /\ next' = u
    /\ UNCHANGED <<phase, start, held, skipped>>

Skip(u) ==
    /\ phase = "open"
    /\ u > next
    /\ skipped' = skipped \cup Walk(u)
    /\ next' = u
    /\ UNCHANGED <<phase, start, held, reported>>

Report(units) ==
    /\ phase = "open"
    /\ units # {}
    /\ units \subseteq held
    /\ held' = held \ units
    /\ reported' = reported \cup units
    /\ UNCHANGED <<phase, start, next, skipped>>

Close ==
    /\ phase # "closed"
    /\ phase' = "closed"
    /\ held' = {}
    /\ UNCHANGED <<start, next, reported, skipped>>

Next ==
    \/ \E u \in Units : Open(u) \/ Hold(u) \/ ReportAtOnce(u) \/ Skip(u)
    \/ \E units \in SUBSET held : Report(units)
    \/ Close

Spec == Init /\ [][Next]_ledger
=============================================================================
