---------------------------- MODULE AtomicClaim ----------------------------
(***************************************************************************)
(* What a claim promises: in one step a worker becomes the only holder of  *)
(* some due rows, no more than it has slots for.  ClaimQuery is shown to    *)
(* implement it with a query that ranks without locks, and DeliveryService *)
(* with tasks that may be slow, cancelled or lost: the claim that the one  *)
(* works with is the claim that the other provides.                        *)
(***************************************************************************)
EXTENDS Integers, FiniteSets

CONSTANTS Rows, Workers, NoOne, WorkerConcurrency

VARIABLES
    waiting,    \* rows that are due and that nobody holds
    holder      \* the worker with an attempt at each row, or NoOne

vars == <<waiting, holder>>

HeldBy(w) == {r \in Rows : holder[r] = w}

Init == waiting \subseteq Rows /\ holder = [r \in Rows |-> NoOne]

Claim(w, picked) ==
    /\ picked # {} /\ picked \subseteq waiting
    /\ Cardinality(HeldBy(w) \union picked) <= WorkerConcurrency
    /\ waiting' = waiting \ picked
    /\ holder' = [r \in Rows |-> IF r \in picked THEN w ELSE holder[r]]

(* Attempts end, or leases do. *)
Release(rs) ==
    /\ \A r \in rs : holder[r] # NoOne
    /\ holder' = [r \in Rows |-> IF r \in rs THEN NoOne ELSE holder[r]]
    /\ UNCHANGED waiting

(* Rows that nobody holds are due (again). *)
Arrive(rs) ==
    /\ \A r \in rs : holder[r] = NoOne
    /\ waiting' = waiting \union rs
    /\ UNCHANGED holder

(* A claim commits and nobody is told: its rows are not due for a while. *)
Withdraw(rs) ==
    /\ waiting' = waiting \ rs
    /\ UNCHANGED holder

Next == \/ \E w \in Workers, picked \in SUBSET Rows : Claim(w, picked)
        \/ \E rs \in SUBSET Rows : Release(rs) \/ Arrive(rs) \/ Withdraw(rs)

AtomicSpec == Init /\ [][Next]_vars
=============================================================================
