----------------------------- MODULE ClaimQuery -----------------------------
(***************************************************************************)
(* How claim_batch chooses its rows (src/app/queue.py, _CLAIM), for        *)
(* workers that claim at the same time.  `ranked` reads a window of the    *)
(* due rows, oldest first, without locking them, and numbers them by       *)
(* origin; `picked` locks rows of that ranking one by one, passing over    *)
(* those that somebody has locked or that are no longer due; the UPDATE    *)
(* commits.  DeliveryService has all of this as one step, Tick.            *)
(*                                                                         *)
(* The due rows are a sequence in the order of claimable_at: what becomes  *)
(* due later has the later claimable_at, and joins at the end.  Rows with  *)
(* equal claimable_at are in some order.  A row outside the sequence that  *)
(* nobody holds is in backoff, settled, or not stored yet.                 *)
(***************************************************************************)
EXTENDS Integers, FiniteSets, Sequences, SequencesExt

CONSTANTS
    Rows,
    Origins,
    Origin,             \* recipient_origin of each row
    Workers,
    NoOne,
    WorkerConcurrency,  \* settings.worker_concurrency
    WorkerBatchSize,    \* settings.worker_batch_size
    Multiplier,         \* settings.claim_scan_multiplier
    MaxPerOrigin,       \* settings.max_claims_per_origin
    MaxDisturbances     \* bound: manual retries of due rows, and failed claims

(* A table has finitely many rows. *)
ASSUME RowsAssumption == IsFiniteSet(Rows)
ASSUME OriginAssumption == Origin \in [Rows -> Origins] /\ NoOne \notin Workers
ASSUME SettingsAssumption ==
    /\ WorkerConcurrency \in Nat \ {0}
    /\ WorkerBatchSize \in 1..WorkerConcurrency
    /\ Multiplier \in Nat \ {0}
    /\ MaxPerOrigin \in Nat \ {0}
    /\ MaxDisturbances \in Nat

VARIABLES
    due,            \* rows with claimable_at <= now(), oldest first
    holder,         \* who has each row in flight under a live lease
    query,          \* the claim each worker is making
    disturbances    \* manual retries and failed claims so far

vars == <<due, holder, query, disturbances>>

----------------------------------------------------------------------------

(* limit and the rows still to be looked at; those locked so far; and the rows
   whose claimable_at lies after now() of this transaction. *)
Query == [phase  : {"idle", "picking", "asleep"},
          limit  : 0..WorkerBatchSize,
          ranked : UNION {[1..n -> Rows] : n \in 0..Cardinality(Rows)},
          locked : SUBSET Rows,
          late   : SUBSET Rows]

NoQuery(phase) == [phase |-> phase, limit |-> 0, ranked |-> <<>>, locked |-> {}, late |-> {}]

TypeOK == /\ due \in UNION {[1..n -> Rows] : n \in 0..Cardinality(Rows)} /\ IsInjective(due)
          /\ holder \in [Rows -> Workers \union {NoOne}]
          /\ query \in [Workers -> Query]
          /\ disturbances \in 0..MaxDisturbances

Init == /\ due \in SetToSeqs(Rows)
        /\ holder = [r \in Rows |-> NoOne]
        /\ query = [w \in Workers |-> NoQuery("idle")]
        /\ disturbances = 0

HeldBy(w) == {r \in Rows : holder[r] = w}

Locked(r) == \E w \in Workers : r \in query[w].locked

(* The due rows among rs, oldest first. *)
InOrder(rs) ==
    LET places == {i \in DOMAIN due : due[i] \in rs}
        nth(k) == CHOOSE i \in places : Cardinality({j \in places : j <= i}) = k
    IN  [k \in 1..Cardinality(places) |-> due[nth(k)]]

Without(rs) == InOrder(Rows \ rs)

Smaller(a, b) == IF a < b THEN a ELSE b

----------------------------------------------------------------------------
(* The claim. *)

(* _tick: as many rows as there are free slots, one batch at the most. *)
Limit(w) == Smaller(WorkerConcurrency - Cardinality(HeldBy(w)), WorkerBatchSize)

(* row_number() OVER (PARTITION BY recipient_origin ORDER BY claimable_at). *)
RowNumber(i) == Cardinality({j \in 1..i : Origin[due[j]] = Origin[due[i]]})

(* Broken: the window takes the newest due rows. *)
WindowNewestFirst(limit) ==
    LET n == Smaller(limit * Multiplier, Len(due)) IN (Len(due) - n + 1)..Len(due)

(* ORDER BY claimable_at LIMIT limit * claim_scan_multiplier: positions.  The
   scan does not say what becomes of ties, which the numbering settles by id;
   here both go through the sequence. *)
Window(limit) == 1..Smaller(limit * Multiplier, Len(due))

(* Broken: no cap. *)
RankedUncapped(limit) ==
    InOrder({due[i] : i \in Window(limit)})

(* `ranked`, without the rows that `rn <= max_claims_per_origin` drops. *)
Ranked(limit) ==
    InOrder({due[i] : i \in {i \in Window(limit) : RowNumber(i) <= MaxPerOrigin}})

(* The transaction of claim_batch begins and its query takes its snapshot. *)
Rank(w) ==
    /\ query[w].phase = "idle"
    /\ Limit(w) > 0
    /\ query' = [query EXCEPT ![w] = [phase |-> "picking", limit |-> Limit(w),
                                      ranked |-> Ranked(Limit(w)), locked |-> {}, late |-> {}]]
    /\ UNCHANGED <<due, holder, disturbances>>

(* Broken: the conditions are not repeated under the lock. *)
StillDueUnchecked(w, r) == TRUE

(* The conditions of `picked`, on the row as it is once locked. *)
StillDue(w, r) == r \in ToSet(due) /\ r \notin query[w].late

PickingMore(w) ==
    /\ query[w].phase = "picking"
    /\ query[w].ranked # <<>>
    /\ Cardinality(query[w].locked) < query[w].limit

(* FOR UPDATE SKIP LOCKED, the next row of the ranking. *)
Pick(w) ==
    /\ PickingMore(w)
    /\ LET r == Head(query[w].ranked)
           taken == IF ~Locked(r) /\ StillDue(w, r) THEN {r} ELSE {}
       IN  query' = [query EXCEPT ![w].ranked = Tail(@), ![w].locked = @ \union taken]
    /\ UNCHANGED <<due, holder, disturbances>>

(* The UPDATE, and the commit.  A worker that got nothing sleeps. *)
Claim(w) ==
    /\ query[w].phase = "picking"
    /\ ~PickingMore(w)
    /\ LET picked == query[w].locked IN
       /\ due' = Without(picked)
       /\ holder' = [r \in Rows |-> IF r \in picked THEN w ELSE holder[r]]
       /\ query' = [query EXCEPT ![w] = NoQuery(IF picked = {} THEN "asleep" ELSE "idle")]
    /\ UNCHANGED disturbances

Disturbance == disturbances < MaxDisturbances /\ disturbances' = disturbances + 1

(* The claim fails or its process ends: the locks are gone. *)
Abort(w) ==
    /\ query[w].phase = "picking"
    /\ Disturbance
    /\ query' = [query EXCEPT ![w] = NoQuery("idle")]
    /\ UNCHANGED <<due, holder>>

(* The poll interval is over. *)
Wake(w) ==
    /\ query[w].phase = "asleep"
    /\ query' = [query EXCEPT ![w] = NoQuery("idle")]
    /\ UNCHANGED <<due, holder, disturbances>>

----------------------------------------------------------------------------
(* What happens to rows meanwhile. *)

(* The open transactions of ws began before r got its claimable_at. *)
Later(r, ws) ==
    query' = [w \in Workers |-> IF w \in ws /\ query[w].phase = "picking"
                                THEN [query[w] EXCEPT !.late = @ \union {r}] ELSE query[w]]

(* The attempt at r is recorded, or its lease is over. *)
Release(r) ==
    /\ holder[r] # NoOne
    /\ holder' = [holder EXCEPT ![r] = NoOne]
    /\ UNCHANGED <<due, query, disturbances>>

(* A row that was not due becomes due: its backoff is over, or it is new. *)
Arrive(r) ==
    /\ r \notin ToSet(due) /\ holder[r] = NoOne
    /\ due' = Append(due, r)
    /\ Later(r, Workers)
    /\ UNCHANGED <<holder, disturbances>>

(* A manual retry of a row that is due already: it starts over at the end.
   Its transaction may have begun before those of some claims. *)
Requeue(r) ==
    /\ r \in ToSet(due) /\ ~Locked(r)
    /\ Disturbance
    /\ due' = Append(Without({r}), r)
    /\ \E ws \in SUBSET Workers : Later(r, ws)
    /\ UNCHANGED holder

----------------------------------------------------------------------------

ClaimStep(w) == Rank(w) \/ Pick(w) \/ Claim(w) \/ Wake(w)

Next == \/ \E w \in Workers : ClaimStep(w) \/ Abort(w)
        \/ \E r \in Rows : Release(r) \/ Arrive(r) \/ Requeue(r)

Spec == Init /\ [][Next]_vars

(* Workers poll for ever, and attempts end by their deadline. *)
FairSpec == /\ Spec
            /\ \A w \in Workers : WF_vars(ClaimStep(w))
            /\ \A r \in Rows : WF_vars(Release(r))

----------------------------------------------------------------------------
(* What the query promises. *)

(* No batch takes more rows of one origin than max_claims_per_origin, although
   rows leave and join the queue between the ranking and the locks. *)
CapPerBatch ==
    \A w \in Workers, o \in Origins :
        Cardinality({r \in query[w].locked : Origin[r] = o}) <= MaxPerOrigin

(* "a delivery another worker has just claimed drops out instead of being
   handed out twice" (queue.py): claims that overlap are like claims made one
   after the other, each of due rows that nobody holds. *)
Atomic == INSTANCE AtomicClaim WITH waiting <- ToSet(due)
ImplementsAtomicClaim == Atomic!AtomicSpec

(* No row waits for ever behind other rows, of its own origin or of others:
   the oldest due row is first of its origin and first in the window. *)
EventuallyClaimed ==
    \A r \in Rows : r \in ToSet(due) ~> holder[r] # NoOne

----------------------------------------------------------------------------
(* What the repository says of the program and the program does not do. *)

(* max_claims_per_origin "is what stops a single dead or slow recipient from
   occupying the whole worker" (config.py): one origin never has all slots
   while a row of another origin is due. *)
WorkerShared ==
    \A w \in Workers, o \in Origins :
        /\ Cardinality(HeldBy(w)) = WorkerConcurrency
        /\ \A r \in HeldBy(w) : Origin[r] = o
        => \A r \in ToSet(due) : Origin[r] = o

(* "Idle only when there was nothing at all to take" (worker.py): a worker
   that goes to sleep leaves no row that was due when it asked and is free. *)
IdleOnlyWithoutWork ==
    [][\A w \in Workers :
          query[w].phase = "picking" /\ query'[w].phase = "asleep" =>
             \A r \in ToSet(due) : Locked(r) \/ r \in query[w].late]_vars
=============================================================================
