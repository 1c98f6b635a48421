--------------------------- MODULE DeliveryQueue ---------------------------
(***************************************************************************)
(* The Postgres side of the service: the table `deliveries`, which is both *)
(* the state of every (lead, recipient) pair and the work queue, and the   *)
(* table `delivery_attempts`, the journal.  The operators are the SQL      *)
(* statements and transactions of src/app/queue.py and src/app/intake.py.  *)
(* A module that EXTENDS this one decides who runs them and when.          *)
(*                                                                         *)
(* Time is relative: a timestamp column is kept as its distance from       *)
(* now(), with 0 for "reached".  next_in is next_attempt_at - now(),       *)
(* lease_in is lease_expires_at - now(), and 0 when that column is NULL.   *)
(* The columns that only describe the last attempt (last_error, ...), the  *)
(* payload and the recipient are left out: no statement below branches on  *)
(* them, except the filters that choose which rows an operator retries,    *)
(* which are the parameter ds of Requeue.                                  *)
(*                                                                         *)
(* The definitions marked "Broken" are bugs this code could have, in the   *)
(* manner of src/scripts/mutation_check.py: no action uses them.  Put in   *)
(* the place of the definition that follows, each makes a property of      *)
(* DeliveryService fail.                                                   *)
(***************************************************************************)
EXTENDS Integers, FiniteSets

CONSTANTS
    Deliveries,         \* the (lead, recipient) pairs
    Workers,            \* worker ids; an id belongs to one process for ever
    NoOne,              \* locked_by IS NULL
    RetryMaxAttempts,   \* settings.retry_max_attempts
    LeaseTime,          \* settings.lease_seconds, in units of model time
    MaxDelay,           \* the longest backoff, in units of model time
    MaxTotal            \* bound: claims of one delivery that are explored

(* A table has finitely many rows. *)
ASSUME DeliveriesAssumption == IsFiniteSet(Deliveries)

ASSUME NoOneAssumption == NoOne \notin Workers
ASSUME BudgetAssumption == RetryMaxAttempts \in Nat \ {0}
ASSUME LeaseAssumption == LeaseTime \in Nat \ {0}
ASSUME DelayAssumption == MaxDelay \in Nat \ {0}
ASSUME TotalAssumption == MaxTotal \in Nat \ {0}

VARIABLES
    row,        \* deliveries: the row of each pair, status "none" before the INSERT
    journal     \* delivery_attempts: outcome by attempt number, "none" if no entry

queueVars == <<row, journal>>

----------------------------------------------------------------------------
(* Tables. *)

Numbers == 1..MaxTotal

Statuses == {"none", "pending", "in_flight", "delivered", "failed"}

Outcomes == {"none", "unknown", "success", "failure"}

Counts == 0..MaxTotal           \* attempts made
Delays == 0..MaxDelay           \* until next_attempt_at
LeasesLeft == 0..LeaseTime      \* until lease_expires_at

Row == [status         : Statuses,
        attempts       : Counts,
        total_attempts : Counts,
        next_in        : Delays,
        lease_in       : LeasesLeft,
        locked_by      : Workers \union {NoOne}]

NoRow == [status |-> "none", attempts |-> 0, total_attempts |-> 0,
          next_in |-> 0, lease_in |-> 0, locked_by |-> NoOne]

QueueTypeOK == /\ row \in [Deliveries -> Row]
               /\ journal \in [Deliveries -> [Numbers -> Outcomes]]

QueueInit == /\ row = [d \in Deliveries |-> NoRow]
             /\ journal = [d \in Deliveries |-> [n \in Numbers |-> "none"]]

(* Storing a lead, or attaching recipients to one: INSERT with the column
   defaults, ON CONFLICT (request_id, recipient_url) DO NOTHING. *)
InsertDeliveries(ds) ==
    /\ row' = [d \in Deliveries |->
                 IF d \in ds /\ row[d].status = "none"
                 THEN [row[d] EXCEPT !.status = "pending"] ELSE row[d]]
    /\ UNCHANGED journal

----------------------------------------------------------------------------
(* Claiming. *)

(* Broken: the trigger leaves the lease out of claimable_at. *)
ClaimableInWithoutLease(r) == r.next_in

(* The trigger deliveries_sync_claimable: claimable_at, relative to now(). *)
ClaimableIn(r) == IF r.status = "in_flight" THEN r.lease_in ELSE r.next_in

(* Broken: only pending rows are work, expired leases are not. *)
ClaimablePendingOnly(r) == r.status = "pending" /\ ClaimableIn(r) <= 0

(* The condition `ranked` asks for and `picked` asks again under the lock. *)
Claimable(r) == /\ r.status \in {"pending", "in_flight"}
                /\ ClaimableIn(r) <= 0

(* The UPDATE of _CLAIM: the attempt is burned before it is made. *)
ClaimedRow(r, w) ==
    [r EXCEPT !.status = "in_flight",
              !.attempts = @ + 1,
              !.total_attempts = @ + 1,
              !.lease_in = LeaseTime,
              !.locked_by = w]

(* Broken: the first attempt at a row is never one that got lost. *)
ReclaimedAgain(picked) ==
    {d \in picked : row[d].status = "in_flight" /\ row[d].total_attempts > 1}

(* Rows whose previous attempt a dead or silent worker never reported. *)
Reclaimed(picked) ==
    {d \in picked : row[d].status = "in_flight" /\ row[d].total_attempts > 0}

(* Broken: the entry gets the number the row has after the claim. *)
RecordLostAttemptsLate(reclaimed) ==
    journal' = [d \in Deliveries |-> [n \in Numbers |->
                  IF /\ d \in reclaimed
                     /\ n = row[d].total_attempts + 1
                     /\ journal[d][n] = "none"
                  THEN "unknown" ELSE journal[d][n]]]

(* _RECORD_LOST_ATTEMPTS, ON CONFLICT DO NOTHING. *)
RecordLostAttempts(reclaimed) ==
    journal' = [d \in Deliveries |-> [n \in Numbers |->
                  IF /\ d \in reclaimed
                     /\ n = row[d].total_attempts
                     /\ journal[d][n] = "none"
                  THEN "unknown" ELSE journal[d][n]]]

(* Broken: `picked` trusts the unlocked ranking and repeats no condition but
   the status. *)
ClaimBatchUnchecked(w, picked, limit) ==
    /\ picked # {}
    /\ Cardinality(picked) <= limit
    /\ \A d \in picked : /\ row[d].status \in {"pending", "in_flight"}
                         /\ row[d].total_attempts < MaxTotal
    /\ row' = [d \in Deliveries |->
                 IF d \in picked THEN ClaimedRow(row[d], w) ELSE row[d]]
    /\ RecordLostAttempts(Reclaimed(picked))

(* The transaction of claim_batch, once it has chosen and locked its rows.
   Which of the due rows it gets is open here: that depends on claimable_at,
   on the per-origin cap and on what other transactions hold locked. *)
ClaimBatch(w, picked, limit) ==
    /\ picked # {}
    /\ Cardinality(picked) <= limit
    /\ \A d \in picked : Claimable(row[d]) /\ row[d].total_attempts < MaxTotal
    /\ row' = [d \in Deliveries |->
                 IF d \in picked THEN ClaimedRow(row[d], w) ELSE row[d]]
    /\ RecordLostAttempts(Reclaimed(picked))

----------------------------------------------------------------------------
(* Recording an outcome. *)

(* Broken: one attempt more than the budget. *)
IsExhaustedLate(attemptsMade) == attemptsMade > RetryMaxAttempts

IsExhausted(attemptsMade) == attemptsMade >= RetryMaxAttempts

(* Broken: a success counts only while the row is in flight. *)
MarkDeliveredInFlightOnly(r) ==
    IF r.status = "in_flight"
    THEN [r EXCEPT !.status = "delivered", !.lease_in = 0, !.locked_by = NoOne]
    ELSE r

(* _MARK_DELIVERED: whoever holds the lease. *)
MarkDelivered(r) ==
    IF r.status # "delivered"
    THEN [r EXCEPT !.status = "delivered", !.lease_in = 0, !.locked_by = NoOne]
    ELSE r

(* Broken: a failure does not ask who holds the lease. *)
MarkFailureOfAnyone(r, w, exhausted, delay) ==
    IF r.status = "in_flight"
    THEN [r EXCEPT !.status = IF exhausted THEN "failed" ELSE "pending",
                   !.next_in = IF exhausted THEN @ ELSE delay,
                   !.lease_in = 0,
                   !.locked_by = NoOne]
    ELSE r

(* _MARK_FAILURE: only a row this worker still has locked. *)
MarkFailure(r, w, exhausted, delay) ==
    IF r.locked_by = w /\ r.status = "in_flight"
    THEN [r EXCEPT !.status = IF exhausted THEN "failed" ELSE "pending",
                   !.next_in = IF exhausted THEN @ ELSE delay,
                   !.lease_in = 0,
                   !.locked_by = NoOne]
    ELSE r

(* Broken: ON CONFLICT DO NOTHING, so an 'unknown' stays for ever. *)
JournalledOnce(entries, number, outcome) ==
    [entries EXCEPT ![number] = IF @ = "none" THEN outcome ELSE @]

(* _INSERT_ATTEMPT: fills a gap or replaces an 'unknown', never a fact. *)
Journalled(entries, number, outcome) ==
    [entries EXCEPT ![number] = IF @ \in {"none", "unknown"} THEN outcome ELSE @]

(* The transaction of record_result.  `budget` is the position in the budget
   that the claim returned, not the one the row has by now; the delay is the
   jittered backoff, never shorter than MIN_DELAY_SECONDS. *)
RecordResult(w, d, number, budget, outcome) ==
    /\ \E delay \in 1..MaxDelay :
          row' = [row EXCEPT ![d] =
                    IF outcome = "success" THEN MarkDelivered(@)
                    ELSE MarkFailure(@, w, IsExhausted(budget), delay)]
    /\ journal' = [journal EXCEPT ![d] = Journalled(@, number, outcome)]

----------------------------------------------------------------------------
(* Manual retry. *)

(* The CASE of `classified`. *)
Requeueable(r, includeDelivered) ==
    /\ r.status # "none"
    /\ ~(r.status = "in_flight" /\ r.lease_in > 0)
    /\ ~(r.status = "delivered" /\ ~includeDelivered)

(* Broken: the lifetime counter is reset along with the budget. *)
RequeuedRowFromScratch(r) ==
    [r EXCEPT !.status = "pending", !.attempts = 0, !.total_attempts = 0,
              !.next_in = 0, !.lease_in = 0, !.locked_by = NoOne]

RequeuedRow(r) ==
    [r EXCEPT !.status = "pending", !.attempts = 0, !.next_in = 0,
              !.lease_in = 0, !.locked_by = NoOne]

(* _REQUEUE_TEMPLATE over the rows of ds that matched the filter and that
   nobody had locked at that moment. *)
Requeue(ds, includeDelivered) ==
    /\ row' = [d \in Deliveries |->
                 IF d \in ds /\ Requeueable(row[d], includeDelivered)
                 THEN RequeuedRow(row[d]) ELSE row[d]]
    /\ UNCHANGED journal

----------------------------------------------------------------------------
(* One unit of time passes: every timestamp comes one closer. *)

Sooner(n) == IF n > 0 THEN n - 1 ELSE 0

AgeRows ==
    /\ row' = [d \in Deliveries |->
                 [row[d] EXCEPT !.next_in = Sooner(@), !.lease_in = Sooner(@)]]
    /\ UNCHANGED journal

=============================================================================
