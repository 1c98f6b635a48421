-------------------------- MODULE DeliveryService --------------------------
(***************************************************************************)
(* The running service: worker processes (src/app/worker.py,               *)
(* src/app/run_worker.py) that claim rows of the queue, send each claimed  *)
(* copy to its recipient (src/app/sender.py) and record what happened,     *)
(* while leads come in, operators retry by hand, processes are stopped or  *)
(* killed and database calls fail.                                         *)
(*                                                                         *)
(* Each action is one database transaction or one step of an asyncio task  *)
(* between two awaits.  A task's age counts the time since now() of the    *)
(* transaction that claimed its row.  The code bounds the HTTP exchange by *)
(* attempt_deadline_seconds; what it does not bound (the commit of the     *)
(* claim, a paused event loop, the wait for a pooled connection, the       *)
(* recording transaction) is the constant Stall.                           *)
(***************************************************************************)
EXTENDS DeliveryQueue

CONSTANTS
    WorkerConcurrency,  \* settings.worker_concurrency
    WorkerBatchSize,    \* settings.worker_batch_size
    AttemptDeadline,    \* settings.attempt_deadline_seconds, in model time
    Stall,              \* longest time an attempt spends outside that deadline
    Unstorable,         \* deliveries whose recipient's answer has a NUL in it
    MaxFaults,          \* bound: stops, kills and failed database calls
    MaxRetries          \* bound: manual retries

(* Settings.validate_invariants, and the types of the fields. *)
ASSUME SettingsAssumption ==
    /\ WorkerConcurrency \in Nat \ {0}
    /\ WorkerBatchSize \in 1..WorkerConcurrency
    /\ AttemptDeadline \in Nat \ {0}
    /\ LeaseTime > AttemptDeadline

ASSUME UnstorableAssumption == Unstorable \subseteq Deliveries

ASSUME BoundsAssumption ==
    Stall \in Nat /\ MaxFaults \in Nat /\ MaxRetries \in Nat

VARIABLES
    proc,       \* state of the process with each worker id
    tasks,      \* Worker._in_flight of all processes
    accepted,   \* history: numbers of the copies each recipient took
    faults,     \* stops, kills and failed calls so far
    retries     \* manual retries so far

envVars == <<faults, retries>>

vars == <<row, journal, proc, tasks, accepted, faults, retries>>

----------------------------------------------------------------------------

(* The claim a task was spawned with, and how far it is: the copy is on the
   wire, or Sender.send has returned with this verdict. *)
Task == [worker   : Workers,
         delivery : Deliveries,
         number   : Numbers,            \* claim.attempt_number
         budget   : Numbers,            \* claim.budget_attempt
         phase    : {"wire", "success", "failure"},
         age      : 0..(AttemptDeadline + Stall)]

ProcStates == {"off", "running", "draining", "gone"}

TypeOK == /\ QueueTypeOK
          /\ proc \in [Workers -> ProcStates]
          /\ tasks \subseteq Task
          /\ accepted \in [Deliveries -> SUBSET Numbers]
          /\ faults \in 0..MaxFaults
          /\ retries \in 0..MaxRetries

Init == /\ QueueInit
        /\ proc = [w \in Workers |-> "off"]
        /\ tasks = {}
        /\ accepted = [d \in Deliveries |-> {}]
        /\ faults = 0
        /\ retries = 0

TasksOf(w) == {t \in tasks : t.worker = w}

Fault == faults < MaxFaults /\ faults' = faults + 1

----------------------------------------------------------------------------
(* Worker processes. *)

(* main and Worker.__init__: a fresh process, so a fresh worker id. *)
Start(w) ==
    /\ proc[w] = "off"
    /\ proc' = [proc EXCEPT ![w] = "running"]
    /\ UNCHANGED <<row, journal, tasks, accepted, envVars>>

FreeSlots(w) == WorkerConcurrency - Cardinality(TasksOf(w))

(* Broken: every claim asks for a full batch. *)
ClaimLimitFullBatch(w) == WorkerBatchSize

ClaimLimit(w) == IF FreeSlots(w) < WorkerBatchSize THEN FreeSlots(w) ELSE WorkerBatchSize

(* Broken: the claim returns the counters the row had before the UPDATE. *)
SpawnedFromOldRow(w, d) ==
    [worker |-> w, delivery |-> d, phase |-> "wire", age |-> 0,
     number |-> row[d].total_attempts, budget |-> row[d].attempts]

(* _spawn, for a claim RETURNING d's row as the UPDATE left it. *)
Spawned(w, d) ==
    [worker |-> w, delivery |-> d, phase |-> "wire", age |-> 0,
     number |-> row[d].total_attempts + 1, budget |-> row[d].attempts + 1]

(* _tick that finds work: claim up to the free slots, spawn a task for each. *)
Tick(w, picked) ==
    /\ proc[w] = "running"
    /\ ClaimBatch(w, picked, ClaimLimit(w))
    /\ tasks' = tasks \union {Spawned(w, d) : d \in picked}
    /\ UNCHANGED <<proc, accepted, envVars>>

(* claim_batch raises: before the commit, when nothing is claimed, or because
   the answer to the COMMIT got lost, when the rows are claimed and nobody
   knows.  The exception leaves the loop of `run` through _drain. *)
ClaimRaises(w, picked) ==
    /\ proc[w] = "running"
    /\ FreeSlots(w) > 0
    /\ Fault
    /\ \/ ClaimBatch(w, picked, ClaimLimit(w))
       \/ picked = {} /\ UNCHANGED queueVars
    /\ proc' = [proc EXCEPT ![w] = "draining"]
    /\ UNCHANGED <<tasks, accepted, retries>>

(* SIGTERM: request_stop, and the loop of `run` sees the flag. *)
RequestStop(w) ==
    /\ proc[w] = "running"
    /\ Fault
    /\ proc' = [proc EXCEPT ![w] = "draining"]
    /\ UNCHANGED <<queueVars, tasks, accepted, retries>>

(* The end of _drain: every task is done, or the grace period is over and the
   rest are cancelled.  The process ends. *)
EndDrain(w) ==
    /\ proc[w] = "draining"
    /\ proc' = [proc EXCEPT ![w] = "gone"]
    /\ tasks' = tasks \ TasksOf(w)
    /\ UNCHANGED <<queueVars, accepted, envVars>>

(* kill -9, out of memory, power. *)
Kill(w) ==
    /\ proc[w] \in {"running", "draining"}
    /\ Fault
    /\ proc' = [proc EXCEPT ![w] = "gone"]
    /\ tasks' = tasks \ TasksOf(w)
    /\ UNCHANGED <<queueVars, accepted, retries>>

----------------------------------------------------------------------------
(* One attempt: the task _deliver. *)

(* The recipient takes the copy, or has it in hand and will take it even when
   nobody waits any more; whether its answer arrives is open. *)
Take(t) ==
    /\ t.phase = "wire"
    /\ accepted' = [accepted EXCEPT ![t.delivery] = @ \union {t.number}]
    /\ UNCHANGED <<queueVars, proc, tasks, envVars>>

(* Broken: an answer that is no 2xx, or no answer, may count as delivered. *)
VerdictsOptimistic(t) == {"success", "failure"}

(* What Sender.send can return: 2xx only from a recipient that took the copy;
   a refusal, a lost answer or a timeout whether or not it did. *)
Verdicts(t) ==
    IF t.number \in accepted[t.delivery] THEN {"success", "failure"} ELSE {"failure"}

(* Sender.send returns. *)
Answer(t, verdict) ==
    /\ t.phase = "wire"
    /\ verdict \in Verdicts(t)
    /\ tasks' = (tasks \ {t}) \union {[t EXCEPT !.phase = verdict]}
    /\ UNCHANGED <<queueVars, proc, accepted, envVars>>

(* record_result commits and the task ends.  An answer with a NUL cannot be
   stored as text: neither a success, which has an answer, nor a refusal by
   such a recipient, but a timeout. *)
Record(t) ==
    /\ t.phase # "wire"
    /\ ~(t.phase = "success" /\ t.delivery \in Unstorable)
    /\ RecordResult(t.worker, t.delivery, t.number, t.budget, t.phase)
    /\ tasks' = tasks \ {t}
    /\ UNCHANGED <<proc, accepted, envVars>>

(* record_result raises without a commit: _deliver logs it and the task ends.
   (When the commit went through and only its answer was lost, the tables are
   as Record leaves them.) *)
LoseResult(t) ==
    /\ t.phase # "wire"
    /\ Fault \/ (t.delivery \in Unstorable /\ UNCHANGED faults)
    /\ tasks' = tasks \ {t}
    /\ UNCHANGED <<queueVars, proc, accepted, retries>>

----------------------------------------------------------------------------
(* The HTTP API. *)

(* accept_request of a new lead, or attach_recipients. *)
Enqueue(ds) ==
    /\ InsertDeliveries(ds)
    /\ UNCHANGED <<proc, tasks, accepted, envVars>>

Retry == retries < MaxRetries /\ retries' = retries + 1

(* requeue_request: some or all recipients of a lead. *)
RetryRequest(ds, includeDelivered) ==
    /\ Retry
    /\ Requeue(ds, includeDelivered)
    /\ UNCHANGED <<proc, tasks, accepted, faults>>

(* requeue_bulk: rows in the named states; naming 'delivered' is the opt-in. *)
RetryBulk(ds, statuses) ==
    /\ Retry
    /\ \A d \in ds : row[d].status \in statuses
    /\ Requeue(ds, TRUE)
    /\ UNCHANGED <<proc, tasks, accepted, faults>>

----------------------------------------------------------------------------
(* Time. *)

(* An attempt lasts at most the deadline of Sender.send and the stalls. *)
Elapse ==
    /\ \A t \in tasks : t.age < AttemptDeadline + Stall
    /\ AgeRows
    /\ tasks' = {[t EXCEPT !.age = @ + 1] : t \in tasks}
    /\ UNCHANGED <<proc, accepted, envVars>>

----------------------------------------------------------------------------

Next ==
    \/ \E w \in Workers :
          \/ Start(w)
          \/ RequestStop(w)
          \/ EndDrain(w)
          \/ Kill(w)
          \/ \E picked \in SUBSET Deliveries : Tick(w, picked) \/ ClaimRaises(w, picked)
    \/ \E t \in tasks :
          \/ Take(t)
          \/ \E verdict \in {"success", "failure"} : Answer(t, verdict)
          \/ Record(t)
          \/ LoseResult(t)
    \/ \E ds \in SUBSET Deliveries :
          \/ Enqueue(ds)
          \/ \E include \in BOOLEAN : RetryRequest(ds, include)
          \/ \E statuses \in SUBSET (Statuses \ {"none"}) : RetryBulk(ds, statuses)
    \/ Elapse

Spec == Init /\ [][Next]_vars

(* The event loop of a live process runs every task that is ready: send ends
   by its deadline, recording follows, and a cancelled or lost task ends too. *)
TaskStep(w) ==
    \E t \in TasksOf(w) :
        (\E verdict \in {"success", "failure"} : Answer(t, verdict)) \/ Record(t) \/ LoseResult(t)

ClaimStep(w) == \E picked \in SUBSET Deliveries : Tick(w, picked)

(* Time passes; `restart: unless-stopped` starts processes; a running worker
   polls; a draining one ends after its grace period.  Recipients, operators
   and faults owe us nothing. *)
Fairness ==
    /\ WF_vars(Elapse)
    /\ \A w \in Workers : /\ WF_vars(Start(w))
                          /\ WF_vars(ClaimStep(w))
                          /\ WF_vars(TaskStep(w))
                          /\ WF_vars(EndDrain(w))

FairSpec == Spec /\ Fairness

----------------------------------------------------------------------------
(* What the service promises. *)

(* The attempt numbers of d that belong to its current budget: those since
   the row was created or last requeued. *)
CurrentBudget(d) == (row[d].total_attempts - row[d].attempts + 1)..row[d].total_attempts

(* No attempt number is ever handed out twice: two tasks alive at the same
   time, in any processes, are different attempts, and a number a task holds
   was counted by its row.  total_attempts numbers the journal (001_init.sql)
   even across manual retries, which reset only attempts. *)
AttemptNumbersUnique ==
    /\ \A t \in tasks : t.number <= row[t.delivery].total_attempts
    /\ \A t1, t2 \in tasks :
          t1.delivery = t2.delivery /\ t1.number = t2.number => t1 = t2

(* A delivery shown as delivered can be proved from the journal, and the
   journal never claims a success for a copy that the recipient did not take:
   _MARK_DELIVERED and _INSERT_ATTEMPT commit together, after a 2xx only. *)
DeliveredHasProof ==
    \A d \in Deliveries :
        /\ row[d].status = "delivered" => \E n \in Numbers : journal[d][n] = "success"
        /\ \A n \in Numbers : journal[d][n] = "success" => n \in accepted[d]

(* A success found in the journal under the current budget settles the row:
   no stale failure, late claim or retry within that budget sends it again.
   This is why _MARK_DELIVERED does not look at the lease. *)
SuccessSettles ==
    \A d \in Deliveries :
        (\E n \in CurrentBudget(d) : journal[d][n] = "success") => row[d].status = "delivered"

(* At most one attempt per delivery is alive at any time, in all processes
   together: what SKIP LOCKED and the leases are for, as long as an attempt
   and its stalls fit in the lease. *)
NoConcurrentSend ==
    \A t1, t2 \in tasks : t1.delivery = t2.delivery => t1 = t2

(* The journal has no gap within a budget: every attempt of the current
   budget has its entry, except the one a worker may still be making. *)
BudgetJournalled ==
    \A d \in Deliveries : \A n \in CurrentBudget(d) :
        journal[d][n] = "none" => n = row[d].total_attempts /\ row[d].status = "in_flight"

(* The attempts at d that are over and of which the journal says nothing. *)
Gaps(d) ==
    {n \in 1..row[d].total_attempts :
        /\ journal[d][n] = "none"
        /\ ~(n = row[d].total_attempts /\ row[d].status = "in_flight")}

(* What a manual retry costs the journal: it may hit a row whose lease is over
   and whose lost attempt no claim has entered yet, and then nobody ever will;
   but a retry loses one entry of a delivery at most, and nothing else loses
   any, whatever died before it, comes after it or had burned the budget. *)
GapsPerRetry == \A d \in Deliveries : Cardinality(Gaps(d)) <= retries

(* A delivery is given up only by a recorded failure that spent the budget,
   and from then on the budget is only exceeded by attempts that got lost:
   is_exhausted is asked when a failure is recorded, not when a row is
   claimed. *)
BudgetHonoured ==
    \A d \in Deliveries :
        /\ row[d].status = "failed" =>
              /\ row[d].attempts >= RetryMaxAttempts
              /\ journal[d][row[d].total_attempts] = "failure"
        /\ \A n \in CurrentBudget(d) :
              /\ n < row[d].total_attempts
              /\ n >= row[d].total_attempts - row[d].attempts + RetryMaxAttempts
              => journal[d][n] = "unknown"

(* Attempts of the current budget, its last position or beyond, that nobody
   recorded. *)
LostAtTheEnd(d) ==
    {n \in CurrentBudget(d) : /\ n >= row[d].total_attempts - row[d].attempts + RetryMaxAttempts
                              /\ journal[d][n] = "unknown"}

(* At least once, and how much more than once: within a budget a recipient
   gets at most retry_max_attempts copies, and one more for every attempt at
   the end of the budget or beyond it that was lost.  Neither a retry that
   comes too early nor a stale result nor a claim by somebody else adds one. *)
CopiesPerLoss ==
    \A d \in Deliveries :
        Cardinality(accepted[d] \cap CurrentBudget(d))
            <= RetryMaxAttempts + Cardinality(LostAtTheEnd(d))

(* A worker never has more attempts alive than worker_concurrency, although
   it claims in batches while earlier attempts come and go. *)
SlotsRespected == \A w \in Workers : Cardinality(TasksOf(w)) <= WorkerConcurrency

(* A step in which attempt t is over, not merely older or further on: no task
   of its delivery and number is left. *)
Ends(t) == \A u \in tasks' : u.delivery # t.delivery \/ u.number # t.number

(* While a lease is live its row moves only by a success (of any attempt) or
   by a failure that the lease holder records: no claim, no manual retry and
   no other worker's failure takes it away. *)
LiveLeaseIsExclusive ==
    [][\A d \in Deliveries :
          row[d].status = "in_flight" /\ row[d].lease_in > 0 =>
             \/ row'[d].status = "delivered"
             \/ /\ row'[d].status = "in_flight"
                /\ row'[d].locked_by = row[d].locked_by
                /\ row'[d].total_attempts = row[d].total_attempts
             \/ \E t \in tasks : /\ t.delivery = d
                                 /\ t.worker = row[d].locked_by
                                 /\ t.phase = "failure"
                                 /\ Ends(t)]_vars

(* Every stored delivery is settled in the end, whatever processes die, calls
   fail and attempts time out on the way. *)
EventuallySettled ==
    \A d \in Deliveries :
        row[d].status \in {"pending", "in_flight"} ~> row[d].status \in {"delivered", "failed"}

----------------------------------------------------------------------------
(* What the repository says of the program and the program does not do. *)

(* "a process that dies mid-attempt still burns the attempt, so a delivery
   that reliably kills workers cannot loop forever" (queue.py): no delivery
   starts more attempts than its budget.  _CLAIM never looks at the budget. *)
PoisonedDeliveryStops == \A d \in Deliveries : row[d].attempts <= RetryMaxAttempts

(* "delivery_attempts keeps every attempt ever made" (queue.py), also across
   manual retries: a copy the recipient took has its entry, or the task that
   sent it is alive, or its row is still in_flight under it. *)
EveryCopyJournalled ==
    \A d \in Deliveries : \A n \in accepted[d] :
        \/ journal[d][n] # "none"
        \/ \E t \in tasks : t.delivery = d /\ t.number = n
        \/ n = row[d].total_attempts /\ row[d].status = "in_flight"

(* "undecodable body must not fail the attempt" (sender.py), and recording a
   success "stops any further attempts instead of letting the duplicate train
   roll on" (queue.py): an attempt that succeeded, and that ends without the
   end of its process and without a failed call, leaves its delivery
   delivered. *)
SuccessStopsTheTrain ==
    [][\A t \in tasks :
          t.phase = "success" /\ Ends(t) /\ UNCHANGED <<proc, faults>>
          => row'[t.delivery].status = "delivered"]_vars

(* "Failure is only recorded while we still hold the lease. A stale worker
   must not push around the schedule of a row" (queue.py): a recorded failure
   moves the row only if it is the failure of the attempt the row is in. *)
FailureMovesItsOwnAttempt ==
    [][\A t \in tasks :
          /\ t.phase = "failure" /\ Ends(t)
          /\ row[t.delivery].status = "in_flight"
          /\ row'[t.delivery].status # "in_flight"
          => t.number = row[t.delivery].total_attempts]_vars

----------------------------------------------------------------------------
(* The abstract promise this service implements. *)

fateBar == [d \in Deliveries |->
              CASE row[d].status = "none" -> "absent"
                [] row[d].status \in {"pending", "in_flight"} -> "open"
                [] OTHER -> row[d].status]

gotBar == {d \in Deliveries : accepted[d] \cap CurrentBudget(d) # {}}

Promise == INSTANCE DeliveryPromise WITH fate <- fateBar, got <- gotBar

(* The service implements DeliveryPromise: a delivery whose row is pending or
   in_flight is open, a copy taken under the current budget has reached the
   recipient, and every transaction is a step of the promise or none. *)
ImplementsPromise == Promise!PromiseSpec

----------------------------------------------------------------------------
(* The abstract claim this service works with. *)

waitingBar == {d \in Deliveries : Claimable(row[d])}

holderBar == [d \in Deliveries |->
                IF \E t \in tasks : t.delivery = d
                THEN (CHOOSE t \in tasks : t.delivery = d).worker ELSE NoOne]

Claiming == INSTANCE AtomicClaim WITH Rows <- Deliveries,
                                      waiting <- waitingBar, holder <- holderBar

(* The service implements AtomicClaim, which ClaimQuery implements too: a row
   becomes due only when no attempt at it is alive, so what a claim finds due
   is nobody's, and a worker's deliveries fit in its slots. *)
ImplementsAtomicClaim == Claiming!AtomicSpec
=============================================================================
