# Verification of the lead intake service

The repository is a service that accepts leads over HTTP, stores them in
Postgres and delivers every lead to each of its recipients with retries. There
is no broker: one table is both the state of every delivery and the work queue,
and any number of worker processes take rows from it under leases.

This directory models that system in TLA+, checks it with TLC on small
instances and proves its main safety properties with TLAPS for all instances.
`PROJECT.json` lists the runs, the source lines of every definition, the
hazards and the theorems.

## 1. The system

| component | source | state it keeps | operations |
|---|---|---|---|
| queue | `app/queue.py`, `migrations/001_init.sql` | tables `deliveries`, `delivery_attempts` | `claim_batch`, `record_result`, `requeue_request`, `requeue_bulk`, the trigger for `claimable_at` |
| worker | `app/worker.py`, `app/run_worker.py` | one `_in_flight` set of asyncio tasks and one stop flag per process | `run`, `_tick`, `_spawn`, `_deliver`, `request_stop`, `_drain` |
| sender | `app/sender.py` | an HTTP client | `send`: one attempt, bounded by `attempt_deadline_seconds` |
| retry schedule | `app/retry.py` | none | `base_delay_seconds`, `next_delay_seconds`, `is_exhausted`, `total_retry_window`, `schedule_preview` |
| intake | `app/intake.py` | table `requests`, rows of `deliveries` | `accept_request`, `attach_recipients` |
| HTTP API | `app/api.py`, `app/main.py`, `app/schemas.py` | none | validation, one call of the above per endpoint |
| settings | `app/config.py` | constants | `validate_invariants` |
| reporting | `app/reporting.py` | none, read only | lead status, problem list, counters |
| addresses | `app/recipients.py` | none | `normalize_url`, `origin_of` |
| pool, migrations | `app/db.py` | `schema_migrations`, an advisory lock | `apply_migrations` |
| stub recipient | `stub/main.py` | per endpoint: behaviour, counter, received records | `receive`, `set_behaviour`, `clear_received`, `get_summary` |
| deployment, scripts | `docker-compose.yml`, `scripts/` | | restarts processes that end |

How they interact: the API, the workers and the operators share nothing but the
database. Everything that matters happens between two transactions: a claim
commits, the attempt runs outside any transaction, and its result is recorded
in another one, by which time the lease may have expired, another worker may
hold the row, or an operator may have requeued it. A process may die, be
stopped or lose its database call at any of these points. There is no cleanup
process; the lease is the only thing that brings a row back.

What makes each component correct:

* queue: a row has one holder at a time; attempt numbers are never reused; the
  journal has no gap and never claims a delivery that did not happen; a success
  is final, whoever reports it; giving up needs a spent budget.
* worker: no more attempts than slots, no attempt that nobody accounts for.
* queue and worker together: every stored delivery is settled in the end.
* intake: what was acknowledged is stored, once per key, completely.
* claim: no due row waits for ever, and no row is in two hands although the
  ranking reads rows it does not lock.
* sender: an attempt ends whatever the recipient does, and a success means that the
  recipient has taken the lead, whole and by this attempt.
* retry schedule: delays keep their bounds, and the window that operators are
  shown is the one a delivery gets.
* reporting: one report does not contradict itself and overlooks nobody.
* start-up: each migration is applied once, and nobody serves before the last.
* validation: what is let through can be stored, under the right key; one host
  has one budget.

## 2. Modules

| module | what it is |
|---|---|
| `DeliveryQueue` | the two tables and the SQL on them, as operators |
| `DeliveryService` | worker processes, attempts, recipients, operators and time over `DeliveryQueue`; the properties |
| `DeliveryPromise` | the abstract specification: a delivery is open until it has reached its recipient or is given up |
| `Intake` | concurrent calls that store leads and attach recipients, statement by statement |
| `AtomicIntake` | the abstract intake, one step per call, that `Intake` is shown to implement |
| `ClaimQuery` | `_CLAIM` statement part by part: the unlocked ranking, the row locks, the cap per origin |
| `AtomicClaim` | the abstract claim, one step, that `ClaimQuery` is shown to provide and `DeliveryService` to work with |
| `Reporting` | the three reports over the tables of `DeliveryQueue`, while the queue works on |
| `RetrySchedule` | the backoff under all settings, followed through a budget |
| `Sending` | attempts on the wire: phases, timeouts, the deadline, the verdict |
| `Stub` | one endpoint of the stub recipient, which `Sending` composes with the sender |
| `Migrations` | processes that start together, under the advisory lock |
| `Validation` | what the API lets through, and what Postgres makes of it |
| `MC...` | instances for the runs: symmetry, assignments of origins and leads, behaviours, payloads, URLs |
| `...Proofs` | the theorems about the module before `Proofs`, one for each component: `DeliveryServiceProofs`, `IntakeProofs`, `ClaimQueryProofs`, `ReportingProofs`, `RetryScheduleProofs`, `SendingProofs` (with `Stub`), `MigrationsProofs`, `ValidationProofs` |

### From the code to `DeliveryQueue`

`row[d]` is the row of one (lead, recipient) pair; the status `"none"` stands
for a row not inserted yet. `journal[d][n]` is the outcome in
`delivery_attempts` under attempt number `n`. Each operator is one statement or
the body of one transaction:

| operator | code |
|---|---|
| `InsertDeliveries` | `_INSERT_DELIVERIES` with the column defaults |
| `ClaimableIn`, `Claimable` | the trigger and the condition of `ranked` and `picked` |
| `ClaimedRow`, `Reclaimed`, `RecordLostAttempts`, `ClaimBatch` | `_CLAIM`, the filter in `claim_batch`, `_RECORD_LOST_ATTEMPTS`, the transaction of all three |
| `MarkDelivered`, `MarkFailure`, `Journalled`, `RecordResult` | `_MARK_DELIVERED`, `_MARK_FAILURE`, `_INSERT_ATTEMPT`, `record_result` |
| `Requeueable`, `RequeuedRow`, `Requeue` | the three parts of `_REQUEUE_TEMPLATE` |

Time is relative. `next_in` and `lease_in` are the distances of
`next_attempt_at` and `lease_expires_at` from `now()`, with 0 for "reached", so
no clock has to be bounded. A row is claimable when the distance is 0, as
`claimable_at <= now()` says.

`ClaimBatch` is given the rows it takes. Any non-empty set of due rows within
the limit may be taken: this covers every ranking, every cap per origin and
every row that `SKIP LOCKED` passes over; `ClaimQuery` has the query itself. `ClaimBatch`, `RecordResult` and
`Requeue` are atomic: each is one transaction whose row locks are held to the
commit, and whose conditions Postgres evaluates on the locked row. The columns
that describe the last attempt are left out, as no statement branches on them;
the filters of a manual retry are the set `ds`.

### From the code to `DeliveryService`

An action is one transaction or one step of an asyncio task between two awaits.

| action | code |
|---|---|
| `Start` | a new process; `generate_worker_id` makes a fresh id, so an id is used once |
| `Tick` | `_tick` that finds work: `claim_batch` for `min(free slots, batch size)`, one `_spawn` per claim. The free slots can only grow during the await, so one step is enough |
| `ClaimRaises` | `claim_batch` raises: with nothing claimed, or with the rows claimed because only the answer to the commit was lost. The exception leaves `run` through `_drain` |
| `RequestStop`, `EndDrain` | SIGTERM; the end of `_drain`, with the remaining tasks cancelled |
| `Kill` | the process vanishes |
| `Take` | the recipient takes the copy (external) |
| `Answer` | `Sender.send` returns: success only for a 2xx of a recipient that took the copy; failure in all other cases, also when the recipient took it and the answer was lost or late |
| `Record` | `record_result` commits. If only the answer to its commit is lost, the tables are the same |
| `LoseResult` | `record_result` raises and `_deliver` logs it; for a recipient in `Unstorable`, whose answer has a NUL character in it, that is what happens to every success |
| `Enqueue` | the deliveries of a new lead, or recipients attached to one |
| `RetryRequest`, `RetryBulk` | the two manual retries |
| `Elapse` | one unit of time |

A copy that a recipient takes after the sender stopped waiting, or after the
process died, is covered by `Take` before the end of the wait: it leaves the
same state, and the properties speak of nothing that lies between. `Sending`
tells the two apart.

### From the code to `Intake`

`DeliveryService` stores a lead in one step, `Enqueue`. `Intake` is the
justification: there, each call of `accept_request` and `attach_recipients` runs
its statements one by one, and `ImplementsAtomicIntake` says that the calls
amount to single steps all the same. `AtomicIntake` has three: a lead appears
with all its recipients (`Store`), the recipients of an attachment appear
(`Attach`), and a call is told what is true at that moment (`Tell`). The mapping
shows committed rows only, so a call takes its step when it commits. `lead[k]` and `rows[k][u]` are the rows of `requests` and `deliveries`,
with who inserted them and whether that transaction is still open. An open row
is invisible to the statements of others, and an INSERT that meets it in a
unique index waits. `job` is what each call asks for, chosen at the start among
all lists of URLs up to a length; `held` are the connections taken from the
pool.

| action | code |
|---|---|
| `Acquire` | `pool.acquire()`, when a connection is free |
| `InsertRequest`, `SelectExisting` | the two statements of `accept_request` on `requests` |
| `CheckKnown` | the existence check of `attach_recipients` |
| `InsertRow` | `_INSERT_DELIVERIES`, row by row in the order of the request, which is what lets two attachments deadlock |
| `Commit`, `Answer` | the end of the `async with` blocks; the response |
| `FailBeforeCommit`, `LoseAnswer` | `command_timeout`, a lost connection, the end of the API process, before and after the commit |
| `DeadlockDetected` | Postgres aborts a transaction in a cycle of waits |

An attachment may name an id that is not stored yet; it stands for an unknown
id, as nobody learns an id before its commit.

### From the code to `ClaimQuery`

`due` is the sequence of claimable rows nobody holds, oldest first; `holder[r]`
is the worker under whose lease a row is; `query[w]` is what the statement of a
worker has ranked, locked and passed over so far.

| action | code |
|---|---|
| `Rank` | the CTE `ranked`: a window of `limit * claim_scan_multiplier` rows, numbered by origin and cut to `max_claims_per_origin`; reads, locks nothing. Rows with equal `claimable_at`, which the scan leaves in any order, are scanned in the order in which they are numbered |
| `Pick` | the CTE `picked`, one row of the ranking: `FOR UPDATE SKIP LOCKED`, and the condition again on the latest version of the row |
| `Claim` | the UPDATE and the commit; or an empty claim, after which the worker sleeps until `Wake` |
| `Abort` | the claim fails or its process ends; the locks are gone |
| `Release`, `Arrive`, `Requeue` | what happens to rows elsewhere: an attempt ends, a row becomes due, an operator requeues a due row |

`AtomicClaim` stands between the two halves of the queue: in one step a worker
becomes the holder of some free due rows, within its slots. `ClaimQuery`
implements it with `ToSet(due)` for the waiting rows (run `claims`), and so does
`DeliveryService`, with the claimable rows and the workers of the live tasks
(run `settle`). The second is the less obvious one: a row is due by its lease,
which says nothing about the attempt, so a row could be due while its last
attempt still runs. With prompt attempts it is not.

### From the code to `Reporting`

`DeliveryQueue`'s claim, recording and requeue run between the statements of a
report. `get_request_status` is `BeginStatus` and the two statements that read
the snapshot taken there (REPEATABLE READ). `get_problems` is a count and a page
that read the latest commits (READ COMMITTED) but share one `now()`, which is
why the cutoff is the same (`CutoffShared`) and the rows are not (`ReportAgrees`
does not hold). `get_stats` is one statement, the operator `Stats`.

| action | code |
|---|---|
| `StoreLead`, `Attach`, `Claim`, `Record`, `Lose`, `RetryRequest`, `Elapse` | the writers: intake, one worker, an operator, time |
| `BeginStatus`, `ReadDeliveries`, `ReadAttempts`, `CloseStatus` | the three statements of `get_request_status`, and its answer |
| `ReadCounts`, `ReadPage`, `CloseReport` | the two statements of `get_problems`, and its answer |

One report is read at a time: reports write nothing, so they cannot meet.

### From the code to `RetrySchedule`

The constants are sets of values and the settings are chosen at the start among
all combinations. `made` is the budget position the next claim burns; an attempt
that nobody records uses one up too. Delays are integers, in tenths; jitter
draws the multiples of a tenth of the delay. `x ** y` (`Power`) beyond
`MaxFloat` raises, as in Python. `Window[n]` is the sum of the first `n` delays,
in the order of the generator in `total_retry_window`.

### From the code to `Sending` and `Stub`

`attempt[d]` is the request on the wire: its number, its phase (`connect`,
`write`, `read`), and the time it has spent in all and in the phase. `Post`,
`Connect`, `Write` and `Read` take it through; `Expire` is a timeout of the HTTP
client, `Abort` the deadline, `Break` any other exception. `Drip` is a piece of
a response, which starts the read timeout again. That a timer does not fire late
is assumed (`Elapse` waits for those that are due), so no property says that an
attempt is over at its deadline; that it is over at all, although `Drip` may go
on for ever, is `EveryAttemptEnds`.

In `Stub`, a request in `handlers` is a coroutine of `receive`: `Arrive` runs
it to `await request.json()`, `Handle` from there to the answer or to the sleep
of a slow or silent endpoint, `Wake` from the sleep to the end. Between these
the other requests and the control calls run. A handler goes on when its client
has gone; a body that never came whole is recorded as `None`. `numbered`,
`history`, `setAt` and `controls` only observe.

### From the code to `Migrations`

`pc[p]` is the statement of `apply_migrations` a process is at and `age[p]` how
long it has been there. A file's transaction is `Execute`, `InsertName`,
`Commit`; a session that ends, by a crash or by `command_timeout` (`GiveUp`),
gives up its lock and its open transaction. Only the wait for the lock can
exceed `CommandTimeout` here.

### From the code to `Validation`

A text is a word with or without white space around it or a null byte in it, a
JSON value a tree of texts, numbers, lists and objects, a URL its parts.
`Values` has the payloads and what is nested in them, `Depth` says how deep, so
that the recursion of `_contains_null_byte` ends (`ValuesAssumption`).
`Create` and `Attach` are the endpoints after validation, `Refuse` is
`_validation_handler`. `Storable` is Postgres: no null byte, and no number that
JSON does not have. The length limits of single fields are left out.
A host is a name with its spelling: capitals, which `origin_of` lowers, and the
dot of the root at its end, which it keeps. `Port` is `parts.port or ...`, so an
explicit port 0, like none, becomes the default one.

### Prompt attempts and stalls

`validate_invariants` makes `lease_seconds` exceed `attempt_deadline_seconds`,
and `asyncio.timeout` ends the HTTP exchange at that deadline. But an attempt's
life is longer than its exchange: it starts when the claim takes `now()`, and
goes on through the claim's commit, the scheduling of the task, the wait for a
pooled connection and the recording transaction. `Stall` is the longest time an
attempt spends there. The service says nothing about it, so the properties fall
into two groups: those that need `AttemptDeadline + Stall < LeaseTime` (the
theorems name that condition `PromptAttempts`), and those that hold for every
`Stall`. The first group is checked with `Stall = 0`; the second with
`Stall = 2`, where two or three attempts of one delivery are alive together.

## 3. Runs

| run | question | instance | states |
|---|---|---|---|
| `prompt` | with prompt attempts: one attempt at a time, slots respected, no gap in the journal of a budget, nothing given up early | 3 deliveries, one of them unstorable, 2 workers with 2 slots, budget 1, 1 manual retry | 733 thousand |
| `overrun` | with attempts that outlive leases: numbers unique, delivered is proved, a success is final, a live lease is exclusive | 1 delivery, 3 workers with 2 slots, budget 2, `Stall = 2`, 2 faults, 1 manual retry | 1.9 million |
| `settle` | every stored delivery is settled; the service implements `DeliveryPromise`, and `AtomicClaim` besides; how many copies a recipient gets when attempts are lost, and how many entries the journal can lack | 1 delivery, 3 workers with 1 slot, budget 2, 2 faults, 1 manual retry, fairness | 505 thousand |
| `intake` | calls amount to single steps, so leads are stored whole and once; what was answered is on disk; every call ends | 3 calls, 1 key, 2 URLs, pool of 2, 2 failures, fairness | 467 thousand |
| `claims` | the claim query implements the atomic claim; the cap holds per batch; every due row is claimed | 3 rows of 2 origins, 2 workers with 3 slots, window and cap of 1 per origin, 1 disturbance, fairness | 101 thousand |
| `reports` | status, problem list and counters agree with themselves, with each other and with the queue | 2 leads, 2 deliveries, 1 worker, 1 claim of each, 1 manual retry | 258 thousand |
| `start_up` | each file once, in order, with its name; nobody serves too early; everyone serves in the end | 3 processes, 2 files, 2 crashes, fairness | 22 thousand |
| `schedule` | bounds of the delays; window and preview are what a delivery gets | 72 settings, budgets to 5, 1 lost attempt | 20 thousand |
| `attempts` | what the sender reports and what the recipient recorded fit together; the summary finds duplicates; every attempt ends | 1 lead, 2 attempts, 6 behaviours, 2 control calls, fairness | 182 thousand |
| `accept` | no null byte fails in the INSERT; one lead per stripped key | 12 keys, 10 payloads, 9 URLs, lists of 2 | 831 |

Runs that show where the code does not do what the repository says:

| run | what it shows | said at |
|---|---|---|
| `poison_loop` | a delivery that kills workers is tried beyond its budget | `queue.py:22` |
| `unstorable_answer` | a success is rolled back because the answer has a NUL character in it, every time | `sender.py:156`, `queue.py:260` |

More statements of the repository are written down beside the properties, under
"What the repository says of the program and the program does not do"; each has
a configuration with which TLC shows a counterexample in seconds:

| configuration, module | statement | what happens | said at |
|---|---|---|---|
| `JournalGap`, `MCDeliveryService` | `EveryCopyJournalled` | a manual retry between the end of a lease and the next claim leaves a lost attempt without an entry | `queue.py:366` |
| `StaleFailure`, `MCDeliveryService` | `FailureMovesItsOwnAttempt` | a stale failure moves a row that the same worker has claimed again | `queue.py:277` |
| `IntakeLimit`, `MCIntake` | `LeadWithinLimit` | attachments take a lead beyond `max_recipients_per_request` | `queue.py:459` |
| `SlotHog`, `MCClaimQuery` | `WorkerShared` | one origin occupies every slot of a worker while another origin's row is due: the cap is per claim, and the worker claims again at once | `config.py:92` |
| `IdlePeer`, `MCClaimQuery` | `IdleOnlyWithoutWork` | a worker sleeps although a row is due and free: its ranking held only rows that another claim had locked | `worker.py:93` |
| `ReportRace`, `MCReporting` | `ReportAgrees` | a commit between its two statements makes the counts of a problem report contradict its page | `reporting.py:230` |
| `LockTimeout`, `MCMigrations` | `TheRestWait` | a process gives up waiting for a migration of several statements, none of which exceeds the timeout | `db.py:5` |
| `ScheduleOverflow`, `RetrySchedule` | `FailureIsRecorded` | a power beyond the floats makes recording fail within an accepted budget (`retry_factor` 2, attempt 1025); `GET /healthz` then fails too, where the power is in its window or preview (`WindowRaises`, `PreviewRaises`) | `config.py:128` |
| `DeadlineAborts`, `MCSending` | `DeadlineIsLastResort` | accepted settings let the deadline abort an attempt none of whose phases has timed out: `write_timeout_seconds` is not counted | `config.py:140` |
| `FailNext`, `MCSending` | `NextFail` | a request that read the old behaviour of the stub uses up a failure of the new one | `stub/main.py:107`, `:155` |
| `HostSpelling`, `MCValidation` | `OneBudgetPerHost` | a host with the dot of the root at its end has a budget of its own beside the same host without | `recipients.py:51` |
| `NotJson`, `MCValidation` | `OnlyDocumentedAnswers` | `NaN` passes validation and is answered with 500 | `api.py:63`, `schemas.py:27` |

Deadlock is checked wherever the system has no end: in the service time can
always pass or an attempt can end, and in `Intake` the only state without a step
is the one in which every call is done (`AllDone`). It is not checked for
`RetrySchedule`, where a delivery that failed is at its end, and for `Sending`,
where the attempts are numbered to a bound.

Why the bounds are enough. Rows do not interact except through batches and
slots, so one delivery shows what can happen to a row, and `prompt` has three:
two in the hands of a worker and one more that its next claim must leave. Three
worker ids are three processes: one that dies, one
that takes over, and one that is still alive with a stale attempt. The budget
of 2 gives a failure that is retried and one that gives up. `LeaseTime = 2` and
`AttemptDeadline = 1` are the smallest values that satisfy
`validate_invariants`; with `Stall = 2` an attempt outlives its lease by a
unit, enough for the row to be claimed again and for both attempts to finish in
either order. `MaxDelay = 1` gives a backoff that is over and one that is not.
`MaxFaults` counts stops, kills and failed database calls together, 2 being
enough for a failure of the recovery itself. In `prompt` it is 0 and attempts
are lost because the answer of one recipient cannot be stored, which leaves the
same rows as a dead worker; that its properties hold for any number of faults is
proved. In `settle` two attempts may be lost, the
second at the end of the budget, so that a third copy arrives, and a manual retry
may come before the claim that would have entered a lost attempt. `MaxTotal` bounds the claims of one
delivery: it cuts off behaviours in the safety runs only. In `settle`
it never binds: a budget ends after `RetryMaxAttempts` recorded
failures, at most `1 + MaxRetries` budgets are opened, and each fault loses at
most one attempt of a delivery, which makes
`(1 + MaxRetries) * RetryMaxAttempts + MaxFaults` claims at most, and
`MaxTotal` is not less than that.

For `Intake`, three calls are one that stores the lead and two that race: for
its key, or to attach to it; two URLs are what a deadlock needs. A pool of two
makes a call wait for a connection while the others wait for each other, and two
failures would empty the pool if they kept their connections. `intake`
assumes that a coroutine whose statement can run goes on, that a free connection
is given to somebody who waits, and that Postgres resolves deadlocks; without
the last, TLC finds two attachments that wait for ever.

For `ClaimQuery`, two rows of one origin and one of another, with a window or a
cap too small for all of them, are what starvation needs, and two workers what a
ranking that has gone stale needs. For `Reporting`, a lead without deliveries
beside one with some gives each kind of problem; one commit between two
statements is enough to tear a report, and `reports` allows several. For
`Migrations`, the third process waits while the first two are at odds; two
crashes are one in the middle of a file and one of its successor. For
`RetrySchedule`, the sets hold settings in which the cap, the shortest delay or
neither binds, and in which the power stays a float or does not. For `Sending`,
two attempts give a late answer to the first one the chance to be taken for the
second's; `ConnectTimeout + ReadTimeout = Deadline` is the tightest the settings
allow; a slow answer takes as long as the read timeout, a silent one longer; two
control calls set a limit and reset its count while requests are on their way. For `Validation`, payloads nest three deep, with the
null byte in each place a text can be, and the URLs have one of each kind that
`normalize_url` and `origin_of` tell apart.

Fairness, for `settle`, is weak fairness of: time; the start of a
process (`restart: unless-stopped` in `docker-compose.yml`); a claim by a
running worker, which polls for ever; the end of a live process's attempt
(`asyncio.timeout` ends the exchange and recording follows on the event loop);
and the end of a drain (the grace period). Recipients owe nothing: they may
refuse or swallow every copy. Faults are bounded and owe nothing. For
`claims`: workers go on with their claims (they poll for ever) and attempts
end or their leases do. For `start_up`: statements end, and processes that
ended are started again. For `attempts`: time passes and timers that are due
fire; neither the recipient nor the network owes anything.

Each property has a mutant, a definition marked "Broken" beside the one it
stands in for, with a bug of the kind `scripts/mutation_check.py` plants; under
it the run finds the property violated.

## 4. Proofs

Every safety property and every action property that a passing run checks is
also proved with TLAPS, for all values of the constants that the assumptions
admit: any number of deliveries, workers, calls, processes, files and leads, and
any settings the service accepts. Three theorems state invariants that no run
lists: `AllOrNothing` and `AttachedIsStored`, which `ImplementsAtomicIntake`
implies, and `TypeOK` of `ClaimQuery`.

| module | theorem | property |
|---|---|---|
| `DeliveryServiceProofs` | `TypeCorrect` | `TypeOK` |
| | `NumbersUnique` | `AttemptNumbersUnique` |
| | `DeliveredIsProved` | `DeliveredHasProof` |
| | `SuccessIsFinal` | `SuccessSettles` |
| | `LeaseProtects` | `LiveLeaseIsExclusive` |
| | `OneAttemptAtATime` | `NoConcurrentSend`, if `PromptAttempts` |
| | `JournalComplete` | `BudgetJournalled`, if `PromptAttempts` |
| | `FailedMeansExhausted` | `BudgetHonoured`, if `PromptAttempts` |
| | `SlotsAreEnough` | `SlotsRespected` |
| | `PromiseIsKept` | the safety half of `ImplementsPromise`, if `PromptAttempts` |
| | `GapsAreRetries` | `GapsPerRetry`, if `PromptAttempts` |
| | `CopiesAreAccountedFor` | `CopiesPerLoss`, if `PromptAttempts` |
| | `ClaimsAreAtomic` | `ImplementsAtomicClaim`, if `PromptAttempts` |
| `IntakeProofs` | `TypeCorrect` | `TypeOK` |
| | `LeadsAreWhole` | `AllOrNothing` |
| | `AnswersAreStored` | `AcceptedIsStored` |
| | `AttachmentsAreStored` | `AttachedIsStored` |
| | `IntakeIsAtomic` | `ImplementsAtomicIntake`, the whole refinement |
| `ClaimQueryProofs` | `TypeCorrect` | `TypeOK` |
| | `CapIsKept` | `CapPerBatch` |
| | `ClaimsAreAtomic` | `ImplementsAtomicClaim`, the whole refinement |
| `ReportingProofs` | `StatusIsConsistent` | `StatusConsistent` |
| | `CutoffIsShared` | `CutoffShared` |
| | `NobodyIsOverlooked` | `NobodyOverlooked` |
| | `StatsAlwaysAddUp` | `StatsAddUp` |
| `RetryScheduleProofs` | `DelaysKeepBounds` | `DelayWithinBounds` |
| | `WindowIsKept` | `WindowIsHonest` |
| | `PreviewIsRight` | `PreviewIsSchedule` |
| `SendingProofs` | `SuccessIsHonest` | `SuccessIsTaken` |
| | `RepeatsAreExcused` | `TwiceOnlyUnanswered` |
| | `FailFirstIsExact` | `FailsAtMostFirst` |
| | `SummaryIsRight` | `SummaryFindsDuplicates` |
| `MigrationsProofs` | `FilesAreRecorded` | `SchemaIsRecorded` |
| | `NobodyServesEarly` | `ServesOnFullSchema` |
| | `StartsAreSafe` | `NoStartBreaks` |
| `ValidationProofs` | `NullBytesAreRefused` | `NullByteNeverCrashes` |
| | `KeysAreClean` | `OneLeadPerKey` |

### Assumptions

They are named in the modules that declare the constants, and TLC evaluates them
in every run. They say what `Field` constraints and `validate_invariants` say of
the settings; that the tables have finitely many rows (`DeliveriesAssumption`,
`RowsAssumption`), without which a worker's tasks could not be counted; that
`Silent` outlasts a client's `ReadTimeout` (`SilentAssumption`, the comment at
`SILENT_HOLD_SECONDS`); that JSON values are not nested for ever
(`ValuesAssumption`); and that the names for nobody and nothing name nobody and
nothing. The bounds (`MaxTotal`, `MaxFaults`, `MaxRetries`, `MaxFailures`,
`MaxCrashes`, `MaxLost`, `MaxReportTime`, `MaxTries`) are arbitrary numbers, so
they cut off nothing. `PromptAttempts` is `AttemptDeadline + Stall < LeaseTime`,
discussed above: an attempt, with all that holds it up, fits in its lease.

### Arguments

`DeliveryServiceProofs` has one inductive invariant per part, each resting on
the previous:

* `TypeInv` is `TypeOK` with `attempts <= total_attempts`, which the typing of
  `CurrentBudget` needs and a manual retry must not break.
* `HistoryInv` adds to the three properties of the history what makes them
  inductive: nothing is written about numbers not handed out yet
  (`FutureIsBlank`), the entry of a live attempt is still open, blank or
  'unknown' (`EntryIsOpen`), and a task with a success holds a number that its
  recipient took (`VerdictIsHonest`). The first makes a claim's number fresh;
  the second is why a late answer can replace 'unknown' and never a fact.
* `LeaseInv` says that every live attempt holds its row's lease: the row is in
  flight under its worker, number and budget position, and the attempt's age and
  what is left of the lease add up to the lease time (`HoldsLease`). With prompt
  attempts something is always left, so nobody else can claim the row, so there
  is one attempt.
* `BudgetInv` says what each status implies for the counters and the journal
  (`BudgetOK`): a pending row has budget left, an attempt in flight has no entry
  yet. So only a recorded failure at or beyond the budget gives up, and a claim
  beyond the budget can only follow a lost attempt, which leaves an 'unknown'.
* `GapInv` counts, over all budgets, the attempts that are over and have no
  entry. A claim that takes a row over enters the attempt that was lost, a
  recording enters its own, so only a manual retry, which frees the row without
  a claim, can add a gap, and only one to each delivery, as all numbers but the
  last have their entries by then or are gaps already.
* `SlotInv`: a worker's tasks are finitely many and at most its slots. A claim
  takes at most the free slots; a task that ends frees one.
* `PromiseIsKept` needs the four before and that recipients took only numbers
  handed out (`CopiesCounted`). Each action is a step of `DeliveryPromise`
  (insert is Store, a manual retry Reopen, a copy taken Reach, a success
  recorded Deliver, the last failure GiveUp) or changes neither the fate of a
  delivery nor whether it has reached its recipient.
* `CopiesAreAccountedFor` counts: a budget has as many numbers as attempts
  were claimed from it, and a recipient takes one copy of each number at most.
  Beyond the first `retry_max_attempts`, each claim follows an attempt that was
  lost, because the delivery would have been given up after a recorded one
  (`BudgetOK`).
* `ClaimsAreAtomic` needs `LeaseInv` and `SlotInv`: a live attempt holds its
  row's lease, so no due row has one, and tasks at one row are one task. A claim
  is a claim of `AtomicClaim`, or `Withdraw` if nobody hears of it; attempts that
  end, one or all of a process, are `Release`; rows that time, a failure, a
  manual retry or intake makes due are `Arrive`. Steps that look like two of
  these at once do not exist: what ends an attempt leaves its row under a lease
  or a delay.

`IntakeProofs`. A stored lead has the rows its transaction inserted so far, and
all of them once it is committed (`LeadOK`, `ListedSoFar`); what a call answers
was read or written in a committed transaction (`AcceptOK`, `AttachOK`). The
list without repetitions is a fold: its facts are shown by induction over its
length, from the least-number principle. `IntakeIsAtomic` needs in addition
where each row comes from (`RowOK`: a call that named it, which while the row is
open still inserts, for a lead that is stored or its own) and that what an
attachment's SELECT found stays (`KnowsOK`). Then nothing becomes visible in any
step but the commit of a call that inserted (`NothingNewStep`), and that commit
shows exactly what the call listed (`CommitShows`), neither less nor rows that
were visible without their lead before.

`ClaimQueryProofs`. Between the ranking and the end of the statement other
transactions commit. What a statement has locked stays due, nobody else has it
locked, and its limit reserves the slots (`ClaimOK`). Its candidates of one
origin, those ranked and those locked, only get fewer (`CapOK`), so the cap
that held in the stale ranking holds of the batch. The end of the statement is
the claim of `AtomicClaim`; results and new rows are the same step in both; all
else changes nothing that `AtomicClaim` sees.

`ReportingProofs`. `TableInv`: no journal is ahead of its row, a delivered row
has a success, a running claim has one open entry. `StatusInv` says the same of
the snapshot a status has read so far, which no later commit can contradict.
`ReportInv` counts again with the ages of now, less the time since: only time
passes in between unless something is committed there, and an age at its bound
has passed the cutoff for good. The other two properties follow from the typing
and from counting.

`RetryScheduleProofs`. `Power` and `Window` are recursive functions: that a
recursion over the numbers has a solution is proved first (`Recursion`). Powers
never fall (`PowersRise`), so once one is no float no failure is ever recorded
again, and where a whole budget was recorded the window can be computed; until
then each recorded failure adds one drawn delay, between the scheduled one less
and plus its jitter (`SpentInv`, `OneMoreDelay`). The sum over a set that the
preview is compared with takes positions in an unknown order: it is shown to be
the sum that goes up the positions (`PartialAdds`, `SumIsUnique`).

`SendingProofs`. `TimeInv`: an attempt is never past the limit of its phase,
which is how timers are modelled and serves the other proofs only. `CountInv`: a request knows the behaviour that was set when it
came, and the numbers given out under the present one fail as it says, each
number once. `WireInv`: a request has one handler, and after it one record, made
once its body is there or its client gone; what is answered while somebody waits
was recorded with its body, and a silent handler holds on for longer than
anybody waits.

`MigrationsProofs`. Whoever is past `pg_advisory_lock` holds the lock
(`LockInv`), so the list of missing files, read under it and shortened by what
is committed, stays true (`ListInv`), and the only open transaction is that of
the file at hand (`OpenInv`).

`ValidationProofs`. Values are nested less deep than what they are in. So the
recursions have solutions (`NestedRecursion`), and a value in which
`_contains_null_byte` finds nothing has no null byte in any part, by induction
over depth (`NulIsFound`).

### Model-checked only

Liveness under fairness, which is out of the prover's reach:
`EventuallySettled`, `EveryCallEnds`, `EventuallyClaimed`, `EveryoneServes`,
`EveryAttemptEnds` and the liveness half of `ImplementsPromise`. The runs that
show a violation have counterexamples and no proof.

## 5. What the model does not say

* Not modelled: logging (`app/logging_config.py`, no state), `/readyz`, the
  shape of requests and responses, the length limits of fields, paging and
  display columns of reports, reading settings from the environment, the scripts
  and the tests.
* `restart: unless-stopped` is the only thing taken from the deployment.
* The kinds of errors in the journal fill columns that nothing branches on.
* The wait for a connection of the HTTP client's pool is part of `connect`.
* Without prompt attempts nothing bounds the gaps of the journal
  (`GapsPerRetry`), and a manual retry can meet a failure that is recorded with
  the budget position of a claim before it; `StaleFailure` shows that.
* `intake` stores leads with one recipient (attachments have two): that a lead
  never appears with only some of several recipients is the theorem
  `LeadsAreWhole`, for any number of them.
* Spellings of a host other than capitals and the dot of the root.
* The depth to which Python can walk a JSON value.

## 6. Plan

1. Done: all modules, their runs, and the proof of every safety and action
   property the passing runs check.
2. Done: three of the seams between the modules. `AtomicIntake` justifies the
   single step `Enqueue`; `AtomicClaim` is implemented on both sides of the
   claim; that a row's history is one `Reporting` may meet follows from
   `DeliveredHasProof` and `FutureIsBlank` (part of `HistoryInv`), which are what
   its `Counted` says.
3. Left: that every delay `DeliveryQueue` may choose is one of `RetrySchedule`
   (the bound `MaxDelay` stands for the cap with its jitter; no module states
   it), that what `Validation` stores is a list `Intake` inserts, and how many
   copies a recipient can get when attempts outlive leases: without
   `PromptAttempts` each stalled attempt may add one, and `CopiesPerLoss` does
   not hold as it stands.
