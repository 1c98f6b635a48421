----------------------------- MODULE Reporting -----------------------------
(***************************************************************************)
(* The read side (src/app/reporting.py) over the tables of DeliveryQueue,  *)
(* while the queue goes on working: the status of one lead, read by three  *)
(* statements of one REPEATABLE READ transaction; the problem report, read *)
(* by two statements of a READ COMMITTED transaction that share its now(); *)
(* the counters of a period, one statement.                                *)
(*                                                                         *)
(* A claim and the recording of its result are the transactions of         *)
(* DeliveryQueue; what a worker does between them is left out, but for the *)
(* claim it remembers.  Ages, like every time here, are relative to now(). *)
(* One report is read at a time: reports only read, so nothing can pass    *)
(* from one to another.                                                    *)
(***************************************************************************)
EXTENDS DeliveryQueue

CONSTANTS
    Leads,
    LeadOf,         \* deliveries.request_id
    StaleAfter,     \* stale_minutes, in units of model time
    MaxReportTime,  \* bound: time that passes while a report is read
    MaxRetries      \* bound: manual retries

ASSUME LeadOfAssumption == LeadOf \in [Deliveries -> Leads]
ASSUME ReportAssumption ==
    /\ StaleAfter \in Nat \ {0}
    /\ MaxReportTime \in Nat /\ MaxRetries \in Nat

VARIABLES
    leads,      \* requests
    age,        \* now() - deliveries.created_at, up to MaxAge
    claims,     \* claims whose result is not recorded yet
    retries,    \* manual retries so far
    status,     \* the reading of one lead's status
    report      \* the reading of a problem report

tables == <<row, journal, leads, age>>
vars == <<tables, claims, retries, status, report>>

----------------------------------------------------------------------------

MaxAge == StaleAfter + 1 + MaxReportTime

EmptyLog == [d \in Deliveries |-> [n \in Numbers |-> "none"]]

NoRows == [d \in Deliveries |-> NoRow]

NoStatus == [phase |-> "idle", lead |-> CHOOSE k \in Leads : TRUE,
             snapshot |-> [row |-> NoRows, journal |-> EmptyLog],
             rows |-> NoRows, log |-> EmptyLog]

NoReport == [phase |-> "idle", since |-> 0,
             counts |-> [no_recipients |-> 0, failed |-> 0, stalled |-> 0],
             items |-> {}, before |-> <<>>, after |-> <<>>]

Open == {"pending", "in_flight"}

Stored(k) == {d \in Deliveries : LeadOf[d] = k /\ row[d].status # "none"}

Init == /\ QueueInit
        /\ leads = {}
        /\ age = [d \in Deliveries |-> 0]
        /\ claims = {}
        /\ retries = 0
        /\ status = NoStatus
        /\ report = NoReport

----------------------------------------------------------------------------
(* The writers. *)

(* accept_request: a lead with some of its recipients, perhaps none. *)
StoreLead(k, ds) ==
    /\ k \notin leads
    /\ \A d \in ds : LeadOf[d] = k
    /\ leads' = leads \union {k}
    /\ InsertDeliveries(ds)
    /\ UNCHANGED <<age, claims, retries, status, report>>

(* attach_recipients. *)
Attach(k, ds) ==
    /\ k \in leads
    /\ ds # {} /\ \A d \in ds : LeadOf[d] = k
    /\ InsertDeliveries(ds)
    /\ UNCHANGED <<leads, age, claims, retries, status, report>>

Claimed(w, d) == [worker |-> w, delivery |-> d,
                  number |-> row[d].total_attempts + 1, budget |-> row[d].attempts + 1]

Claim(w, d) ==
    /\ ClaimBatch(w, {d}, 1)
    /\ claims' = claims \union {Claimed(w, d)}
    /\ UNCHANGED <<leads, age, retries, status, report>>

Record(c, outcome) ==
    /\ RecordResult(c.worker, c.delivery, c.number, c.budget, outcome)
    /\ claims' = claims \ {c}
    /\ UNCHANGED <<leads, age, retries, status, report>>

(* The worker dies, or its recording fails. *)
Lose(c) ==
    /\ claims' = claims \ {c}
    /\ UNCHANGED <<tables, retries, status, report>>

RetryRequest(k, includeDelivered) ==
    /\ retries < MaxRetries
    /\ retries' = retries + 1
    /\ Requeue(Stored(k), includeDelivered)
    /\ UNCHANGED <<leads, age, claims, status, report>>

Elapse ==
    /\ report.phase = "counted" => report.since < MaxReportTime
    /\ AgeRows
    /\ age' = [d \in Deliveries |-> IF row[d].status # "none" /\ age[d] < MaxAge
                                    THEN age[d] + 1 ELSE age[d]]
    /\ report' = [report EXCEPT !.since = IF report.phase = "counted" THEN @ + 1 ELSE @]
    /\ UNCHANGED <<leads, claims, retries, status>>

----------------------------------------------------------------------------
(* get_request_status. *)

(* _request_state, of the set of a lead's statuses. *)
RequestState(statuses) ==
    CASE statuses = {} -> "no_recipients"
      [] statuses \cap Open # {} -> "in_progress"
      [] statuses = {"delivered"} -> "delivered"
      [] statuses = {"failed"} -> "failed"
      [] OTHER -> "partially_delivered"

(* _SELECT_REQUEST, which takes the transaction's snapshot.  An unknown lead
   has no report. *)
BeginStatus(k) ==
    /\ status.phase = "idle" /\ report.phase = "idle"
    /\ k \in leads
    /\ status' = [NoStatus EXCEPT !.phase = "begun", !.lead = k,
                                  !.snapshot = [row |-> row, journal |-> journal]]
    /\ UNCHANGED <<tables, claims, retries, report>>

(* Broken: READ COMMITTED, each statement sees the latest commit. *)
ViewLatest == [row |-> row, journal |-> journal]

(* What the statements of the transaction see. *)
View == status.snapshot

(* _SELECT_DELIVERIES. *)
ReadDeliveries ==
    /\ status.phase = "begun"
    /\ status' = [status EXCEPT !.phase = "deliveries", !.rows =
                    [d \in Deliveries |-> IF LeadOf[d] = status.lead THEN View.row[d] ELSE NoRow]]
    /\ UNCHANGED <<tables, claims, retries, report>>

(* _SELECT_ATTEMPTS; the report is put together from the two. *)
ReadAttempts ==
    /\ status.phase = "deliveries"
    /\ status' = [status EXCEPT !.phase = "done", !.snapshot = NoStatus.snapshot, !.log =
                    [d \in Deliveries |-> IF LeadOf[d] = status.lead THEN View.journal[d]
                                                                     ELSE EmptyLog[d]]]
    /\ UNCHANGED <<tables, claims, retries, report>>

CloseStatus ==
    /\ status.phase = "done"
    /\ status' = NoStatus
    /\ UNCHANGED <<tables, claims, retries, report>>

----------------------------------------------------------------------------
(* get_problems. *)

NoRecipients == {k \in leads : Stored(k) = {}}

Failed == {d \in Deliveries : row[d].status = "failed"}

(* Broken: a delivery whose worker died is not waiting for anything. *)
StalledPendingOnly(since) ==
    {d \in Deliveries : row[d].status = "pending" /\ age[d] - since > StaleAfter}

(* created_at < now() - stale, now() having been taken `since` ago. *)
Stalled(since) == {d \in Deliveries : row[d].status \in Open /\ age[d] - since > StaleAfter}

(* The CTE `problems`: every row of the list with its reason. *)
Problems(since) == ({"no_recipients"} \X NoRecipients)
                     \union ({"failed"} \X Failed)
                     \union ({"stalled"} \X Stalled(since))

(* _PROBLEMS_COUNTS, the first statement; the transaction takes its now(). *)
ProblemCounts == [no_recipients |-> Cardinality(NoRecipients),
                  failed        |-> Cardinality(Failed),
                  stalled       |-> Cardinality(Stalled(0))]

(* History, to tell whether anything was committed between the statements. *)
Situation == <<leads, [d \in Deliveries |-> IF row[d].status \in Open THEN "open"
                                                                    ELSE row[d].status]>>

ReadCounts ==
    /\ report.phase = "idle" /\ status.phase = "idle"
    /\ report' = [NoReport EXCEPT !.phase = "counted", !.counts = ProblemCounts, !.before = Situation]
    /\ UNCHANGED <<tables, claims, retries, status>>

(* Broken: no transaction around the statements, each has its own now(). *)
ListedOwnNow == Problems(0)

(* _PROBLEMS_PAGE with a limit that cuts nothing off. *)
Listed == Problems(report.since)

ReadPage ==
    /\ report.phase = "counted"
    /\ report' = [report EXCEPT !.phase = "done", !.since = 0,
                                !.items = Listed, !.after = Situation]
    /\ UNCHANGED <<tables, claims, retries, status>>

CloseReport ==
    /\ report.phase = "done"
    /\ report' = NoReport
    /\ UNCHANGED <<tables, claims, retries, status>>

----------------------------------------------------------------------------
(* get_stats, for the leads of a period. *)

(* Broken: a delivery on the wire is not queued. *)
QueuedPendingOnly == {"pending"}

Queued == Open

Stats(cohort) ==
    LET sent == UNION {Stored(k) : k \in cohort}
        count(statuses) == Cardinality({d \in sent : row[d].status \in statuses})
    IN  [accepted           |-> Cardinality(cohort),
         without_recipients |-> Cardinality({k \in cohort : Stored(k) = {}}),
         total              |-> Cardinality(sent),
         delivered          |-> count({"delivered"}),
         queued             |-> count(Queued),
         failed             |-> count({"failed"})]

----------------------------------------------------------------------------

Next == \/ \E k \in Leads, ds \in SUBSET Deliveries : StoreLead(k, ds) \/ Attach(k, ds)
        \/ \E w \in Workers, d \in Deliveries : Claim(w, d)
        \/ \E c \in claims : Lose(c) \/ \E outcome \in {"success", "failure"} : Record(c, outcome)
        \/ \E k \in leads, include \in BOOLEAN : RetryRequest(k, include)
        \/ Elapse
        \/ \E k \in Leads : BeginStatus(k)
        \/ ReadDeliveries \/ ReadAttempts \/ CloseStatus
        \/ ReadCounts \/ ReadPage \/ CloseReport

Spec == Init /\ [][Next]_vars

----------------------------------------------------------------------------
(* What the reports promise. *)

(* The status of a lead does not contradict itself while workers record: its
   journal shows no attempt that its delivery has not counted, and a delivery
   it shows as delivered has its success in the journal it shows.  "Without
   one snapshot the journal could show an attempt that the delivery row does
   not reflect yet" (get_request_status). *)
StatusConsistent ==
    status.phase = "done" =>
        \A d \in Deliveries :
            /\ \A n \in Numbers : status.log[d][n] # "none" => n <= status.rows[d].total_attempts
            /\ status.rows[d].status = "delivered" =>
                  \E n \in Numbers : status.log[d][n] = "success"

(* The counts and the list of a problem report agree unless something was
   committed between the statements: the passing of time alone does not move
   a delivery across the cutoff (get_problems). *)
CutoffShared ==
    report.phase = "done" /\ report.before = report.after =>
        \A reason \in DOMAIN report.counts :
            report.counts[reason] = Cardinality({i \in report.items : i[1] = reason})

(* The rows of the list that are about a lead. *)
About(k) == ({"no_recipients"} \X {k}) \union ({"failed", "stalled"} \X Stored(k))

(* Nobody is overlooked: every lead whose deliveries are all older than the
   cutoff is either delivered to all its recipients or has a problem in the
   list, and the list says of a lead what its status says. *)
NobodyOverlooked ==
    \A k \in leads :
        LET state == RequestState({row[d].status : d \in Stored(k)})
            reasons == {i[1] : i \in Problems(0) \cap About(k)}
        IN  /\ state = "no_recipients" <=> "no_recipients" \in reasons
            /\ state = "delivered" => reasons = {}
            /\ state \in {"failed", "partially_delivered"} => reasons = {"failed"}
            /\ state = "in_progress" /\ (\A d \in Stored(k) : age[d] > StaleAfter)
               => "stalled" \in reasons

(* The counters of a cohort of leads agree with the other two reports: they
   split its deliveries, its leads without recipients and its failures are the
   ones the problem list names, and it is all delivered exactly if the status
   of each of its leads says so (get_stats). *)
StatsAddUp ==
    \A cohort \in SUBSET leads :
        LET s == Stats(cohort) IN
        /\ s.total = s.delivered + s.queued + s.failed
        /\ s.without_recipients = Cardinality(cohort \cap NoRecipients)
        /\ s.failed = Cardinality(Failed \cap UNION {Stored(k) : k \in cohort})
        /\ (s.delivered = s.total /\ s.without_recipients = 0) <=>
              \A k \in cohort : RequestState({row[d].status : d \in Stored(k)}) = "delivered"

----------------------------------------------------------------------------
(* What the repository says of the program and the program does not do. *)

(* "One transaction for both statements so they share a single now().
   Otherwise ... a delivery ... would be counted but missing from the list -
   a report contradicting itself" (get_problems): a report counts exactly the
   problems it lists. *)
ReportAgrees ==
    report.phase = "done" =>
        \A reason \in DOMAIN report.counts :
            report.counts[reason] = Cardinality({i \in report.items : i[1] = reason})
=============================================================================
