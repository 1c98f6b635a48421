------------------------------- MODULE Intake -------------------------------
(***************************************************************************)
(* Accepting leads (src/app/intake.py): concurrent calls of accept_request *)
(* and attach_recipients against the tables `requests` and `deliveries`.   *)
(*                                                                         *)
(* DeliveryService has each of them as one step, Enqueue.  Here they run   *)
(* statement by statement in READ COMMITTED transactions: a row is open    *)
(* until the transaction that inserted it ends, no statement of another    *)
(* call sees it before, and an INSERT that meets it in a unique index      *)
(* waits for that end.  A call may fail at every statement, after its      *)
(* commit too, and its sender then does not know what happened.            *)
(*                                                                         *)
(* A lead is known by its (source_id, idempotency_key); the id the service *)
(* gives it is the call that inserted it.  The payload and the names of    *)
(* the recipients are left out.                                            *)
(***************************************************************************)
EXTENDS Integers, FiniteSets, Sequences, SequencesExt

CONSTANTS
    Calls,          \* HTTP requests
    NoCall,
    Keys,           \* (source_id, idempotency_key)
    Urls,           \* recipient_url
    PoolSize,       \* settings.db_pool_max_size
    MaxRecipients,  \* settings.max_recipients_per_request
    MaxListed,      \* bound: URLs in one request
    MaxFailures     \* bound: calls that fail for reasons of their own

ASSUME NoCallAssumption == NoCall \notin Calls
ASSUME PoolAssumption == PoolSize \in Nat \ {0}
ASSUME LimitAssumption == MaxRecipients \in Nat \ {0}
ASSUME ListBoundAssumption == MaxListed \in Nat \ {0} /\ MaxFailures \in Nat

VARIABLES
    job,        \* what each call asks for
    pc,         \* the statement each call is at
    todo,       \* URLs that the call's _INSERT_DELIVERIES has still to insert
    answer,     \* the request id the call answers with, NoCall for "no such lead"
    lead,       \* requests: the row of each key
    rows,       \* deliveries: the row of each key and URL
    held,       \* calls that hold a connection of the pool
    failures    \* failed calls so far

vars == <<job, pc, todo, answer, lead, rows, held, failures>>

----------------------------------------------------------------------------
(* Tables: who inserted a row, and whether its transaction is still open. *)

Entry == [by : Calls \union {NoCall}, open : BOOLEAN]

Absent == [by |-> NoCall, open |-> FALSE]

Inserted(c) == [by |-> c, open |-> TRUE]

Visible(e) == e.by # NoCall /\ ~e.open

Committed(e, c) == IF e = Inserted(c) THEN [e EXCEPT !.open = FALSE] ELSE e

RolledBack(e, c) == IF e = Inserted(c) THEN Absent ELSE e

(* Requests that pass validation: a new lead lists at most MaxRecipients, an
   attachment at least one, and nothing limits how many. *)
Lists == UNION {[1..n -> Urls] : n \in 0..MaxListed}

Jobs == [op : {"accept"}, key : Keys, recipients : {s \in Lists : Len(s) <= MaxRecipients}]
          \union
        [op : {"attach"}, key : Keys, recipients : Lists \ {<<>>}]

(* Broken: every mention counts. *)
DedupeNothing(recipients) == recipients

(* _dedupe: the first mention of each URL.  unique[n] is the list after n
   rounds of the loop. *)
Dedupe(recipients) ==
    LET unique[n \in 0..Len(recipients)] ==
          IF n = 0 THEN <<>>
          ELSE IF recipients[n] \in ToSet(unique[n - 1]) THEN unique[n - 1]
          ELSE Append(unique[n - 1], recipients[n])
    IN  unique[Len(recipients)]

PCs == {"waiting", "insert_request", "select_existing", "check_known",
        "insert_rows", "commit", "committed", "answered", "failed"}

InTransaction == {"insert_request", "select_existing", "check_known", "insert_rows", "commit"}

TypeOK == /\ job \in [Calls -> Jobs]
          /\ pc \in [Calls -> PCs]
          /\ todo \in [Calls -> Lists] /\ \A c \in Calls : IsInjective(todo[c])
          /\ answer \in [Calls -> Calls \union {NoCall}]
          /\ lead \in [Keys -> Entry]
          /\ rows \in [Keys -> [Urls -> Entry]]
          /\ held \subseteq Calls
          /\ failures \in 0..MaxFailures

Init == /\ job \in [Calls -> Jobs]
        /\ pc = [c \in Calls |-> "waiting"]
        /\ todo = [c \in Calls |-> <<>>]
        /\ answer = [c \in Calls |-> NoCall]
        /\ lead = [k \in Keys |-> Absent]
        /\ rows = [k \in Keys |-> [u \in Urls |-> Absent]]
        /\ held = {}
        /\ failures = 0

Key(c) == job[c].key

Goto(c, label) == pc' = [pc EXCEPT ![c] = label]

----------------------------------------------------------------------------
(* pool.acquire, and the transaction begins. *)
Acquire(c) ==
    /\ pc[c] = "waiting"
    /\ Cardinality(held) < PoolSize
    /\ held' = held \union {c}
    /\ Goto(c, IF job[c].op = "accept" THEN "insert_request" ELSE "check_known")
    /\ UNCHANGED <<job, todo, answer, lead, rows, failures>>

ToInsert(c) == todo' = [todo EXCEPT ![c] = Dedupe(job[c].recipients)]

(* Broken: a conflict is reported while the other insert may still fail. *)
InsertRequestUnwaiting(c) ==
    /\ pc[c] = "insert_request"
    /\ \/ /\ lead[Key(c)] = Absent
          /\ lead' = [lead EXCEPT ![Key(c)] = Inserted(c)]
          /\ answer' = [answer EXCEPT ![c] = c]
          /\ ToInsert(c)
          /\ Goto(c, "insert_rows")
       \/ /\ lead[Key(c)] # Absent
          /\ Goto(c, "select_existing")
          /\ UNCHANGED <<lead, answer, todo>>
    /\ UNCHANGED <<job, rows, held, failures>>

(* _INSERT_REQUEST: ON CONFLICT (source_id, idempotency_key) DO NOTHING waits
   for a concurrent insert of the key before it reports the conflict. *)
InsertRequest(c) ==
    /\ pc[c] = "insert_request"
    /\ \/ /\ lead[Key(c)] = Absent
          /\ lead' = [lead EXCEPT ![Key(c)] = Inserted(c)]
          /\ answer' = [answer EXCEPT ![c] = c]
          /\ ToInsert(c)
          /\ Goto(c, "insert_rows")
       \/ /\ Visible(lead[Key(c)])
          /\ Goto(c, "select_existing")
          /\ UNCHANGED <<lead, answer, todo>>
    /\ UNCHANGED <<job, rows, held, failures>>

(* _SELECT_EXISTING: the original lead, which the duplicate is answered with. *)
SelectExisting(c) ==
    /\ pc[c] = "select_existing"
    /\ answer' = [answer EXCEPT ![c] = IF Visible(lead[Key(c)]) THEN lead[Key(c)].by ELSE NoCall]
    /\ Goto(c, "commit")
    /\ UNCHANGED <<job, todo, lead, rows, held, failures>>

(* attach_recipients: SELECT EXISTS on the lead; None if there is none. *)
CheckKnown(c) ==
    /\ pc[c] = "check_known"
    /\ \/ /\ Visible(lead[Key(c)])
          /\ answer' = [answer EXCEPT ![c] = lead[Key(c)].by]
          /\ ToInsert(c)
          /\ Goto(c, "insert_rows")
       \/ /\ ~Visible(lead[Key(c)])
          /\ Goto(c, "commit")
          /\ UNCHANGED <<answer, todo>>
    /\ UNCHANGED <<job, lead, rows, held, failures>>

(* Broken: a row somebody else is inserting is taken for present. *)
InsertRowUnwaiting(c) ==
    /\ pc[c] = "insert_rows"
    /\ todo[c] # <<>>
    /\ LET u == Head(todo[c]) IN
       rows' = IF rows[Key(c)][u] = Absent
               THEN [rows EXCEPT ![Key(c)][u] = Inserted(c)] ELSE rows
    /\ todo' = [todo EXCEPT ![c] = Tail(@)]
    /\ UNCHANGED <<job, pc, answer, lead, held, failures>>

(* _INSERT_DELIVERIES, one row: ON CONFLICT (request_id, recipient_url) DO
   NOTHING, after waiting for a concurrent insert of the same row. *)
InsertRow(c) ==
    /\ pc[c] = "insert_rows"
    /\ todo[c] # <<>>
    /\ LET u == Head(todo[c]) IN
       \/ /\ rows[Key(c)][u] = Absent
          /\ rows' = [rows EXCEPT ![Key(c)][u] = Inserted(c)]
       \/ Visible(rows[Key(c)][u]) /\ UNCHANGED rows
    /\ todo' = [todo EXCEPT ![c] = Tail(@)]
    /\ UNCHANGED <<job, pc, answer, lead, held, failures>>

(* The blocks of `conn.transaction()` and `pool.acquire()` end. *)
Commit(c) ==
    /\ pc[c] = "commit" \/ (pc[c] = "insert_rows" /\ todo[c] = <<>>)
    /\ lead' = [k \in Keys |-> Committed(lead[k], c)]
    /\ rows' = [k \in Keys |-> [u \in Urls |-> Committed(rows[k][u], c)]]
    /\ held' = held \ {c}
    /\ Goto(c, "committed")
    /\ UNCHANGED <<job, todo, answer, failures>>

(* The response is sent. *)
Answer(c) ==
    /\ pc[c] = "committed"
    /\ Goto(c, "answered")
    /\ UNCHANGED <<job, todo, answer, lead, rows, held, failures>>

----------------------------------------------------------------------------
(* Failures. *)

(* Broken: an error path that does not give the connection back. *)
RollbackLeaking(c) ==
    /\ lead' = [k \in Keys |-> RolledBack(lead[k], c)]
    /\ rows' = [k \in Keys |-> [u \in Urls |-> RolledBack(rows[k][u], c)]]
    /\ UNCHANGED held
    /\ Goto(c, "failed")

(* An exception leaves the two blocks, or the backend notices that its client
   is gone. *)
Rollback(c) ==
    /\ lead' = [k \in Keys |-> RolledBack(lead[k], c)]
    /\ rows' = [k \in Keys |-> [u \in Urls |-> RolledBack(rows[k][u], c)]]
    /\ held' = held \ {c}
    /\ Goto(c, "failed")

Failure == failures < MaxFailures /\ failures' = failures + 1

(* command_timeout, a lost connection or the death of the API process, before
   the commit takes effect. *)
FailBeforeCommit(c) ==
    /\ pc[c] \in InTransaction
    /\ Failure
    /\ Rollback(c)
    /\ UNCHANGED <<job, todo, answer>>

(* The same after the commit: the lead is stored, the sender gets no answer. *)
LoseAnswer(c) ==
    /\ pc[c] = "committed"
    /\ Failure
    /\ Goto(c, "failed")
    /\ UNCHANGED <<job, todo, answer, lead, rows, held>>

(* The call whose uncommitted row c waits for, NoCall if there is none. *)
WaitsFor(c) ==
    IF pc[c] = "insert_rows" /\ todo[c] # <<>>
    THEN LET e == rows[Key(c)][Head(todo[c])] IN IF e.open /\ e.by # c THEN e.by ELSE NoCall
    ELSE NoCall

(* Postgres finds a cycle of waits and aborts one of its transactions.  (A
   call that waits to insert a lead is in no cycle: it holds no row yet.) *)
DeadlockDetected(c) ==
    /\ \E cycle \in SUBSET Calls : c \in cycle /\ {WaitsFor(b) : b \in cycle} = cycle
    /\ Rollback(c)
    /\ UNCHANGED <<job, todo, answer, failures>>

----------------------------------------------------------------------------

Statement(c) == \/ InsertRequest(c)
                \/ SelectExisting(c)
                \/ CheckKnown(c)
                \/ InsertRow(c)
                \/ Commit(c)
                \/ Answer(c)

(* No more requests come in. *)
AllDone == /\ \A c \in Calls : pc[c] \in {"answered", "failed"}
           /\ UNCHANGED vars

Next == \/ \E c \in Calls : \/ Acquire(c)
                            \/ Statement(c)
                            \/ FailBeforeCommit(c)
                            \/ LoseAnswer(c)
                            \/ DeadlockDetected(c)
        \/ AllDone

Spec == Init /\ [][Next]_vars

(* The event loop runs every coroutine that is ready, the pool hands free
   connections to those that wait, and Postgres looks for deadlocks among the
   transactions that wait. *)
FairSpec == /\ Spec
            /\ \A c \in Calls : /\ WF_vars(Acquire(c))
                                /\ WF_vars(Statement(c))
            /\ WF_vars(\E c \in Calls : DeadlockDetected(c))

----------------------------------------------------------------------------
(* What intake promises. *)

Listed(c) == ToSet(job[c].recipients)

Answered(c, op) == pc[c] = "answered" /\ job[c].op = op

(* Once a lead is visible, every recipient it came with is stored: workers
   and reports never see half of a lead, whatever fails in between. *)
AllOrNothing ==
    \A k \in Keys : Visible(lead[k]) =>
        \A u \in Listed(lead[k].by) : Visible(rows[k][u])

(* "Once we answer 'accepted', the lead is on disk" (intake.py): an answered
   call names the one stored lead of its key, whether it stored it, repeated
   it or lost the race for it, so all answers for a key agree.  The comment in
   accept_request relies for this on ON CONFLICT waiting for the winner. *)
AcceptedIsStored ==
    \A c \in Calls : Answered(c, "accept") =>
        Visible(lead[Key(c)]) /\ answer[c] = lead[Key(c)].by

(* After an answered attachment every URL it named is stored, also those it
   found "already present" while another call was inserting them. *)
AttachedIsStored ==
    \A c \in Calls : Answered(c, "attach") /\ answer[c] # NoCall =>
        \A u \in Listed(c) : Visible(rows[Key(c)][u])

(* What is seen from outside: requests, committed rows, answers. *)
askedBar == [c \in Calls |-> [op |-> job[c].op, key |-> Key(c), urls |-> Listed(c)]]

ownerBar == [k \in Keys |-> IF Visible(lead[k]) THEN lead[k].by ELSE NoCall]

storedBar == [k \in Keys |-> {u \in Urls : Visible(rows[k][u])}]

toldBar == {<<c, answer[c]>> : c \in {c \in Calls : pc[c] = "answered"}}

Atomic == INSTANCE AtomicIntake WITH asked <- askedBar, owner <- ownerBar,
                                     stored <- storedBar, told <- toldBar

(* Calls that overlap, wait for each other's rows, deadlock and fail are like
   calls made one after the other, each in a single step: what DeliveryService
   and Reporting take for granted. *)
ImplementsAtomicIntake == Atomic!IntakeSpec

(* Nobody waits for ever, for a connection or for another call's rows. *)
EveryCallEnds == \A c \in Calls : <>(pc[c] \in {"answered", "failed"})

----------------------------------------------------------------------------
(* What the repository says of the program and the program does not do. *)

(* "a lead has at most `max_recipients_per_request` deliveries anyway"
   (requeue_request): the reason why a manual retry has no row cap. *)
LeadWithinLimit ==
    \A k \in Keys : Cardinality({u \in Urls : Visible(rows[k][u])}) <= MaxRecipients
=============================================================================
