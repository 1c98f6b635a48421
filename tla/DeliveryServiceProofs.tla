----------------------- MODULE DeliveryServiceProofs -----------------------
(***************************************************************************)
(* Proofs about DeliveryService, for every value of its constants:         *)
(*  - typing, and what holds of the history whatever attempts do;          *)
(*  - what a live lease protects however slow attempts are, and what       *)
(*    follows for overlapping attempts, the retry budget and the journal   *)
(*    when every attempt fits in its lease;                                *)
(*  - what a worker takes on, and what the service as a whole promises to  *)
(*    those who hand it leads.                                             *)
(***************************************************************************)
EXTENDS DeliveryService, TLAPS, FiniteSetTheorems

(* The budget counter never runs ahead of the lifetime counter: both go up
   with a claim and only the budget is reset. *)
CountersOK == \A d \in Deliveries : row[d].attempts <= row[d].total_attempts

TypeInv == TypeOK /\ CountersOK

(* The assumptions on the constants, as types. *)
LEMMA Constants ==
    /\ RetryMaxAttempts \in Nat /\ RetryMaxAttempts >= 1
    /\ LeaseTime \in Nat /\ LeaseTime >= 1
    /\ MaxDelay \in Nat /\ MaxDelay >= 1
    /\ MaxTotal \in Nat /\ MaxTotal >= 1
    /\ AttemptDeadline \in Nat /\ Stall \in Nat
    /\ MaxFaults \in Nat /\ MaxRetries \in Nat
  BY BudgetAssumption, LeaseAssumption, DelayAssumption, TotalAssumption,
     SettingsAssumption, BoundsAssumption
     DEF BudgetAssumption, LeaseAssumption, DelayAssumption, TotalAssumption,
         SettingsAssumption, BoundsAssumption

USE Constants

LEMMA TypeInit == Init => TypeInv
  <1> SUFFICES ASSUME Init PROVE TypeInv
    OBVIOUS
  <1> USE DEF Init, QueueInit
  <1>1. NoRow \in Row /\ NoRow.attempts <= NoRow.total_attempts
    BY DEF NoRow, Row, Statuses, Counts, Delays, LeasesLeft
  <1>2. row \in [Deliveries -> Row] /\ CountersOK
    BY <1>1 DEF CountersOK
  <1>3. journal \in [Deliveries -> [Numbers -> Outcomes]]
    BY DEF Outcomes
  <1> QED BY <1>2, <1>3 DEF TypeInv, TypeOK, QueueTypeOK, ProcStates

(* Rows stay rows under each statement, and the counters do what the SQL
   says of them. *)
LEMMA ClaimedRowType ==
  ASSUME NEW r \in Row, NEW w \in Workers,
         r.attempts <= r.total_attempts, r.total_attempts < MaxTotal
  PROVE  /\ ClaimedRow(r, w) \in Row
         /\ ClaimedRow(r, w).attempts <= ClaimedRow(r, w).total_attempts
  <1>1. r.attempts + 1 \in Counts /\ r.total_attempts + 1 \in Counts
    BY DEF Row, Counts
  <1>2. LeaseTime \in LeasesLeft
    BY DEF LeasesLeft
  <1>3. ClaimedRow(r, w) \in Row
    BY <1>1, <1>2 DEF ClaimedRow, Row, Statuses
  <1>4. ClaimedRow(r, w).attempts <= ClaimedRow(r, w).total_attempts
    BY DEF ClaimedRow, Row, Counts
  <1> QED BY <1>3, <1>4

LEMMA RequeuedRowType ==
  ASSUME NEW r \in Row
  PROVE  /\ RequeuedRow(r) \in Row
         /\ RequeuedRow(r).attempts <= RequeuedRow(r).total_attempts
  <1>1. 0 \in Counts /\ 0 \in Delays /\ 0 \in LeasesLeft
    BY DEF Counts, Delays, LeasesLeft
  <1>2. RequeuedRow(r) \in Row
    BY <1>1 DEF RequeuedRow, Row, Statuses
  <1>3. RequeuedRow(r).attempts <= RequeuedRow(r).total_attempts
    BY DEF RequeuedRow, Row, Counts
  <1> QED BY <1>2, <1>3

LEMMA MarkDeliveredType ==
  ASSUME NEW r \in Row
  PROVE  /\ MarkDelivered(r) \in Row
         /\ MarkDelivered(r).attempts = r.attempts
         /\ MarkDelivered(r).total_attempts = r.total_attempts
  <1>1. 0 \in LeasesLeft
    BY DEF LeasesLeft
  <1> QED BY <1>1 DEF MarkDelivered, Row, Statuses

LEMMA MarkFailureType ==
  ASSUME NEW r \in Row, NEW w \in Workers, NEW exhausted \in BOOLEAN,
         NEW delay \in 1..MaxDelay
  PROVE  /\ MarkFailure(r, w, exhausted, delay) \in Row
         /\ MarkFailure(r, w, exhausted, delay).attempts = r.attempts
         /\ MarkFailure(r, w, exhausted, delay).total_attempts = r.total_attempts
  <1>1. 0 \in LeasesLeft /\ delay \in Delays
    BY DEF LeasesLeft, Delays
  <1> QED BY <1>1 DEF MarkFailure, Row, Statuses

LEMMA AgedRowType ==
  ASSUME NEW r \in Row
  PROVE  [r EXCEPT !.next_in = Sooner(@), !.lease_in = Sooner(@)] \in Row
  <1>1. Sooner(r.next_in) \in Delays
    BY DEF Sooner, Row, Delays
  <1>2. Sooner(r.lease_in) \in LeasesLeft
    BY DEF Sooner, Row, LeasesLeft
  <1> QED BY <1>1, <1>2 DEF Row

LEMMA ClaimBatchType ==
  ASSUME TypeInv, NEW w \in Workers, NEW picked \in SUBSET Deliveries, NEW limit,
         ClaimBatch(w, picked, limit)
  PROVE  QueueTypeOK' /\ CountersOK'
  <1>1. ASSUME NEW d \in Deliveries
        PROVE  row'[d] \in Row /\ row'[d].attempts <= row'[d].total_attempts
    BY ClaimedRowType DEF ClaimBatch, TypeInv, TypeOK, QueueTypeOK, CountersOK
  <1>2. row' \in [Deliveries -> Row]
    BY <1>1 DEF ClaimBatch
  <1>3. journal' \in [Deliveries -> [Numbers -> Outcomes]]
    BY DEF ClaimBatch, RecordLostAttempts, TypeInv, TypeOK, QueueTypeOK, Outcomes
  <1> QED BY <1>1, <1>2, <1>3 DEF QueueTypeOK, CountersOK

LEMMA RecordResultType ==
  ASSUME TypeInv, NEW t \in tasks, t.phase # "wire",
         RecordResult(t.worker, t.delivery, t.number, t.budget, t.phase)
  PROVE  QueueTypeOK' /\ CountersOK'
  <1> DEFINE d == t.delivery
  <1>0. t \in Task /\ d \in Deliveries /\ t.worker \in Workers /\ t.phase \in Outcomes
    BY DEF TypeInv, TypeOK, Task, Outcomes
  <1>1. PICK delay \in 1..MaxDelay :
          row' = [row EXCEPT ![d] =
                    IF t.phase = "success" THEN MarkDelivered(@)
                    ELSE MarkFailure(@, t.worker, IsExhausted(t.budget), delay)]
    BY DEF RecordResult
  <1>2. IsExhausted(t.budget) \in BOOLEAN
    BY DEF IsExhausted
  <1>3. row[d] \in Row /\ row[d].attempts <= row[d].total_attempts
    BY <1>0 DEF TypeInv, TypeOK, QueueTypeOK, CountersOK
  <1>4. row'[d] \in Row /\ row'[d].attempts <= row'[d].total_attempts
    <2>1. CASE t.phase = "success"
      BY <2>1, <1>0, <1>1, <1>3, MarkDeliveredType DEF TypeInv, TypeOK, QueueTypeOK
    <2>2. CASE t.phase # "success"
      <3>1. row'[d] = MarkFailure(row[d], t.worker, IsExhausted(t.budget), delay)
        BY <2>2, <1>0, <1>1 DEF TypeInv, TypeOK, QueueTypeOK
      <3> QED BY <3>1, <1>0, <1>2, <1>3, MarkFailureType
    <2> QED BY <2>1, <2>2
  <1>5. row' \in [Deliveries -> Row] /\ CountersOK'
    BY <1>0, <1>1, <1>4 DEF TypeInv, TypeOK, QueueTypeOK, CountersOK
  <1>6. journal' \in [Deliveries -> [Numbers -> Outcomes]]
    <2>1. t.number \in Numbers /\ journal[d] \in [Numbers -> Outcomes]
      BY <1>0 DEF Task, TypeInv, TypeOK, QueueTypeOK
    <2>2. Journalled(journal[d], t.number, t.phase) \in [Numbers -> Outcomes]
      BY <1>0, <2>1 DEF Journalled
    <2> QED BY <1>0, <2>2 DEF RecordResult, TypeInv, TypeOK, QueueTypeOK
  <1> QED BY <1>5, <1>6 DEF QueueTypeOK

LEMMA RequeueType ==
  ASSUME TypeInv, NEW ds \in SUBSET Deliveries, NEW include \in BOOLEAN,
         Requeue(ds, include)
  PROVE  QueueTypeOK' /\ CountersOK'
  <1>1. ASSUME NEW d \in Deliveries
        PROVE  row'[d] \in Row /\ row'[d].attempts <= row'[d].total_attempts
    BY RequeuedRowType DEF Requeue, TypeInv, TypeOK, QueueTypeOK, CountersOK
  <1> QED BY <1>1 DEF Requeue, TypeInv, TypeOK, QueueTypeOK, CountersOK

LEMMA InsertDeliveriesType ==
  ASSUME TypeInv, NEW ds \in SUBSET Deliveries, InsertDeliveries(ds)
  PROVE  QueueTypeOK' /\ CountersOK'
  <1>1. ASSUME NEW d \in Deliveries
        PROVE  row'[d] \in Row /\ row'[d].attempts <= row'[d].total_attempts
    BY DEF InsertDeliveries, TypeInv, TypeOK, QueueTypeOK, CountersOK, Row, Statuses
  <1> QED BY <1>1 DEF InsertDeliveries, TypeInv, TypeOK, QueueTypeOK, CountersOK

LEMMA AgeRowsType ==
  ASSUME TypeInv, AgeRows
  PROVE  QueueTypeOK' /\ CountersOK'
  <1>1. ASSUME NEW d \in Deliveries
        PROVE  row'[d] \in Row /\ row'[d].attempts <= row'[d].total_attempts
    BY AgedRowType DEF AgeRows, TypeInv, TypeOK, QueueTypeOK, CountersOK, Row
  <1> QED BY <1>1 DEF AgeRows, TypeInv, TypeOK, QueueTypeOK, CountersOK

LEMMA TypeNext == TypeInv /\ [Next]_vars => TypeInv'
  <1> SUFFICES ASSUME TypeInv, [Next]_vars PROVE TypeInv'
    OBVIOUS
  <1> USE DEF TypeInv, TypeOK
  <1>1. ASSUME NEW w \in Workers, Start(w) PROVE TypeInv'
    BY <1>1 DEF Start, ProcStates, envVars, QueueTypeOK, CountersOK
  <1>2. ASSUME NEW w \in Workers, RequestStop(w) PROVE TypeInv'
    BY <1>2 DEF RequestStop, Fault, ProcStates, queueVars, QueueTypeOK, CountersOK
  <1>3. ASSUME NEW w \in Workers, EndDrain(w) PROVE TypeInv'
    BY <1>3 DEF EndDrain, ProcStates, queueVars, envVars, QueueTypeOK, CountersOK
  <1>4. ASSUME NEW w \in Workers, Kill(w) PROVE TypeInv'
    BY <1>4 DEF Kill, Fault, ProcStates, queueVars, QueueTypeOK, CountersOK
  <1>5. ASSUME NEW w \in Workers, NEW picked \in SUBSET Deliveries, Tick(w, picked)
        PROVE  TypeInv'
    <2>1. QueueTypeOK' /\ CountersOK'
      BY <1>5, ClaimBatchType DEF Tick
    <2>2. ASSUME NEW d \in picked PROVE Spawned(w, d) \in Task
      <3>1. d \in Deliveries /\ row[d] \in Row /\ row[d].attempts <= row[d].total_attempts
        BY DEF QueueTypeOK, CountersOK
      <3>2. row[d].total_attempts < MaxTotal
        BY <1>5 DEF Tick, ClaimBatch
      <3>3. row[d].total_attempts + 1 \in Numbers /\ row[d].attempts + 1 \in Numbers
        BY <3>1, <3>2 DEF Row, Counts, Numbers
      <3>4. 0 \in 0..(AttemptDeadline + Stall)
        OBVIOUS
      <3> QED BY <3>1, <3>3, <3>4 DEF Spawned, Task
    <2> QED BY <1>5, <2>1, <2>2 DEF Tick, envVars
  <1>6. ASSUME NEW w \in Workers, NEW picked \in SUBSET Deliveries, ClaimRaises(w, picked)
        PROVE  TypeInv'
    <2>1. QueueTypeOK' /\ CountersOK'
      <3>1. CASE ClaimBatch(w, picked, ClaimLimit(w))
        BY <3>1, ClaimBatchType
      <3>2. CASE UNCHANGED queueVars
        BY <3>2 DEF queueVars, QueueTypeOK, CountersOK
      <3> QED BY <1>6, <3>1, <3>2 DEF ClaimRaises
    <2> QED BY <1>6, <2>1 DEF ClaimRaises, Fault, ProcStates
  <1>7. ASSUME NEW t \in tasks, Take(t) PROVE TypeInv'
    BY <1>7 DEF Take, Task, queueVars, envVars, QueueTypeOK, CountersOK
  <1>8. ASSUME NEW t \in tasks, NEW verdict \in {"success", "failure"}, Answer(t, verdict)
        PROVE  TypeInv'
    <2>1. [t EXCEPT !.phase = verdict] \in Task
      BY DEF Task
    <2> QED BY <1>8, <2>1 DEF Answer, queueVars, envVars, QueueTypeOK, CountersOK
  <1>9. ASSUME NEW t \in tasks, Record(t) PROVE TypeInv'
    BY <1>9, RecordResultType DEF Record, envVars
  <1>10. ASSUME NEW t \in tasks, LoseResult(t) PROVE TypeInv'
    BY <1>10 DEF LoseResult, Fault, queueVars, QueueTypeOK, CountersOK
  <1>11. ASSUME NEW ds \in SUBSET Deliveries, Enqueue(ds) PROVE TypeInv'
    BY <1>11, InsertDeliveriesType DEF Enqueue, envVars
  <1>12. ASSUME NEW ds \in SUBSET Deliveries, NEW include \in BOOLEAN,
                RetryRequest(ds, include)
         PROVE  TypeInv'
    BY <1>12, RequeueType DEF RetryRequest, Retry
  <1>13. ASSUME NEW ds \in SUBSET Deliveries, NEW statuses, RetryBulk(ds, statuses)
         PROVE  TypeInv'
    <2>1. Requeue(ds, TRUE)
      BY <1>13 DEF RetryBulk
    <2>2. QueueTypeOK' /\ CountersOK'
      BY <2>1, RequeueType
    <2> QED BY <1>13, <2>2 DEF RetryBulk, Retry
  <1>14. ASSUME Elapse PROVE TypeInv'
    <2>1. QueueTypeOK' /\ CountersOK'
      BY <1>14, AgeRowsType DEF Elapse
    <2>2. tasks' \subseteq Task
      <3>1. ASSUME NEW t \in tasks PROVE [t EXCEPT !.age = @ + 1] \in Task
        BY <1>14 DEF Elapse, Task
      <3> QED BY <1>14, <3>1 DEF Elapse
    <2> QED BY <1>14, <2>1, <2>2 DEF Elapse, envVars
  <1>15. CASE UNCHANGED vars
    BY <1>15 DEF vars, QueueTypeOK, CountersOK
  <1> QED BY <1>1, <1>2, <1>3, <1>4, <1>5, <1>6, <1>7, <1>8, <1>9, <1>10, <1>11,
             <1>12, <1>13, <1>14, <1>15 DEF Next

(* Every state the service reaches is well typed. *)
THEOREM TypeCorrect == Spec => []TypeOK
  <1>1. Spec => []TypeInv
    BY TypeInit, TypeNext, PTL DEF Spec
  <1> QED BY <1>1, PTL DEF TypeInv

----------------------------------------------------------------------------
(* What the journal proves, however slow the attempts are.  AttemptNumbersUnique,
   DeliveredHasProof and SuccessSettles become inductive with three facts: *)

(* nothing is journalled under a number that was not claimed yet; *)
FutureIsBlank ==
    \A d \in Deliveries : \A n \in Numbers :
        n > row[d].total_attempts => journal[d][n] = "none"

(* a task that is alive can still fill in its own entry; *)
EntryIsOpen == \A t \in tasks : journal[t.delivery][t.number] \in {"none", "unknown"}

(* and a task that will report a success has seen the recipient's answer. *)
VerdictIsHonest ==
    \A t \in tasks : t.phase = "success" => t.number \in accepted[t.delivery]

HistoryInv == /\ AttemptNumbersUnique
              /\ FutureIsBlank
              /\ EntryIsOpen
              /\ VerdictIsHonest
              /\ DeliveredHasProof
              /\ SuccessSettles

LEMMA RowNumbers ==
  ASSUME NEW r \in Row
  PROVE  /\ r.attempts \in Nat
         /\ r.total_attempts \in Nat
         /\ r.total_attempts <= MaxTotal
         /\ r.next_in \in Nat
         /\ r.lease_in \in Nat
         /\ r.status \in Statuses
  BY DEF Row, Counts, Delays, LeasesLeft

LEMMA TaskTypes ==
  ASSUME TypeInv, NEW t \in tasks
  PROVE  /\ t.worker \in Workers
         /\ t.delivery \in Deliveries
         /\ t.number \in Nat /\ t.number \in Numbers
         /\ t.budget \in Nat
         /\ t.phase \in {"wire", "success", "failure"}
         /\ t.age \in Nat /\ t.age <= AttemptDeadline + Stall
         /\ row[t.delivery] \in Row
         /\ journal[t.delivery] \in [Numbers -> Outcomes]
  BY DEF TypeInv, TypeOK, QueueTypeOK, Task, Numbers

LEMMA HistoryInit == Init => HistoryInv
  BY DEF Init, QueueInit, NoRow, HistoryInv, AttemptNumbersUnique, FutureIsBlank,
         EntryIsOpen, VerdictIsHonest, DeliveredHasProof, SuccessSettles, CurrentBudget

(* Tasks may end in silence: processes die, results get lost. *)
LEMMA HistoryTasksEnd ==
  ASSUME HistoryInv, UNCHANGED <<row, journal, accepted>>, tasks' \subseteq tasks
  PROVE  HistoryInv'
  BY DEF HistoryInv, AttemptNumbersUnique, FutureIsBlank, EntryIsOpen,
         VerdictIsHonest, DeliveredHasProof, SuccessSettles, CurrentBudget

(* What a claim does to each row and each journal entry. *)
ClaimEffect(w, picked) ==
    \A d \in Deliveries :
        /\ d \notin picked => row'[d] = row[d]
        /\ d \in picked => /\ row[d].status \in {"pending", "in_flight"}
                           /\ row[d].status = "in_flight" => row[d].lease_in = 0
                           /\ row[d].total_attempts < MaxTotal
                           /\ row'[d].status = "in_flight"
                           /\ row'[d].total_attempts = row[d].total_attempts + 1
                           /\ row'[d].attempts = row[d].attempts + 1
                           /\ row'[d].lease_in = LeaseTime
                           /\ row'[d].locked_by = w
        /\ \A n \in Numbers :
              \/ journal'[d][n] = journal[d][n]
              \/ /\ n = row[d].total_attempts
                 /\ journal[d][n] = "none"
                 /\ journal'[d][n] = "unknown"
        /\ \A n \in Numbers :
              /\ d \in picked /\ row[d].status = "in_flight"
              /\ n = row[d].total_attempts
              => journal'[d][n] # "none"

LEMMA ClaimFacts ==
  ASSUME TypeInv, NEW w \in Workers, NEW picked \in SUBSET Deliveries, NEW limit,
         ClaimBatch(w, picked, limit)
  PROVE  ClaimEffect(w, picked)
  <1> SUFFICES ASSUME NEW d \in Deliveries
               PROVE  ClaimEffect(w, picked)!(d)
    BY DEF ClaimEffect
  <1>1. row[d] \in Row
    BY DEF TypeInv, TypeOK, QueueTypeOK
  <1>2. row'[d] = IF d \in picked THEN ClaimedRow(row[d], w) ELSE row[d]
    BY DEF ClaimBatch
  <1>3. d \in picked => Claimable(row[d]) /\ row[d].total_attempts < MaxTotal
    BY DEF ClaimBatch
  <1>4. d \in picked => /\ row[d].status \in {"pending", "in_flight"}
                        /\ row[d].status = "in_flight" => row[d].lease_in = 0
    BY <1>1, <1>3, RowNumbers DEF Claimable, ClaimableIn
  <1>5. d \in picked => /\ row'[d].status = "in_flight"
                        /\ row'[d].total_attempts = row[d].total_attempts + 1
                        /\ row'[d].attempts = row[d].attempts + 1
                        /\ row'[d].lease_in = LeaseTime
                        /\ row'[d].locked_by = w
    BY <1>1, <1>2 DEF ClaimedRow, Row
  <1>6. \A n \in Numbers :
            \/ journal'[d][n] = journal[d][n]
            \/ /\ n = row[d].total_attempts
               /\ journal[d][n] = "none"
               /\ journal'[d][n] = "unknown"
    BY DEF ClaimBatch, RecordLostAttempts
  <1>7. \A n \in Numbers :
            /\ d \in picked /\ row[d].status = "in_flight"
            /\ n = row[d].total_attempts
            => journal'[d][n] # "none"
    BY DEF ClaimBatch, RecordLostAttempts, Reclaimed, Numbers
  <1> QED BY <1>2, <1>3, <1>4, <1>5, <1>6, <1>7

(* A claim that spawns tasks for some of its rows (all, or none when its
   answer got lost). *)
LEMMA HistoryClaim ==
  ASSUME TypeInv, HistoryInv, NEW w \in Workers, NEW picked \in SUBSET Deliveries,
         NEW limit, ClaimBatch(w, picked, limit), UNCHANGED accepted,
         NEW spawned \in SUBSET picked,
         tasks' = tasks \union {Spawned(w, d) : d \in spawned}
  PROVE  HistoryInv'
  <1> USE DEF HistoryInv
  <1>0. ClaimEffect(w, picked)
    BY ClaimFacts
  <1>1. \A d \in Deliveries : /\ row[d].attempts \in Nat
                              /\ row[d].total_attempts \in Nat
                              /\ row[d].total_attempts <= MaxTotal
                              /\ row[d].attempts <= row[d].total_attempts
    BY RowNumbers DEF TypeInv, TypeOK, QueueTypeOK, CountersOK
  <1>a. \A t \in tasks : /\ t.delivery \in Deliveries
                         /\ t.number \in Nat /\ t.number \in Numbers
    BY TaskTypes
  <1>2. ASSUME NEW d \in spawned
        PROVE  /\ Spawned(w, d).delivery = d
               /\ Spawned(w, d).number = row[d].total_attempts + 1
               /\ Spawned(w, d).phase = "wire"
    BY DEF Spawned
  <1>3. AttemptNumbersUnique'
    <2>1. ASSUME NEW t \in tasks' PROVE t.number <= row'[t.delivery].total_attempts
      <3>1. CASE t \in tasks
        BY <3>1, <1>1, <1>a, <1>0 DEF ClaimEffect, AttemptNumbersUnique
      <3>2. CASE t \notin tasks
        <4>1. PICK d \in spawned : t = Spawned(w, d)
          BY <3>2
        <4> QED BY <4>1, <1>1, <1>2, <1>0 DEF ClaimEffect
      <3> QED BY <3>1, <3>2
    <2>2. ASSUME NEW t \in tasks, NEW d \in spawned, t.delivery = d
          PROVE  t.number # row[d].total_attempts + 1
      BY <2>2, <1>1, <1>a DEF AttemptNumbersUnique
    <2>3. ASSUME NEW t1 \in tasks', NEW t2 \in tasks',
                 t1.delivery = t2.delivery, t1.number = t2.number
          PROVE  t1 = t2
      <3>1. CASE t1 \in tasks /\ t2 \in tasks
        BY <2>3, <3>1 DEF AttemptNumbersUnique
      <3>2. CASE t1 \in tasks /\ t2 \notin tasks
        BY <2>2, <2>3, <3>2, <1>2
      <3>3. CASE t1 \notin tasks /\ t2 \in tasks
        BY <2>2, <2>3, <3>3, <1>2
      <3>4. CASE t1 \notin tasks /\ t2 \notin tasks
        BY <2>3, <3>4, <1>2
      <3> QED BY <3>1, <3>2, <3>3, <3>4
    <2> QED BY <2>1, <2>3 DEF AttemptNumbersUnique
  <1>4. FutureIsBlank'
    <2> SUFFICES ASSUME NEW d \in Deliveries, NEW n \in Numbers,
                        n > row'[d].total_attempts
                 PROVE  journal'[d][n] = "none"
      BY DEF FutureIsBlank
    <2>1. n \in Nat /\ row[d].total_attempts \in Nat
      BY <1>1 DEF Numbers
    <2>2. n > row[d].total_attempts
      BY <2>1, <1>0 DEF ClaimEffect
    <2> QED BY <2>1, <2>2, <1>0 DEF ClaimEffect, FutureIsBlank
  <1>5. EntryIsOpen'
    <2> SUFFICES ASSUME NEW t \in tasks'
                 PROVE  journal'[t.delivery][t.number] \in {"none", "unknown"}
      BY DEF EntryIsOpen
    <2>1. CASE t \in tasks
      BY <2>1, <1>a, <1>0 DEF ClaimEffect, EntryIsOpen
    <2>2. CASE t \notin tasks
      <3>1. PICK d \in spawned : t = Spawned(w, d)
        BY <2>2
      <3>2. row[d].total_attempts \in Nat /\ row[d].total_attempts < MaxTotal
        BY <1>1, <1>0 DEF ClaimEffect
      <3>3. t.number \in Numbers /\ t.number > row[d].total_attempts
        BY <3>1, <3>2, <1>2 DEF Numbers
      <3>4. journal[d][t.number] = "none"
        BY <3>3 DEF FutureIsBlank
      <3> QED BY <3>1, <3>2, <3>3, <3>4, <1>2, <1>0 DEF ClaimEffect
    <2> QED BY <2>1, <2>2
  <1>6. VerdictIsHonest'
    BY <1>2 DEF VerdictIsHonest
  <1>7. DeliveredHasProof'
    <2> SUFFICES ASSUME NEW d \in Deliveries
                 PROVE  /\ row'[d].status = "delivered" =>
                              \E n \in Numbers : journal'[d][n] = "success"
                        /\ \A n \in Numbers : journal'[d][n] = "success" => n \in accepted'[d]
      BY DEF DeliveredHasProof
    <2> QED BY <1>0 DEF ClaimEffect, DeliveredHasProof
  <1>8. SuccessSettles'
    <2> SUFFICES ASSUME NEW d \in Deliveries, NEW n \in CurrentBudget(d)',
                        journal'[d][n] = "success"
                 PROVE  row'[d].status = "delivered"
      BY DEF SuccessSettles
    <2>1. /\ row[d].attempts \in Nat /\ row[d].total_attempts \in Nat
          /\ row[d].attempts <= row[d].total_attempts
          /\ row[d].total_attempts <= MaxTotal
      BY <1>1
    <2>2. CASE d \notin picked
      <3>1. n \in CurrentBudget(d) /\ n \in Numbers
        BY <2>1, <2>2, <1>0 DEF ClaimEffect, CurrentBudget, Numbers
      <3>2. journal[d][n] = "success"
        BY <3>1, <1>0 DEF ClaimEffect
      <3> QED BY <2>2, <3>1, <3>2, <1>0 DEF ClaimEffect, SuccessSettles
    <2>3. CASE d \in picked
      <3>1. n \in Numbers /\ (n \in CurrentBudget(d) \/ n > row[d].total_attempts)
        BY <2>1, <2>3, <1>0 DEF ClaimEffect, CurrentBudget, Numbers
      <3>2. journal[d][n] = "success"
        BY <3>1, <1>0 DEF ClaimEffect
      <3>3. n \in CurrentBudget(d)
        BY <3>1, <3>2 DEF FutureIsBlank
      <3> QED BY <2>3, <3>2, <3>3, <1>0 DEF ClaimEffect, SuccessSettles
    <2> QED BY <2>2, <2>3
  <1> QED BY <1>3, <1>4, <1>5, <1>6, <1>7, <1>8

LEMMA HistoryTake ==
  ASSUME TypeInv, HistoryInv, NEW t \in tasks, Take(t)
  PROVE  HistoryInv'
  <1>1. UNCHANGED <<row, journal, tasks>>
    BY DEF Take, queueVars
  <1>2. \A d \in Deliveries : accepted[d] \subseteq accepted'[d]
    BY DEF Take, TypeInv, TypeOK
  <1>3. VerdictIsHonest'
    BY <1>1, <1>2, TaskTypes DEF HistoryInv, VerdictIsHonest
  <1>4. DeliveredHasProof'
    BY <1>1, <1>2 DEF HistoryInv, DeliveredHasProof
  <1> QED BY <1>1, <1>3, <1>4 DEF HistoryInv, AttemptNumbersUnique, FutureIsBlank,
                                  EntryIsOpen, SuccessSettles, CurrentBudget

(* A task that only changes its phase or its age keeps its number. *)
LEMMA HistoryAnswer ==
  ASSUME TypeInv, HistoryInv, NEW t \in tasks, NEW verdict \in {"success", "failure"},
         Answer(t, verdict)
  PROVE  HistoryInv'
  <1> DEFINE u == [t EXCEPT !.phase = verdict]
  <1>1. UNCHANGED <<row, journal, accepted>>
    BY DEF Answer, queueVars
  <1>2. /\ u.delivery = t.delivery /\ u.number = t.number /\ u.phase = verdict
        /\ tasks' = (tasks \ {t}) \union {u}
    BY DEF Answer, TypeInv, TypeOK, Task
  <1>3. verdict = "success" => t.number \in accepted[t.delivery]
    BY DEF Answer, Verdicts
  <1> HIDE DEF u
  <1>4. AttemptNumbersUnique'
    BY <1>1, <1>2 DEF HistoryInv, AttemptNumbersUnique
  <1>5. EntryIsOpen' /\ VerdictIsHonest'
    BY <1>1, <1>2, <1>3 DEF HistoryInv, EntryIsOpen, VerdictIsHonest
  <1> QED BY <1>1, <1>4, <1>5 DEF HistoryInv, FutureIsBlank, DeliveredHasProof,
                                  SuccessSettles, CurrentBudget

(* What recording does to the row and to the journal. *)
RecordEffect(t) ==
    /\ \A d \in Deliveries :
          /\ d # t.delivery => row'[d] = row[d] /\ journal'[d] = journal[d]
          /\ row'[d].attempts = row[d].attempts
          /\ row'[d].total_attempts = row[d].total_attempts
    /\ t.phase = "success" => row'[t.delivery].status = "delivered"
    /\ t.phase # "success" =>
          IF row[t.delivery].status = "in_flight" /\ row[t.delivery].locked_by = t.worker
          THEN row'[t.delivery].status = IF IsExhausted(t.budget) THEN "failed" ELSE "pending"
          ELSE row'[t.delivery] = row[t.delivery]
    /\ \A n \in Numbers :
          journal'[t.delivery][n] =
             IF n = t.number /\ journal[t.delivery][n] \in {"none", "unknown"}
             THEN t.phase ELSE journal[t.delivery][n]

LEMMA RecordFacts ==
  ASSUME TypeInv, NEW t \in tasks, t.phase # "wire",
         RecordResult(t.worker, t.delivery, t.number, t.budget, t.phase)
  PROVE  RecordEffect(t)
  <1> DEFINE e == t.delivery
  <1>1. PICK delay \in 1..MaxDelay :
          row' = [row EXCEPT ![e] =
                    IF t.phase = "success" THEN MarkDelivered(@)
                    ELSE MarkFailure(@, t.worker, IsExhausted(t.budget), delay)]
    BY DEF RecordResult
  <1>2. journal' = [journal EXCEPT ![e] = Journalled(@, t.number, t.phase)]
    BY DEF RecordResult
  <1>3. /\ e \in Deliveries /\ t.number \in Numbers /\ t.worker \in Workers
        /\ row[e] \in Row /\ journal[e] \in [Numbers -> Outcomes]
    BY TaskTypes
  <1>4. row \in [Deliveries -> Row] /\ journal \in [Deliveries -> [Numbers -> Outcomes]]
    BY DEF TypeInv, TypeOK, QueueTypeOK
  <1>5. ASSUME NEW d \in Deliveries, d # e
        PROVE  row'[d] = row[d] /\ journal'[d] = journal[d]
    BY <1>1, <1>2, <1>4, <1>5
  <1>6. IsExhausted(t.budget) \in BOOLEAN
    BY DEF IsExhausted
  <1>7. /\ row'[e].attempts = row[e].attempts
        /\ row'[e].total_attempts = row[e].total_attempts
    <2>1. CASE t.phase = "success"
      BY <2>1, <1>1, <1>3, <1>4, MarkDeliveredType
    <2>2. CASE t.phase # "success"
      <3>1. row'[e] = MarkFailure(row[e], t.worker, IsExhausted(t.budget), delay)
        BY <2>2, <1>1, <1>3, <1>4
      <3> QED BY <3>1, <1>3, <1>6, MarkFailureType
    <2> QED BY <2>1, <2>2
  <1>8. t.phase = "success" => row'[e].status = "delivered"
    BY <1>1, <1>3, <1>4 DEF MarkDelivered, Row
  <1>9. t.phase # "success" =>
          IF row[e].status = "in_flight" /\ row[e].locked_by = t.worker
          THEN row'[e].status = IF IsExhausted(t.budget) THEN "failed" ELSE "pending"
          ELSE row'[e] = row[e]
    BY <1>1, <1>3, <1>4 DEF MarkFailure, Row
  <1>10. \A n \in Numbers :
            journal'[e][n] = IF n = t.number /\ journal[e][n] \in {"none", "unknown"}
                             THEN t.phase ELSE journal[e][n]
    <2>1. journal'[e] = Journalled(journal[e], t.number, t.phase)
      BY <1>2, <1>3, <1>4
    <2> QED BY <2>1, <1>3 DEF Journalled
  <1> QED BY <1>5, <1>7, <1>8, <1>9, <1>10 DEF RecordEffect

LEMMA HistoryRecord ==
  ASSUME TypeInv, HistoryInv, NEW t \in tasks, Record(t)
  PROVE  HistoryInv'
  <1> DEFINE e == t.delivery
  <1> USE DEF HistoryInv
  <1>0. RecordEffect(t)
    BY RecordFacts DEF Record
  <1>1. accepted' = accepted /\ tasks' = tasks \ {t} /\ t.phase # "wire"
    BY DEF Record
  <1>2. \A u \in tasks : u.delivery \in Deliveries /\ u.number \in Numbers
    BY TaskTypes
  <1>3. /\ t.phase \in {"success", "failure"}
        /\ e \in Deliveries /\ t.number \in Numbers /\ t.number \in Nat
        /\ journal[e][t.number] \in {"none", "unknown"}
    BY <1>1, TaskTypes DEF EntryIsOpen
  <1>4. AttemptNumbersUnique'
    BY <1>0, <1>1, <1>2 DEF RecordEffect, AttemptNumbersUnique
  <1>5. FutureIsBlank'
    <2> SUFFICES ASSUME NEW d \in Deliveries, NEW n \in Numbers,
                        n > row'[d].total_attempts
                 PROVE  journal'[d][n] = "none"
      BY DEF FutureIsBlank
    <2>1. journal[d][n] = "none" /\ n > row[d].total_attempts
      BY <1>0 DEF RecordEffect, FutureIsBlank
    <2>2. d = e => n # t.number
      <3>1. t.number <= row[e].total_attempts
        BY DEF AttemptNumbersUnique
      <3>2. row[e].total_attempts \in Nat
        BY TaskTypes, RowNumbers
      <3> QED BY <2>1, <3>1, <3>2, <1>3
    <2> QED BY <2>1, <2>2, <1>0 DEF RecordEffect
  <1>6. EntryIsOpen'
    <2> SUFFICES ASSUME NEW u \in tasks, u # t
                 PROVE  journal'[u.delivery][u.number] \in {"none", "unknown"}
      BY <1>1 DEF EntryIsOpen
    <2>1. u.delivery = e => u.number # t.number
      BY DEF AttemptNumbersUnique
    <2> QED BY <2>1, <1>0, <1>2 DEF RecordEffect, EntryIsOpen
  <1>7. VerdictIsHonest'
    BY <1>1 DEF VerdictIsHonest
  <1>8. DeliveredHasProof'
    <2>1. ASSUME NEW d \in Deliveries, row'[d].status = "delivered"
          PROVE  \E n \in Numbers : journal'[d][n] = "success"
      <3>1. CASE d = e /\ t.phase = "success"
        BY <3>1, <1>0, <1>3 DEF RecordEffect
      <3>2. CASE d # e \/ t.phase # "success"
        <4>1. row[d].status = "delivered"
          BY <2>1, <3>2, <1>0 DEF RecordEffect
        <4>2. PICK n \in Numbers : journal[d][n] = "success"
          BY <4>1 DEF DeliveredHasProof
        <4>3. journal'[d][n] = "success"
          BY <4>2, <1>0 DEF RecordEffect
        <4> QED BY <4>3
      <3> QED BY <3>1, <3>2
    <2>2. ASSUME NEW d \in Deliveries, NEW n \in Numbers, journal'[d][n] = "success"
          PROVE  n \in accepted'[d]
      <3>1. CASE journal[d][n] = "success"
        BY <3>1, <1>1 DEF DeliveredHasProof
      <3>2. CASE journal[d][n] # "success"
        <4>1. d = e /\ n = t.number /\ t.phase = "success"
          BY <2>2, <3>2, <1>0 DEF RecordEffect
        <4> QED BY <4>1, <1>1 DEF VerdictIsHonest
      <3> QED BY <3>1, <3>2
    <2> QED BY <2>1, <2>2 DEF DeliveredHasProof
  <1>9. SuccessSettles'
    <2> SUFFICES ASSUME NEW d \in Deliveries, NEW n \in CurrentBudget(d)',
                        journal'[d][n] = "success"
                 PROVE  row'[d].status = "delivered"
      BY DEF SuccessSettles
    <2>0. /\ row[d] \in Row /\ row[d].attempts \in Nat /\ row[d].total_attempts \in Nat
          /\ row[d].attempts <= row[d].total_attempts
          /\ row[d].total_attempts <= MaxTotal
      BY RowNumbers DEF TypeInv, TypeOK, QueueTypeOK, CountersOK
    <2>1. n \in CurrentBudget(d) /\ n \in Numbers
      BY <2>0, <1>0 DEF RecordEffect, CurrentBudget, Numbers
    <2>2. CASE d = e /\ t.phase = "success"
      BY <2>2, <1>0 DEF RecordEffect
    <2>3. CASE d # e \/ t.phase # "success"
      <3>1. journal[d][n] = "success"
        BY <2>1, <2>3, <1>0, <1>3 DEF RecordEffect
      <3>2. row[d].status = "delivered"
        BY <2>1, <3>1 DEF SuccessSettles
      <3> QED BY <2>3, <3>2, <1>0 DEF RecordEffect
    <2> QED BY <2>2, <2>3
  <1> QED BY <1>4, <1>5, <1>6, <1>7, <1>8, <1>9

(* A row that no task's outcome and no claim touches keeps its counter, and
   keeps its budget or starts a new, empty one, or is new; it leaves
   "delivered" only with a new budget. *)
RowsKept ==
    \A d \in Deliveries :
        /\ row'[d].total_attempts = row[d].total_attempts
        /\ \/ row'[d].attempts = row[d].attempts /\ row'[d].status = row[d].status
           \/ row'[d].attempts = 0 /\ row'[d].status = "pending"
           \/ /\ row'[d].attempts = row[d].attempts
              /\ row[d].status = "none" /\ row'[d].status = "pending"

LEMMA InsertFacts ==
  ASSUME TypeInv, NEW ds \in SUBSET Deliveries, InsertDeliveries(ds)
  PROVE  RowsKept
  BY DEF InsertDeliveries, RowsKept, TypeInv, TypeOK, QueueTypeOK, Row

LEMMA RequeueFacts ==
  ASSUME TypeInv, NEW ds \in SUBSET Deliveries, NEW include, Requeue(ds, include)
  PROVE  RowsKept
  BY DEF Requeue, RequeuedRow, RowsKept, TypeInv, TypeOK, QueueTypeOK, Row

LEMMA AgeFacts ==
  ASSUME TypeInv, AgeRows
  PROVE  RowsKept
  BY DEF AgeRows, RowsKept, TypeInv, TypeOK, QueueTypeOK, Row

(* Steps that keep the rows in this sense and no more than age the tasks. *)
LEMMA HistoryRowsKept ==
  ASSUME TypeInv, HistoryInv, RowsKept, UNCHANGED <<journal, accepted>>,
         \/ tasks' = tasks
         \/ tasks' = {[t EXCEPT !.age = @ + 1] : t \in tasks}
  PROVE  HistoryInv'
  <1> USE DEF HistoryInv
  <1>1. ASSUME NEW u \in tasks'
        PROVE  \E t \in tasks : /\ u.delivery = t.delivery /\ u.number = t.number
                                /\ u.phase = t.phase
                                /\ u = t \/ u = [t EXCEPT !.age = @ + 1]
    <2>1. CASE tasks' = tasks
      BY <2>1
    <2>2. CASE tasks' = {[t EXCEPT !.age = @ + 1] : t \in tasks}
      <3>1. PICK t \in tasks : u = [t EXCEPT !.age = @ + 1]
        BY <2>2
      <3>2. u.delivery = t.delivery /\ u.number = t.number /\ u.phase = t.phase
        BY <3>1 DEF TypeInv, TypeOK, Task
      <3> QED BY <3>1, <3>2
    <2> QED BY <2>1, <2>2
  <1>2. AttemptNumbersUnique'
    <2>1. ASSUME NEW u \in tasks' PROVE u.number <= row'[u.delivery].total_attempts
      BY <1>1, TaskTypes DEF RowsKept, AttemptNumbersUnique
    <2>2. ASSUME NEW u1 \in tasks', NEW u2 \in tasks',
                 u1.delivery = u2.delivery, u1.number = u2.number
          PROVE  u1 = u2
      <3>1. CASE tasks' = tasks
        BY <2>2, <3>1 DEF AttemptNumbersUnique
      <3>2. CASE tasks' = {[t EXCEPT !.age = @ + 1] : t \in tasks}
        <4>1. PICK t1 \in tasks, t2 \in tasks : /\ u1 = [t1 EXCEPT !.age = @ + 1]
                                                /\ u2 = [t2 EXCEPT !.age = @ + 1]
          BY <3>2
        <4>2. t1.delivery = t2.delivery /\ t1.number = t2.number
          BY <2>2, <4>1 DEF TypeInv, TypeOK, Task
        <4> QED BY <4>1, <4>2 DEF AttemptNumbersUnique
      <3> QED BY <3>1, <3>2
    <2> QED BY <2>1, <2>2 DEF AttemptNumbersUnique
  <1>3. FutureIsBlank'
    BY DEF FutureIsBlank, RowsKept
  <1>4. EntryIsOpen' /\ VerdictIsHonest'
    BY <1>1 DEF EntryIsOpen, VerdictIsHonest
  <1>5. DeliveredHasProof'
    BY DEF RowsKept, DeliveredHasProof
  <1>6. SuccessSettles'
    <2> SUFFICES ASSUME NEW d \in Deliveries, NEW n \in CurrentBudget(d)',
                        journal[d][n] = "success"
                 PROVE  row'[d].status = "delivered"
      BY DEF SuccessSettles
    <2>1. row[d].attempts \in Nat /\ row[d].total_attempts \in Nat
      BY RowNumbers DEF TypeInv, TypeOK, QueueTypeOK
    <2>2. row'[d].attempts = row[d].attempts
      BY <2>1 DEF RowsKept, CurrentBudget
    <2>3. n \in CurrentBudget(d)
      BY <2>2 DEF RowsKept, CurrentBudget
    <2>4. row[d].status = "delivered"
      BY <2>3 DEF SuccessSettles
    <2>5. row'[d].attempts # 0
      BY <2>1 DEF RowsKept, CurrentBudget
    <2> QED BY <2>4, <2>5 DEF RowsKept
  <1> QED BY <1>2, <1>3, <1>4, <1>5, <1>6

LEMMA HistoryNext == TypeInv /\ HistoryInv /\ [Next]_vars => HistoryInv'
  <1> SUFFICES ASSUME TypeInv, HistoryInv, [Next]_vars PROVE HistoryInv'
    OBVIOUS
  <1>1. ASSUME NEW w \in Workers, Start(w) PROVE HistoryInv'
    BY <1>1, HistoryTasksEnd DEF Start
  <1>2. ASSUME NEW w \in Workers, RequestStop(w) PROVE HistoryInv'
    BY <1>2, HistoryTasksEnd DEF RequestStop, queueVars
  <1>3. ASSUME NEW w \in Workers, EndDrain(w) PROVE HistoryInv'
    BY <1>3, HistoryTasksEnd DEF EndDrain, queueVars
  <1>4. ASSUME NEW w \in Workers, Kill(w) PROVE HistoryInv'
    BY <1>4, HistoryTasksEnd DEF Kill, queueVars
  <1>5. ASSUME NEW w \in Workers, NEW picked \in SUBSET Deliveries, Tick(w, picked)
        PROVE  HistoryInv'
    BY <1>5, HistoryClaim DEF Tick
  <1>6. ASSUME NEW w \in Workers, NEW picked \in SUBSET Deliveries, ClaimRaises(w, picked)
        PROVE  HistoryInv'
    <2>1. CASE ClaimBatch(w, picked, ClaimLimit(w))
      <3>1. {} \in SUBSET picked /\ tasks' = tasks \union {Spawned(w, d) : d \in {}}
        BY <1>6 DEF ClaimRaises
      <3>2. UNCHANGED accepted
        BY <1>6 DEF ClaimRaises
      <3> HIDE DEF HistoryInv
      <3> QED BY <2>1, <3>1, <3>2, HistoryClaim
    <2>2. CASE UNCHANGED queueVars
      BY <1>6, <2>2, HistoryTasksEnd DEF ClaimRaises, queueVars
    <2> QED BY <1>6, <2>1, <2>2 DEF ClaimRaises
  <1>7. ASSUME NEW t \in tasks, Take(t) PROVE HistoryInv'
    BY <1>7, HistoryTake
  <1>8. ASSUME NEW t \in tasks, NEW verdict \in {"success", "failure"}, Answer(t, verdict)
        PROVE  HistoryInv'
    BY <1>8, HistoryAnswer
  <1>9. ASSUME NEW t \in tasks, Record(t) PROVE HistoryInv'
    BY <1>9, HistoryRecord
  <1>10. ASSUME NEW t \in tasks, LoseResult(t) PROVE HistoryInv'
    BY <1>10, HistoryTasksEnd DEF LoseResult, queueVars
  <1>11. ASSUME NEW ds \in SUBSET Deliveries, Enqueue(ds) PROVE HistoryInv'
    BY <1>11, InsertFacts, HistoryRowsKept DEF Enqueue, InsertDeliveries
  <1>12. ASSUME NEW ds \in SUBSET Deliveries, NEW include \in BOOLEAN,
                RetryRequest(ds, include)
         PROVE  HistoryInv'
    BY <1>12, RequeueFacts, HistoryRowsKept DEF RetryRequest, Requeue
  <1>13. ASSUME NEW ds \in SUBSET Deliveries, NEW statuses, RetryBulk(ds, statuses)
         PROVE  HistoryInv'
    BY <1>13, RequeueFacts, HistoryRowsKept DEF RetryBulk, Requeue
  <1>14. ASSUME Elapse PROVE HistoryInv'
    BY <1>14, AgeFacts, HistoryRowsKept DEF Elapse, AgeRows
  <1>15. CASE UNCHANGED vars
    BY <1>15, HistoryTasksEnd DEF vars
  <1> QED BY <1>1, <1>2, <1>3, <1>4, <1>5, <1>6, <1>7, <1>8, <1>9, <1>10, <1>11,
             <1>12, <1>13, <1>14, <1>15 DEF Next

LEMMA History == Spec => [](TypeInv /\ HistoryInv)
  <1>1. Init => TypeInv /\ HistoryInv
    BY TypeInit, HistoryInit
  <1>2. TypeInv /\ HistoryInv /\ [Next]_vars => (TypeInv /\ HistoryInv)'
    BY TypeNext, HistoryNext
  <1> QED BY <1>1, <1>2, PTL DEF Spec

(* total_attempts numbers the attempts of a delivery uniquely for its whole
   life, across retries, crashes and overlapping workers. *)
THEOREM NumbersUnique == Spec => []AttemptNumbersUnique
  <1>1. TypeInv /\ HistoryInv => AttemptNumbersUnique
    BY DEF HistoryInv
  <1> QED BY <1>1, History, PTL

(* "delivered" is always backed by a journalled success, and a journalled
   success by a copy that the recipient took. *)
THEOREM DeliveredIsProved == Spec => []DeliveredHasProof
  <1>1. TypeInv /\ HistoryInv => DeliveredHasProof
    BY DEF HistoryInv
  <1> QED BY <1>1, History, PTL

(* A success journalled under the current budget ends the sending, although
   _MARK_DELIVERED ignores leases and failures may come late. *)
THEOREM SuccessIsFinal == Spec => []SuccessSettles
  <1>1. TypeInv /\ HistoryInv => SuccessSettles
    BY DEF HistoryInv
  <1> QED BY <1>1, History, PTL

----------------------------------------------------------------------------
(* A live lease, in any step. *)

(* What the property LiveLeaseIsExclusive asks of one step and one row. *)
LeaseKept(d) ==
    row[d].status = "in_flight" /\ row[d].lease_in > 0 =>
       \/ row'[d].status = "delivered"
       \/ /\ row'[d].status = "in_flight"
          /\ row'[d].locked_by = row[d].locked_by
          /\ row'[d].total_attempts = row[d].total_attempts
       \/ \E t \in tasks : /\ t.delivery = d
                           /\ t.worker = row[d].locked_by
                           /\ t.phase = "failure"
                           /\ Ends(t)

LEMMA LeaseKeptNext ==
  ASSUME TypeInv, HistoryInv, [Next]_vars, NEW d \in Deliveries
  PROVE  LeaseKept(d)
  <1> USE DEF LeaseKept
  <1>0. row[d] \in Row /\ row[d].lease_in \in Nat
    BY RowNumbers DEF TypeInv, TypeOK, QueueTypeOK
  <1>a. ASSUME row' = row PROVE LeaseKept(d)
    BY <1>a
  <1>1. ASSUME NEW w \in Workers, Start(w) PROVE LeaseKept(d)
    BY <1>1, <1>a DEF Start
  <1>2. ASSUME NEW w \in Workers, RequestStop(w) PROVE LeaseKept(d)
    BY <1>2, <1>a DEF RequestStop, queueVars
  <1>3. ASSUME NEW w \in Workers, EndDrain(w) PROVE LeaseKept(d)
    BY <1>3, <1>a DEF EndDrain, queueVars
  <1>4. ASSUME NEW w \in Workers, Kill(w) PROVE LeaseKept(d)
    BY <1>4, <1>a DEF Kill, queueVars
  <1>5. ASSUME NEW w \in Workers, NEW picked \in SUBSET Deliveries, NEW limit,
               ClaimBatch(w, picked, limit)
        PROVE  LeaseKept(d)
    <2>1. ClaimEffect(w, picked)
      BY <1>5, ClaimFacts
    <2> QED BY <2>1 DEF ClaimEffect
  <1>6. ASSUME NEW w \in Workers, NEW picked \in SUBSET Deliveries,
               Tick(w, picked) \/ ClaimRaises(w, picked)
        PROVE  LeaseKept(d)
    BY <1>6, <1>5, <1>a DEF Tick, ClaimRaises, queueVars
  <1>7. ASSUME NEW t \in tasks,
               Take(t) \/ LoseResult(t) \/ (\E verdict \in {"success", "failure"} : Answer(t, verdict))
        PROVE  LeaseKept(d)
    BY <1>7, <1>a DEF Take, LoseResult, Answer, queueVars
  <1>8. ASSUME NEW t \in tasks, Record(t) PROVE LeaseKept(d)
    <2>1. RecordEffect(t)
      BY <1>8, RecordFacts DEF Record
    <2>2. t.phase \in {"success", "failure"}
      BY <1>8, TaskTypes DEF Record
    <2>3. Ends(t)
      <3>1. tasks' = tasks \ {t} /\ AttemptNumbersUnique
        BY <1>8 DEF Record, HistoryInv
      <3> QED BY <3>1 DEF AttemptNumbersUnique, Ends
    <2> QED BY <2>1, <2>2, <2>3 DEF RecordEffect
  <1>9. ASSUME NEW ds \in SUBSET Deliveries, InsertDeliveries(ds) PROVE LeaseKept(d)
    BY <1>9 DEF InsertDeliveries
  <1>10. ASSUME NEW ds \in SUBSET Deliveries, NEW include, Requeue(ds, include)
         PROVE  LeaseKept(d)
    BY <1>10 DEF Requeue, Requeueable
  <1>11. ASSUME Elapse PROVE LeaseKept(d)
    BY <1>11, <1>0 DEF Elapse, AgeRows, Row
  <1>12. CASE UNCHANGED vars
    BY <1>12, <1>a DEF vars
  <1> QED BY <1>1, <1>2, <1>3, <1>4, <1>6, <1>7, <1>8, <1>9, <1>10, <1>11, <1>12
             DEF Next, Enqueue, RetryRequest, RetryBulk

(* While a lease is live, only a success or its holder's recorded failure
   moves the row: claim, manual retry and foreign failures leave it alone. *)
THEOREM LeaseProtects == Spec => LiveLeaseIsExclusive
  <1>1. TypeInv /\ HistoryInv /\ [Next]_vars =>
          [\A d \in Deliveries :
              row[d].status = "in_flight" /\ row[d].lease_in > 0 =>
                 \/ row'[d].status = "delivered"
                 \/ /\ row'[d].status = "in_flight"
                    /\ row'[d].locked_by = row[d].locked_by
                    /\ row'[d].total_attempts = row[d].total_attempts
                 \/ \E t \in tasks : /\ t.delivery = d
                                     /\ t.worker = row[d].locked_by
                                     /\ t.phase = "failure"
                                     /\ Ends(t)]_vars
    BY LeaseKeptNext DEF LeaseKept
  <1> QED BY <1>1, History, PTL DEF Spec, LiveLeaseIsExclusive

----------------------------------------------------------------------------
(* When attempts fit in their leases. *)

(* validate_invariants asks for lease_seconds > attempt_deadline_seconds; what
   exclusion needs is that the stalls fit as well. *)
PromptAttempts == AttemptDeadline + Stall < LeaseTime

(* The row of a task that is alive is still the row its claim left behind. *)
HoldsLease(t) ==
    /\ row[t.delivery].status = "in_flight"
    /\ row[t.delivery].locked_by = t.worker
    /\ row[t.delivery].total_attempts = t.number
    /\ row[t.delivery].attempts = t.budget
    /\ row[t.delivery].lease_in + t.age = LeaseTime

LeaseInv == \A t \in tasks : HoldsLease(t)

LEMMA LeaseIsLive ==
  ASSUME PromptAttempts, TypeInv, LeaseInv, NEW t \in tasks
  PROVE  row[t.delivery].status = "in_flight" /\ row[t.delivery].lease_in > 0
  <1>1. HoldsLease(t)
    BY DEF LeaseInv
  <1>2. t.age \in Nat /\ t.age <= AttemptDeadline + Stall /\ row[t.delivery] \in Row
    BY TaskTypes
  <1>3. row[t.delivery].lease_in \in Nat
    BY <1>2, RowNumbers
  <1> QED BY <1>1, <1>2, <1>3, Constants DEF PromptAttempts, HoldsLease

LEMMA LeaseImpliesExclusion ==
  ASSUME HistoryInv, LeaseInv
  PROVE  NoConcurrentSend
  BY DEF HistoryInv, AttemptNumbersUnique, LeaseInv, HoldsLease, NoConcurrentSend

(* A step that changes no row a task of the next state is about, and changes
   no worker, number, budget or age of a task. *)
LEMMA LeaseUndisturbed ==
  ASSUME LeaseInv,
         \A u \in tasks' : /\ row'[u.delivery] = row[u.delivery]
                           /\ \E t \in tasks :
                                 /\ u.worker = t.worker /\ u.delivery = t.delivery
                                 /\ u.number = t.number /\ u.budget = t.budget
                                 /\ u.age = t.age
  PROVE  LeaseInv'
  BY DEF LeaseInv, HoldsLease

LEMMA LeaseClaim ==
  ASSUME PromptAttempts, TypeInv, LeaseInv, NEW w \in Workers,
         NEW picked \in SUBSET Deliveries, NEW limit, ClaimBatch(w, picked, limit),
         NEW spawned \in SUBSET picked,
         tasks' = tasks \union {Spawned(w, d) : d \in spawned}
  PROVE  LeaseInv'
  <1>1. ClaimEffect(w, picked)
    BY ClaimFacts
  <1>2. ASSUME NEW t \in tasks PROVE HoldsLease(t)'
    <2>1. t.delivery \in Deliveries /\ t.delivery \notin picked
      BY <1>1, LeaseIsLive, TaskTypes DEF ClaimEffect
    <2> QED BY <1>1, <2>1 DEF ClaimEffect, LeaseInv, HoldsLease
  <1>3. ASSUME NEW u \in tasks', u \notin tasks PROVE HoldsLease(u)'
    <2>1. PICK d \in spawned : u = Spawned(w, d)
      BY <1>3
    <2>2. /\ u.worker = w /\ u.delivery = d /\ u.age = 0
          /\ u.number = row[d].total_attempts + 1 /\ u.budget = row[d].attempts + 1
      BY <2>1 DEF Spawned
    <2>3. /\ row'[d].status = "in_flight" /\ row'[d].locked_by = w
          /\ row'[d].total_attempts = row[d].total_attempts + 1
          /\ row'[d].attempts = row[d].attempts + 1
          /\ row'[d].lease_in = LeaseTime
      BY <1>1 DEF ClaimEffect
    <2> QED BY <2>2, <2>3, Constants DEF HoldsLease
  <1> QED BY <1>2, <1>3 DEF LeaseInv

LEMMA LeaseNext ==
  ASSUME PromptAttempts, TypeInv, HistoryInv, LeaseInv, [Next]_vars
  PROVE  LeaseInv'
  <1>0. \A t \in tasks : /\ t.delivery \in Deliveries
                         /\ row[t.delivery].status = "in_flight"
                         /\ row[t.delivery].lease_in > 0
    BY LeaseIsLive, TaskTypes
  <1>a. ASSUME row' = row, tasks' \subseteq tasks PROVE LeaseInv'
    BY <1>a, LeaseUndisturbed
  <1>1. ASSUME NEW w \in Workers,
               Start(w) \/ RequestStop(w) \/ EndDrain(w) \/ Kill(w)
        PROVE  LeaseInv'
    BY <1>1, <1>a DEF Start, RequestStop, EndDrain, Kill, queueVars
  <1>2. ASSUME NEW w \in Workers, NEW picked \in SUBSET Deliveries, Tick(w, picked)
        PROVE  LeaseInv'
    BY <1>2, LeaseClaim DEF Tick
  <1>3. ASSUME NEW w \in Workers, NEW picked \in SUBSET Deliveries, ClaimRaises(w, picked)
        PROVE  LeaseInv'
    <2>1. CASE ClaimBatch(w, picked, ClaimLimit(w))
      <3>1. {} \in SUBSET picked /\ tasks' = tasks \union {Spawned(w, d) : d \in {}}
        BY <1>3 DEF ClaimRaises
      <3> QED BY <2>1, <3>1, LeaseClaim
    <2>2. CASE UNCHANGED queueVars
      BY <1>3, <2>2, <1>a DEF ClaimRaises, queueVars
    <2> QED BY <1>3, <2>1, <2>2 DEF ClaimRaises
  <1>4. ASSUME NEW t \in tasks, Take(t) \/ LoseResult(t) PROVE LeaseInv'
    BY <1>4, <1>a DEF Take, LoseResult, queueVars
  <1>5. ASSUME NEW t \in tasks, NEW verdict \in {"success", "failure"}, Answer(t, verdict)
        PROVE  LeaseInv'
    <2> DEFINE v == [t EXCEPT !.phase = verdict]
    <2>1. /\ v.worker = t.worker /\ v.delivery = t.delivery /\ v.number = t.number
          /\ v.budget = t.budget /\ v.age = t.age
      BY DEF TypeInv, TypeOK, Task
    <2>2. row' = row /\ tasks' = (tasks \ {t}) \union {v}
      BY <1>5 DEF Answer, queueVars
    <2> HIDE DEF v
    <2> QED BY <2>1, <2>2, LeaseUndisturbed
  <1>6. ASSUME NEW t \in tasks, Record(t) PROVE LeaseInv'
    <2>1. RecordEffect(t) /\ tasks' = tasks \ {t}
      BY <1>6, RecordFacts DEF Record
    <2>2. \A u \in tasks' : u.delivery # t.delivery
      BY <2>1, LeaseImpliesExclusion DEF NoConcurrentSend
    <2> QED BY <2>1, <2>2, <1>0, LeaseUndisturbed DEF RecordEffect
  <1>7. ASSUME NEW ds \in SUBSET Deliveries, Enqueue(ds) PROVE LeaseInv'
    BY <1>7, <1>0, LeaseUndisturbed DEF Enqueue, InsertDeliveries
  <1>8. ASSUME NEW ds \in SUBSET Deliveries, NEW include, Requeue(ds, include), tasks' = tasks
        PROVE  LeaseInv'
    <2>1. \A u \in tasks' : row'[u.delivery] = row[u.delivery]
      BY <1>8, <1>0 DEF Requeue, Requeueable
    <2> QED BY <1>8, <2>1, LeaseUndisturbed
  <1>9. ASSUME Elapse PROVE LeaseInv'
    <2> SUFFICES ASSUME NEW u \in tasks' PROVE HoldsLease(u)'
      BY DEF LeaseInv
    <2>1. PICK t \in tasks : u = [t EXCEPT !.age = @ + 1]
      BY <1>9 DEF Elapse
    <2>2. /\ u.worker = t.worker /\ u.delivery = t.delivery /\ u.number = t.number
          /\ u.budget = t.budget /\ u.age = t.age + 1
      BY <2>1 DEF TypeInv, TypeOK, Task
    <2> DEFINE r == row[t.delivery]
               s == row'[t.delivery]
    <2>3. r \in Row /\ t.delivery \in Deliveries /\ t.age \in Nat
      BY TaskTypes
    <2>4. s = [r EXCEPT !.next_in = Sooner(@), !.lease_in = Sooner(@)]
      BY <1>9, <2>3 DEF Elapse, AgeRows
    <2>5. /\ s.status = r.status /\ s.locked_by = r.locked_by
          /\ s.total_attempts = r.total_attempts /\ s.attempts = r.attempts
          /\ s.lease_in = Sooner(r.lease_in)
      BY <2>3, <2>4 DEF Row
    <2>6. r.lease_in \in Nat /\ Sooner(r.lease_in) = r.lease_in - 1
      BY <1>0, <2>3, RowNumbers DEF Sooner
    <2>7. HoldsLease(t)
      BY DEF LeaseInv
    <2> QED BY <2>2, <2>3, <2>5, <2>6, <2>7 DEF HoldsLease
  <1>10. CASE UNCHANGED vars
    BY <1>10, <1>a DEF vars
  <1> QED BY <1>1, <1>2, <1>3, <1>4, <1>5, <1>6, <1>7, <1>8, <1>9, <1>10
             DEF Next, RetryRequest, RetryBulk

LEMMA Lease ==
  ASSUME PromptAttempts
  PROVE  Spec => [](TypeInv /\ HistoryInv /\ LeaseInv)
  <1>1. Init => TypeInv /\ HistoryInv /\ LeaseInv
    BY TypeInit, HistoryInit DEF Init, LeaseInv
  <1>2. TypeInv /\ HistoryInv /\ LeaseInv /\ [Next]_vars => (TypeInv /\ HistoryInv /\ LeaseInv)'
    BY TypeNext, HistoryNext, LeaseNext
  <1> QED BY <1>1, <1>2, PTL DEF Spec

(* At most one attempt per delivery is alive, for any number of workers,
   crashes, retries and settings in which attempts fit in their leases. *)
THEOREM OneAttemptAtATime ==
  ASSUME PromptAttempts
  PROVE  Spec => []NoConcurrentSend
  <1>1. TypeInv /\ HistoryInv /\ LeaseInv => NoConcurrentSend
    BY LeaseImpliesExclusion
  <1> QED BY <1>1, Lease, PTL

----------------------------------------------------------------------------
(* The budget and the completeness of the journal, for settings in which
   every attempt fits in its lease. *)

USE Constants

(* BudgetJournalled and BudgetHonoured for one delivery, made inductive by
   what each status says of the counters: a new row has used nothing, a
   pending row has budget left, and an attempt in flight is not journalled. *)
BudgetOK(d) ==
    /\ row[d].status = "none" => row[d].attempts = 0
    /\ row[d].status = "pending" => row[d].attempts < RetryMaxAttempts
    /\ row[d].status = "in_flight" =>
          row[d].attempts >= 1 /\ journal[d][row[d].total_attempts] = "none"
    /\ \A n \in CurrentBudget(d) :
          journal[d][n] = "none" => n = row[d].total_attempts /\ row[d].status = "in_flight"
    /\ row[d].status = "failed" =>
          /\ row[d].attempts >= RetryMaxAttempts
          /\ journal[d][row[d].total_attempts] = "failure"
    /\ \A n \in CurrentBudget(d) :
          /\ n < row[d].total_attempts
          /\ n >= row[d].total_attempts - row[d].attempts + RetryMaxAttempts
          => journal[d][n] = "unknown"

BudgetInv == \A d \in Deliveries : BudgetOK(d)

LEMMA BudgetInit == Init => BudgetInv
  BY DEF Init, QueueInit, NoRow, BudgetInv, BudgetOK, CurrentBudget

(* A row and its journal entries that a step leaves alone. *)
LEMMA BudgetUntouched ==
  ASSUME NEW d \in Deliveries, BudgetOK(d), UNCHANGED journal[d],
         row'[d].status = row[d].status, row'[d].attempts = row[d].attempts,
         row'[d].total_attempts = row[d].total_attempts
  PROVE  BudgetOK(d)'
  BY DEF BudgetOK, CurrentBudget

LEMMA CounterTypes ==
  ASSUME TypeInv
  PROVE  \A d \in Deliveries : /\ row[d] \in Row
                               /\ row[d].attempts \in Nat
                               /\ row[d].total_attempts \in Nat
                               /\ row[d].total_attempts <= MaxTotal
                               /\ row[d].attempts <= row[d].total_attempts
  BY RowNumbers DEF TypeInv, TypeOK, QueueTypeOK, CountersOK

LEMMA BudgetClaim ==
  ASSUME TypeInv, HistoryInv, BudgetInv, NEW w \in Workers,
         NEW picked \in SUBSET Deliveries, NEW limit, ClaimBatch(w, picked, limit),
         NEW d \in Deliveries
  PROVE  BudgetOK(d)'
  <1> DEFINE a == row[d].attempts
             t == row[d].total_attempts
  <1>1. ClaimEffect(w, picked)
    BY ClaimFacts
  <1>2. a \in Nat /\ t \in Nat /\ t <= MaxTotal /\ a <= t
    BY CounterTypes
  <1>3. BudgetOK(d)
    BY DEF BudgetInv
  <1>4. CASE d \in picked
    <2>1. /\ row'[d].status = "in_flight" /\ row'[d].attempts = a + 1
          /\ row'[d].total_attempts = t + 1 /\ t < MaxTotal
          /\ row[d].status \in {"pending", "in_flight"}
      BY <1>1, <1>4 DEF ClaimEffect
    <2>2. journal'[d][t + 1] = "none"
      <3>1. t + 1 \in Numbers /\ t + 1 > t
        BY <1>2, <2>1 DEF Numbers
      <3>2. journal[d][t + 1] = "none"
        BY <3>1 DEF HistoryInv, FutureIsBlank
      <3> QED BY <1>1, <1>2, <3>1, <3>2 DEF ClaimEffect
    <2>3. ASSUME NEW n \in CurrentBudget(d)'
          PROVE  n = t + 1 \/ (n \in CurrentBudget(d) /\ n \in Numbers /\ n <= t)
      BY <1>2, <2>1 DEF CurrentBudget, Numbers
    <2>4. ASSUME NEW n \in CurrentBudget(d), n \in Numbers
          PROVE  /\ journal'[d][n] # "none"
                 /\ row[d].status = "in_flight" /\ n = t => journal'[d][n] = "unknown"
                 /\ n # t => journal'[d][n] = journal[d][n]
      <3>1. CASE row[d].status = "in_flight" /\ n = t
        <4>1. journal[d][n] = "none"
          BY <1>3, <3>1 DEF BudgetOK
        <4> QED BY <1>1, <1>4, <2>4, <3>1, <4>1 DEF ClaimEffect
      <3>2. CASE ~(row[d].status = "in_flight" /\ n = t)
        <4>1. journal[d][n] # "none"
          BY <1>3, <3>2 DEF BudgetOK
        <4> QED BY <1>1, <2>4, <3>2, <4>1 DEF ClaimEffect
      <3> QED BY <3>1, <3>2
    <2>5. ASSUME NEW n \in CurrentBudget(d)', journal'[d][n] = "none"
          PROVE  n = t + 1
      BY <2>3, <2>4, <2>5
    <2>6. ASSUME NEW n \in CurrentBudget(d)', n < t + 1,
                 n >= (t + 1) - (a + 1) + RetryMaxAttempts
          PROVE  journal'[d][n] = "unknown"
      <3>1. n \in CurrentBudget(d) /\ n \in Numbers /\ n \in Nat /\ n <= t
        BY <1>2, <2>3, <2>6 DEF Numbers
      <3>2. n >= t - a + RetryMaxAttempts
        BY <1>2, <2>6, <3>1
      <3>3. CASE n = t
        <4>1. a >= RetryMaxAttempts
          BY <1>2, <3>2, <3>3
        <4>2. row[d].status = "in_flight"
          BY <1>2, <1>3, <2>1, <4>1 DEF BudgetOK
        <4> QED BY <2>4, <3>1, <3>3, <4>2
      <3>4. CASE n # t
        <4>1. n < t
          BY <1>2, <3>1, <3>4
        <4>2. journal[d][n] = "unknown"
          BY <1>3, <3>1, <3>2, <4>1 DEF BudgetOK
        <4> QED BY <2>4, <3>1, <3>4, <4>2
      <3> QED BY <3>3, <3>4
    <2> QED BY <1>2, <2>1, <2>2, <2>5, <2>6 DEF BudgetOK
  <1>5. CASE d \notin picked
    <2>1. row'[d] = row[d]
      BY <1>1, <1>5 DEF ClaimEffect
    <2>2. journal'[d] = journal[d]
      BY <1>5 DEF ClaimBatch, RecordLostAttempts, Reclaimed, TypeInv, TypeOK, QueueTypeOK
    <2> QED BY <1>3, <2>1, <2>2, BudgetUntouched
  <1> QED BY <1>4, <1>5

LEMMA BudgetRecord ==
  ASSUME TypeInv, LeaseInv, BudgetInv, NEW t \in tasks, Record(t), NEW d \in Deliveries
  PROVE  BudgetOK(d)'
  <1>1. RecordEffect(t) /\ t.phase \in {"success", "failure"}
    BY RecordFacts, TaskTypes DEF Record
  <1>2. BudgetOK(d)
    BY DEF BudgetInv
  <1>3. CASE d # t.delivery
    BY <1>1, <1>2, <1>3, BudgetUntouched DEF RecordEffect
  <1>4. CASE d = t.delivery
    <2>1. /\ row[d].status = "in_flight" /\ row[d].locked_by = t.worker
          /\ row[d].total_attempts = t.number /\ row[d].attempts = t.budget
      BY <1>4 DEF LeaseInv, HoldsLease
    <2>2. /\ row[d].attempts \in Nat /\ row[d].total_attempts \in Nat
          /\ row[d].attempts <= row[d].total_attempts
          /\ row[d].total_attempts <= MaxTotal
      BY CounterTypes
    <2>3. t.number \in Numbers /\ journal[d][t.number] = "none"
      BY <1>2, <2>1, TaskTypes DEF BudgetOK
    <2>4. journal'[d][t.number] = t.phase
      BY <1>1, <1>4, <2>3 DEF RecordEffect
    <2>5. \A n \in Numbers : n # t.number => journal'[d][n] = journal[d][n]
      BY <1>1, <1>4 DEF RecordEffect
    <2>6. /\ row'[d].attempts = row[d].attempts
          /\ row'[d].total_attempts = row[d].total_attempts
      BY <1>1 DEF RecordEffect
    <2>7. IF t.phase = "success" THEN row'[d].status = "delivered"
          ELSE row'[d].status = IF IsExhausted(row[d].attempts) THEN "failed" ELSE "pending"
      BY <1>1, <1>4, <2>1 DEF RecordEffect
    <2>8. \A n \in CurrentBudget(d)' : n \in CurrentBudget(d) /\ n \in Numbers
      BY <2>2, <2>6 DEF CurrentBudget, Numbers
    <2>9. \A n \in CurrentBudget(d)' : journal'[d][n] # "none"
      BY <1>1, <1>2, <2>1, <2>4, <2>5, <2>8 DEF BudgetOK
    <2>10. \A n \in CurrentBudget(d)' :
              /\ n < row[d].total_attempts
              /\ n >= row[d].total_attempts - row[d].attempts + RetryMaxAttempts
              => journal'[d][n] = "unknown"
      BY <1>2, <2>1, <2>2, <2>5, <2>8 DEF BudgetOK, Numbers
    <2> QED BY <1>1, <2>1, <2>2, <2>4, <2>6, <2>7, <2>9, <2>10 DEF BudgetOK, IsExhausted
  <1> QED BY <1>3, <1>4

LEMMA BudgetRequeue ==
  ASSUME TypeInv, BudgetInv, NEW ds \in SUBSET Deliveries, NEW include,
         Requeue(ds, include), NEW d \in Deliveries
  PROVE  BudgetOK(d)'
  <1>1. BudgetOK(d) /\ journal' = journal
    BY DEF BudgetInv, Requeue
  <1>2. CASE row'[d] = row[d]
    BY <1>1, <1>2, BudgetUntouched
  <1>3. CASE row'[d] = RequeuedRow(row[d])
    <2>1. /\ row'[d].status = "pending" /\ row'[d].attempts = 0
          /\ row'[d].total_attempts = row[d].total_attempts
      BY <1>3, CounterTypes DEF RequeuedRow, Row
    <2>2. CurrentBudget(d)' = {}
      BY <2>1, CounterTypes DEF CurrentBudget
    <2> QED BY <2>1, <2>2 DEF BudgetOK
  <1> QED BY <1>2, <1>3 DEF Requeue

LEMMA BudgetInsert ==
  ASSUME TypeInv, BudgetInv, NEW ds \in SUBSET Deliveries, InsertDeliveries(ds),
         NEW d \in Deliveries
  PROVE  BudgetOK(d)'
  <1>1. BudgetOK(d) /\ journal' = journal
    BY DEF BudgetInv, InsertDeliveries
  <1>2. CASE row'[d] = row[d]
    BY <1>1, <1>2, BudgetUntouched
  <1>3. CASE row[d].status = "none" /\ row'[d] = [row[d] EXCEPT !.status = "pending"]
    <2>1. /\ row'[d].status = "pending" /\ row'[d].attempts = 0
          /\ row'[d].total_attempts = row[d].total_attempts
      BY <1>1, <1>3, CounterTypes DEF BudgetOK, Row
    <2>2. CurrentBudget(d)' = {}
      BY <2>1, CounterTypes DEF CurrentBudget
    <2> QED BY <2>1, <2>2 DEF BudgetOK
  <1> QED BY <1>2, <1>3 DEF InsertDeliveries

LEMMA BudgetAge ==
  ASSUME TypeInv, BudgetInv, AgeRows, NEW d \in Deliveries
  PROVE  BudgetOK(d)'
  <1>1. BudgetOK(d) /\ journal' = journal
    BY DEF BudgetInv, AgeRows
  <1>2. /\ row'[d].status = row[d].status /\ row'[d].attempts = row[d].attempts
        /\ row'[d].total_attempts = row[d].total_attempts
    BY CounterTypes DEF AgeRows, Row
  <1> QED BY <1>1, <1>2, BudgetUntouched

LEMMA BudgetNext ==
  ASSUME TypeInv, HistoryInv, LeaseInv, BudgetInv, [Next]_vars
  PROVE  BudgetInv'
  <1> SUFFICES ASSUME NEW d \in Deliveries PROVE BudgetOK(d)'
    BY DEF BudgetInv
  <1>0. ASSUME UNCHANGED <<row, journal>> PROVE BudgetOK(d)'
    BY <1>0, BudgetUntouched DEF BudgetInv
  <1>1. ASSUME NEW w \in Workers,
               Start(w) \/ RequestStop(w) \/ EndDrain(w) \/ Kill(w)
        PROVE  BudgetOK(d)'
    BY <1>1, <1>0 DEF Start, RequestStop, EndDrain, Kill, queueVars
  <1>2. ASSUME NEW w \in Workers, NEW picked \in SUBSET Deliveries,
               Tick(w, picked) \/ ClaimRaises(w, picked)
        PROVE  BudgetOK(d)'
    BY <1>2, <1>0, BudgetClaim DEF Tick, ClaimRaises, queueVars
  <1>3. ASSUME NEW t \in tasks,
               Take(t) \/ LoseResult(t) \/ (\E verdict \in {"success", "failure"} : Answer(t, verdict))
        PROVE  BudgetOK(d)'
    BY <1>3, <1>0 DEF Take, LoseResult, Answer, queueVars
  <1>4. ASSUME NEW t \in tasks, Record(t) PROVE BudgetOK(d)'
    BY <1>4, BudgetRecord
  <1>5. ASSUME NEW ds \in SUBSET Deliveries, Enqueue(ds) PROVE BudgetOK(d)'
    BY <1>5, BudgetInsert DEF Enqueue
  <1>6. ASSUME NEW ds \in SUBSET Deliveries, NEW include, Requeue(ds, include)
        PROVE  BudgetOK(d)'
    BY <1>6, BudgetRequeue
  <1>7. ASSUME Elapse PROVE BudgetOK(d)'
    BY <1>7, BudgetAge DEF Elapse
  <1>8. CASE UNCHANGED vars
    BY <1>8, <1>0 DEF vars
  <1> QED BY <1>1, <1>2, <1>3, <1>4, <1>5, <1>6, <1>7, <1>8
             DEF Next, RetryRequest, RetryBulk

LEMMA Budget ==
  ASSUME PromptAttempts
  PROVE  Spec => []BudgetInv
  <1>1. TypeInv /\ HistoryInv /\ LeaseInv /\ BudgetInv /\ [Next]_vars => BudgetInv'
    BY BudgetNext
  <1> QED BY <1>1, BudgetInit, Lease, PTL DEF Spec

(* Within a budget the journal has no gap: a lost attempt is entered before
   the next one starts, by the claim that takes the row over. *)
THEOREM JournalComplete ==
  ASSUME PromptAttempts
  PROVE  Spec => []BudgetJournalled
  <1>1. BudgetInv => BudgetJournalled
    BY DEF BudgetInv, BudgetOK, BudgetJournalled
  <1> QED BY <1>1, Budget, PTL

(* A delivery fails only with its budget spent, by a recorded failure, and an
   attempt past the budget follows an attempt that got lost. *)
THEOREM FailedMeansExhausted ==
  ASSUME PromptAttempts
  PROVE  Spec => []BudgetHonoured
  <1>1. BudgetInv => BudgetHonoured
    BY DEF BudgetInv, BudgetOK, BudgetHonoured
  <1> QED BY <1>1, Budget, PTL

----------------------------------------------------------------------------
(* The gaps of the journal over all budgets. *)

GapInv == \A d \in Deliveries : IsFiniteSet(Gaps(d)) /\ Cardinality(Gaps(d)) <= retries

LEMMA GapsAreFinite ==
  ASSUME TypeInv, NEW d \in Deliveries
  PROVE  IsFiniteSet(Gaps(d))
  <1>1. IsFiniteSet(1..row[d].total_attempts)
    BY CounterTypes, FS_Interval
  <1>2. Gaps(d) \subseteq 1..row[d].total_attempts
    BY DEF Gaps
  <1> QED BY <1>1, <1>2, FS_Subset

(* A step that opens no gap keeps the count. *)
LEMMA NoNewGap ==
  ASSUME GapInv, NEW d \in Deliveries, Gaps(d)' \subseteq Gaps(d), retries' = retries,
         retries \in Nat
  PROVE  IsFiniteSet(Gaps(d)') /\ Cardinality(Gaps(d)') <= retries'
  <1>1. IsFiniteSet(Gaps(d)) /\ Cardinality(Gaps(d)) <= retries
    BY DEF GapInv
  <1>2. IsFiniteSet(Gaps(d)') /\ Cardinality(Gaps(d)') <= Cardinality(Gaps(d))
    BY <1>1, FS_Subset
  <1>3. Cardinality(Gaps(d)) \in Nat /\ Cardinality(Gaps(d)') \in Nat
    BY <1>1, <1>2, FS_CardinalityType
  <1> QED BY <1>1, <1>2, <1>3

(* The claim that takes a row over enters the attempt that got lost. *)
LEMMA GapsClaim ==
  ASSUME TypeInv, BudgetInv, NEW w \in Workers, NEW picked \in SUBSET Deliveries,
         NEW limit, ClaimBatch(w, picked, limit), NEW d \in Deliveries
  PROVE  Gaps(d)' \subseteq Gaps(d)
  <1> DEFINE t == row[d].total_attempts
  <1>1. ClaimEffect(w, picked)
    BY ClaimFacts
  <1>2. t \in Nat /\ t <= MaxTotal
    BY CounterTypes
  <1>3. CASE d \in picked
    <2>1. row'[d].status = "in_flight" /\ row'[d].total_attempts = t + 1
      BY <1>1, <1>3 DEF ClaimEffect
    <2> SUFFICES ASSUME NEW n \in Gaps(d)' PROVE n \in Gaps(d)
      OBVIOUS
    <2>2. n \in 1..t /\ n \in Numbers /\ journal'[d][n] = "none"
      BY <1>2, <2>1 DEF Gaps, Numbers
    <2>3. CASE row[d].status = "in_flight" /\ n = t
      <3>1. journal[d][n] = "none"
        BY <2>3 DEF BudgetInv, BudgetOK
      <3> QED BY <1>1, <1>3, <2>2, <2>3, <3>1 DEF ClaimEffect
    <2>4. CASE ~(row[d].status = "in_flight" /\ n = t)
      <3>1. journal[d][n] = "none"
        BY <1>1, <2>2, <2>4 DEF ClaimEffect
      <3> QED BY <2>2, <2>4, <3>1 DEF Gaps
    <2> QED BY <2>3, <2>4
  <1>4. CASE d \notin picked
    <2>1. row'[d] = row[d]
      BY <1>1, <1>4 DEF ClaimEffect
    <2>2. journal'[d] = journal[d]
      BY <1>4 DEF ClaimBatch, RecordLostAttempts, Reclaimed, TypeInv, TypeOK, QueueTypeOK
    <2> QED BY <2>1, <2>2 DEF Gaps
  <1> QED BY <1>3, <1>4

(* With prompt attempts the row is still in the attempt that is recorded. *)
LEMMA GapsRecord ==
  ASSUME TypeInv, LeaseInv, BudgetInv, NEW t \in tasks, Record(t), NEW d \in Deliveries
  PROVE  Gaps(d)' \subseteq Gaps(d)
  <1>1. RecordEffect(t) /\ t.phase \in {"success", "failure"}
    BY RecordFacts, TaskTypes DEF Record
  <1>2. row'[d].total_attempts = row[d].total_attempts
    BY <1>1 DEF RecordEffect
  <1>3. row[d].total_attempts \in Nat /\ row[d].total_attempts <= MaxTotal
    BY CounterTypes
  <1>4. CASE d # t.delivery
    BY <1>1, <1>4 DEF RecordEffect, Gaps
  <1>5. CASE d = t.delivery
    <2>1. row[d].status = "in_flight" /\ row[d].total_attempts = t.number
      BY <1>5 DEF LeaseInv, HoldsLease
    <2>2. t.number \in Numbers /\ journal[d][t.number] = "none"
      BY <2>1, TaskTypes DEF BudgetInv, BudgetOK
    <2>3. journal'[d][t.number] = t.phase
      BY <1>1, <1>5, <2>2 DEF RecordEffect
    <2>4. \A n \in Numbers : n # t.number => journal'[d][n] = journal[d][n]
      BY <1>1, <1>5 DEF RecordEffect
    <2> SUFFICES ASSUME NEW n \in Gaps(d)' PROVE n \in Gaps(d)
      OBVIOUS
    <2>5. n \in 1..row[d].total_attempts /\ n \in Numbers /\ journal'[d][n] = "none"
      BY <1>2, <1>3 DEF Gaps, Numbers
    <2>6. n # t.number
      BY <1>1, <2>3, <2>5
    <2> QED BY <2>1, <2>4, <2>5, <2>6 DEF Gaps
  <1> QED BY <1>4, <1>5

(* A manual retry takes the row out of an attempt that may have been lost. *)
LEMMA GapsRequeue ==
  ASSUME TypeInv, GapInv, NEW ds \in SUBSET Deliveries, NEW include, Requeue(ds, include),
         Retry, NEW d \in Deliveries
  PROVE  IsFiniteSet(Gaps(d)') /\ Cardinality(Gaps(d)') <= retries'
  <1> DEFINE old == Gaps(d)
             t == row[d].total_attempts
  <1>1. IsFiniteSet(old) /\ Cardinality(old) <= retries
    BY DEF GapInv
  <1>2. retries \in Nat /\ retries' = retries + 1
    BY BoundsAssumption DEF Retry, TypeInv, TypeOK, BoundsAssumption
  <1>3. /\ journal' = journal
        /\ row'[d].total_attempts = t
    BY CounterTypes DEF Requeue, RequeuedRow, Row
  <1>4. Gaps(d)' \subseteq old \union {t}
    BY <1>3 DEF Gaps
  <1> HIDE DEF old, t
  <1>5. /\ IsFiniteSet(old \union {t})
        /\ Cardinality(old \union {t}) = Cardinality(old) \/ Cardinality(old \union {t}) = Cardinality(old) + 1
    BY <1>1, FS_AddElement
  <1>6. IsFiniteSet(Gaps(d)') /\ Cardinality(Gaps(d)') <= Cardinality(old \union {t})
    BY <1>4, <1>5, FS_Subset
  <1>7. /\ Cardinality(old) \in Nat /\ Cardinality(old \union {t}) \in Nat
        /\ Cardinality(Gaps(d)') \in Nat
    BY <1>1, <1>5, <1>6, FS_CardinalityType
  <1> QED BY <1>1, <1>2, <1>5, <1>6, <1>7

LEMMA GapsNext ==
  ASSUME TypeInv, LeaseInv, BudgetInv, GapInv, [Next]_vars
  PROVE  GapInv'
  <1> SUFFICES ASSUME NEW d \in Deliveries
               PROVE  IsFiniteSet(Gaps(d)') /\ Cardinality(Gaps(d)') <= retries'
    BY DEF GapInv
  <1>r. retries \in Nat
    BY BoundsAssumption DEF TypeInv, TypeOK, BoundsAssumption
  <1>k. ASSUME Gaps(d)' \subseteq Gaps(d), retries' = retries
        PROVE  IsFiniteSet(Gaps(d)') /\ Cardinality(Gaps(d)') <= retries'
    BY <1>r, <1>k, NoNewGap
  <1>0. ASSUME row' = row, journal' = journal PROVE Gaps(d)' \subseteq Gaps(d)
    BY <1>0 DEF Gaps
  <1>1. ASSUME NEW w \in Workers, Start(w) \/ RequestStop(w) \/ EndDrain(w) \/ Kill(w)
        PROVE  Gaps(d)' \subseteq Gaps(d) /\ retries' = retries
    BY <1>1, <1>0 DEF Start, RequestStop, EndDrain, Kill, queueVars, envVars
  <1>2. ASSUME NEW w \in Workers, NEW picked \in SUBSET Deliveries,
               Tick(w, picked) \/ ClaimRaises(w, picked)
        PROVE  Gaps(d)' \subseteq Gaps(d) /\ retries' = retries
    BY <1>2, <1>0, GapsClaim DEF Tick, ClaimRaises, queueVars, envVars
  <1>3. ASSUME NEW t \in tasks,
               Take(t) \/ LoseResult(t) \/ (\E verdict \in {"success", "failure"} : Answer(t, verdict))
        PROVE  Gaps(d)' \subseteq Gaps(d) /\ retries' = retries
    BY <1>3, <1>0 DEF Take, LoseResult, Answer, queueVars, envVars
  <1>4. ASSUME NEW t \in tasks, Record(t)
        PROVE  Gaps(d)' \subseteq Gaps(d) /\ retries' = retries
    BY <1>4, GapsRecord DEF Record, envVars
  <1>5. ASSUME NEW ds \in SUBSET Deliveries, Enqueue(ds)
        PROVE  Gaps(d)' \subseteq Gaps(d) /\ retries' = retries
    <2>1. /\ journal' = journal /\ retries' = retries
          /\ row'[d].total_attempts = row[d].total_attempts
          /\ row[d].status = "in_flight" <=> row'[d].status = "in_flight"
      BY <1>5, CounterTypes DEF Enqueue, InsertDeliveries, envVars, Row
    <2> QED BY <2>1 DEF Gaps
  <1>6. ASSUME NEW ds \in SUBSET Deliveries, NEW include, Requeue(ds, include), Retry
        PROVE  IsFiniteSet(Gaps(d)') /\ Cardinality(Gaps(d)') <= retries'
    BY <1>6, GapsRequeue
  <1>7. ASSUME Elapse PROVE Gaps(d)' \subseteq Gaps(d) /\ retries' = retries
    <2>1. /\ journal' = journal /\ retries' = retries
          /\ row'[d].total_attempts = row[d].total_attempts
          /\ row'[d].status = row[d].status
      BY <1>7, CounterTypes DEF Elapse, AgeRows, envVars, Row
    <2> QED BY <2>1 DEF Gaps
  <1>8. CASE UNCHANGED vars
    BY <1>8, <1>0, <1>k DEF vars, queueVars, envVars
  <1> QED BY <1>k, <1>1, <1>2, <1>3, <1>4, <1>5, <1>6, <1>7, <1>8
             DEF Next, RetryRequest, RetryBulk

(* A manual retry costs the journal one entry of a delivery at most, and
   nothing else costs it any, as long as attempts fit in their leases. *)
THEOREM GapsAreRetries ==
  ASSUME PromptAttempts
  PROVE  Spec => []GapsPerRetry
  <1>1. Init => GapInv
    <2> SUFFICES ASSUME Init, NEW d \in Deliveries
                 PROVE  IsFiniteSet(Gaps(d)) /\ Cardinality(Gaps(d)) <= retries
      BY DEF GapInv
    <2>1. row[d].total_attempts = 0 /\ retries = 0
      BY DEF Init, QueueInit, NoRow
    <2>2. Gaps(d) = {}
      BY <2>1 DEF Gaps
    <2> QED BY <2>1, <2>2, FS_EmptySet
  <1>2. TypeInv /\ LeaseInv /\ BudgetInv /\ GapInv /\ [Next]_vars => GapInv'
    BY GapsNext
  <1>3. GapInv => GapsPerRetry
    BY DEF GapInv, GapsPerRetry
  <1> QED BY <1>1, <1>2, <1>3, Lease, Budget, PTL DEF Spec

----------------------------------------------------------------------------
(* Slots.  Nothing here depends on how long attempts take. *)

(* The bound can only be kept with sets of tasks that can be counted. *)
SlotsOf(w) == IsFiniteSet(TasksOf(w)) /\ Cardinality(TasksOf(w)) <= WorkerConcurrency

SlotInv == \A w \in Workers : SlotsOf(w)

(* The image of a finite set is no larger than the set. *)
LEMMA ImageSize ==
  ASSUME NEW S, IsFiniteSet(S), NEW f, DOMAIN f = S, f = [x \in S |-> f[x]]
  PROVE  /\ IsFiniteSet({f[x] : x \in S})
         /\ Cardinality({f[x] : x \in S}) <= Cardinality(S)
  <1> DEFINE T == {f[x] : x \in S}
  <1>1. f \in Surjection(S, T)
    BY DEF Surjection
  <1> QED BY <1>1, FS_Surjection

(* Ending tasks frees slots. *)
LEMMA SlotsFreed ==
  ASSUME NEW w \in Workers, SlotsOf(w), TasksOf(w)' \subseteq TasksOf(w)
  PROVE  SlotsOf(w)'
  <1> QED BY FS_Subset, FS_CardinalityType, SettingsAssumption
          DEF SlotsOf, SettingsAssumption

(* A step that replaces each task by at most one task of the same worker. *)
LEMMA SlotsReplaced ==
  ASSUME NEW w \in Workers, SlotsOf(w),
         NEW f, f = [t \in TasksOf(w) |-> f[t]],
         TasksOf(w)' \subseteq {f[t] : t \in TasksOf(w)}
  PROVE  SlotsOf(w)'
  <1> DEFINE S == TasksOf(w)
             T == {f[t] : t \in S}
  <1>1. IsFiniteSet(T) /\ Cardinality(T) <= Cardinality(S)
    BY ImageSize DEF SlotsOf
  <1>2. TasksOf(w)' \in SUBSET T
    OBVIOUS
  <1>3. IsFiniteSet(TasksOf(w)') /\ Cardinality(TasksOf(w)') <= Cardinality(T)
    BY <1>1, <1>2, FS_Subset
  <1>4. Cardinality(TasksOf(w)') \in Nat /\ Cardinality(T) \in Nat /\ Cardinality(S) \in Nat
    BY <1>1, <1>3, FS_CardinalityType DEF SlotsOf
  <1> QED BY <1>1, <1>3, <1>4, SettingsAssumption DEF SlotsOf, SettingsAssumption

LEMMA SlotsTick ==
  ASSUME NEW v \in Workers, NEW w \in Workers, NEW picked \in SUBSET Deliveries,
         SlotsOf(w), Tick(v, picked)
  PROVE  SlotsOf(w)'
  <1> DEFINE f == [d \in picked |-> Spawned(v, d)]
             S == TasksOf(w)
             T == {f[d] : d \in picked}
  <1>0. /\ WorkerConcurrency \in Nat /\ WorkerBatchSize \in Nat
        /\ IsFiniteSet(S) /\ Cardinality(S) \in Nat /\ Cardinality(S) <= WorkerConcurrency
    BY FS_CardinalityType, SettingsAssumption DEF SlotsOf, SettingsAssumption
  <1>1. tasks' = tasks \union T /\ Cardinality(picked) <= ClaimLimit(v)
    BY DEF Tick, ClaimBatch
  <1>2. \A u \in T : u.worker = v
    BY DEF Spawned
  <1>3. CASE v # w
    <2>1. TasksOf(w)' \subseteq TasksOf(w)
      BY <1>1, <1>2, <1>3 DEF TasksOf
    <2> QED BY <2>1, SlotsFreed
  <1>4. CASE v = w
    <2>1. IsFiniteSet(picked)
      BY FS_Subset, DeliveriesAssumption DEF DeliveriesAssumption
    <2>2. f = [d \in picked |-> f[d]] /\ DOMAIN f = picked
      OBVIOUS
    <2>3. Cardinality(picked) \in Nat
      BY <2>1, FS_CardinalityType
    <2> HIDE DEF f
    <2>4. IsFiniteSet(T) /\ Cardinality(T) <= Cardinality(picked)
      BY <2>1, <2>2, ImageSize
    <2>5. Cardinality(T) \in Nat
      BY <2>4, FS_CardinalityType
    <2>6. Cardinality(picked) <= WorkerConcurrency - Cardinality(S)
      BY <1>0, <1>1, <1>4, <2>3 DEF ClaimLimit, FreeSlots
    <2>7. TasksOf(w)' = S \union T
      BY <1>1, <1>2, <1>4 DEF TasksOf
    <2>8. IsFiniteSet(S \cap T) /\ Cardinality(S \cap T) \in Nat
      <3>1. (S \cap T) \in SUBSET S
        OBVIOUS
      <3> QED BY <1>0, <3>1, FS_Subset, FS_CardinalityType
    <2>9. /\ IsFiniteSet(S \union T)
          /\ Cardinality(S \union T) = Cardinality(S) + Cardinality(T) - Cardinality(S \cap T)
      BY <1>0, <2>4, FS_Union
    <2>10. Cardinality(S \union T) <= WorkerConcurrency
      <3> HIDE DEF S, T
      <3> QED BY <1>0, <2>3, <2>4, <2>5, <2>6, <2>8, <2>9
    <2> QED BY <2>7, <2>9, <2>10 DEF SlotsOf
  <1> QED BY <1>3, <1>4

LEMMA SlotInit == Init => SlotInv
  <1> SUFFICES ASSUME Init, NEW w \in Workers PROVE SlotsOf(w)
    BY DEF SlotInv
  <1>1. TasksOf(w) = {}
    BY DEF Init, TasksOf
  <1> QED BY <1>1, FS_EmptySet, SettingsAssumption DEF SlotsOf, SettingsAssumption

LEMMA SlotNext == TypeInv /\ SlotInv /\ [Next]_vars => SlotInv'
  <1> SUFFICES ASSUME TypeInv, SlotInv, [Next]_vars, NEW w \in Workers
               PROVE  SlotsOf(w)'
    BY DEF SlotInv
  <1>0. SlotsOf(w)
    BY DEF SlotInv
  <1>a. ASSUME tasks' \subseteq tasks PROVE SlotsOf(w)'
    <2>1. TasksOf(w)' \subseteq TasksOf(w)
      BY <1>a DEF TasksOf
    <2> QED BY <1>0, <2>1, SlotsFreed
  <1>1. ASSUME NEW v \in Workers, Start(v) \/ RequestStop(v) \/ EndDrain(v) \/ Kill(v)
        PROVE  SlotsOf(w)'
    BY <1>1, <1>a DEF Start, RequestStop, EndDrain, Kill
  <1>2. ASSUME NEW v \in Workers, NEW picked \in SUBSET Deliveries, Tick(v, picked)
        PROVE  SlotsOf(w)'
    BY <1>0, <1>2, SlotsTick
  <1>3. ASSUME NEW v \in Workers, NEW picked \in SUBSET Deliveries, ClaimRaises(v, picked)
        PROVE  SlotsOf(w)'
    BY <1>3, <1>a DEF ClaimRaises
  <1>4. ASSUME NEW t \in tasks, Take(t) \/ Record(t) \/ LoseResult(t)
        PROVE  SlotsOf(w)'
    BY <1>4, <1>a DEF Take, Record, LoseResult
  <1>5. ASSUME NEW t \in tasks, NEW verdict \in {"success", "failure"}, Answer(t, verdict)
        PROVE  SlotsOf(w)'
    <2> DEFINE f == [u \in TasksOf(w) |-> IF u = t THEN [t EXCEPT !.phase = verdict] ELSE u]
    <2>1. t \in Task /\ [t EXCEPT !.phase = verdict].worker = t.worker
      BY DEF TypeInv, TypeOK, Task
    <2>2. TasksOf(w)' \subseteq {f[u] : u \in TasksOf(w)}
      <3> SUFFICES ASSUME NEW u \in tasks', u.worker = w
                   PROVE  \E s \in TasksOf(w) : u = f[s]
        BY DEF TasksOf
      <3>1. CASE u = [t EXCEPT !.phase = verdict]
        BY <2>1, <3>1 DEF TasksOf
      <3>2. CASE u \in tasks \ {t}
        BY <3>2 DEF TasksOf
      <3> QED BY <1>5, <3>1, <3>2 DEF Answer
    <2>3. f = [u \in TasksOf(w) |-> f[u]]
      OBVIOUS
    <2> HIDE DEF f
    <2> QED BY <1>0, <2>2, <2>3, SlotsReplaced
  <1>6. ASSUME NEW ds \in SUBSET Deliveries,
               \/ Enqueue(ds)
               \/ \E include \in BOOLEAN : RetryRequest(ds, include)
               \/ \E statuses \in SUBSET (Statuses \ {"none"}) : RetryBulk(ds, statuses)
        PROVE  SlotsOf(w)'
    BY <1>6, <1>a DEF Enqueue, RetryRequest, RetryBulk
  <1>7. ASSUME Elapse PROVE SlotsOf(w)'
    <2> DEFINE f == [t \in TasksOf(w) |-> [t EXCEPT !.age = @ + 1]]
    <2>1. TasksOf(w)' \subseteq {f[t] : t \in TasksOf(w)}
      <3> SUFFICES ASSUME NEW u \in tasks', u.worker = w
                   PROVE  \E t \in TasksOf(w) : u = f[t]
        BY DEF TasksOf
      <3>1. PICK t \in tasks : u = [t EXCEPT !.age = @ + 1]
        BY <1>7 DEF Elapse
      <3>2. t.worker = w
        BY <3>1 DEF TypeInv, TypeOK, Task
      <3> QED BY <3>1, <3>2 DEF TasksOf
    <2>2. f = [t \in TasksOf(w) |-> f[t]]
      OBVIOUS
    <2> HIDE DEF f
    <2> QED BY <1>0, <2>1, <2>2, SlotsReplaced
  <1>8. CASE UNCHANGED vars
    BY <1>8, <1>a DEF vars
  <1> QED BY <1>1, <1>2, <1>3, <1>4, <1>5, <1>6, <1>7, <1>8 DEF Next

(* No worker holds more attempts than worker_concurrency: a claim asks for no
   more than the slots that are free when it is made, tasks only end while it
   is under way, and rows it claimed without knowing get no task. *)
THEOREM SlotsAreEnough == Spec => []SlotsRespected
  <1>1. TypeInv /\ SlotInv => SlotsRespected
    BY DEF SlotInv, SlotsOf, SlotsRespected
  <1>2. Init => TypeInv /\ SlotInv
    BY TypeInit, SlotInit
  <1>3. TypeInv /\ SlotInv /\ [Next]_vars => (TypeInv /\ SlotInv)'
    BY TypeNext, SlotNext
  <1> QED BY <1>1, <1>2, <1>3, PTL DEF Spec

----------------------------------------------------------------------------
(* The promise.  Every step of the service is a step of DeliveryPromise, or
   none, under the mapping fateBar and gotBar, when attempts are prompt. *)

(* No recipient has taken a copy whose number was not handed out yet. *)
CopiesCounted == \A d \in Deliveries : \A n \in accepted[d] : n <= row[d].total_attempts

ServiceInv == TypeInv /\ HistoryInv /\ LeaseInv /\ BudgetInv /\ CopiesCounted

LEMMA CopiesCountedNext == TypeInv /\ HistoryInv /\ CopiesCounted /\ [Next]_vars => CopiesCounted'
  <1> SUFFICES ASSUME TypeInv, HistoryInv, CopiesCounted, [Next]_vars PROVE CopiesCounted'
    OBVIOUS
  <1>0. /\ \A d \in Deliveries : row[d].total_attempts \in Nat
        /\ \A d \in Deliveries : accepted[d] \subseteq Nat
    BY CounterTypes DEF TypeInv, TypeOK, Numbers
  (* A counter never falls, ... *)
  <1>a. ASSUME UNCHANGED accepted,
               \A d \in Deliveries : row'[d].total_attempts \in Nat
                                     /\ row'[d].total_attempts >= row[d].total_attempts
        PROVE  CopiesCounted'
    <2> SUFFICES ASSUME NEW d \in Deliveries, NEW n \in accepted[d]
                 PROVE  n <= row'[d].total_attempts
      BY <1>a DEF CopiesCounted
    <2>1. n \in Nat /\ n <= row[d].total_attempts
      BY <1>0 DEF CopiesCounted
    <2> QED BY <1>0, <1>a, <2>1
  <1>b. ASSUME UNCHANGED <<row, accepted>> PROVE CopiesCounted'
    BY <1>b DEF CopiesCounted
  <1>c. ASSUME RowsKept, UNCHANGED accepted PROVE CopiesCounted'
    BY <1>0, <1>a, <1>c DEF RowsKept
  <1>1. ASSUME NEW w \in Workers, Start(w) \/ RequestStop(w) \/ EndDrain(w) \/ Kill(w)
        PROVE  CopiesCounted'
    BY <1>1, <1>b DEF Start, RequestStop, EndDrain, Kill, queueVars
  <1>2. ASSUME NEW w \in Workers, NEW picked \in SUBSET Deliveries, NEW limit,
               ClaimBatch(w, picked, limit), UNCHANGED accepted
        PROVE  CopiesCounted'
    <2>1. ClaimEffect(w, picked)
      BY <1>2, ClaimFacts
    <2> QED BY <1>0, <1>2, <1>a, <2>1 DEF ClaimEffect
  <1>3. ASSUME NEW w \in Workers, NEW picked \in SUBSET Deliveries,
               Tick(w, picked) \/ ClaimRaises(w, picked)
        PROVE  CopiesCounted'
    BY <1>3, <1>2, <1>b DEF Tick, ClaimRaises, queueVars
  (* ... and a task's number is counted before its copy can be taken. *)
  <1>4. ASSUME NEW t \in tasks, Take(t) PROVE CopiesCounted'
    <2>1. t.number <= row[t.delivery].total_attempts /\ t.delivery \in Deliveries
      BY TaskTypes DEF HistoryInv, AttemptNumbersUnique
    <2>2. row' = row /\ accepted' = [accepted EXCEPT ![t.delivery] = @ \union {t.number}]
      BY <1>4 DEF Take, queueVars
    <2> QED BY <2>1, <2>2 DEF CopiesCounted, TypeInv, TypeOK
  <1>5. ASSUME NEW t \in tasks,
               LoseResult(t) \/ (\E verdict \in {"success", "failure"} : Answer(t, verdict))
        PROVE  CopiesCounted'
    BY <1>5, <1>b DEF LoseResult, Answer, queueVars
  <1>6. ASSUME NEW t \in tasks, Record(t) PROVE CopiesCounted'
    <2>1. RecordEffect(t) /\ UNCHANGED accepted
      BY <1>6, RecordFacts DEF Record
    <2> QED BY <1>0, <1>a, <2>1 DEF RecordEffect
  <1>7. ASSUME NEW ds \in SUBSET Deliveries, Enqueue(ds) PROVE CopiesCounted'
    BY <1>7, <1>c, InsertFacts DEF Enqueue
  <1>8. ASSUME NEW ds \in SUBSET Deliveries, NEW include, Requeue(ds, include), UNCHANGED accepted
        PROVE  CopiesCounted'
    BY <1>8, <1>c, RequeueFacts
  <1>9. ASSUME Elapse PROVE CopiesCounted'
    BY <1>9, <1>c, AgeFacts DEF Elapse
  <1>10. CASE UNCHANGED vars
    BY <1>10, <1>b DEF vars
  <1> QED BY <1>1, <1>3, <1>4, <1>5, <1>6, <1>7, <1>8, <1>9, <1>10
             DEF Next, RetryRequest, RetryBulk

LEMMA Service ==
  ASSUME PromptAttempts
  PROVE  Spec => []ServiceInv
  <1>1. Init => CopiesCounted
    BY DEF Init, CopiesCounted
  <1>2. Spec => [](TypeInv /\ HistoryInv /\ LeaseInv) /\ []BudgetInv
    BY Lease, Budget, PTL
  <1> QED BY <1>1, <1>2, CopiesCountedNext, PTL DEF Spec, ServiceInv

----------------------------------------------------------------------------
(* How much more than once.  The copies of a budget have different numbers of
   that budget, and the numbers after the first retry_max_attempts are those of
   attempts that follow a lost one. *)
LEMMA CopiesOfBudget ==
  ASSUME ServiceInv, NEW d \in Deliveries
  PROVE  Cardinality(accepted[d] \cap CurrentBudget(d))
             <= RetryMaxAttempts + Cardinality(LostAtTheEnd(d))
  <1> DEFINE a == row[d].attempts
             t == row[d].total_attempts
             copies == accepted[d] \cap CurrentBudget(d)
             late == (t - a + RetryMaxAttempts)..(t - 1)
             lost == LostAtTheEnd(d)
  <1>1. /\ a \in Nat /\ t \in Nat /\ a <= t
        /\ RetryMaxAttempts \in Nat
    BY CounterTypes, Constants DEF ServiceInv
  <1>2. /\ IsFiniteSet(copies) /\ Cardinality(copies) \in Nat
        /\ Cardinality(copies) <= a
    <2>1. IsFiniteSet(CurrentBudget(d)) /\ Cardinality(CurrentBudget(d)) = a
      <3>1. t - a + 1 \in Int /\ t \in Int
        BY <1>1
      <3>2. /\ IsFiniteSet((t - a + 1)..t)
            /\ Cardinality((t - a + 1)..t) = IF t - a + 1 > t THEN 0 ELSE t - (t - a + 1) + 1
        BY <3>1, FS_Interval
      <3>3. (IF t - a + 1 > t THEN 0 ELSE t - (t - a + 1) + 1) = a
        BY <1>1
      <3> QED BY <3>2, <3>3 DEF CurrentBudget
    <2>2. copies \in SUBSET CurrentBudget(d)
      OBVIOUS
    <2>3. IsFiniteSet(copies) /\ Cardinality(copies) <= Cardinality(CurrentBudget(d))
      BY <2>1, <2>2, FS_Subset
    <2> QED BY <2>1, <2>3, FS_CardinalityType
  <1>3. IsFiniteSet(lost) /\ Cardinality(lost) \in Nat
    <2>1. IsFiniteSet(CurrentBudget(d))
      <3>1. t - a + 1 \in Int /\ t \in Int
        BY <1>1
      <3> QED BY <3>1, FS_Interval DEF CurrentBudget
    <2>2. lost \in SUBSET CurrentBudget(d)
      BY DEF LostAtTheEnd
    <2>3. IsFiniteSet(lost)
      BY <2>1, <2>2, FS_Subset
    <2> QED BY <2>3, FS_CardinalityType
  <1>4. CASE a <= RetryMaxAttempts
    <2> HIDE DEF copies, lost
    <2> QED BY <1>1, <1>2, <1>3, <1>4 DEF copies, lost
  <1>5. CASE a > RetryMaxAttempts
    <2>1. Cardinality(late) = a - RetryMaxAttempts
      <3>1. t - a + RetryMaxAttempts \in Int /\ t - 1 \in Int
        BY <1>1
      <3>2. Cardinality(late) = IF t - a + RetryMaxAttempts > t - 1 THEN 0
                                ELSE (t - 1) - (t - a + RetryMaxAttempts) + 1
        BY <3>1, FS_Interval
      <3>3. ~(t - a + RetryMaxAttempts > t - 1)
        BY <1>1, <1>5
      <3>4. (t - 1) - (t - a + RetryMaxAttempts) + 1 = a - RetryMaxAttempts
        BY <1>1
      <3> QED BY <3>2, <3>3, <3>4
    <2>2. ASSUME NEW n \in late PROVE n \in lost
      <3>1. /\ n \in CurrentBudget(d) /\ n < t
            /\ n >= t - a + RetryMaxAttempts
        BY <1>1, Constants DEF CurrentBudget
      <3>2. journal[d][n] = "unknown"
        BY <3>1 DEF ServiceInv, BudgetInv, BudgetOK
      <3> QED BY <3>1, <3>2 DEF LostAtTheEnd
    <2>3. late \in SUBSET lost
      BY <2>2
    <2>4. Cardinality(late) <= Cardinality(lost)
      BY <1>3, <2>3, FS_Subset
    <2> HIDE DEF copies, lost, late
    <2>5. Cardinality(copies) <= RetryMaxAttempts + Cardinality(lost)
      BY <1>1, <1>2, <1>3, <2>1, <2>4
    <2> QED BY <2>5 DEF copies, lost
  <1> QED BY <1>1, <1>4, <1>5

(* A recipient gets at most retry_max_attempts copies per budget, and one more
   for each attempt that was lost at its end or beyond it, whatever dies or
   fails and however claims, results and manual retries interleave. *)
THEOREM CopiesAreAccountedFor ==
  ASSUME PromptAttempts
  PROVE  Spec => []CopiesPerLoss
  <1>1. ServiceInv => CopiesPerLoss
    BY CopiesOfBudget DEF CopiesPerLoss
  <1> QED BY <1>1, Service, PTL

----------------------------------------------------------------------------
(* The mapping, delivery by delivery. *)

FateOf(d) ==
    IF row[d].status = "none" THEN "absent"
    ELSE IF row[d].status \in {"pending", "in_flight"} THEN "open"
    ELSE row[d].status

Reached(d) == \E n \in CurrentBudget(d) : n \in accepted[d]

LEMMA Mapping ==
  /\ fateBar = [d \in Deliveries |-> FateOf(d)]
  /\ gotBar = {d \in Deliveries : Reached(d)}
  BY DEF fateBar, gotBar, FateOf, Reached

LEMMA MappingNext ==
  /\ fateBar' = [d \in Deliveries |-> FateOf(d)']
  /\ gotBar' = {d \in Deliveries : Reached(d)'}
  BY DEF fateBar, gotBar, FateOf, Reached

(* What a step leaves alone in the eyes of the promise. *)
Same(d) == FateOf(d)' = FateOf(d) /\ Reached(d)' = Reached(d)

PromiseStep == [Promise!PromiseNext]_(Promise!promiseVars)

LEMMA AllSame ==
  ASSUME \A d \in Deliveries : Same(d)
  PROVE  PromiseStep
  BY Mapping, MappingNext DEF Same, PromiseStep, Promise!promiseVars

(* A row whose status, counters and copies stay is the same; so is a row that
   a claim moves, as nobody can have taken the copy it is about to send. *)
LEMMA SameRow ==
  ASSUME NEW d \in Deliveries, UNCHANGED accepted,
         row'[d].status = row[d].status, row'[d].attempts = row[d].attempts,
         row'[d].total_attempts = row[d].total_attempts
  PROVE  Same(d)
  BY DEF Same, FateOf, Reached, CurrentBudget

LEMMA SameClaim ==
  ASSUME ServiceInv, NEW w \in Workers, NEW picked \in SUBSET Deliveries, NEW limit,
         ClaimBatch(w, picked, limit), UNCHANGED accepted
  PROVE  PromiseStep
  <1> SUFFICES ASSUME NEW d \in Deliveries PROVE Same(d)
    BY AllSame
  <1> DEFINE a == row[d].attempts
             t == row[d].total_attempts
  <1>1. ClaimEffect(w, picked)
    BY ClaimFacts DEF ServiceInv
  <1>2. a \in Nat /\ t \in Nat
    BY CounterTypes DEF ServiceInv
  <1>3. CASE d \notin picked
    BY <1>1, <1>3, SameRow DEF ClaimEffect
  <1>4. CASE d \in picked
    <2>1. /\ row[d].status \in {"pending", "in_flight"} /\ row'[d].status = "in_flight"
          /\ row'[d].attempts = a + 1 /\ row'[d].total_attempts = t + 1
      BY <1>1, <1>4 DEF ClaimEffect
    <2>2. t + 1 \notin accepted[d]
      BY <1>2 DEF ServiceInv, CopiesCounted
    <2>3. CurrentBudget(d)' = CurrentBudget(d) \union {t + 1}
      BY <1>2, <2>1 DEF CurrentBudget
    <2>4. Reached(d)' = Reached(d)
      BY <2>2, <2>3 DEF Reached
    <2> QED BY <2>1, <2>4 DEF Same, FateOf
  <1> QED BY <1>3, <1>4

(* The recipient takes the copy of an attempt that holds its row's lease. *)
LEMMA TakeReaches ==
  ASSUME ServiceInv, NEW t \in tasks, Take(t)
  PROVE  PromiseStep
  <1> DEFINE e == t.delivery
  <1>1. /\ e \in Deliveries /\ t.number \in Nat /\ row' = row
        /\ accepted' = [accepted EXCEPT ![e] = @ \union {t.number}]
        /\ accepted \in [Deliveries -> SUBSET Numbers]
    BY TaskTypes DEF ServiceInv, Take, queueVars, TypeInv, TypeOK
  <1>2. row[e].status = "in_flight" /\ row[e].total_attempts = t.number
    BY DEF ServiceInv, LeaseInv, HoldsLease
  <1>3. t.number \in CurrentBudget(e)
    <2>1. row[e].attempts \in Nat /\ row[e].attempts >= 1
      BY <1>1, <1>2, CounterTypes DEF ServiceInv, BudgetInv, BudgetOK
    <2> QED BY <1>1, <1>2, <2>1 DEF CurrentBudget
  <1>4. \A d \in Deliveries : FateOf(d)' = FateOf(d)
    BY <1>1 DEF FateOf
  <1>5. FateOf(e) = "open" /\ fateBar' = fateBar /\ fateBar[e] = "open"
    BY <1>1, <1>2, <1>4, Mapping, MappingNext DEF FateOf
  <1>6. gotBar' = gotBar \union {e}
    <2>1. \A d \in Deliveries : Reached(d)' <=> Reached(d) \/ d = e
      BY <1>1, <1>3 DEF Reached, CurrentBudget
    <2> QED BY <1>1, <2>1, Mapping, MappingNext
  <1>7. Promise!Reach(e)
    BY <1>5, <1>6 DEF Promise!Reach
  <1> QED BY <1>1, <1>7 DEF PromiseStep, Promise!PromiseNext

(* A recorded result delivers, gives up, or leaves the delivery open. *)
LEMMA RecordSettles ==
  ASSUME ServiceInv, NEW t \in tasks, Record(t)
  PROVE  PromiseStep
  <1> DEFINE e == t.delivery
  <1>1. RecordEffect(t) /\ UNCHANGED accepted /\ t.phase \in {"success", "failure"}
    BY RecordFacts, TaskTypes DEF ServiceInv, Record
  <1>2. /\ e \in Deliveries /\ row[e].status = "in_flight" /\ row[e].locked_by = t.worker
        /\ row[e].total_attempts = t.number
    BY TaskTypes DEF ServiceInv, LeaseInv, HoldsLease
  <1>3. \A d \in Deliveries : Reached(d)' = Reached(d)
    BY <1>1 DEF RecordEffect, Reached, CurrentBudget
  <1>4. gotBar' = gotBar /\ \A d \in Deliveries : d \in gotBar <=> Reached(d)
    BY <1>3, Mapping, MappingNext
  <1>5. \A d \in Deliveries : d # e => FateOf(d)' = FateOf(d)
    BY <1>1 DEF RecordEffect, FateOf
  <1>6. FateOf(e) = "open" /\ fateBar[e] = "open"
    BY <1>2, Mapping DEF FateOf
  <1>7. fateBar' = [fateBar EXCEPT ![e] = FateOf(e)']
    BY <1>2, <1>5, Mapping, MappingNext
  <1>8. CASE t.phase = "success"
    <2>1. FateOf(e)' = "delivered"
      BY <1>1, <1>8 DEF RecordEffect, FateOf
    <2>2. t.number \in CurrentBudget(e)
      <3>1. /\ row[e].attempts \in Nat /\ row[e].attempts >= 1
            /\ row[e].total_attempts \in Nat
        BY <1>2, CounterTypes DEF ServiceInv, BudgetInv, BudgetOK
      <3> QED BY <1>2, <3>1 DEF CurrentBudget
    <2>3. t.number \in accepted[e]
      BY <1>8 DEF ServiceInv, HistoryInv, VerdictIsHonest
    <2>4. e \in gotBar
      BY <1>2, <1>4, <2>2, <2>3 DEF Reached
    <2>5. Promise!Deliver(e)
      BY <1>4, <1>6, <1>7, <2>1, <2>4 DEF Promise!Deliver
    <2> QED BY <1>2, <2>5 DEF PromiseStep, Promise!PromiseNext
  <1>9. CASE t.phase = "failure" /\ IsExhausted(t.budget)
    <2>1. FateOf(e)' = "failed"
      BY <1>1, <1>2, <1>9 DEF RecordEffect, FateOf
    <2>2. Promise!GiveUp(e)
      BY <1>4, <1>6, <1>7, <2>1 DEF Promise!GiveUp
    <2> QED BY <1>2, <2>2 DEF PromiseStep, Promise!PromiseNext
  <1>10. CASE t.phase = "failure" /\ ~IsExhausted(t.budget)
    <2>1. FateOf(e)' = "open"
      BY <1>1, <1>2, <1>10 DEF RecordEffect, FateOf
    <2> QED BY <1>3, <1>5, <1>6, <2>1, AllSame DEF Same
  <1> QED BY <1>1, <1>8, <1>9, <1>10

(* Storing opens the deliveries that were not there. *)
LEMMA InsertStores ==
  ASSUME ServiceInv, NEW ds \in SUBSET Deliveries, InsertDeliveries(ds), UNCHANGED accepted
  PROVE  PromiseStep
  <1> DEFINE fresh == {d \in ds : row[d].status = "none"}
  <1>1. ASSUME NEW d \in Deliveries
        PROVE  /\ Reached(d)' = Reached(d)
               /\ FateOf(d)' = IF d \in fresh THEN "open" ELSE FateOf(d)
               /\ d \in fresh => FateOf(d) = "absent"
    <2>1. row[d] \in Row
      BY CounterTypes DEF ServiceInv
    <2>2. /\ row'[d].attempts = row[d].attempts
          /\ row'[d].total_attempts = row[d].total_attempts
          /\ row'[d].status = IF d \in fresh THEN "pending" ELSE row[d].status
      BY <2>1 DEF InsertDeliveries, Row
    <2> QED BY <2>2 DEF Reached, CurrentBudget, FateOf
  <1> HIDE DEF fresh
  <1>2. gotBar' = gotBar
    BY <1>1, Mapping, MappingNext
  <1>3. fateBar' = [d \in Deliveries |-> IF d \in fresh THEN "open" ELSE fateBar[d]]
    BY <1>1, Mapping, MappingNext
  <1>4. fresh \in SUBSET Deliveries
    BY DEF fresh
  <1>5. Promise!Store(fresh)
    BY <1>1, <1>2, <1>3, <1>4, Mapping DEF Promise!Store
  <1> QED BY <1>4, <1>5 DEF PromiseStep, Promise!PromiseNext

(* A manual retry opens what it finds anew, with a budget nothing was sent in. *)
LEMMA RequeueReopens ==
  ASSUME ServiceInv, NEW ds \in SUBSET Deliveries, NEW include, Requeue(ds, include),
         UNCHANGED accepted
  PROVE  PromiseStep
  <1> DEFINE again == {d \in ds : Requeueable(row[d], include)}
  <1>1. ASSUME NEW d \in Deliveries
        PROVE  /\ Reached(d)' <=> Reached(d) /\ d \notin again
               /\ FateOf(d)' = IF d \in again THEN "open" ELSE FateOf(d)
               /\ d \in again => FateOf(d) # "absent"
    <2>1. row[d] \in Row /\ row[d].total_attempts \in Nat
      BY CounterTypes DEF ServiceInv
    <2>2. CASE d \in again
      <3>1. /\ row'[d].attempts = 0 /\ row'[d].status = "pending"
            /\ row'[d].total_attempts = row[d].total_attempts
        BY <2>1, <2>2 DEF Requeue, RequeuedRow, Row
      <3>2. CurrentBudget(d)' = {}
        BY <2>1, <3>1 DEF CurrentBudget
      <3>3. row[d].status # "none"
        BY <2>2 DEF Requeueable
      <3> QED BY <2>1, <2>2, <3>1, <3>2, <3>3 DEF Reached, FateOf, Row, Statuses
    <2>3. CASE d \notin again
      <3>1. row'[d] = row[d]
        BY <2>3 DEF Requeue
      <3> QED BY <2>3, <3>1 DEF Reached, CurrentBudget, FateOf
    <2> QED BY <2>2, <2>3
  <1>4. again \in SUBSET Deliveries
    OBVIOUS
  <1> HIDE DEF again
  <1>2. gotBar' = gotBar \ again
    BY <1>1, Mapping, MappingNext
  <1>3. fateBar' = [d \in Deliveries |-> IF d \in again THEN "open" ELSE fateBar[d]]
    BY <1>1, Mapping, MappingNext
  <1>5. Promise!Reopen(again)
    BY <1>1, <1>2, <1>3, <1>4, Mapping DEF Promise!Reopen
  <1> QED BY <1>4, <1>5 DEF PromiseStep, Promise!PromiseNext

LEMMA PromiseNextStep ==
  ASSUME ServiceInv, [Next]_vars
  PROVE  PromiseStep
  <1>a. ASSUME UNCHANGED <<row, accepted>> PROVE PromiseStep
    BY <1>a, SameRow, AllSame
  <1>1. ASSUME NEW w \in Workers, Start(w) \/ RequestStop(w) \/ EndDrain(w) \/ Kill(w)
        PROVE  PromiseStep
    BY <1>1, <1>a DEF Start, RequestStop, EndDrain, Kill, queueVars
  <1>2. ASSUME NEW w \in Workers, NEW picked \in SUBSET Deliveries,
               Tick(w, picked) \/ ClaimRaises(w, picked)
        PROVE  PromiseStep
    BY <1>2, <1>a, SameClaim DEF Tick, ClaimRaises, queueVars
  <1>3. ASSUME NEW t \in tasks, Take(t) PROVE PromiseStep
    BY <1>3, TakeReaches
  <1>4. ASSUME NEW t \in tasks,
               LoseResult(t) \/ (\E verdict \in {"success", "failure"} : Answer(t, verdict))
        PROVE  PromiseStep
    BY <1>4, <1>a DEF LoseResult, Answer, queueVars
  <1>5. ASSUME NEW t \in tasks, Record(t) PROVE PromiseStep
    BY <1>5, RecordSettles
  <1>6. ASSUME NEW ds \in SUBSET Deliveries, Enqueue(ds) PROVE PromiseStep
    BY <1>6, InsertStores DEF Enqueue
  <1>7. ASSUME NEW ds \in SUBSET Deliveries, NEW include, Requeue(ds, include), UNCHANGED accepted
        PROVE  PromiseStep
    BY <1>7, RequeueReopens
  <1>8. ASSUME Elapse PROVE PromiseStep
    <2>1. \A d \in Deliveries : row[d] \in Row
      BY CounterTypes DEF ServiceInv
    <2>2. \A d \in Deliveries : /\ row'[d].status = row[d].status
                                /\ row'[d].attempts = row[d].attempts
                                /\ row'[d].total_attempts = row[d].total_attempts
      BY <1>8, <2>1 DEF Elapse, AgeRows, Row
    <2> QED BY <1>8, <2>2, SameRow, AllSame DEF Elapse
  <1>9. CASE UNCHANGED vars
    BY <1>9, <1>a DEF vars
  <1> QED BY <1>1, <1>2, <1>3, <1>4, <1>5, <1>6, <1>7, <1>8, <1>9
             DEF Next, RetryRequest, RetryBulk

LEMMA PromiseStart == Init => Promise!PromiseInit
  <1> SUFFICES ASSUME Init PROVE Promise!PromiseInit
    OBVIOUS
  <1>1. \A d \in Deliveries : FateOf(d) = "absent" /\ ~Reached(d)
    BY DEF Init, QueueInit, NoRow, FateOf, Reached
  <1> QED BY <1>1, Mapping DEF Promise!PromiseInit

(* The service implements the safety part of DeliveryPromise: a stored
   delivery stays open until its recipient has the lead or the budget is
   spent, nothing reaches a recipient whose delivery is settled, and only a
   manual retry opens it again. *)
THEOREM PromiseIsKept ==
  ASSUME PromptAttempts
  PROVE  Spec => Promise!PromiseSafety
  <1>1. Init => Promise!PromiseInit
    BY PromiseStart
  <1>2. ServiceInv /\ [Next]_vars => [Promise!PromiseNext]_(Promise!promiseVars)
    BY PromiseNextStep DEF PromiseStep
  <1> QED BY <1>1, <1>2, Service, PTL DEF Spec, Promise!PromiseSafety

----------------------------------------------------------------------------
(* The claim.  Every step of the service is a step of AtomicClaim, or none,
   under the mapping waitingBar and holderBar, when attempts are prompt. *)

(* An attempt that is alive is the only one of its delivery, and its row is not
   due: that is what a lease is for. *)
Unshared == /\ NoConcurrentSend
            /\ \A t \in tasks : /\ t.worker \in Workers
                                 /\ t.delivery \in Deliveries
                                 /\ ~Claimable(row[t.delivery])

ClaimingInv == TypeInv /\ HistoryInv /\ LeaseInv /\ SlotInv

LEMMA Sharing ==
  ASSUME PromptAttempts, ClaimingInv
  PROVE  Unshared
  <1>1. NoConcurrentSend
    BY LeaseImpliesExclusion DEF ClaimingInv
  <1>2. ASSUME NEW t \in tasks
        PROVE  t.worker \in Workers /\ t.delivery \in Deliveries /\ ~Claimable(row[t.delivery])
    <2>1. /\ t.worker \in Workers /\ t.delivery \in Deliveries
          /\ row[t.delivery].lease_in \in Nat
      BY TaskTypes, RowNumbers DEF ClaimingInv
    <2>2. row[t.delivery].status = "in_flight" /\ row[t.delivery].lease_in > 0
      BY LeaseIsLive DEF ClaimingInv
    <2> QED BY <2>1, <2>2 DEF Claimable, ClaimableIn
  <1> QED BY <1>1, <1>2 DEF Unshared

(* The holder of a delivery among the attempts ts. *)
HolderIn(ts, d) ==
    IF \E t \in ts : t.delivery = d
    THEN (CHOOSE t \in ts : t.delivery = d).worker ELSE NoOne

LEMMA HolderFacts ==
  ASSUME NEW ts, NEW d, \A t \in ts : t.worker \in Workers,
         \A t1, t2 \in ts : t1.delivery = t2.delivery => t1 = t2
  PROVE  /\ \A t \in ts : t.delivery = d => HolderIn(ts, d) = t.worker
         /\ HolderIn(ts, d) = NoOne <=> \A t \in ts : t.delivery # d
  <1>1. ASSUME NEW t \in ts, t.delivery = d PROVE HolderIn(ts, d) = t.worker
    <2> DEFINE u == CHOOSE u \in ts : u.delivery = d
    <2>1. u \in ts /\ u.delivery = d
      BY <1>1
    <2>2. u = t
      BY <1>1, <2>1
    <2> QED BY <1>1, <2>2 DEF HolderIn
  <1>2. (\A t \in ts : t.delivery # d) => HolderIn(ts, d) = NoOne
    BY DEF HolderIn
  <1>3. HolderIn(ts, d) = NoOne => \A t \in ts : t.delivery # d
    BY <1>1, NoOneAssumption DEF NoOneAssumption
  <1> QED BY <1>1, <1>2, <1>3

LEMMA HolderMap ==
  /\ holderBar = [d \in Deliveries |-> HolderIn(tasks, d)]
  /\ holderBar' = [d \in Deliveries |-> HolderIn(tasks', d)]
  BY DEF holderBar, HolderIn

LEMMA WaitingMap ==
  /\ waitingBar = {d \in Deliveries : Claimable(row[d])}
  /\ waitingBar' = {d \in Deliveries : Claimable(row'[d])}
  BY DEF waitingBar, Claimable, ClaimableIn

LEMMA ServiceHolders ==
  ASSUME Unshared, NEW d
  PROVE  /\ \A t \in tasks : t.delivery = d => HolderIn(tasks, d) = t.worker
         /\ HolderIn(tasks, d) = NoOne <=> \A t \in tasks : t.delivery # d
  BY HolderFacts DEF Unshared, NoConcurrentSend

LEMMA ServiceHoldersNext ==
  ASSUME Unshared', NEW d
  PROVE  /\ \A t \in tasks' : t.delivery = d => HolderIn(tasks', d) = t.worker
         /\ HolderIn(tasks', d) = NoOne <=> \A t \in tasks' : t.delivery # d
  BY HolderFacts DEF Unshared, NoConcurrentSend

ClaimingStep == [Claiming!Next]_(Claiming!vars)

LEMMA ClaimingSame ==
  ASSUME holderBar' = holderBar, waitingBar' = waitingBar
  PROVE  ClaimingStep
  BY DEF ClaimingStep, Claiming!vars

(* Tasks that go on, as far as deliveries and workers are concerned. *)
LEMMA HoldersKept ==
  ASSUME Unshared, Unshared',
         \A t \in tasks : \E u \in tasks' : u.delivery = t.delivery /\ u.worker = t.worker,
         \A u \in tasks' : \E t \in tasks : u.delivery = t.delivery /\ u.worker = t.worker
  PROVE  holderBar' = holderBar
  <1>1. ASSUME NEW d \in Deliveries PROVE HolderIn(tasks', d) = HolderIn(tasks, d)
    <2>1. CASE \E t \in tasks : t.delivery = d
      <3>1. PICK t \in tasks : t.delivery = d
        BY <2>1
      <3>2. PICK u \in tasks' : u.delivery = d /\ u.worker = t.worker
        BY <3>1
      <3> QED BY <3>1, <3>2, ServiceHolders, ServiceHoldersNext
    <2>2. CASE \A t \in tasks : t.delivery # d
      <3>1. \A u \in tasks' : u.delivery # d
        BY <2>2
      <3> QED BY <2>2, <3>1, ServiceHolders, ServiceHoldersNext
    <2> QED BY <2>1, <2>2
  <1> QED BY <1>1, HolderMap

(* Tasks end. *)
LEMMA ClaimingRelease ==
  ASSUME Unshared, Unshared', waitingBar' = waitingBar, tasks' \subseteq tasks
  PROVE  ClaimingStep
  <1> DEFINE rs == {d \in Deliveries : holderBar[d] # NoOne /\ holderBar'[d] = NoOne}
  <1>1. ASSUME NEW d \in Deliveries, d \notin rs PROVE holderBar'[d] = holderBar[d]
    <2>1. CASE holderBar'[d] = NoOne
      BY <1>1, <2>1
    <2>2. CASE holderBar'[d] # NoOne
      <3>1. PICK t \in tasks' : t.delivery = d
        BY <2>2, HolderMap, ServiceHoldersNext
      <3>2. t \in tasks
        BY <3>1
      <3> QED BY <3>1, <3>2, HolderMap, ServiceHolders, ServiceHoldersNext
    <2> QED BY <2>1, <2>2
  <1>2. \A d \in rs : holderBar[d] # NoOne /\ holderBar'[d] = NoOne
    OBVIOUS
  <1>3. rs \in SUBSET Deliveries
    OBVIOUS
  <1> HIDE DEF rs
  <1>4. holderBar' = [d \in Deliveries |-> IF d \in rs THEN NoOne ELSE holderBar[d]]
    BY <1>1, <1>2, HolderMap
  <1>5. Claiming!Release(rs)
    BY <1>2, <1>4 DEF Claiming!Release
  <1> QED BY <1>3, <1>5 DEF ClaimingStep, Claiming!Next

(* Rows become due; nobody holds them then. *)
LEMMA ClaimingArrive ==
  ASSUME Unshared, Unshared', holderBar' = holderBar, waitingBar \subseteq waitingBar'
  PROVE  ClaimingStep
  <1> DEFINE rs == waitingBar' \ waitingBar
  <1>1. rs \in SUBSET Deliveries
    BY WaitingMap
  <1>2. ASSUME NEW r \in rs PROVE holderBar[r] = NoOne
    <2>1. r \in Deliveries /\ Claimable(row'[r])
      BY WaitingMap
    <2>2. \A u \in tasks' : ~Claimable(row'[u.delivery])
      BY DEF Unshared, Claimable, ClaimableIn
    <2>3. \A u \in tasks' : u.delivery # r
      BY <2>1, <2>2
    <2> QED BY <2>1, <2>3, HolderMap, ServiceHoldersNext
  <1>3. waitingBar' = waitingBar \union rs
    OBVIOUS
  <1>4. Claiming!Arrive(rs)
    BY <1>2, <1>3 DEF Claiming!Arrive
  <1> QED BY <1>1, <1>4 DEF ClaimingStep, Claiming!Next

(* What is claimed was due and is not due any more. *)
LEMMA ClaimedAreGone ==
  ASSUME TypeInv, NEW w \in Workers, NEW picked \in SUBSET Deliveries, NEW limit,
         ClaimBatch(w, picked, limit)
  PROVE  picked \subseteq waitingBar /\ waitingBar' = waitingBar \ picked
  <1>1. ClaimEffect(w, picked)
    BY ClaimFacts
  <1>2. \A d \in picked : Claimable(row[d])
    BY DEF ClaimBatch
  <1>3. ASSUME NEW d \in picked PROVE ~Claimable(row'[d])
    <2>1. row'[d].status = "in_flight" /\ row'[d].lease_in = LeaseTime
      BY <1>1 DEF ClaimEffect
    <2> QED BY <2>1, Constants DEF Claimable, ClaimableIn
  <1>4. \A d \in Deliveries : d \notin picked => row'[d] = row[d]
    BY <1>1 DEF ClaimEffect
  <1> QED BY <1>2, <1>3, <1>4, WaitingMap

LEMMA SameCardinality == \A S : Claiming!Cardinality(S) = Cardinality(S)
  BY DEF Cardinality, Claiming!Cardinality

(* The deliveries a worker holds are no more than its tasks. *)
LEMMA HeldAreTasks ==
  ASSUME Unshared, NEW w \in Workers, SlotsOf(w)
  PROVE  /\ IsFiniteSet(Claiming!HeldBy(w))
         /\ Cardinality(Claiming!HeldBy(w)) <= Cardinality(TasksOf(w))
  <1> DEFINE S == TasksOf(w)
             f == [t \in S |-> t.delivery]
             T == {f[t] : t \in S}
             H == Claiming!HeldBy(w)
  <1>1. IsFiniteSet(S) /\ f = [t \in S |-> f[t]] /\ DOMAIN f = S
    BY DEF SlotsOf
  <1>2. IsFiniteSet(T) /\ Cardinality(T) <= Cardinality(S)
    <2> HIDE DEF f, S
    <2> QED BY <1>1, ImageSize
  <1>3. ASSUME NEW d \in H PROVE d \in T
    <2>1. d \in Deliveries /\ HolderIn(tasks, d) = w
      BY HolderMap DEF Claiming!HeldBy
    <2>2. HolderIn(tasks, d) # NoOne
      BY <2>1, NoOneAssumption DEF NoOneAssumption
    <2>3. PICK t \in tasks : t.delivery = d
      BY <2>2, ServiceHolders
    <2>4. t.worker = w
      BY <2>1, <2>3, ServiceHolders
    <2> QED BY <2>3, <2>4 DEF TasksOf
  <1>4. H \in SUBSET T
    BY <1>3
  <1> HIDE DEF S, T, H
  <1>5. IsFiniteSet(H) /\ Cardinality(H) <= Cardinality(T)
    BY <1>2, <1>4, FS_Subset
  <1>6. Cardinality(H) \in Nat /\ Cardinality(T) \in Nat /\ Cardinality(S) \in Nat
    BY <1>1, <1>2, <1>5, FS_CardinalityType
  <1>7. Cardinality(H) <= Cardinality(S)
    BY <1>2, <1>5, <1>6
  <1> QED BY <1>5, <1>7 DEF H, S

(* A claim asks for no more than the free slots. *)
LEMMA ClaimFits ==
  ASSUME Unshared, NEW w \in Workers, SlotsOf(w), NEW picked \in SUBSET Deliveries,
         Cardinality(picked) <= ClaimLimit(w)
  PROVE  Cardinality(Claiming!HeldBy(w) \union picked) <= WorkerConcurrency
  <1> DEFINE H == Claiming!HeldBy(w)
             S == TasksOf(w)
  <1>1. IsFiniteSet(H) /\ Cardinality(H) <= Cardinality(S) /\ IsFiniteSet(S)
    BY HeldAreTasks DEF SlotsOf
  <1>2. IsFiniteSet(picked)
    BY FS_Subset, DeliveriesAssumption DEF DeliveriesAssumption
  <1>3. (H \cap picked) \in SUBSET H
    OBVIOUS
  <1> HIDE DEF H, S
  <1>4. IsFiniteSet(H \cap picked)
    BY <1>1, <1>3, FS_Subset
  <1>5. /\ Cardinality(H) \in Nat /\ Cardinality(S) \in Nat
        /\ Cardinality(picked) \in Nat /\ Cardinality(H \cap picked) \in Nat
    BY <1>1, <1>2, <1>4, FS_CardinalityType
  <1>6. Cardinality(H \union picked)
          = Cardinality(H) + Cardinality(picked) - Cardinality(H \cap picked)
    BY <1>1, <1>2, FS_Union
  <1>7. WorkerConcurrency \in Nat /\ WorkerBatchSize \in Nat
    BY SettingsAssumption DEF SettingsAssumption
  <1>8. Cardinality(picked) <= WorkerConcurrency - Cardinality(S)
    BY <1>5, <1>7 DEF ClaimLimit, FreeSlots, S
  <1>9. Cardinality(H \union picked) <= WorkerConcurrency
    BY <1>1, <1>5, <1>6, <1>7, <1>8
  <1> QED BY <1>9 DEF H

LEMMA ClaimingTick ==
  ASSUME ClaimingInv, Unshared, Unshared', NEW w \in Workers,
         NEW picked \in SUBSET Deliveries, Tick(w, picked)
  PROVE  ClaimingStep
  <1>1. /\ ClaimBatch(w, picked, ClaimLimit(w)) /\ picked # {}
        /\ Cardinality(picked) <= ClaimLimit(w)
        /\ tasks' = tasks \union {Spawned(w, d) : d \in picked}
    BY DEF Tick, ClaimBatch
  <1>2. picked \subseteq waitingBar /\ waitingBar' = waitingBar \ picked
    BY <1>1, ClaimedAreGone DEF ClaimingInv
  <1>3. Claiming!Cardinality(Claiming!HeldBy(w) \union picked) <= WorkerConcurrency
    BY <1>1, ClaimFits, SameCardinality DEF ClaimingInv, SlotInv
  <1>4. ASSUME NEW d \in picked PROVE HolderIn(tasks', d) = w
    <2>1. /\ Spawned(w, d) \in tasks'
          /\ Spawned(w, d).delivery = d /\ Spawned(w, d).worker = w
      BY <1>1 DEF Spawned
    <2> QED BY <2>1, ServiceHoldersNext
  <1>5. ASSUME NEW d \in Deliveries, d \notin picked
        PROVE  HolderIn(tasks', d) = HolderIn(tasks, d)
    <2>1. \A u \in tasks' : u.delivery = d => u \in tasks
      BY <1>1, <1>5 DEF Spawned
    <2>2. CASE \E t \in tasks : t.delivery = d
      <3>1. PICK t \in tasks : t.delivery = d
        BY <2>2
      <3>2. t \in tasks'
        BY <1>1
      <3> QED BY <3>1, <3>2, ServiceHolders, ServiceHoldersNext
    <2>3. CASE \A t \in tasks : t.delivery # d
      <3>1. \A u \in tasks' : u.delivery # d
        BY <2>1, <2>3
      <3> QED BY <2>3, <3>1, ServiceHolders, ServiceHoldersNext
    <2> QED BY <2>2, <2>3
  <1>6. holderBar' = [d \in Deliveries |-> IF d \in picked THEN w ELSE holderBar[d]]
    BY <1>4, <1>5, HolderMap
  <1>7. Claiming!Claim(w, picked)
    BY <1>1, <1>2, <1>3, <1>6 DEF Claiming!Claim
  <1> QED BY <1>7 DEF ClaimingStep, Claiming!Next

(* The rows of a claim that nobody knows of. *)
LEMMA ClaimingWithdraw ==
  ASSUME ClaimingInv, NEW w \in Workers, NEW picked \in SUBSET Deliveries, NEW limit,
         ClaimBatch(w, picked, limit), UNCHANGED tasks
  PROVE  ClaimingStep
  <1>1. waitingBar' = waitingBar \ picked
    BY ClaimedAreGone DEF ClaimingInv
  <1>2. holderBar' = holderBar
    BY HolderMap
  <1>3. Claiming!Withdraw(picked)
    BY <1>1, <1>2 DEF Claiming!Withdraw
  <1> QED BY <1>3 DEF ClaimingStep, Claiming!Next

(* The row of an attempt is not due before its result is recorded, nor after:
   it is settled or in backoff. *)
LEMMA RecordedIsNotDue ==
  ASSUME ClaimingInv, Unshared, NEW t \in tasks, Record(t)
  PROVE  waitingBar' = waitingBar
  <1> DEFINE e == t.delivery
  <1>1. /\ e \in Deliveries /\ row[e] \in Row /\ row \in [Deliveries -> Row]
        /\ ~Claimable(row[e]) /\ row[e].status = "in_flight" /\ row[e].locked_by = t.worker
    BY TaskTypes DEF ClaimingInv, TypeInv, TypeOK, QueueTypeOK, LeaseInv, HoldsLease, Unshared
  <1>2. PICK delay \in 1..MaxDelay :
          row' = [row EXCEPT ![e] =
                    IF t.phase = "success" THEN MarkDelivered(@)
                    ELSE MarkFailure(@, t.worker, IsExhausted(t.budget), delay)]
    BY DEF Record, RecordResult
  <1>3. \A d \in Deliveries : d # e => row'[d] = row[d]
    BY <1>1, <1>2
  <1>4. ~Claimable(row'[e])
    <2>1. CASE t.phase = "success"
      <3>1. row'[e] = MarkDelivered(row[e])
        BY <1>1, <1>2, <2>1
      <3>2. row'[e].status = "delivered"
        BY <1>1, <3>1 DEF MarkDelivered, Row
      <3> QED BY <3>2 DEF Claimable
    <2>2. CASE t.phase # "success"
      <3>1. row'[e] = MarkFailure(row[e], t.worker, IsExhausted(t.budget), delay)
        BY <1>1, <1>2, <2>2
      <3>2. \/ row'[e].status = "failed"
            \/ row'[e].status = "pending" /\ row'[e].next_in = delay
        BY <1>1, <3>1 DEF MarkFailure, Row
      <3> QED BY <3>2 DEF Claimable, ClaimableIn
    <2> QED BY <2>1, <2>2
  <1> QED BY <1>1, <1>3, <1>4, WaitingMap

(* Rows that are due stay due when rows are inserted, requeued or aged. *)
LEMMA DueStayDue ==
  ASSUME TypeInv,
         \/ \E ds \in SUBSET Deliveries : InsertDeliveries(ds)
         \/ \E ds \in SUBSET Deliveries : \E include : Requeue(ds, include)
         \/ AgeRows
  PROVE  waitingBar \subseteq waitingBar'
  <1> SUFFICES ASSUME NEW d \in Deliveries, Claimable(row[d]) PROVE Claimable(row'[d])
    BY WaitingMap
  <1>1. /\ row[d] \in Row /\ row[d].next_in \in Nat /\ row[d].lease_in \in Nat
        /\ row[d].status \in {"pending", "in_flight"}
    BY CounterTypes, RowNumbers DEF Claimable
  <1>2. ASSUME NEW ds \in SUBSET Deliveries, InsertDeliveries(ds) PROVE Claimable(row'[d])
    BY <1>1, <1>2 DEF InsertDeliveries
  <1>3. ASSUME NEW ds \in SUBSET Deliveries, NEW include, Requeue(ds, include)
        PROVE  Claimable(row'[d])
    <2>1. row'[d] = row[d] \/ row'[d] = RequeuedRow(row[d])
      BY <1>3 DEF Requeue
    <2>2. RequeuedRow(row[d]).status = "pending" /\ RequeuedRow(row[d]).next_in = 0
      BY <1>1 DEF RequeuedRow, Row
    <2>3. Claimable(RequeuedRow(row[d]))
      BY <2>2 DEF Claimable, ClaimableIn
    <2> QED BY <2>1, <2>3
  <1>4. ASSUME AgeRows PROVE Claimable(row'[d])
    <2>1. row'[d] = [row[d] EXCEPT !.next_in = Sooner(@), !.lease_in = Sooner(@)]
      BY <1>4 DEF AgeRows
    <2>2. /\ row'[d].status = row[d].status
          /\ row'[d].next_in = Sooner(row[d].next_in)
          /\ row'[d].lease_in = Sooner(row[d].lease_in)
      BY <1>1, <2>1 DEF Row
    <2>3. ClaimableIn(row[d]) = 0
      BY <1>1 DEF Claimable, ClaimableIn
    <2>4. ClaimableIn(row'[d]) = 0
      BY <2>2, <2>3 DEF ClaimableIn, Sooner
    <2> QED BY <1>1, <2>2, <2>4 DEF Claimable
  <1> QED BY <1>2, <1>3, <1>4

LEMMA ClaimingNext ==
  ASSUME ClaimingInv, Unshared, Unshared', [Next]_vars
  PROVE  ClaimingStep
  <1>a. ASSUME row' = row, tasks' \subseteq tasks PROVE ClaimingStep
    BY <1>a, ClaimingRelease, WaitingMap
  <1>b. ASSUME waitingBar \subseteq waitingBar', UNCHANGED tasks PROVE ClaimingStep
    BY <1>b, ClaimingArrive, HolderMap
  <1>1. ASSUME NEW w \in Workers, Start(w) \/ RequestStop(w) \/ EndDrain(w) \/ Kill(w)
        PROVE  ClaimingStep
    BY <1>1, <1>a DEF Start, RequestStop, EndDrain, Kill, queueVars
  <1>2. ASSUME NEW w \in Workers, NEW picked \in SUBSET Deliveries, Tick(w, picked)
        PROVE  ClaimingStep
    BY <1>2, ClaimingTick
  <1>3. ASSUME NEW w \in Workers, NEW picked \in SUBSET Deliveries, ClaimRaises(w, picked)
        PROVE  ClaimingStep
    BY <1>3, <1>a, ClaimingWithdraw DEF ClaimRaises, queueVars
  <1>4. ASSUME NEW t \in tasks, Take(t) \/ LoseResult(t) PROVE ClaimingStep
    BY <1>4, <1>a DEF Take, LoseResult, queueVars
  <1>5. ASSUME NEW t \in tasks, NEW verdict \in {"success", "failure"}, Answer(t, verdict)
        PROVE  ClaimingStep
    <2> DEFINE v == [t EXCEPT !.phase = verdict]
    <2>1. v.worker = t.worker /\ v.delivery = t.delivery
      BY DEF ClaimingInv, TypeInv, TypeOK, Task
    <2>2. row' = row /\ tasks' = (tasks \ {t}) \union {v}
      BY <1>5 DEF Answer, queueVars
    <2> HIDE DEF v
    <2>3. holderBar' = holderBar
      BY <2>1, <2>2, HoldersKept
    <2> QED BY <2>2, <2>3, WaitingMap, ClaimingSame
  <1>6. ASSUME NEW t \in tasks, Record(t) PROVE ClaimingStep
    <2>1. tasks' \subseteq tasks
      BY <1>6 DEF Record
    <2> QED BY <1>6, <2>1, RecordedIsNotDue, ClaimingRelease
  <1>7. ASSUME NEW ds \in SUBSET Deliveries, Enqueue(ds) PROVE ClaimingStep
    BY <1>7, <1>b, DueStayDue DEF Enqueue, ClaimingInv
  <1>8. ASSUME NEW ds \in SUBSET Deliveries, NEW include, Requeue(ds, include), UNCHANGED tasks
        PROVE  ClaimingStep
    BY <1>8, <1>b, DueStayDue DEF ClaimingInv
  <1>9. ASSUME Elapse PROVE ClaimingStep
    <2>1. waitingBar \subseteq waitingBar'
      BY <1>9, DueStayDue DEF Elapse, ClaimingInv
    <2>2. \A t \in tasks : /\ [t EXCEPT !.age = @ + 1].worker = t.worker
                           /\ [t EXCEPT !.age = @ + 1].delivery = t.delivery
      BY DEF ClaimingInv, TypeInv, TypeOK, Task
    <2>3. tasks' = {[t EXCEPT !.age = @ + 1] : t \in tasks}
      BY <1>9 DEF Elapse
    <2>4. holderBar' = holderBar
      BY <2>2, <2>3, HoldersKept
    <2> QED BY <2>1, <2>4, ClaimingArrive
  <1>10. CASE UNCHANGED vars
    BY <1>10, <1>a DEF vars
  <1> QED BY <1>1, <1>2, <1>3, <1>4, <1>5, <1>6, <1>7, <1>8, <1>9, <1>10
             DEF Next, RetryRequest, RetryBulk

LEMMA ClaimingInit == Init => Claiming!Init
  <1> SUFFICES ASSUME Init PROVE Claiming!Init
    OBVIOUS
  <1>1. waitingBar \subseteq Deliveries
    BY WaitingMap
  <1>2. \A d : HolderIn(tasks, d) = NoOne
    BY DEF Init, HolderIn
  <1>3. holderBar = [d \in Deliveries |-> NoOne]
    BY <1>2, HolderMap
  <1> QED BY <1>1, <1>3 DEF Claiming!Init

(* The service implements AtomicClaim, the specification that ClaimQuery
   implements too: however attempts end and whatever claims get lost, a claim
   takes due rows of which no attempt is alive, and no more than the worker has
   slots for. *)
THEOREM ClaimsAreAtomic ==
  ASSUME PromptAttempts
  PROVE  Spec => ImplementsAtomicClaim
  <1>1. Spec => []SlotInv
    <2>1. Init => TypeInv /\ SlotInv
      BY TypeInit, SlotInit
    <2>2. TypeInv /\ SlotInv /\ [Next]_vars => (TypeInv /\ SlotInv)'
      BY TypeNext, SlotNext
    <2> QED BY <2>1, <2>2, PTL DEF Spec
  <1>2. ClaimingInv => Unshared
    BY Sharing
  <1>3. Spec => [](ClaimingInv /\ Unshared)
    BY <1>1, <1>2, Lease, PTL DEF ClaimingInv
  <1>4. ClaimingInv /\ Unshared /\ Unshared' /\ [Next]_vars => [Claiming!Next]_(Claiming!vars)
    BY ClaimingNext DEF ClaimingStep
  <1>5. Init => Claiming!Init
    BY ClaimingInit
  <1> QED BY <1>3, <1>4, <1>5, PTL DEF Spec, ImplementsAtomicClaim, Claiming!AtomicSpec
=============================================================================
