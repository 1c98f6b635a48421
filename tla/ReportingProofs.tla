-------------------------- MODULE ReportingProofs --------------------------
(***************************************************************************)
(* Proofs about Reporting: what the reports say of the tables they read,   *)
(* while the queue goes on working, for any deliveries, leads and settings.*)
(***************************************************************************)
EXTENDS Reporting, TLAPS, FiniteSetTheorems

(* A row and the journal of its delivery: no entry that the row has not
   counted, and a success for what is delivered. *)
Counted(r, entries) ==
    /\ \A n \in Numbers : entries[n] # "none" => n <= r.total_attempts
    /\ r.status = "delivered" => \E n \in Numbers : entries[n] = "success"

Journal == [Numbers -> Outcomes]

Claims == [worker : Workers, delivery : Deliveries, number : Numbers, budget : Numbers]

(* A claim whose result is to come is the only one of its number, and nothing
   is known yet of how it ended. *)
ClaimOK(c) ==
    /\ c.number <= row[c.delivery].total_attempts
    /\ journal[c.delivery][c.number] \in {"none", "unknown"}
    /\ \A e \in claims : e.delivery = c.delivery /\ e.number = c.number => e = c

TypeInv == /\ QueueTypeOK
           /\ \A d \in Deliveries : row[d].attempts <= row[d].total_attempts
           /\ leads \subseteq Leads /\ IsFiniteSet(leads)
           /\ age \in [Deliveries -> 0..MaxAge]
           /\ claims \subseteq Claims

TableInv == /\ \A d \in Deliveries : Counted(row[d], journal[d])
            /\ \A c \in claims : ClaimOK(c)

Tables == [row : [Deliveries -> Row], journal : [Deliveries -> Journal]]

Status == [phase : {"idle", "begun", "deliveries", "done"}, lead : Leads \union {NoStatus.lead},
           snapshot : Tables, rows : [Deliveries -> Row], log : [Deliveries -> Journal]]

(* The snapshot agrees with itself, and what has been read is of the snapshot. *)
StatusInv ==
    /\ status \in Status
    /\ status.phase \in {"begun", "deliveries"} =>
          \A d \in Deliveries : Counted(status.snapshot.row[d], status.snapshot.journal[d])
    /\ status.phase = "deliveries" =>
          \A d \in Deliveries : LeadOf[d] = status.lead => status.rows[d] = status.snapshot.row[d]
    /\ status.phase = "done" =>
          \A d \in Deliveries : LeadOf[d] = status.lead => Counted(status.rows[d], status.log[d])
    /\ status.phase \in {"deliveries", "done"} =>
          \A d \in Deliveries : LeadOf[d] # status.lead => status.rows[d] = NoRow
    /\ status.phase = "done" =>
          \A d \in Deliveries : LeadOf[d] # status.lead => status.log[d] = EmptyLog[d]

Reasons == {"no_recipients", "failed", "stalled"}

States == [Deliveries -> {"none", "open", "delivered", "failed"}]

Situations == (SUBSET Leads) \X States

Report == [phase : {"idle", "counted", "done"}, since : 0..MaxReportTime,
           counts : [no_recipients : Nat, failed : Nat, stalled : Nat],
           items : SUBSET (Reasons \X (Leads \union Deliveries)),
           before : Situations \union {<<>>}, after : Situations \union {<<>>}]

(* The counts, as the situation they were made in has them.  Who was over the
   cutoff then can be told from the ages of now. *)
CountsOK(ks, states) ==
    /\ \A d \in Deliveries : states[d] # "none" => row[d].status # "none"
    /\ report.counts.no_recipients =
         Cardinality({k \in ks : \A d \in Deliveries : LeadOf[d] = k => states[d] = "none"})
    /\ report.counts.failed = Cardinality({d \in Deliveries : states[d] = "failed"})
    /\ report.counts.stalled =
         Cardinality({d \in Deliveries : states[d] = "open" /\ age[d] - report.since > StaleAfter})

ReportInv ==
    /\ report \in Report
    /\ report.phase = "counted" =>
          report.before \in Situations /\ CountsOK(report.before[1], report.before[2])
    /\ CutoffShared

----------------------------------------------------------------------------
(* The tables. *)

LEMMA Naturals ==
  /\ RetryMaxAttempts \in Nat /\ RetryMaxAttempts >= 1
  /\ LeaseTime \in Nat /\ LeaseTime >= 1
  /\ MaxDelay \in Nat /\ MaxDelay >= 1
  /\ MaxTotal \in Nat /\ MaxTotal >= 1
  /\ StaleAfter \in Nat /\ StaleAfter >= 1
  /\ MaxReportTime \in Nat /\ MaxAge \in Nat
  BY BudgetAssumption, LeaseAssumption, DelayAssumption, TotalAssumption, ReportAssumption
     DEF BudgetAssumption, LeaseAssumption, DelayAssumption, TotalAssumption, ReportAssumption,
         MaxAge

LEMMA RowFields ==
  ASSUME NEW r \in Row
  PROVE  /\ r.status \in Statuses /\ r.attempts \in Counts /\ r.total_attempts \in Counts
         /\ r.next_in \in Delays /\ r.lease_in \in LeasesLeft
         /\ r.locked_by \in Workers \union {NoOne}
         /\ r.attempts \in Nat /\ r.total_attempts \in Nat
  BY Naturals DEF Row, Counts

LEMMA Zeros == 0 \in Counts /\ 0 \in Delays /\ 0 \in LeasesLeft
  BY Naturals DEF Counts, Delays, LeasesLeft

(* What a writer that leaves the journal and the claims alone may do to a row. *)
SameCounters(r, q) ==
    /\ q \in Row
    /\ q.attempts <= q.total_attempts
    /\ q.total_attempts = r.total_attempts
    /\ q.status = "delivered" => r.status = "delivered"
    /\ q.status = "none" => r.status = "none"

LEMMA QuietWriter ==
  ASSUME TypeInv, TableInv, UNCHANGED <<journal, claims>>,
         row' = [d \in Deliveries |-> row'[d]],
         \A d \in Deliveries : SameCounters(row[d], row'[d])
  PROVE  /\ QueueTypeOK'
         /\ \A d \in Deliveries : row'[d].attempts <= row'[d].total_attempts
         /\ TableInv'
         /\ \A d \in Deliveries : row'[d].status = "none" => row[d].status = "none"
  <1>1. row' \in [Deliveries -> Row]
    BY DEF SameCounters
  <1>2. QueueTypeOK'
    BY <1>1 DEF TypeInv, QueueTypeOK
  <1>3. \A d \in Deliveries : Counted(row'[d], journal'[d])
    BY DEF TableInv, Counted, SameCounters
  <1>4. ASSUME NEW c \in claims PROVE ClaimOK(c)'
    <2>1. c.delivery \in Deliveries /\ ClaimOK(c)
      BY DEF TypeInv, Claims, TableInv
    <2> QED BY <2>1 DEF ClaimOK, SameCounters
  <1> QED BY <1>2, <1>3, <1>4 DEF TableInv, SameCounters

LEMMA InsertWrites ==
  ASSUME TypeInv, TableInv, NEW ds, InsertDeliveries(ds), UNCHANGED claims
  PROVE  /\ QueueTypeOK'
         /\ \A d \in Deliveries : row'[d].attempts <= row'[d].total_attempts
         /\ TableInv'
         /\ \A d \in Deliveries : row'[d].status = "none" => row[d].status = "none"
  <1>1. ASSUME NEW d \in Deliveries PROVE SameCounters(row[d], row'[d])
    <2>1. row[d] \in Row /\ row[d].attempts <= row[d].total_attempts
      BY DEF TypeInv, QueueTypeOK
    <2>2. row'[d] = row[d] \/ row'[d] = [row[d] EXCEPT !.status = "pending"]
      BY DEF InsertDeliveries
    <2> QED BY <2>1, <2>2 DEF SameCounters, Row, Statuses
  <1> QED BY <1>1, QuietWriter DEF InsertDeliveries

LEMMA RequeueWrites ==
  ASSUME TypeInv, TableInv, NEW ds, NEW include, Requeue(ds, include), UNCHANGED claims
  PROVE  /\ QueueTypeOK'
         /\ \A d \in Deliveries : row'[d].attempts <= row'[d].total_attempts
         /\ TableInv'
         /\ \A d \in Deliveries : row'[d].status = "none" => row[d].status = "none"
  <1>1. ASSUME NEW d \in Deliveries PROVE SameCounters(row[d], row'[d])
    <2>1. row[d] \in Row /\ row[d].attempts <= row[d].total_attempts
      BY DEF TypeInv, QueueTypeOK
    <2>2. row'[d] = row[d] \/ row'[d] = RequeuedRow(row[d])
      BY DEF Requeue
    <2>3. RequeuedRow(row[d]) \in Row
      BY <2>1, Zeros DEF RequeuedRow, Row, Statuses
    <2>4. /\ RequeuedRow(row[d]).status = "pending"
          /\ RequeuedRow(row[d]).attempts = 0
          /\ RequeuedRow(row[d]).total_attempts = row[d].total_attempts
      BY <2>1 DEF RequeuedRow, Row
    <2>5. 0 <= row[d].total_attempts
      BY <2>1, RowFields
    <2> QED BY <2>1, <2>2, <2>3, <2>4, <2>5 DEF SameCounters
  <1> QED BY <1>1, QuietWriter DEF Requeue

LEMMA AgeWrites ==
  ASSUME TypeInv, TableInv, AgeRows, UNCHANGED claims
  PROVE  /\ QueueTypeOK'
         /\ \A d \in Deliveries : row'[d].attempts <= row'[d].total_attempts
         /\ TableInv'
         /\ \A d \in Deliveries : row'[d].status = row[d].status
  <1>1. ASSUME NEW d \in Deliveries
        PROVE  SameCounters(row[d], row'[d]) /\ row'[d].status = row[d].status
    <2>1. row[d] \in Row /\ row[d].attempts <= row[d].total_attempts
      BY DEF TypeInv, QueueTypeOK
    <2>2. Sooner(row[d].next_in) \in Delays /\ Sooner(row[d].lease_in) \in LeasesLeft
      BY <2>1, RowFields, Naturals DEF Sooner, Delays, LeasesLeft
    <2>3. row'[d] = [row[d] EXCEPT !.next_in = Sooner(@), !.lease_in = Sooner(@)]
      BY DEF AgeRows
    <2> QED BY <2>1, <2>2, <2>3 DEF SameCounters, Row
  <1> QED BY <1>1, QuietWriter DEF AgeRows

(* A claim: the next number, of which nothing is in the journal, and an entry
   for the attempt that got lost. *)
LEMMA ClaimWrites ==
  ASSUME TypeInv, TableInv, NEW w \in Workers, NEW d \in Deliveries, Claim(w, d)
  PROVE  /\ QueueTypeOK'
         /\ \A x \in Deliveries : row'[x].attempts <= row'[x].total_attempts
         /\ claims' \subseteq Claims
         /\ TableInv'
         /\ \A x \in Deliveries : row'[x].status = "none" => row[x].status = "none"
  <1>c. PICK c : c = Claimed(w, d)
    OBVIOUS
  <1>0. /\ row \in [Deliveries -> Row] /\ journal \in [Deliveries -> Journal]
        /\ \A x \in Deliveries : row[x].attempts <= row[x].total_attempts
        /\ \A x \in Deliveries : Counted(row[x], journal[x])
        /\ claims \subseteq Claims /\ \A e \in claims : ClaimOK(e)
    BY DEF TypeInv, TableInv, QueueTypeOK, Journal
  <1>1. /\ row[d].total_attempts < MaxTotal
        /\ row' = [x \in Deliveries |-> IF x = d THEN ClaimedRow(row[x], w) ELSE row[x]]
        /\ claims' = claims \union {c}
    BY <1>c DEF Claim, ClaimBatch
  <1>2. journal' = [x \in Deliveries |-> [n \in Numbers |->
                     IF x \in Reclaimed({d}) /\ n = row[x].total_attempts /\ journal[x][n] = "none"
                     THEN "unknown" ELSE journal[x][n]]]
    BY DEF Claim, ClaimBatch, RecordLostAttempts
  <1>3. /\ ClaimedRow(row[d], w) \in Row
        /\ ClaimedRow(row[d], w).attempts = row[d].attempts + 1
        /\ ClaimedRow(row[d], w).total_attempts = row[d].total_attempts + 1
        /\ ClaimedRow(row[d], w).status = "in_flight"
    <2>1. row[d].attempts + 1 \in Counts /\ row[d].total_attempts + 1 \in Counts
      BY <1>0, <1>1, RowFields, Naturals DEF Counts
    <2>2. LeaseTime \in LeasesLeft
      BY Naturals DEF LeasesLeft
    <2>3. row[d] \in Row
      BY <1>0
    <2> QED BY <2>1, <2>2, <2>3 DEF ClaimedRow, Row, Statuses
  <1>4. ASSUME NEW x \in Deliveries
        PROVE  /\ row'[x] \in Row /\ row'[x].attempts <= row'[x].total_attempts
               /\ row[x].total_attempts <= row'[x].total_attempts
               /\ row'[x].status = "none" => row[x].status = "none"
               /\ row'[x].status = "delivered" => row[x].status = "delivered"
    <2>1. /\ row[x].attempts \in Nat /\ row[x].total_attempts \in Nat
          /\ row[x].attempts <= row[x].total_attempts /\ row[x] \in Row
      BY <1>0, RowFields
    <2>2. CASE x = d
      <3>1. row'[x] = ClaimedRow(row[d], w)
        BY <1>1, <2>2
      <3> QED BY <1>3, <2>1, <2>2, <3>1
    <2>3. CASE x # d
      <3>1. row'[x] = row[x]
        BY <1>1, <2>3
      <3> QED BY <2>1, <3>1
    <2> QED BY <2>2, <2>3
  <1>5. row' \in [Deliveries -> Row]
    BY <1>1, <1>4
  <1>6. ASSUME NEW x \in Deliveries
        PROVE  /\ journal'[x] \in Journal
               /\ \A n \in Numbers : \/ journal'[x][n] = journal[x][n]
                                     \/ /\ n = row[x].total_attempts
                                        /\ journal[x][n] = "none" /\ journal'[x][n] = "unknown"
    <2>1. journal'[x] = [n \in Numbers |->
                     IF x \in Reclaimed({d}) /\ n = row[x].total_attempts /\ journal[x][n] = "none"
                     THEN "unknown" ELSE journal[x][n]]
      BY <1>2
    <2>2. \A n \in Numbers : journal[x][n] \in Outcomes
      BY <1>0 DEF Journal
    <2> QED BY <2>1, <2>2 DEF Journal, Outcomes
  <1>7. journal' \in [Deliveries -> Journal]
    BY <1>2, <1>6
  <1>8. ASSUME NEW x \in Deliveries PROVE Counted(row'[x], journal'[x])
    <2>1. Counted(row[x], journal[x]) /\ row[x].total_attempts \in Nat /\ row'[x].total_attempts \in Nat
      BY <1>0, <1>4, RowFields
    <2>2. ASSUME NEW n \in Numbers, journal'[x][n] # "none" PROVE n <= row'[x].total_attempts
      <3>1. n <= row[x].total_attempts
        BY <1>6, <2>1, <2>2 DEF Counted
      <3> QED BY <1>4, <2>1, <3>1 DEF Numbers
    <2>3. ASSUME row'[x].status = "delivered" PROVE \E n \in Numbers : journal'[x][n] = "success"
      <3>1. PICK n \in Numbers : journal[x][n] = "success"
        BY <1>4, <2>1, <2>3 DEF Counted
      <3> QED BY <1>6, <3>1
    <2> QED BY <2>2, <2>3 DEF Counted
  <1>9. c \in Claims /\ c.delivery = d /\ c.number = row[d].total_attempts + 1
    <2>1. row[d].attempts + 1 \in Numbers /\ row[d].total_attempts + 1 \in Numbers
      BY <1>0, <1>1, RowFields, Naturals DEF Numbers
    <2> QED BY <1>c, <2>1 DEF Claimed, Claims
  <1>10. ASSUME NEW e \in claims PROVE e.delivery = d => e.number < c.number
    <2>1. e.number <= row[e.delivery].total_attempts /\ e.number \in Numbers /\ e.delivery \in Deliveries
      BY <1>0 DEF ClaimOK, Claims
    <2> QED BY <1>0, <1>9, <2>1, RowFields DEF Numbers
  <1>11. ASSUME NEW e \in claims PROVE ClaimOK(e)'
    <2>1. /\ ClaimOK(e) /\ e.delivery \in Deliveries /\ e.number \in Numbers
      BY <1>0 DEF Claims
    <2>2. e.number <= row'[e.delivery].total_attempts
      <3>1. row[e.delivery].total_attempts \in Nat /\ row'[e.delivery].total_attempts \in Nat
        BY <1>0, <1>4, <2>1, RowFields
      <3> QED BY <1>4, <2>1, <3>1 DEF ClaimOK, Numbers
    <2>3. journal'[e.delivery][e.number] \in {"none", "unknown"}
      BY <1>6, <2>1 DEF ClaimOK
    <2>4. ~(c.delivery = e.delivery /\ c.number = e.number)
      BY <1>9, <1>10, <2>1 DEF Numbers
    <2> QED BY <1>1, <2>1, <2>2, <2>3, <2>4 DEF ClaimOK
  <1>12. ClaimOK(c)'
    <2>1. row'[d].total_attempts = row[d].total_attempts + 1
      BY <1>1, <1>3
    <2>2. row[d].total_attempts \in Nat /\ c.number \in Numbers
      BY <1>0, <1>9, RowFields DEF Claims
    <2>3. journal[d][c.number] = "none"
      <3>1. ~(c.number <= row[d].total_attempts)
        BY <1>9, <2>2
      <3> QED BY <1>0, <2>2, <3>1 DEF Counted
    <2>4. journal'[d][c.number] \in {"none", "unknown"}
      BY <1>6, <2>2, <2>3
    <2>5. \A e \in claims : ~(e.delivery = d /\ e.number = c.number)
      BY <1>0, <1>10, <2>2 DEF Claims, Numbers
    <2>6. c.number <= row'[d].total_attempts
      BY <1>9, <2>1, <2>2
    <2>7. \A e \in claims' : e.delivery = d /\ e.number = c.number => e = c
      BY <1>1, <2>5
    <2> QED BY <1>9, <2>4, <2>6, <2>7 DEF ClaimOK
  <1>13. QueueTypeOK'
    BY <1>5, <1>7 DEF QueueTypeOK, Journal
  <1>14. TableInv'
    <2>1. \A e \in claims' : ClaimOK(e)'
      BY <1>1, <1>11, <1>12
    <2> QED BY <1>8, <2>1 DEF TableInv
  <1>15. claims' \subseteq Claims
    BY <1>0, <1>1, <1>9
  <1> QED BY <1>4, <1>13, <1>14, <1>15

(* A result: it completes the journal where the claim left a place for it. *)
LEMMA RecordWrites ==
  ASSUME TypeInv, TableInv, NEW c \in claims, NEW outcome \in {"success", "failure"},
         Record(c, outcome)
  PROVE  /\ QueueTypeOK'
         /\ \A x \in Deliveries : row'[x].attempts <= row'[x].total_attempts
         /\ TableInv'
         /\ \A x \in Deliveries : row'[x].status = "none" => row[x].status = "none"
  <1>d. PICK d \in Deliveries : d = c.delivery
    BY DEF TypeInv, Claims
  <1>0. /\ row \in [Deliveries -> Row] /\ journal \in [Deliveries -> Journal]
        /\ \A x \in Deliveries : row[x].attempts <= row[x].total_attempts
        /\ \A x \in Deliveries : Counted(row[x], journal[x])
        /\ \A e \in claims : e \in Claims /\ ClaimOK(e)
        /\ c.number \in Numbers
    BY DEF TypeInv, TableInv, QueueTypeOK, Journal, Claims
  <1>1. PICK delay \in 1..MaxDelay :
          row' = [row EXCEPT ![d] =
                    IF outcome = "success" THEN MarkDelivered(@)
                    ELSE MarkFailure(@, c.worker, IsExhausted(c.budget), delay)]
    BY <1>d DEF Record, RecordResult
  <1>2. journal' = [journal EXCEPT ![d] = Journalled(@, c.number, outcome)] /\ claims' = claims \ {c}
    BY <1>d DEF Record, RecordResult
  <1>3. \A x \in Deliveries \ {d} : row'[x] = row[x] /\ journal'[x] = journal[x]
    BY <1>0, <1>1, <1>2
  <1>4. /\ row'[d] \in Row
        /\ row'[d].attempts = row[d].attempts
        /\ row'[d].total_attempts = row[d].total_attempts
        /\ row'[d].status = "none" => row[d].status = "none"
        /\ row'[d].status = "delivered" => row[d].status = "delivered" \/ outcome = "success"
    <2>1. row[d] \in Row /\ delay \in Delays
      BY <1>0, Naturals DEF Delays
    <2>2. CASE outcome = "success"
      <3>1. row'[d] = MarkDelivered(row[d])
        BY <1>0, <1>1, <2>2
      <3> QED BY <2>1, <2>2, <3>1, Zeros DEF MarkDelivered, Row, Statuses
    <2>3. CASE outcome # "success"
      <3>1. PICK b \in BOOLEAN : row'[d] = MarkFailure(row[d], c.worker, b, delay)
        <4>1. row'[d] = MarkFailure(row[d], c.worker, IsExhausted(c.budget), delay)
          BY <1>0, <1>1, <2>3
        <4>2. IsExhausted(c.budget) \in BOOLEAN
          BY DEF IsExhausted
        <4> QED BY <4>1, <4>2
      <3>2. CASE row'[d] = row[d]
        BY <2>1, <3>2 DEF Row
      <3>3. CASE row'[d] = [row[d] EXCEPT !.status = IF b THEN "failed" ELSE "pending",
                                          !.next_in = IF b THEN @ ELSE delay,
                                          !.lease_in = 0,
                                          !.locked_by = NoOne]
        BY <2>1, <3>3, Zeros DEF Row, Statuses
      <3> QED BY <3>1, <3>2, <3>3 DEF MarkFailure
    <2> QED BY <2>2, <2>3
  <1>5. journal'[d] = Journalled(journal[d], c.number, outcome)
    BY <1>0, <1>2
  <1>6. /\ journal[d][c.number] \in {"none", "unknown"} /\ c.number <= row[d].total_attempts
        /\ journal[d] \in Journal
    BY <1>0, <1>d DEF ClaimOK
  <1>7. /\ journal'[d] \in Journal /\ journal'[d][c.number] = outcome
        /\ \A n \in Numbers \ {c.number} : journal'[d][n] = journal[d][n]
    BY <1>0, <1>5, <1>6 DEF Journalled, Journal, Outcomes
  <1>8. ASSUME NEW x \in Deliveries
        PROVE  /\ row'[x] \in Row /\ row'[x].attempts <= row'[x].total_attempts
               /\ row'[x].total_attempts = row[x].total_attempts
               /\ row'[x].status = "none" => row[x].status = "none"
    BY <1>0, <1>3, <1>4
  <1>9. Counted(row'[d], journal'[d])
    <2>1. \A n \in Numbers : journal'[d][n] # "none" => n <= row'[d].total_attempts
      BY <1>0, <1>4, <1>6, <1>7 DEF Counted
    <2>2. ASSUME row'[d].status = "delivered" PROVE \E n \in Numbers : journal'[d][n] = "success"
      <3>1. CASE outcome = "success"
        BY <1>0, <1>7, <3>1
      <3>2. CASE row[d].status = "delivered"
        <4>1. PICK n \in Numbers : journal[d][n] = "success"
          BY <1>0, <3>2 DEF Counted
        <4>2. n # c.number
          BY <1>6, <4>1
        <4> QED BY <1>7, <4>1, <4>2
      <3> QED BY <1>4, <2>2, <3>1, <3>2
    <2> QED BY <2>1, <2>2 DEF Counted
  <1>10. \A x \in Deliveries : Counted(row'[x], journal'[x])
    BY <1>0, <1>3, <1>9
  <1>11. ASSUME NEW e \in claims' PROVE ClaimOK(e)'
    <2>1. e \in claims /\ e # c /\ ClaimOK(e) /\ e.delivery \in Deliveries /\ e.number \in Numbers
      BY <1>0, <1>2 DEF Claims
    <2>2. journal'[e.delivery][e.number] = journal[e.delivery][e.number]
      <3>1. ~(c.delivery = e.delivery /\ c.number = e.number)
        BY <2>1 DEF ClaimOK
      <3> QED BY <1>d, <1>3, <1>7, <2>1, <3>1
    <2>3. row'[e.delivery].total_attempts = row[e.delivery].total_attempts
      BY <1>8, <2>1
    <2> QED BY <1>2, <2>1, <2>2, <2>3 DEF ClaimOK
  <1>12. row' \in [Deliveries -> Row] /\ journal' \in [Deliveries -> Journal]
    BY <1>0, <1>1, <1>2, <1>4, <1>7
  <1>13. TableInv'
    BY <1>10, <1>11 DEF TableInv
  <1> QED BY <1>8, <1>12, <1>13 DEF QueueTypeOK, Journal

LEMMA NoRowType == NoRow \in Row /\ NoRow.attempts <= NoRow.total_attempts
  BY Zeros DEF NoRow, Row, Statuses

LEMMA EmptyLogType == \A d \in Deliveries : EmptyLog[d] \in Journal
  BY DEF EmptyLog, Journal, Outcomes

LEMMA TableInit == Init => TypeInv /\ TableInv
  <1> SUFFICES ASSUME Init PROVE TypeInv /\ TableInv
    OBVIOUS
  <1>1. /\ row = [d \in Deliveries |-> NoRow] /\ leads = {} /\ claims = {}
        /\ journal = EmptyLog /\ age = [d \in Deliveries |-> 0]
    BY DEF Init, QueueInit, EmptyLog
  <1>2. QueueTypeOK /\ \A d \in Deliveries : row[d].attempts <= row[d].total_attempts
    BY <1>1, NoRowType, EmptyLogType DEF QueueTypeOK, EmptyLog, Journal
  <1>3. IsFiniteSet(leads)
    BY <1>1, FS_EmptySet
  <1>4. TypeInv
    BY <1>1, <1>2, <1>3, Naturals DEF TypeInv
  <1>5. \A d \in Deliveries : Counted(row[d], journal[d])
    BY <1>1 DEF Counted, EmptyLog, NoRow
  <1> QED BY <1>1, <1>4, <1>5 DEF TableInv

(* What every step keeps, readers and writers alike. *)
LEMMA TableNext ==
  TypeInv /\ TableInv /\ [Next]_vars =>
    /\ TypeInv' /\ TableInv'
    /\ \A d \in Deliveries : row'[d].status = "none" => row[d].status = "none"
  <1> SUFFICES ASSUME TypeInv, TableInv, [Next]_vars
               PROVE  /\ TypeInv' /\ TableInv'
                      /\ \A d \in Deliveries : row'[d].status = "none" => row[d].status = "none"
    OBVIOUS
  <1> DEFINE Goal == /\ TypeInv' /\ TableInv'
                     /\ \A d \in Deliveries : row'[d].status = "none" => row[d].status = "none"
  <1>1. ASSUME NEW k \in Leads, NEW ds \in SUBSET Deliveries, StoreLead(k, ds) PROVE Goal
    <2>1. leads' \subseteq Leads /\ IsFiniteSet(leads')
      BY <1>1, FS_AddElement DEF StoreLead, TypeInv
    <2> QED BY <1>1, <2>1, InsertWrites DEF StoreLead, TypeInv
  <1>2. ASSUME NEW k \in Leads, NEW ds \in SUBSET Deliveries, Attach(k, ds) PROVE Goal
    BY <1>2, InsertWrites DEF Attach, TypeInv
  <1>3. ASSUME NEW w \in Workers, NEW d \in Deliveries, Claim(w, d) PROVE Goal
    <2>1. UNCHANGED <<leads, age>>
      BY <1>3 DEF Claim
    <2> QED BY <1>3, <2>1, ClaimWrites DEF TypeInv
  <1>4. ASSUME NEW c \in claims, NEW outcome \in {"success", "failure"}, Record(c, outcome)
        PROVE  Goal
    <2>1. UNCHANGED <<leads, age>> /\ claims' \subseteq claims
      BY <1>4 DEF Record
    <2> QED BY <1>4, <2>1, RecordWrites DEF TypeInv
  <1>5. ASSUME UNCHANGED tables, claims' \subseteq claims PROVE Goal
    <2>1. TypeInv' /\ UNCHANGED <<row, journal>>
      BY <1>5 DEF tables, TypeInv, QueueTypeOK
    <2>2. \A c \in claims' : ClaimOK(c)'
      BY <1>5, <2>1 DEF TableInv, ClaimOK
    <2>3. \A d \in Deliveries : Counted(row'[d], journal'[d])
      BY <2>1 DEF TableInv
    <2> QED BY <2>1, <2>2, <2>3 DEF TableInv
  <1>6. ASSUME NEW c \in claims, Lose(c) PROVE Goal
    BY <1>5, <1>6 DEF Lose
  <1>7. ASSUME NEW k \in leads, NEW include \in BOOLEAN, RetryRequest(k, include) PROVE Goal
    BY <1>7, RequeueWrites DEF RetryRequest, TypeInv
  <1>8. ASSUME Elapse PROVE Goal
    <2>1. age' \in [Deliveries -> 0..MaxAge]
      <3>1. \A d \in Deliveries : age[d] \in 0..MaxAge
        BY DEF TypeInv
      <3>2. \A d \in Deliveries : age[d] < MaxAge => age[d] + 1 \in 0..MaxAge
        BY <3>1, Naturals
      <3> QED BY <1>8, <3>1, <3>2 DEF Elapse
    <2>2. AgeRows /\ UNCHANGED <<leads, claims>>
      BY <1>8 DEF Elapse
    <2> QED BY <2>1, <2>2, AgeWrites DEF TypeInv
  <1>9. ASSUME NEW k \in Leads, BeginStatus(k) PROVE Goal
    BY <1>5, <1>9 DEF BeginStatus
  <1>10. CASE ReadDeliveries \/ ReadAttempts \/ CloseStatus \/ ReadCounts \/ ReadPage \/ CloseReport
    BY <1>5, <1>10 DEF ReadDeliveries, ReadAttempts, CloseStatus, ReadCounts, ReadPage, CloseReport
  <1>11. CASE UNCHANGED vars
    BY <1>5, <1>11 DEF vars
  <1> HIDE DEF Goal
  <1> QED BY <1>1, <1>2, <1>3, <1>4, <1>6, <1>7, <1>8, <1>9, <1>10, <1>11 DEF Next, Goal

LEMMA TablesHold == Spec => [](TypeInv /\ TableInv)
  BY TableInit, TableNext, PTL DEF Spec

----------------------------------------------------------------------------
(* The status of a lead. *)

LEMMA NoStatusType == NoStatus \in Status
  <1>1. NoRows \in [Deliveries -> Row]
    BY NoRowType DEF NoRows
  <1>2. EmptyLog \in [Deliveries -> Journal]
    BY EmptyLogType DEF EmptyLog
  <1>3. NoStatus.lead \in Leads \union {NoStatus.lead}
    OBVIOUS
  <1>4. /\ NoStatus = [phase |-> "idle", lead |-> NoStatus.lead,
                       snapshot |-> [row |-> NoRows, journal |-> EmptyLog],
                       rows |-> NoRows, log |-> EmptyLog]
    BY DEF NoStatus
  <1> QED BY <1>1, <1>2, <1>3, <1>4 DEF Status, Tables

LEMMA StatusInit == Init => StatusInv
  BY NoStatusType DEF Init, StatusInv, NoStatus

LEMMA StatusNext ==
  TypeInv /\ TableInv /\ StatusInv /\ [Next]_vars => StatusInv'
  <1> SUFFICES ASSUME TypeInv, TableInv, StatusInv, [Next]_vars PROVE StatusInv'
    OBVIOUS
  <1>0. /\ status \in Status /\ NoStatus \in Status
        /\ row \in [Deliveries -> Row] /\ journal \in [Deliveries -> Journal]
        /\ \A d \in Deliveries : Counted(row[d], journal[d])
    BY NoStatusType DEF TypeInv, TableInv, StatusInv, QueueTypeOK, Journal
  <1>1. ASSUME NEW k \in Leads, BeginStatus(k) PROVE StatusInv'
    <2>1. status' = [NoStatus EXCEPT !.phase = "begun", !.lead = k,
                                     !.snapshot = [row |-> row, journal |-> journal]]
      BY <1>1 DEF BeginStatus
    <2>2. /\ status' \in Status /\ status'.phase = "begun"
          /\ status'.snapshot = [row |-> row, journal |-> journal]
      BY <1>0, <2>1 DEF Status, Tables
    <2>3. \A d \in Deliveries : Counted(status'.snapshot.row[d], status'.snapshot.journal[d])
      BY <1>0, <2>2
    <2> QED BY <2>2, <2>3 DEF StatusInv
  <1>2. CASE ReadDeliveries
    <2> DEFINE read == [d \in Deliveries |-> IF LeadOf[d] = status.lead
                                             THEN status.snapshot.row[d] ELSE NoRow]
    <2>1. status.phase = "begun" /\ status' = [status EXCEPT !.phase = "deliveries", !.rows = read]
      BY <1>2 DEF ReadDeliveries, View
    <2>2. status.snapshot.row \in [Deliveries -> Row]
      BY <1>0 DEF Status, Tables
    <2>3. read \in [Deliveries -> Row]
      BY <2>2, NoRowType
    <2>4. \A d \in Deliveries : read[d] = IF LeadOf[d] = status.lead
                                          THEN status.snapshot.row[d] ELSE NoRow
      OBVIOUS
    <2> HIDE DEF read
    <2>5. /\ status' \in Status /\ status'.phase = "deliveries" /\ status'.rows = read
          /\ status'.lead = status.lead /\ status'.snapshot = status.snapshot
      BY <1>0, <2>1, <2>3 DEF Status
    <2>6. \A d \in Deliveries : Counted(status.snapshot.row[d], status.snapshot.journal[d])
      BY <2>1 DEF StatusInv
    <2> QED BY <2>4, <2>5, <2>6 DEF StatusInv
  <1>3. CASE ReadAttempts
    <2> DEFINE read == [d \in Deliveries |-> IF LeadOf[d] = status.lead
                                             THEN status.snapshot.journal[d] ELSE EmptyLog[d]]
    <2>1. /\ status.phase = "deliveries"
          /\ status' = [status EXCEPT !.phase = "done", !.snapshot = NoStatus.snapshot, !.log = read]
      BY <1>3 DEF ReadAttempts, View
    <2>2. status.snapshot.journal \in [Deliveries -> Journal] /\ NoStatus.snapshot \in Tables
      BY <1>0 DEF Status, Tables
    <2>3. read \in [Deliveries -> Journal]
      BY <2>2, EmptyLogType
    <2>4. \A d \in Deliveries : read[d] = IF LeadOf[d] = status.lead
                                          THEN status.snapshot.journal[d] ELSE EmptyLog[d]
      OBVIOUS
    <2> HIDE DEF read
    <2>5. /\ status' \in Status /\ status'.phase = "done" /\ status'.log = read
          /\ status'.lead = status.lead /\ status'.rows = status.rows
      BY <1>0, <2>1, <2>2, <2>3 DEF Status
    <2>6. /\ \A d \in Deliveries : Counted(status.snapshot.row[d], status.snapshot.journal[d])
          /\ \A d \in Deliveries : LeadOf[d] = status.lead => status.rows[d] = status.snapshot.row[d]
          /\ \A d \in Deliveries : LeadOf[d] # status.lead => status.rows[d] = NoRow
      BY <2>1 DEF StatusInv
    <2>7. \A d \in Deliveries : LeadOf[d] = status.lead => Counted(status.rows[d], read[d])
      BY <2>4, <2>6
    <2> QED BY <2>4, <2>5, <2>6, <2>7 DEF StatusInv
  <1>4. CASE CloseStatus
    <2>1. status' \in Status /\ status'.phase = "idle"
      BY <1>0, <1>4 DEF CloseStatus, NoStatus
    <2> QED BY <2>1 DEF StatusInv
  <1>5. ASSUME UNCHANGED status PROVE StatusInv'
    BY <1>5 DEF StatusInv
  <1>6. ASSUME NEW k \in Leads, NEW ds, StoreLead(k, ds) \/ Attach(k, ds) PROVE StatusInv'
    BY <1>5, <1>6 DEF StoreLead, Attach
  <1>7. ASSUME NEW w, NEW d, Claim(w, d) PROVE StatusInv'
    BY <1>5, <1>7 DEF Claim
  <1>8. ASSUME NEW c, NEW outcome, Lose(c) \/ Record(c, outcome) PROVE StatusInv'
    BY <1>5, <1>8 DEF Lose, Record
  <1>9. ASSUME NEW k, NEW include, RetryRequest(k, include) PROVE StatusInv'
    BY <1>5, <1>9 DEF RetryRequest
  <1>10. CASE Elapse \/ ReadCounts \/ ReadPage \/ CloseReport \/ UNCHANGED vars
    BY <1>5, <1>10 DEF Elapse, ReadCounts, ReadPage, CloseReport, vars
  <1> QED BY <1>1, <1>2, <1>3, <1>4, <1>6, <1>7, <1>8, <1>9, <1>10 DEF Next

LEMMA StatusImplies == StatusInv => StatusConsistent
  <1> SUFFICES ASSUME StatusInv, status.phase = "done", NEW d \in Deliveries
               PROVE  Counted(status.rows[d], status.log[d])
    BY DEF StatusConsistent, Counted
  <1>1. CASE LeadOf[d] = status.lead
    BY <1>1 DEF StatusInv
  <1>2. CASE LeadOf[d] # status.lead
    BY <1>2 DEF StatusInv, Counted, EmptyLog, NoRow
  <1> QED BY <1>1, <1>2

(* "Without one snapshot the journal could show an attempt that the delivery
   row does not reflect yet" (get_request_status): it never does, and what is
   shown as delivered shows its success, however many results are recorded
   between the three statements. *)
THEOREM StatusIsConsistent == Spec => []StatusConsistent
  BY TablesHold, StatusInit, StatusNext, StatusImplies, PTL DEF Spec

----------------------------------------------------------------------------
(* The problem report. *)

LEMMA DeliverySets ==
  ASSUME NEW S, S \subseteq Deliveries
  PROVE  IsFiniteSet(S) /\ Cardinality(S) \in Nat
  BY DeliveriesAssumption, FS_Subset, FS_CardinalityType DEF DeliveriesAssumption

LEMMA LeadSets ==
  ASSUME TypeInv, NEW S, S \subseteq leads
  PROVE  IsFiniteSet(S) /\ Cardinality(S) \in Nat
  BY FS_Subset, FS_CardinalityType DEF TypeInv

(* Who is where, of Situation. *)
StateOf == [d \in Deliveries |-> IF row[d].status \in Open THEN "open" ELSE row[d].status]

LEMMA SituationFacts ==
  ASSUME TypeInv
  PROVE  /\ Situation = <<leads, StateOf>> /\ StateOf \in States /\ Situation \in Situations
         /\ \A d \in Deliveries :
              /\ StateOf[d] = "none" <=> row[d].status = "none"
              /\ StateOf[d] = "failed" <=> row[d].status = "failed"
              /\ StateOf[d] = "open" <=> row[d].status \in Open
  <1>1. ASSUME NEW d \in Deliveries
        PROVE  /\ StateOf[d] \in {"none", "open", "delivered", "failed"}
               /\ StateOf[d] = "none" <=> row[d].status = "none"
               /\ StateOf[d] = "failed" <=> row[d].status = "failed"
               /\ StateOf[d] = "open" <=> row[d].status \in Open
    <2>1. row[d].status \in Statuses
      BY RowFields DEF TypeInv, QueueTypeOK
    <2>2. StateOf[d] = IF row[d].status \in Open THEN "open" ELSE row[d].status
      BY DEF StateOf
    <2> QED BY <2>1, <2>2 DEF Statuses, Open
  <1>2. StateOf \in States
    <2>1. StateOf = [d \in Deliveries |-> StateOf[d]]
      BY DEF StateOf
    <2> QED BY <1>1, <2>1 DEF States
  <1>3. Situation = <<leads, StateOf>>
    BY DEF Situation, StateOf
  <1> QED BY <1>1, <1>2, <1>3 DEF Situations, TypeInv

(* The sets that the counts are of, by situation. *)
Alone(ks, states) == {k \in ks : \A d \in Deliveries : LeadOf[d] = k => states[d] = "none"}
GivenUp(states) == {d \in Deliveries : states[d] = "failed"}
OverCutoff(states, since) == {d \in Deliveries : states[d] = "open" /\ age[d] - since > StaleAfter}

LEMMA ProblemSets ==
  ASSUME TypeInv
  PROVE  /\ NoRecipients = Alone(leads, StateOf)
         /\ Failed = GivenUp(StateOf)
         /\ \A since : Stalled(since) = OverCutoff(StateOf, since)
         /\ NoRecipients \subseteq leads /\ Failed \subseteq Deliveries
         /\ \A since : Stalled(since) \subseteq Deliveries
  BY SituationFacts DEF NoRecipients, Stored, Alone, Failed, GivenUp, Stalled, OverCutoff

LEMMA CountsAre ==
  ASSUME NEW ks, NEW states
  PROVE  CountsOK(ks, states) <=>
           /\ \A d \in Deliveries : states[d] # "none" => row[d].status # "none"
           /\ report.counts.no_recipients = Cardinality(Alone(ks, states))
           /\ report.counts.failed = Cardinality(GivenUp(states))
           /\ report.counts.stalled = Cardinality(OverCutoff(states, report.since))
  BY DEF CountsOK, Alone, GivenUp, OverCutoff

LEMMA ReportFields ==
  ASSUME NEW r \in Report
  PROVE  /\ r.phase \in {"idle", "counted", "done"} /\ r.since \in 0..MaxReportTime
         /\ r.counts \in [no_recipients : Nat, failed : Nat, stalled : Nat]
         /\ r.items \subseteq Reasons \X (Leads \union Deliveries)
         /\ r.before \in Situations \union {<<>>} /\ r.after \in Situations \union {<<>>}
  BY DEF Report

LEMMA NoReportType == NoReport \in Report
  BY Naturals DEF NoReport, Report

LEMMA ReportInit == Init => ReportInv
  BY NoReportType DEF Init, ReportInv, NoReport, CutoffShared

(* The counts, just made. *)
LEMMA ReportCounts ==
  ASSUME TypeInv, ReportInv, ReadCounts
  PROVE  ReportInv'
  <1>1. /\ report' = [NoReport EXCEPT !.phase = "counted", !.counts = ProblemCounts,
                                      !.before = Situation]
        /\ UNCHANGED <<row, age>>
    BY DEF ReadCounts, tables
  <1>2. ProblemCounts \in [no_recipients : Nat, failed : Nat, stalled : Nat]
    <2>1. /\ Cardinality(NoRecipients) \in Nat /\ Cardinality(Failed) \in Nat
          /\ Cardinality(Stalled(0)) \in Nat
      BY ProblemSets, LeadSets, DeliverySets
    <2> QED BY <2>1 DEF ProblemCounts
  <1>3. /\ report' \in Report /\ report'.phase = "counted" /\ report'.since = 0
        /\ report'.counts = ProblemCounts /\ report'.before = Situation
    BY <1>1, <1>2, NoReportType, SituationFacts DEF Report, NoReport
  <1>4. PICK ks, states : ks = leads /\ states = StateOf
    OBVIOUS
  <1>5. /\ report'.before[1] = ks /\ report'.before[2] = states
        /\ \A d \in Deliveries : states[d] # "none" => row[d].status # "none"
    BY <1>3, <1>4, SituationFacts
  <1>6. /\ ProblemCounts.no_recipients = Cardinality(Alone(ks, states))
        /\ ProblemCounts.failed = Cardinality(GivenUp(states))
        /\ ProblemCounts.stalled = Cardinality(OverCutoff(states, 0))
    BY <1>4, ProblemSets DEF ProblemCounts
  <1>7. OverCutoff(states, 0)' = OverCutoff(states, 0)
    BY <1>1 DEF OverCutoff
  <1>8. CountsOK(ks, states)'
    <2>1. Alone(ks, states)' = Alone(ks, states) /\ GivenUp(states)' = GivenUp(states)
      BY DEF Alone, GivenUp
    <2> QED BY <1>1, <1>3, <1>5, <1>6, <1>7, <2>1 DEF CountsOK, Alone, GivenUp, OverCutoff
  <1>9. CountsOK(report.before[1], report.before[2])'
    BY <1>5, <1>8 DEF CountsOK
  <1> QED BY <1>3, <1>9, SituationFacts DEF ReportInv, CutoffShared

(* Who was over the cutoff when now() was taken still is, and nobody else:
   an age that has reached its bound has passed the cutoff for good. *)
LEMMA CutoffMoves ==
  ASSUME TypeInv, Elapse, NEW since \in 0..MaxReportTime, since < MaxReportTime,
         NEW d \in Deliveries, row[d].status # "none"
  PROVE  age[d] - since > StaleAfter <=> age'[d] - (since + 1) > StaleAfter
  <1>1. age[d] \in 0..MaxAge /\ MaxAge = StaleAfter + 1 + MaxReportTime
    BY DEF TypeInv, MaxAge
  <1>2. age'[d] = IF age[d] < MaxAge THEN age[d] + 1 ELSE age[d]
    BY DEF Elapse
  <1> QED BY <1>1, <1>2, Naturals

(* What may happen to counts once made. *)
LEMMA CountsKept ==
  ASSUME ReportInv, report.phase = "counted", report' \in Report, report'.phase = "counted",
         report'.before = report.before, report'.counts = report.counts,
         \A d \in Deliveries : row'[d].status = "none" => row[d].status = "none",
         \A d \in Deliveries : row[d].status # "none" =>
            (age[d] - report.since > StaleAfter <=> age'[d] - report'.since > StaleAfter)
  PROVE  ReportInv'
  <1>1. PICK ks, states : ks = report.before[1] /\ states = report.before[2]
    OBVIOUS
  <1>2. CountsOK(ks, states) /\ report.before \in Situations
    BY <1>1 DEF ReportInv
  <1>3. \A d \in Deliveries : states[d] # "none" => row[d].status # "none" /\ row'[d].status # "none"
    BY <1>2 DEF CountsOK
  <1>4. {d \in Deliveries : states[d] = "open" /\ age[d] - report.since > StaleAfter}
          = {d \in Deliveries : states[d] = "open" /\ age'[d] - report'.since > StaleAfter}
    BY <1>3
  <1>5. CountsOK(ks, states)'
    BY <1>2, <1>3, <1>4 DEF CountsOK
  <1>6. CountsOK(report.before[1], report.before[2])'
    BY <1>1, <1>5 DEF CountsOK
  <1> QED BY <1>2, <1>6 DEF ReportInv, CutoffShared

(* The rows of a list that are there for one reason. *)
LEMMA OfReason ==
  ASSUME NEW reason, NEW S, IsFiniteSet(S)
  PROVE  Cardinality({reason} \X S) = Cardinality(S)
  <1>1. IsFiniteSet({reason}) /\ Cardinality({reason}) = 1
    BY FS_Singleton
  <1>2. Cardinality({reason} \X S) = 1 * Cardinality(S)
    BY <1>1, FS_Product
  <1> QED BY <1>2, FS_CardinalityType

LEMMA ProblemsByReason ==
  ASSUME TypeInv, NEW since
  PROVE  /\ {i \in Problems(since) : i[1] = "no_recipients"} = {"no_recipients"} \X NoRecipients
         /\ {i \in Problems(since) : i[1] = "failed"} = {"failed"} \X Failed
         /\ {i \in Problems(since) : i[1] = "stalled"} = {"stalled"} \X Stalled(since)
         /\ Problems(since) \subseteq Reasons \X (Leads \union Deliveries)
  <1>1. /\ \A i \in {"no_recipients"} \X NoRecipients : i[1] = "no_recipients"
        /\ \A i \in {"failed"} \X Failed : i[1] = "failed"
        /\ \A i \in {"stalled"} \X Stalled(since) : i[1] = "stalled"
    OBVIOUS
  <1>2. /\ NoRecipients \subseteq Leads /\ Failed \subseteq Deliveries
        /\ Stalled(since) \subseteq Deliveries
    BY ProblemSets DEF TypeInv
  <1>3. Problems(since) \subseteq Reasons \X (Leads \union Deliveries)
    BY <1>2 DEF Problems, Reasons
  <1>4. Problems(since) = ({"no_recipients"} \X NoRecipients)
                            \union ({"failed"} \X Failed) \union ({"stalled"} \X Stalled(since))
    BY DEF Problems
  <1> QED BY <1>1, <1>3, <1>4

LEMMA ReportPage ==
  ASSUME TypeInv, ReportInv, ReadPage
  PROVE  ReportInv'
  <1>1. /\ report.phase = "counted"
        /\ report' = [report EXCEPT !.phase = "done", !.since = 0,
                                    !.items = Problems(report.since), !.after = Situation]
    BY DEF ReadPage, Listed
  <1>2. /\ report' \in Report /\ report'.phase = "done" /\ report'.before = report.before
        /\ report'.counts = report.counts /\ report'.items = Problems(report.since)
        /\ report'.after = Situation
    <2>1. PICK items : items = Problems(report.since)
      OBVIOUS
    <2>2. PICK after : after = Situation
      OBVIOUS
    <2>3. /\ items \subseteq Reasons \X (Leads \union Deliveries) /\ after \in Situations
          /\ 0 \in 0..MaxReportTime /\ report \in Report
      BY <2>1, <2>2, ProblemsByReason, SituationFacts, Naturals DEF ReportInv
    <2>4. report' = [report EXCEPT !.phase = "done", !.since = 0, !.items = items, !.after = after]
      BY <1>1, <2>1, <2>2
    <2>5. /\ report' \in Report /\ report'.phase = "done" /\ report'.before = report.before
          /\ report'.counts = report.counts /\ report'.items = items /\ report'.after = after
      BY <2>3, <2>4 DEF Report
    <2> QED BY <2>1, <2>2, <2>5
  <1>3. ASSUME report.before = Situation, NEW reason \in DOMAIN report.counts
        PROVE  report.counts[reason] = Cardinality({i \in Problems(report.since) : i[1] = reason})
    <2>1. CountsOK(leads, StateOf)
      BY <1>1, <1>3, SituationFacts DEF ReportInv
    <2>2. /\ report.counts.no_recipients = Cardinality(NoRecipients)
          /\ report.counts.failed = Cardinality(Failed)
          /\ report.counts.stalled = Cardinality(Stalled(report.since))
      BY <2>1, CountsAre, ProblemSets
    <2>3. IsFiniteSet(NoRecipients) /\ IsFiniteSet(Failed) /\ IsFiniteSet(Stalled(report.since))
      BY ProblemSets, LeadSets, DeliverySets
    <2>4. reason \in Reasons
      <3>1. report.counts \in [no_recipients : Nat, failed : Nat, stalled : Nat]
        BY ReportFields DEF ReportInv
      <3> QED BY <1>3, <3>1 DEF Reasons
    <2>5. CASE reason = "no_recipients"
      <3>1. {i \in Problems(report.since) : i[1] = "no_recipients"} = {"no_recipients"} \X NoRecipients
        BY ProblemsByReason
      <3>2. Cardinality({"no_recipients"} \X NoRecipients) = Cardinality(NoRecipients)
        BY <2>3, OfReason
      <3> QED BY <2>2, <2>5, <3>1, <3>2
    <2>6. CASE reason = "failed"
      <3>1. {i \in Problems(report.since) : i[1] = "failed"} = {"failed"} \X Failed
        BY ProblemsByReason
      <3>2. Cardinality({"failed"} \X Failed) = Cardinality(Failed)
        BY <2>3, OfReason
      <3> QED BY <2>2, <2>6, <3>1, <3>2
    <2>7. CASE reason = "stalled"
      <3>1. {i \in Problems(report.since) : i[1] = "stalled"} = {"stalled"} \X Stalled(report.since)
        BY ProblemsByReason
      <3>2. Cardinality({"stalled"} \X Stalled(report.since)) = Cardinality(Stalled(report.since))
        BY <2>3, OfReason
      <3> QED BY <2>2, <2>7, <3>1, <3>2
    <2> QED BY <2>4, <2>5, <2>6, <2>7 DEF Reasons
  <1>4. CutoffShared'
    BY <1>2, <1>3 DEF CutoffShared
  <1> QED BY <1>2, <1>4 DEF ReportInv

LEMMA ReportNext ==
  TypeInv /\ TableInv /\ ReportInv /\ [Next]_vars => ReportInv'
  <1> SUFFICES ASSUME TypeInv, TableInv, ReportInv, [Next]_vars PROVE ReportInv'
    OBVIOUS
  <1>0. /\ report \in Report
        /\ \A d \in Deliveries : row'[d].status = "none" => row[d].status = "none"
    BY TableNext DEF ReportInv
  <1>1. ASSUME UNCHANGED <<report, age>> PROVE ReportInv'
    <2>1. CASE report.phase = "counted"
      BY <1>0, <1>1, <2>1, CountsKept
    <2>2. CASE report.phase # "counted"
      BY <1>1, <2>2 DEF ReportInv, CutoffShared
    <2> QED BY <2>1, <2>2
  <1>2. CASE Elapse
    <2>1. CASE report.phase = "counted"
      <3>1. /\ report.since \in 0..MaxReportTime /\ report.since < MaxReportTime
            /\ report' = [report EXCEPT !.since = report.since + 1]
        BY <1>0, <1>2, <2>1, ReportFields DEF Elapse
      <3>2. report.since + 1 \in 0..MaxReportTime
        BY <3>1, Naturals
      <3>3. /\ report' \in Report /\ report'.since = report.since + 1
            /\ report'.phase = "counted" /\ report'.before = report.before
            /\ report'.counts = report.counts
        BY <1>0, <2>1, <3>1, <3>2 DEF Report
      <3> QED BY <1>0, <1>2, <2>1, <3>1, <3>3, CutoffMoves, CountsKept
    <2>2. CASE report.phase # "counted"
      <3>1. report' = report
        BY <1>0, <1>2, <2>2 DEF Elapse, Report
      <3> QED BY <2>2, <3>1 DEF ReportInv, CutoffShared
    <2> QED BY <2>1, <2>2
  <1>3. CASE CloseReport
    BY <1>3, NoReportType DEF CloseReport, ReportInv, CutoffShared, NoReport
  <1>4. ASSUME NEW k, NEW ds, StoreLead(k, ds) \/ Attach(k, ds) PROVE ReportInv'
    BY <1>1, <1>4 DEF StoreLead, Attach
  <1>5. ASSUME NEW w, NEW d, Claim(w, d) PROVE ReportInv'
    BY <1>1, <1>5 DEF Claim
  <1>6. ASSUME NEW c, NEW outcome, Lose(c) \/ Record(c, outcome) PROVE ReportInv'
    BY <1>1, <1>6 DEF Lose, Record, tables
  <1>7. ASSUME NEW k, NEW include, RetryRequest(k, include) PROVE ReportInv'
    BY <1>1, <1>7 DEF RetryRequest
  <1>8. ASSUME NEW k, BeginStatus(k) PROVE ReportInv'
    BY <1>1, <1>8 DEF BeginStatus, tables
  <1>9. CASE ReadDeliveries \/ ReadAttempts \/ CloseStatus \/ UNCHANGED vars
    BY <1>1, <1>9 DEF ReadDeliveries, ReadAttempts, CloseStatus, vars, tables
  <1> QED BY <1>2, <1>3, <1>4, <1>5, <1>6, <1>7, <1>8, <1>9, ReportCounts, ReportPage DEF Next

LEMMA ReportHolds == Spec => []ReportInv
  BY TablesHold, ReportInit, ReportNext, PTL DEF Spec

(* The counts and the list of a problem report agree although time passes
   between the two statements, unless something is committed there: both use
   the one now() of their transaction (get_problems). *)
THEOREM CutoffIsShared == Spec => []CutoffShared
  <1>1. ReportInv => CutoffShared
    BY DEF ReportInv
  <1> QED BY <1>1, ReportHolds, PTL

----------------------------------------------------------------------------
(* The reports agree with each other. *)

LEMMA StoredFacts ==
  ASSUME TypeInv, NEW k
  PROVE  /\ Stored(k) \subseteq Deliveries
         /\ \A d \in Stored(k) : row[d].status \in {"pending", "in_flight", "delivered", "failed"}
  BY RowFields DEF Stored, TypeInv, QueueTypeOK, Statuses

(* _request_state, recipient by recipient. *)
LEMMA StateMeans ==
  ASSUME TypeInv, NEW k, NEW state, state = RequestState({row[d].status : d \in Stored(k)})
  PROVE  /\ state = "no_recipients" <=> Stored(k) = {}
         /\ state = "in_progress" <=> \E d \in Stored(k) : row[d].status \in Open
         /\ state = "delivered" <=>
               Stored(k) # {} /\ \A d \in Stored(k) : row[d].status = "delivered"
         /\ state \in {"failed", "partially_delivered"} =>
               /\ \A d \in Stored(k) : row[d].status \notin Open
               /\ \E d \in Stored(k) : row[d].status = "failed"
  <1>s. PICK S : S = {row[d].status : d \in Stored(k)}
    OBVIOUS
  <1>1. S \subseteq {"pending", "in_flight", "delivered", "failed"}
    BY <1>s, StoredFacts
  <1>2. state = CASE S = {} -> "no_recipients"
                  [] S \cap Open # {} -> "in_progress"
                  [] S = {"delivered"} -> "delivered"
                  [] S = {"failed"} -> "failed"
                  [] OTHER -> "partially_delivered"
    BY <1>s DEF RequestState
  <1>3. /\ S = {} => state = "no_recipients"
        /\ S \cap Open # {} => state = "in_progress"
        /\ S = {"delivered"} => state = "delivered"
        /\ S = {"failed"} => state = "failed"
        /\ S # {} /\ S \cap Open = {} /\ S # {"delivered"} /\ S # {"failed"} =>
              state = "partially_delivered"
    BY <1>2 DEF Open
  <1>4. /\ state = "no_recipients" <=> S = {}
        /\ state = "in_progress" <=> S \cap Open # {}
        /\ state = "delivered" <=> S = {"delivered"}
        /\ state \in {"failed", "partially_delivered"} => S \cap Open = {} /\ "failed" \in S
    BY <1>1, <1>3 DEF Open
  <1>5. /\ S = {} <=> Stored(k) = {}
        /\ S \cap Open # {} <=> \E d \in Stored(k) : row[d].status \in Open
        /\ S = {"delivered"} <=> Stored(k) # {} /\ \A d \in Stored(k) : row[d].status = "delivered"
        /\ "failed" \in S <=> \E d \in Stored(k) : row[d].status = "failed"
    BY <1>s
  <1> QED BY <1>4, <1>5

(* The reasons that the list gives for a lead. *)
LEMMA ReasonsMean ==
  ASSUME TypeInv, NEW k \in leads, NEW reasons,
         reasons = {i[1] : i \in Problems(0) \cap About(k)}
  PROVE  /\ reasons \subseteq Reasons
         /\ "no_recipients" \in reasons <=> Stored(k) = {}
         /\ "failed" \in reasons <=> \E d \in Stored(k) : row[d].status = "failed"
         /\ "stalled" \in reasons <=>
               \E d \in Stored(k) : row[d].status \in Open /\ age[d] > StaleAfter
  <1>1. \A reason, x : <<reason, x>> \in Problems(0) \cap About(k) <=>
           \/ reason = "no_recipients" /\ x = k /\ x \in NoRecipients
           \/ reason = "failed" /\ x \in Stored(k) /\ x \in Failed
           \/ reason = "stalled" /\ x \in Stored(k) /\ x \in Stalled(0)
    BY DEF Problems, About
  <1>2. \A i \in Problems(0) \cap About(k) : i = <<i[1], i[2]>>
    BY DEF About
  <1>3. \A reason : reason \in reasons <=> \E x : <<reason, x>> \in Problems(0) \cap About(k)
    <2>1. \A reason : reason \in reasons <=> \E i \in Problems(0) \cap About(k) : i[1] = reason
      OBVIOUS
    <2>2. ASSUME NEW reason, NEW i \in Problems(0) \cap About(k), i[1] = reason
          PROVE  <<reason, i[2]>> \in Problems(0) \cap About(k)
      BY <1>2, <2>2
    <2>3. \A reason, x : <<reason, x>>[1] = reason
      OBVIOUS
    <2> QED BY <2>1, <2>2, <2>3
  <1>4. k \in NoRecipients <=> Stored(k) = {}
    BY DEF NoRecipients
  <1>5. \A d \in Stored(k) : d \in Failed <=> row[d].status = "failed"
    BY DEF Failed, Stored
  <1>6. \A d \in Stored(k) : d \in Stalled(0) <=> row[d].status \in Open /\ age[d] > StaleAfter
    <2>1. \A d \in Deliveries : age[d] \in Nat /\ age[d] - 0 = age[d]
      BY Naturals DEF TypeInv
    <2> QED BY <2>1 DEF Stalled, Stored
  <1> QED BY <1>1, <1>3, <1>4, <1>5, <1>6 DEF Reasons

(* Every lead whose deliveries are all older than the cutoff is delivered to
   all its recipients or has a problem in the list, and the list says of a
   lead what its status says. *)
THEOREM NobodyIsOverlooked == Spec => []NobodyOverlooked
  <1>1. TypeInv => NobodyOverlooked
    <2> SUFFICES ASSUME TypeInv, NEW k \in leads, NEW state, NEW reasons,
                        state = RequestState({row[d].status : d \in Stored(k)}),
                        reasons = {i[1] : i \in Problems(0) \cap About(k)}
                 PROVE  /\ state = "no_recipients" <=> "no_recipients" \in reasons
                        /\ state = "delivered" => reasons = {}
                        /\ state \in {"failed", "partially_delivered"} => reasons = {"failed"}
                        /\ state = "in_progress" /\ (\A d \in Stored(k) : age[d] > StaleAfter)
                           => "stalled" \in reasons
      BY DEF NobodyOverlooked
    <2>1. /\ state = "no_recipients" <=> Stored(k) = {}
          /\ state = "in_progress" <=> \E d \in Stored(k) : row[d].status \in Open
          /\ state = "delivered" <=>
                Stored(k) # {} /\ \A d \in Stored(k) : row[d].status = "delivered"
          /\ state \in {"failed", "partially_delivered"} =>
                /\ \A d \in Stored(k) : row[d].status \notin Open
                /\ \E d \in Stored(k) : row[d].status = "failed"
      BY StateMeans
    <2>2. /\ reasons \subseteq Reasons
          /\ "no_recipients" \in reasons <=> Stored(k) = {}
          /\ "failed" \in reasons <=> \E d \in Stored(k) : row[d].status = "failed"
          /\ "stalled" \in reasons <=>
                \E d \in Stored(k) : row[d].status \in Open /\ age[d] > StaleAfter
      BY ReasonsMean
    <2>3. state = "delivered" => reasons = {}
      BY <2>1, <2>2 DEF Reasons, Open
    <2>4. state \in {"failed", "partially_delivered"} => reasons = {"failed"}
      BY <2>1, <2>2 DEF Reasons
    <2> QED BY <2>1, <2>2, <2>3, <2>4
  <1> QED BY <1>1, TablesHold, PTL

(* The counters of a cohort of leads agree with the other two reports: they
   split its deliveries, its leads without recipients and its failures are the
   ones the problem list names, and it is all delivered exactly if the status
   of each of its leads says so (get_stats). *)
THEOREM StatsAlwaysAddUp == Spec => []StatsAddUp
  <1>1. TypeInv => StatsAddUp
    <2> SUFFICES ASSUME TypeInv, NEW cohort \in SUBSET leads, NEW s, s = Stats(cohort)
                 PROVE  /\ s.total = s.delivered + s.queued + s.failed
                        /\ s.without_recipients = Cardinality(cohort \cap NoRecipients)
                        /\ s.failed = Cardinality(Failed \cap UNION {Stored(k) : k \in cohort})
                        /\ (s.delivered = s.total /\ s.without_recipients = 0) <=>
                              \A k \in cohort :
                                 RequestState({row[d].status : d \in Stored(k)}) = "delivered"
      BY DEF StatsAddUp
    <2>s. PICK sent : sent = UNION {Stored(k) : k \in cohort}
      OBVIOUS
    <2> DEFINE delivered == {d \in sent : row[d].status \in {"delivered"}}
               queued == {d \in sent : row[d].status \in Open}
               failed == {d \in sent : row[d].status \in {"failed"}}
               alone == {k \in cohort : Stored(k) = {}}
    <2>1. /\ s.total = Cardinality(sent) /\ s.without_recipients = Cardinality(alone)
          /\ s.delivered = Cardinality(delivered) /\ s.queued = Cardinality(queued)
          /\ s.failed = Cardinality(failed)
      BY <2>s DEF Stats, Queued
    <2>2. /\ sent \subseteq Deliveries
          /\ \A d \in sent : row[d].status \in {"pending", "in_flight", "delivered", "failed"}
          /\ \A d : d \in sent <=> \E k \in cohort : d \in Stored(k)
      BY <2>s, StoredFacts
    <2>3. /\ IsFiniteSet(sent) /\ IsFiniteSet(delivered) /\ IsFiniteSet(queued)
          /\ IsFiniteSet(failed) /\ IsFiniteSet(alone) /\ IsFiniteSet(delivered \union queued)
          /\ Cardinality(delivered) \in Nat /\ Cardinality(queued) \in Nat
          /\ Cardinality(failed) \in Nat /\ Cardinality(alone) \in Nat
      <3>1. /\ delivered \subseteq Deliveries /\ queued \subseteq Deliveries
            /\ failed \subseteq Deliveries /\ delivered \union queued \subseteq Deliveries
        BY <2>2
      <3>2. alone \subseteq leads
        OBVIOUS
      <3> HIDE DEF delivered, queued, failed, alone
      <3> QED BY <2>2, <3>1, <3>2, DeliverySets, LeadSets
    <2>4. Cardinality(sent) = Cardinality(delivered) + Cardinality(queued) + Cardinality(failed)
      <3>1. /\ delivered \intersect queued = {}
            /\ (delivered \union queued) \intersect failed = {}
            /\ sent = (delivered \union queued) \union failed
        BY <2>2 DEF Open
      <3> HIDE DEF delivered, queued, failed
      <3>2. Cardinality(delivered \union queued) = Cardinality(delivered) + Cardinality(queued)
        BY <2>3, <3>1, FS_Union, FS_EmptySet
      <3>3. Cardinality(sent) = Cardinality(delivered \union queued) + Cardinality(failed)
        <4>1. /\ Cardinality(sent) = Cardinality(delivered \union queued) + Cardinality(failed)
                    - Cardinality((delivered \union queued) \intersect failed)
              /\ Cardinality({}) = 0 /\ Cardinality(delivered \union queued) \in Nat
          BY <2>3, <3>1, FS_Union, FS_EmptySet, FS_CardinalityType
        <4>2. Cardinality((delivered \union queued) \intersect failed) = 0
          BY <3>1, <4>1
        <4>3. Cardinality(delivered \union queued) \in Nat /\ Cardinality(failed) \in Nat
          BY <2>3, <4>1
        <4> QED BY <4>1, <4>2, <4>3
      <3> QED BY <3>2, <3>3
    <2>5. alone = cohort \cap NoRecipients
      BY DEF NoRecipients
    <2>6. failed = Failed \cap sent
      BY <2>2 DEF Failed
    <2>7. Cardinality(delivered) = Cardinality(sent) <=>
             \A k \in cohort : \A d \in Stored(k) : row[d].status = "delivered"
      <3>1. Cardinality(delivered) = Cardinality(sent) <=> delivered = sent
        <4>1. delivered \in SUBSET sent
          OBVIOUS
        <4> HIDE DEF delivered
        <4> QED BY <2>3, <4>1, FS_Subset
      <3>2. delivered = sent <=> \A d \in sent : row[d].status = "delivered"
        OBVIOUS
      <3> HIDE DEF delivered
      <3> QED BY <2>2, <3>1, <3>2
    <2>8. Cardinality(alone) = 0 <=> \A k \in cohort : Stored(k) # {}
      <3>1. Cardinality(alone) = 0 <=> alone = {}
        <4> HIDE DEF alone
        <4> QED BY <2>3, FS_EmptySet
      <3> QED BY <3>1
    <2>9. \A k : RequestState({row[d].status : d \in Stored(k)}) = "delivered" <=>
             Stored(k) # {} /\ \A d \in Stored(k) : row[d].status = "delivered"
      BY StateMeans
    <2> HIDE DEF delivered, queued, failed, alone
    <2>10. (s.delivered = s.total /\ s.without_recipients = 0) <=>
              \A k \in cohort : RequestState({row[d].status : d \in Stored(k)}) = "delivered"
      <3>1. (s.delivered = s.total /\ s.without_recipients = 0) <=>
               /\ \A k \in cohort : \A d \in Stored(k) : row[d].status = "delivered"
               /\ \A k \in cohort : Stored(k) # {}
        BY <2>1, <2>7, <2>8
      <3> QED BY <2>9, <3>1
    <2> QED BY <2>s, <2>1, <2>4, <2>5, <2>6, <2>10
  <1> QED BY <1>1, TablesHold, PTL
=============================================================================
