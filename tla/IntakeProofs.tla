---------------------------- MODULE IntakeProofs ----------------------------
(***************************************************************************)
(* Proofs about Intake, for every value of its constants: any number of    *)
(* concurrent calls, lists and failures.                                   *)
(***************************************************************************)
EXTENDS Intake, TLAPS, SequenceTheorems, WellFoundedInduction

----------------------------------------------------------------------------
(* Induction.  The library's principles speak of predicates; these speak of
   sets of numbers, which is all that is needed here. *)

(* Every non-empty set of naturals has a least element. *)
LEMMA LeastNatural ==
  ASSUME NEW T, T \subseteq Nat, T # {}
  PROVE  \E n \in T : \A m \in T : n <= m
  <1> DEFINE R == {ss \in Nat \X Nat : ss[1] < ss[2]}
  <1>1. IsWellFoundedOn(R, Nat)
    BY NatLessThanWellFounded DEF OpToRel
  <1>2. \A m, n \in Nat : m < n => <<m, n>> \in R
    OBVIOUS
  <1> HIDE DEF R
  <1>3. PICK n \in T : \A m \in T : <<m, n>> \notin R
    BY <1>1, WFMin
  <1>4. \A m \in T : ~(m < n)
    BY <1>2, <1>3
  <1> QED BY <1>4

(* A set that contains 0 and the successor of each of its elements up to a
   bound contains everything up to the bound. *)
LEMMA UpTo ==
  ASSUME NEW bound \in Nat, NEW T, 0 \in T,
         \A n \in 0..(bound - 1) : n \in T => n + 1 \in T
  PROVE  0..bound \subseteq T
  <1> DEFINE U == (0..bound) \ T
  <1> SUFFICES ASSUME U # {} PROVE FALSE
    OBVIOUS
  <1>0. U \subseteq Nat
    OBVIOUS
  <1>1. PICK n \in U : \A m \in U : n <= m
    <2> HIDE DEF U
    <2> QED BY <1>0, LeastNatural
  <1>2. n - 1 \in 0..(bound - 1) /\ n - 1 \in T
    BY <1>1
  <1> QED BY <1>1, <1>2

----------------------------------------------------------------------------
(* _dedupe. *)

Step(unique, url) == IF url \in ToSet(unique) THEN unique ELSE Append(unique, url)

(* The list after each of the first `rounds` rounds. *)
Rounds(f, recipients, rounds) ==
    f = [n \in 0..rounds |-> IF n = 0 THEN <<>> ELSE Step(f[n - 1], recipients[n])]

(* The recursion has a solution. *)
LEMMA RoundsExist ==
  ASSUME NEW recipients, NEW rounds \in Nat
  PROVE  \E f : Rounds(f, recipients, rounds)
  <1> DEFINE T == {n \in Nat : \E f : Rounds(f, recipients, n)}
  <1>1. 0 \in T
    <2>1. Rounds([n \in 0..0 |-> <<>>], recipients, 0)
      BY DEF Rounds
    <2> QED BY <2>1
  <1>2. ASSUME NEW n \in 0..(rounds - 1), n \in T
        PROVE  n + 1 \in T
    <2>1. PICK f : Rounds(f, recipients, n)
      BY <1>2
    <2> DEFINE g == [m \in 0..(n + 1) |-> IF m <= n THEN f[m] ELSE Step(f[n], recipients[n + 1])]
    <2>2. ASSUME NEW m \in 0..(n + 1)
          PROVE  g[m] = IF m = 0 THEN <<>> ELSE Step(g[m - 1], recipients[m])
      <3>1. CASE m = 0
        BY <2>1, <3>1 DEF Rounds
      <3>2. CASE m \in 1..n
        <4>1. f[m] = Step(f[m - 1], recipients[m])
          BY <2>1, <3>2 DEF Rounds
        <4> QED BY <3>2, <4>1
      <3>3. CASE m = n + 1
        BY <3>3
      <3> QED BY <3>1, <3>2, <3>3
    <2>3. Rounds(g, recipients, n + 1)
      BY <2>2 DEF Rounds
    <2> QED BY <2>3
  <1> HIDE DEF T
  <1>3. 0..rounds \subseteq T
    BY <1>1, <1>2, UpTo
  <1> QED BY <1>3 DEF T

(* What _dedupe returns: a request like any other, with the same URLs, none
   of them twice. *)
LEMMA DedupeFacts ==
  ASSUME NEW recipients \in Lists
  PROVE  /\ Dedupe(recipients) \in Lists
         /\ IsInjective(Dedupe(recipients))
         /\ ToSet(Dedupe(recipients)) = ToSet(recipients)
  <1>0. PICK len \in 0..MaxListed : recipients \in [1..len -> Urls]
    BY DEF Lists
  <1>1. Len(recipients) = len /\ len \in Nat
    BY <1>0, ListBoundAssumption DEF ListBoundAssumption
  <1> DEFINE f == CHOOSE f : Rounds(f, recipients, len)
  <1>2. Rounds(f, recipients, len)
    BY <1>1, RoundsExist
  <1>3. Dedupe(recipients) = f[len]
    BY <1>1 DEF Dedupe, Rounds, Step
  <1> HIDE DEF f
  <1> DEFINE Good(n) == /\ \E k \in 0..n : f[n] \in [1..k -> Urls]
                        /\ IsInjective(f[n])
                        /\ ToSet(f[n]) = {recipients[i] : i \in 1..n}
             T == {n \in 0..len : Good(n)}
  <1>4. 0 \in T
    <2>1. f[0] = <<>>
      BY <1>1, <1>2 DEF Rounds
    <2>2. f[0] \in [1..0 -> Urls] /\ 0 \in 0..0 /\ DOMAIN f[0] = {}
      BY <2>1
    <2>3. IsInjective(f[0]) /\ ToSet(f[0]) = {}
      BY <2>2 DEF IsInjective, ToSet
    <2>4. {recipients[i] : i \in 1..0} = {}
      OBVIOUS
    <2> QED BY <1>1, <2>2, <2>3, <2>4
  <1>5. ASSUME NEW n \in 0..(len - 1), n \in T
        PROVE  n + 1 \in T
    <2>1. PICK k \in 0..n : f[n] \in [1..k -> Urls]
      BY <1>5
    <2>2. f[n + 1] = Step(f[n], recipients[n + 1])
      BY <1>1, <1>2 DEF Rounds
    <2>3. recipients[n + 1] \in Urls
      BY <1>0
    <2>4. {recipients[i] : i \in 1..(n + 1)} = {recipients[i] : i \in 1..n} \union {recipients[n + 1]}
      OBVIOUS
    <2>5. CASE recipients[n + 1] \in ToSet(f[n])
      BY <1>5, <2>1, <2>2, <2>4, <2>5 DEF Step
    <2>6. CASE recipients[n + 1] \notin ToSet(f[n])
      <3>1. f[n + 1] = [i \in 1..(k + 1) |-> IF i <= k THEN f[n][i] ELSE recipients[n + 1]]
        BY <2>1, <2>2, <2>3, <2>6 DEF Step
      <3>2. f[n + 1] \in [1..(k + 1) -> Urls] /\ k + 1 \in 0..(n + 1)
        BY <2>1, <2>3, <3>1
      <3>3. IsInjective(f[n + 1])
        BY <1>5, <2>1, <2>6, <3>1 DEF IsInjective, ToSet
      <3>4. ToSet(f[n + 1]) = ToSet(f[n]) \union {recipients[n + 1]}
        BY <2>1, <3>1 DEF ToSet
      <3> QED BY <1>5, <2>4, <3>2, <3>3, <3>4
    <2> QED BY <2>5, <2>6
  <1> HIDE DEF T
  <1>6. len \in T
    <2>1. 0..len \subseteq T
      BY <1>1, <1>4, <1>5, UpTo
    <2> QED BY <1>1, <2>1
  <1>7. Good(len)
    BY <1>6 DEF T
  <1>8. ToSet(recipients) = {recipients[i] : i \in 1..len}
    BY <1>0 DEF ToSet
  <1>9. f[len] \in Lists
    BY <1>0, <1>7, ListBoundAssumption DEF Lists, ListBoundAssumption
  <1> QED BY <1>3, <1>7, <1>8, <1>9

(* The rest of a list without repetitions is one. *)
LEMMA TailFacts ==
  ASSUME NEW list \in Lists, list # <<>>, IsInjective(list)
  PROVE  /\ Tail(list) \in Lists
         /\ IsInjective(Tail(list))
         /\ Head(list) \in Urls
         /\ ToSet(list) = ToSet(Tail(list)) \union {Head(list)}
  <1>1. PICK n \in 0..MaxListed : list \in [1..n -> Urls]
    BY DEF Lists
  <1>2. n \in Nat /\ n # 0 /\ Len(list) = n /\ list \in Seq(Urls)
    BY <1>1, ListBoundAssumption DEF ListBoundAssumption
  <1>3. /\ Tail(list) \in [1..(n - 1) -> Urls]
        /\ \A i \in 1..(n - 1) : Tail(list)[i] = list[i + 1]
    <2>1. /\ Tail(list) \in Seq(Urls) /\ Len(Tail(list)) = n - 1
          /\ \A i \in 1..Len(Tail(list)) : Tail(list)[i] = list[i + 1]
      BY <1>2, HeadTailProperties
    <2> QED BY <1>2, <2>1, LenProperties
  <1>4. Tail(list) \in Lists
    BY <1>2, <1>3, ListBoundAssumption DEF Lists, ListBoundAssumption
  <1>5. IsInjective(Tail(list))
    <2> SUFFICES ASSUME NEW i \in 1..(n - 1), NEW j \in 1..(n - 1),
                        list[i + 1] = list[j + 1]
                 PROVE  i = j
      BY <1>3 DEF IsInjective
    <2>1. i + 1 \in DOMAIN list /\ j + 1 \in DOMAIN list
      BY <1>1, <1>2
    <2> QED BY <2>1 DEF IsInjective
  <1>6. ToSet(list) = ToSet(Tail(list)) \union {Head(list)}
    <2>1. ASSUME NEW i \in 1..n PROVE i = 1 \/ (i - 1 \in 1..(n - 1) /\ list[i] = Tail(list)[i - 1])
      BY <1>2, <1>3
    <2>2. \A i \in 1..(n - 1) : i + 1 \in 1..n /\ Tail(list)[i] = list[i + 1]
      BY <1>2, <1>3
    <2>3. Head(list) = list[1] /\ 1 \in 1..n
      BY <1>2
    <2>4. ToSet(list) = {list[i] : i \in 1..n}
      BY <1>1 DEF ToSet
    <2>5. ToSet(Tail(list)) = {Tail(list)[i] : i \in 1..(n - 1)}
      BY <1>3 DEF ToSet
    <2>6. ASSUME NEW u \in ToSet(list) PROVE u \in ToSet(Tail(list)) \/ u = Head(list)
      <3>1. PICK i \in 1..n : u = list[i]
        BY <2>4
      <3>2. CASE i = 1
        BY <3>1, <3>2, <2>3
      <3>3. CASE i - 1 \in 1..(n - 1) /\ list[i] = Tail(list)[i - 1]
        BY <3>1, <3>3, <2>5
      <3> QED BY <2>1, <3>2, <3>3
    <2>7. Head(list) \in ToSet(list) /\ \A u \in ToSet(Tail(list)) : u \in ToSet(list)
      BY <2>2, <2>3, <2>4, <2>5
    <2> QED BY <2>6, <2>7
  <1> QED BY <1>2, <1>4, <1>5, <1>6

----------------------------------------------------------------------------
(* Types. *)

LEMMA JobTypes ==
  ASSUME TypeOK, NEW c \in Calls
  PROVE  /\ Key(c) \in Keys
         /\ job[c].recipients \in Lists
         /\ job[c].op \in {"accept", "attach"}
  BY DEF TypeOK, Jobs, Key

LEMMA TypeInit == Init => TypeOK
  <1> SUFFICES ASSUME Init PROVE TypeOK
    OBVIOUS
  <1>1. <<>> \in Lists /\ IsInjective(<<>>)
    <2>1. <<>> \in [1..0 -> Urls] /\ 0 \in 0..MaxListed
      BY ListBoundAssumption DEF ListBoundAssumption
    <2> QED BY <2>1 DEF Lists, IsInjective
  <1>2. Absent \in Entry
    BY DEF Absent, Entry
  <1> QED BY <1>1, <1>2, ListBoundAssumption DEF Init, TypeOK, PCs, ListBoundAssumption

(* The statements that end a transaction keep every entry an entry. *)
LEMMA EndTypes ==
  ASSUME TypeOK, NEW c \in Calls
  PROVE  /\ [k \in Keys |-> Committed(lead[k], c)] \in [Keys -> Entry]
         /\ [k \in Keys |-> RolledBack(lead[k], c)] \in [Keys -> Entry]
         /\ [k \in Keys |-> [u \in Urls |-> Committed(rows[k][u], c)]] \in [Keys -> [Urls -> Entry]]
         /\ [k \in Keys |-> [u \in Urls |-> RolledBack(rows[k][u], c)]] \in [Keys -> [Urls -> Entry]]
  <1>1. \A e \in Entry : Committed(e, c) \in Entry /\ RolledBack(e, c) \in Entry
    BY DEF Entry, Committed, RolledBack, Absent
  <1> QED BY <1>1 DEF TypeOK

LEMMA TypeNext == TypeOK /\ [Next]_vars => TypeOK'
  <1> SUFFICES ASSUME TypeOK, [Next]_vars PROVE TypeOK'
    OBVIOUS
  <1> USE DEF TypeOK
  <1>1. ASSUME NEW c \in Calls, Acquire(c) PROVE TypeOK'
    BY <1>1 DEF Acquire, Goto, PCs
  <1>2. ASSUME NEW c \in Calls, ToInsert(c)
        PROVE  todo' \in [Calls -> Lists] /\ \A b \in Calls : IsInjective(todo'[b])
    BY <1>2, DedupeFacts, JobTypes DEF ToInsert
  <1>3. ASSUME NEW c \in Calls, InsertRequest(c) PROVE TypeOK'
    <2>1. Inserted(c) \in Entry /\ Key(c) \in Keys
      BY JobTypes DEF Inserted, Entry
    <2>2. CASE /\ lead' = [lead EXCEPT ![Key(c)] = Inserted(c)]
               /\ answer' = [answer EXCEPT ![c] = c]
               /\ ToInsert(c)
      <3>1. todo' \in [Calls -> Lists] /\ \A b \in Calls : IsInjective(todo'[b])
        BY <1>2, <2>2
      <3>2. lead' \in [Keys -> Entry] /\ answer' \in [Calls -> Calls \union {NoCall}]
        BY <2>1, <2>2
      <3>3. UNCHANGED <<job, rows, held, failures>> /\ pc' \in [Calls -> PCs]
        BY <1>3 DEF InsertRequest, Goto, PCs
      <3> QED BY <3>1, <3>2, <3>3
    <2>3. CASE UNCHANGED <<lead, answer, todo>>
      BY <1>3, <2>3 DEF InsertRequest, Goto, PCs
    <2> QED BY <1>3, <2>2, <2>3 DEF InsertRequest
  <1>4. ASSUME NEW c \in Calls, SelectExisting(c) PROVE TypeOK'
    <2>1. lead[Key(c)].by \in Calls \union {NoCall}
      BY JobTypes DEF Entry
    <2> QED BY <1>4, <2>1 DEF SelectExisting, Goto, PCs
  <1>5. ASSUME NEW c \in Calls, CheckKnown(c) PROVE TypeOK'
    <2>1. lead[Key(c)].by \in Calls \union {NoCall}
      BY JobTypes DEF Entry
    <2>2. CASE ToInsert(c)
      BY <1>2, <1>5, <2>1, <2>2 DEF CheckKnown, Goto, PCs
    <2>3. CASE UNCHANGED <<answer, todo>>
      BY <1>5, <2>3 DEF CheckKnown, Goto, PCs
    <2> QED BY <1>5, <2>2, <2>3 DEF CheckKnown
  <1>6. ASSUME NEW c \in Calls, InsertRow(c) PROVE TypeOK'
    <2>1. /\ Inserted(c) \in Entry /\ Key(c) \in Keys
          /\ Tail(todo[c]) \in Lists /\ IsInjective(Tail(todo[c]))
          /\ Head(todo[c]) \in Urls
      BY <1>6, JobTypes, TailFacts DEF InsertRow, Inserted, Entry
    <2>2. rows' \in [Keys -> [Urls -> Entry]]
      <3>1. CASE rows' = [rows EXCEPT ![Key(c)][Head(todo[c])] = Inserted(c)]
        BY <2>1, <3>1
      <3> QED BY <1>6, <3>1 DEF InsertRow
    <2>3. todo' \in [Calls -> Lists] /\ \A b \in Calls : IsInjective(todo'[b])
      BY <1>6, <2>1 DEF InsertRow
    <2> QED BY <1>6, <2>2, <2>3 DEF InsertRow
  <1>7. ASSUME NEW c \in Calls, Commit(c) PROVE TypeOK'
    BY <1>7, EndTypes DEF Commit, Goto, PCs
  <1>8. ASSUME NEW c \in Calls, Answer(c) PROVE TypeOK'
    BY <1>8 DEF Answer, Goto, PCs
  <1>9. ASSUME NEW c \in Calls, FailBeforeCommit(c) PROVE TypeOK'
    BY <1>9, EndTypes, ListBoundAssumption
       DEF ListBoundAssumption, FailBeforeCommit, Failure, Rollback, Goto, PCs
  <1>10. ASSUME NEW c \in Calls, LoseAnswer(c) PROVE TypeOK'
    BY <1>10, ListBoundAssumption DEF ListBoundAssumption, LoseAnswer, Failure, Goto, PCs
  <1>11. ASSUME NEW c \in Calls, DeadlockDetected(c) PROVE TypeOK'
    BY <1>11, EndTypes DEF DeadlockDetected, Rollback, Goto, PCs
  <1>12. CASE UNCHANGED vars
    BY <1>12 DEF vars
  <1> QED BY <1>1, <1>3, <1>4, <1>5, <1>6, <1>7, <1>8, <1>9, <1>10, <1>11, <1>12
             DEF Next, Statement, AllDone

(* Every state is well typed; in particular no list of URLs to insert names
   one twice, whatever the request listed. *)
THEOREM TypeCorrect == Spec => []TypeOK
  BY TypeInit, TypeNext, PTL DEF Spec

----------------------------------------------------------------------------
(* What the calls have achieved, statement by statement.  A lead is only ever
   open while its call inserts the recipients, *)
LeadOK(k) ==
    /\ lead[k].open => lead[k].by # NoCall /\ pc[lead[k].by] = "insert_rows"
    /\ lead[k].by # NoCall => Key(lead[k].by) = k
    /\ Visible(lead[k]) => \A u \in Listed(lead[k].by) : Visible(rows[k][u])

(* a call that inserts rows has done, or has still to do, each URL it listed, *)
ListedSoFar(c) ==
    \A u \in Listed(c) : \/ u \in ToSet(todo[c])
                         \/ Visible(rows[Key(c)][u])
                         \/ rows[Key(c)][u] = Inserted(c)

(* and each statement finds what the statements before it have seen to. *)
AcceptOK(c) ==
    job[c].op = "accept" =>
       /\ pc[c] # "check_known"
       /\ pc[c] = "select_existing" => Visible(lead[Key(c)])
       /\ pc[c] = "insert_rows" => lead[Key(c)] = Inserted(c) /\ answer[c] = c
       /\ pc[c] \in {"commit", "committed", "answered"} =>
             Visible(lead[Key(c)]) /\ answer[c] = lead[Key(c)].by

AttachOK(c) ==
    job[c].op = "attach" =>
       /\ pc[c] \notin {"insert_request", "select_existing"}
       /\ pc[c] \in {"waiting", "check_known", "commit"} => answer[c] = NoCall
       /\ pc[c] \in {"committed", "answered"} /\ answer[c] # NoCall =>
             \A u \in Listed(c) : Visible(rows[Key(c)][u])

CallOK(c) == /\ pc[c] = "insert_rows" => ListedSoFar(c)
             /\ AcceptOK(c)
             /\ AttachOK(c)

IntakeInv == /\ TypeOK
             /\ \A k \in Keys : LeadOK(k)
             /\ \A c \in Calls : CallOK(c)

LEMMA InvInit == Init => IntakeInv
  <1> SUFFICES ASSUME Init PROVE IntakeInv
    OBVIOUS
  <1>1. \A k \in Keys : LeadOK(k)
    BY DEF Init, LeadOK, Absent, Visible
  <1>2. \A c \in Calls : CallOK(c)
    BY DEF Init, CallOK, AcceptOK, AttachOK
  <1> QED BY <1>1, <1>2, TypeInit DEF IntakeInv

(* What no step of other calls does to a call: stored rows stay, and so do
   the rows it has inserted. *)
Keeps(c) ==
    /\ job' = job /\ pc'[c] = pc[c] /\ todo'[c] = todo[c] /\ answer'[c] = answer[c]
    /\ \A k \in Keys :
          /\ Visible(lead[k]) \/ lead[k] = Inserted(c) => lead'[k] = lead[k]
          /\ \A u \in Urls : Visible(rows[k][u]) \/ rows[k][u] = Inserted(c)
                                => rows'[k][u] = rows[k][u]

LEMMA ListedUrls ==
  ASSUME TypeOK, NEW c \in Calls
  PROVE  Listed(c) \subseteq Urls /\ Key(c) \in Keys
  BY JobTypes DEF Listed, ToSet, Lists

LEMMA CallKept ==
  ASSUME TypeOK, NEW c \in Calls, CallOK(c), Keeps(c)
  PROVE  CallOK(c)'
  <1>1. Key(c)' = Key(c) /\ Listed(c)' = Listed(c) /\ Key(c) \in Keys /\ Listed(c) \subseteq Urls
    BY ListedUrls DEF Keeps, Key, Listed
  <1>2. /\ job'[c] = job[c] /\ pc'[c] = pc[c] /\ todo'[c] = todo[c] /\ answer'[c] = answer[c]
        /\ Visible(lead[Key(c)]) \/ lead[Key(c)] = Inserted(c) => lead'[Key(c)] = lead[Key(c)]
        /\ \A u \in Listed(c) : Visible(rows[Key(c)][u]) \/ rows[Key(c)][u] = Inserted(c)
                                   => rows'[Key(c)][u] = rows[Key(c)][u]
    BY <1>1 DEF Keeps
  <1>3. ListedSoFar(c) => ListedSoFar(c)'
    BY <1>1, <1>2 DEF ListedSoFar, Visible
  <1>4. AcceptOK(c)'
    BY <1>1, <1>2 DEF CallOK, AcceptOK, Visible
  <1>5. AttachOK(c)'
    BY <1>1, <1>2 DEF CallOK, AttachOK, Visible
  <1> QED BY <1>2, <1>3, <1>4, <1>5 DEF CallOK

(* A step that leaves the lead of a key and the rows it promises alone. *)
LEMMA LeadKept ==
  ASSUME TypeOK, NEW k \in Keys, LeadOK(k), job' = job, lead'[k] = lead[k],
         lead[k].open => pc'[lead[k].by] = pc[lead[k].by],
         \A u \in Urls : Visible(rows[k][u]) => Visible(rows'[k][u])
  PROVE  LeadOK(k)'
  <1>1. lead[k] \in Entry
    BY DEF TypeOK
  <1>2. ASSUME lead[k].by # NoCall
        PROVE  Key(lead[k].by)' = Key(lead[k].by) /\ Listed(lead[k].by)' = Listed(lead[k].by)
               /\ Listed(lead[k].by) \subseteq Urls
    BY <1>1, <1>2, ListedUrls DEF Key, Listed, Entry
  <1> QED BY <1>1, <1>2 DEF LeadOK, Visible

(* The transaction of c ends; with a commit its rows become visible, with a
   rollback they are gone, and nothing else moves. *)
LEMMA EndFacts ==
  ASSUME TypeOK, NEW c \in Calls, NEW b \in Calls, b # c, NEW label,
         Goto(c, label), UNCHANGED <<job, todo, answer>>,
         \/ /\ lead' = [k \in Keys |-> Committed(lead[k], c)]
            /\ rows' = [k \in Keys |-> [u \in Urls |-> Committed(rows[k][u], c)]]
         \/ /\ lead' = [k \in Keys |-> RolledBack(lead[k], c)]
            /\ rows' = [k \in Keys |-> [u \in Urls |-> RolledBack(rows[k][u], c)]]
  PROVE  Keeps(b)
  <1>1. \A e \in Entry : Visible(e) \/ e = Inserted(b) =>
                            Committed(e, c) = e /\ RolledBack(e, c) = e
    BY DEF Visible, Inserted, Committed, RolledBack
  <1>2. pc'[b] = pc[b]
    BY DEF Goto, TypeOK
  <1> QED BY <1>1, <1>2 DEF Keeps, TypeOK

(* One lemma per statement.  Each proves the parts for the call that runs it,
   for the other calls, and for the leads. *)
LEMMA InvParts ==
  ASSUME IntakeInv, TypeOK', NEW c \in Calls, CallOK(c)',
         \A b \in Calls : b # c => Keeps(b),
         \A k \in Keys : LeadOK(k)'
  PROVE  IntakeInv'
  BY CallKept DEF IntakeInv

(* Statements that write no table and end no call that has a lead open. *)
LEMMA ReadOnly ==
  ASSUME IntakeInv, TypeOK', NEW c \in Calls, NEW label, Goto(c, label),
         pc[c] # "insert_rows", UNCHANGED <<job, lead, rows>>,
         \A b \in Calls : b # c => todo'[b] = todo[b] /\ answer'[b] = answer[b],
         CallOK(c)'
  PROVE  IntakeInv'
  <1>1. \A b \in Calls : b # c => pc'[b] = pc[b]
    BY DEF Goto, IntakeInv, TypeOK
  <1>2. \A b \in Calls : b # c => Keeps(b)
    BY <1>1 DEF Keeps
  <1>3. ASSUME NEW k \in Keys PROVE LeadOK(k)'
    <2>1. lead[k].open => lead[k].by \in Calls /\ lead[k].by # c
      BY DEF IntakeInv, LeadOK, TypeOK, Entry
    <2> QED BY <1>1, <2>1, LeadKept DEF IntakeInv
  <1> QED BY <1>2, <1>3, InvParts

LEMMA InvAcquire ==
  ASSUME IntakeInv, TypeOK', NEW c \in Calls, Acquire(c)
  PROVE  IntakeInv'
  <1>1. pc'[c] = IF job[c].op = "accept" THEN "insert_request" ELSE "check_known"
    BY DEF Acquire, Goto, IntakeInv, TypeOK
  <1>2. CallOK(c)'
    BY <1>1, JobTypes DEF Acquire, IntakeInv, CallOK, AcceptOK, AttachOK
  <1>3. PICK label : Goto(c, label)
    BY DEF Acquire
  <1> QED BY <1>2, <1>3, ReadOnly DEF Acquire

LEMMA InvSelectExisting ==
  ASSUME IntakeInv, TypeOK', NEW c \in Calls, SelectExisting(c)
  PROVE  IntakeInv'
  <1>1. /\ pc'[c] = "commit" /\ job[c].op = "accept" /\ Visible(lead[Key(c)])
        /\ answer'[c] = lead[Key(c)].by
    BY JobTypes DEF SelectExisting, Goto, IntakeInv, TypeOK, CallOK, AcceptOK, AttachOK
  <1>2. Key(c)' = Key(c) /\ lead' = lead /\ job' = job
    BY DEF SelectExisting, Key
  <1>3. CallOK(c)'
    BY <1>1, <1>2 DEF CallOK, AcceptOK, AttachOK, Visible
  <1>4. \A b \in Calls : b # c => todo'[b] = todo[b] /\ answer'[b] = answer[b]
    BY DEF SelectExisting, IntakeInv, TypeOK
  <1> QED BY <1>3, <1>4, ReadOnly DEF SelectExisting

LEMMA InvCheckKnown ==
  ASSUME IntakeInv, TypeOK', NEW c \in Calls, CheckKnown(c)
  PROVE  IntakeInv'
  <1>1. pc[c] = "check_known" /\ job[c].op = "attach" /\ job' = job /\ answer[c] = NoCall
    BY JobTypes DEF CheckKnown, IntakeInv, CallOK, AcceptOK, AttachOK
  <1>2. CASE ToInsert(c) /\ Goto(c, "insert_rows")
             /\ answer' = [answer EXCEPT ![c] = lead[Key(c)].by]
    <2>1. todo'[c] = Dedupe(job[c].recipients) /\ pc'[c] = "insert_rows"
      BY <1>2 DEF ToInsert, Goto, IntakeInv, TypeOK
    <2>2. ToSet(todo'[c]) = Listed(c) /\ Listed(c)' = Listed(c)
      BY <1>1, <2>1, DedupeFacts, JobTypes DEF IntakeInv, Listed
    <2>3. CallOK(c)'
      BY <1>1, <2>1, <2>2 DEF CallOK, AcceptOK, AttachOK, ListedSoFar
    <2>4. \A b \in Calls : b # c => todo'[b] = todo[b] /\ answer'[b] = answer[b]
      BY <1>2 DEF ToInsert, IntakeInv, TypeOK
    <2> QED BY <1>2, <2>3, <2>4, ReadOnly DEF CheckKnown
  <1>3. CASE Goto(c, "commit") /\ UNCHANGED <<answer, todo>>
    <2>1. pc'[c] = "commit" /\ answer'[c] = NoCall
      BY <1>1, <1>3 DEF Goto, IntakeInv, TypeOK
    <2>2. CallOK(c)'
      BY <1>1, <2>1 DEF CallOK, AcceptOK, AttachOK
    <2> QED BY <1>3, <2>2, ReadOnly DEF CheckKnown
  <1> QED BY <1>2, <1>3 DEF CheckKnown

LEMMA InvAnswer ==
  ASSUME IntakeInv, TypeOK', NEW c \in Calls, Answer(c)
  PROVE  IntakeInv'
  <1>1. /\ pc[c] = "committed" /\ pc'[c] = "answered"
        /\ UNCHANGED <<job, answer, lead, rows>>
    BY DEF Answer, Goto, IntakeInv, TypeOK
  <1>2. CallOK(c)
    BY DEF IntakeInv
  <1>3. CallOK(c)'
    BY <1>1, <1>2 DEF CallOK, AcceptOK, AttachOK, Visible, Key, Listed
  <1> QED BY <1>3, ReadOnly DEF Answer

LEMMA InvLoseAnswer ==
  ASSUME IntakeInv, TypeOK', NEW c \in Calls, LoseAnswer(c)
  PROVE  IntakeInv'
  <1>1. pc'[c] = "failed"
    BY DEF LoseAnswer, Goto, IntakeInv, TypeOK
  <1>2. CallOK(c)'
    BY <1>1 DEF CallOK, AcceptOK, AttachOK
  <1> QED BY <1>2, ReadOnly DEF LoseAnswer

LEMMA InvInsertRequest ==
  ASSUME IntakeInv, TypeOK', NEW c \in Calls, InsertRequest(c)
  PROVE  IntakeInv'
  <1> DEFINE key == Key(c)
  <1>0. /\ pc[c] = "insert_request" /\ job[c].op = "accept" /\ job' = job
        /\ key \in Keys /\ key' = key /\ rows' = rows
    BY JobTypes DEF InsertRequest, IntakeInv, CallOK, AttachOK, Key
  <1>1. CASE /\ lead[key] = Absent /\ ToInsert(c) /\ Goto(c, "insert_rows")
             /\ lead' = [lead EXCEPT ![key] = Inserted(c)]
             /\ answer' = [answer EXCEPT ![c] = c]
    <2>1. /\ todo'[c] = Dedupe(job[c].recipients) /\ pc'[c] = "insert_rows"
          /\ lead'[key] = Inserted(c) /\ answer'[c] = c
      BY <1>0, <1>1 DEF ToInsert, Goto, IntakeInv, TypeOK
    <2>2. ToSet(todo'[c]) = Listed(c) /\ Listed(c)' = Listed(c)
      BY <1>0, <2>1, DedupeFacts, JobTypes DEF IntakeInv, Listed
    <2>3. CallOK(c)'
      BY <1>0, <2>1, <2>2 DEF CallOK, AcceptOK, AttachOK, ListedSoFar
    <2>4. ASSUME NEW b \in Calls, b # c PROVE Keeps(b)
      <3>1. ~Visible(lead[key]) /\ lead[key] # Inserted(b)
        BY <1>1, NoCallAssumption DEF Absent, Visible, Inserted, NoCallAssumption
      <3> QED BY <1>0, <1>1, <2>4, <3>1 DEF ToInsert, Goto, Keeps, IntakeInv, TypeOK
    <2>5. ASSUME NEW k \in Keys PROVE LeadOK(k)'
      <3>1. CASE k = key
        <4>1. lead'[k].by = c /\ lead'[k].open /\ ~Visible(lead'[k])
          BY <2>1, <3>1 DEF Inserted, Visible
        <4>2. key = Key(c) /\ key' = key /\ pc'[c] = "insert_rows"
          BY <1>0, <2>1
        <4>3. Key(c)' = k /\ c # NoCall
          BY <3>1, <4>2, NoCallAssumption DEF NoCallAssumption
        <4> QED BY <4>1, <4>2, <4>3 DEF LeadOK, Visible, Key
      <3>2. CASE k # key
        <4>1. lead'[k] = lead[k]
          BY <1>1, <3>2 DEF IntakeInv, TypeOK
        <4>2. lead[k].open => pc'[lead[k].by] = pc[lead[k].by]
          BY <1>0, <1>1 DEF Goto, IntakeInv, LeadOK, TypeOK, Entry
        <4> QED BY <1>0, <4>1, <4>2, LeadKept DEF IntakeInv
      <3> QED BY <3>1, <3>2
    <2> QED BY <2>3, <2>4, <2>5, InvParts
  <1>2. CASE Visible(lead[key]) /\ Goto(c, "select_existing") /\ UNCHANGED <<lead, answer, todo>>
    <2>1. pc'[c] = "select_existing"
      BY <1>2 DEF Goto, IntakeInv, TypeOK
    <2>2. CallOK(c)'
      BY <1>0, <1>2, <2>1 DEF CallOK, AcceptOK, AttachOK, Visible
    <2> QED BY <1>0, <1>2, <2>2, ReadOnly
  <1> QED BY <1>1, <1>2 DEF InsertRequest

LEMMA InvInsertRow ==
  ASSUME IntakeInv, TypeOK', NEW c \in Calls, InsertRow(c)
  PROVE  IntakeInv'
  <1> DEFINE key == Key(c)
             url == Head(todo[c])
  <1>0. /\ pc[c] = "insert_rows" /\ UNCHANGED <<job, pc, answer, lead>>
        /\ todo' = [todo EXCEPT ![c] = Tail(@)]
        /\ key \in Keys /\ url \in Urls /\ key' = key
        /\ ToSet(todo[c]) = ToSet(Tail(todo[c])) \union {url}
    BY JobTypes, TailFacts DEF InsertRow, IntakeInv, TypeOK, Key
  <1> HIDE DEF key, url
  <1>1. /\ \A k \in Keys : \A u \in Urls : k # key \/ u # url => rows'[k][u] = rows[k][u]
        /\ \/ rows[key][url] = Absent /\ rows'[key][url] = Inserted(c)
           \/ Visible(rows[key][url]) /\ rows' = rows
    <2>1. CASE rows[key][url] = Absent /\ rows' = [rows EXCEPT ![key][url] = Inserted(c)]
      BY <1>0, <2>1 DEF IntakeInv, TypeOK
    <2>2. CASE Visible(rows[key][url]) /\ rows' = rows
      BY <2>2
    <2> QED BY <2>1, <2>2 DEF InsertRow, key, url
  <1>2. /\ Visible(Inserted(c)) = FALSE /\ ~Visible(Absent)
        /\ \A b \in Calls : Absent # Inserted(b)
    BY NoCallAssumption DEF Inserted, Absent, Visible, NoCallAssumption
  <1>3. CallOK(c)'
    <2>1. CallOK(c) /\ ListedSoFar(c)
      BY <1>0 DEF IntakeInv, CallOK
    <2>2. Listed(c) \subseteq Urls /\ Listed(c)' = Listed(c)
      BY <1>0, ListedUrls DEF IntakeInv, Listed
    <2>3. todo'[c] = Tail(todo[c])
      BY <1>0 DEF IntakeInv, TypeOK
    <2>4. ListedSoFar(c)'
      <3> SUFFICES ASSUME NEW u \in Listed(c), u \notin ToSet(todo'[c])
                   PROVE  Visible(rows'[key][u]) \/ rows'[key][u] = Inserted(c)
        BY <1>0, <2>2 DEF ListedSoFar, Visible, Inserted, key
      <3>1. CASE u = url
        BY <1>1, <3>1
      <3>2. CASE u # url
        <4>1. rows'[key][u] = rows[key][u] /\ u \notin ToSet(todo[c])
          BY <1>0, <1>1, <2>2, <2>3, <3>2
        <4> QED BY <2>1, <4>1 DEF ListedSoFar, key
      <3> QED BY <3>1, <3>2
    <2> QED BY <1>0, <2>1, <2>4 DEF CallOK, AcceptOK, AttachOK, Inserted, Key
  <1>4. ASSUME NEW b \in Calls, b # c PROVE Keeps(b)
    <2>1. todo'[b] = todo[b]
      BY <1>0, <1>4 DEF IntakeInv, TypeOK
    <2>2. ASSUME NEW k \in Keys, NEW u \in Urls,
                 Visible(rows[k][u]) \/ rows[k][u] = Inserted(b)
          PROVE  rows'[k][u] = rows[k][u]
      BY <1>1, <1>2, <2>2
    <2> QED BY <1>0, <2>1, <2>2 DEF Keeps
  <1>5. ASSUME NEW k \in Keys PROVE LeadOK(k)'
    <2>1. \A u \in Urls : Visible(rows[k][u]) => Visible(rows'[k][u])
      BY <1>1, <1>2
    <2> QED BY <1>0, <2>1, LeadKept DEF IntakeInv
  <1> QED BY <1>3, <1>4, <1>5, InvParts

LEMMA InvCommit ==
  ASSUME IntakeInv, TypeOK', NEW c \in Calls, Commit(c)
  PROVE  IntakeInv'
  <1>0. /\ UNCHANGED <<job, todo, answer>> /\ pc'[c] = "committed"
        /\ pc[c] = "commit" \/ (pc[c] = "insert_rows" /\ todo[c] = <<>>)
        /\ \A k \in Keys : /\ lead'[k] = Committed(lead[k], c)
                           /\ \A u \in Urls : rows'[k][u] = Committed(rows[k][u], c)
        /\ Key(c) \in Keys /\ Listed(c) \subseteq Urls
        /\ \A k \in Keys : /\ lead[k] \in Entry
                           /\ \A u \in Urls : rows[k][u] \in Entry
    BY ListedUrls DEF Commit, Goto, IntakeInv, TypeOK
  <1>1. \A b \in Calls : b # c => Keeps(b) /\ pc'[b] = pc[b]
    BY EndFacts DEF Commit, IntakeInv, Goto, TypeOK
  <1>2. \A e \in Entry : /\ Visible(e) => Committed(e, c) = e
                         /\ e = Inserted(c) => Visible(Committed(e, c)) /\ Committed(e, c).by = c
                         /\ Committed(e, c).by = e.by
                         /\ Committed(e, c).open => e.open /\ e.by # c
    BY NoCallAssumption DEF Visible, Inserted, Committed, Entry, NoCallAssumption
  (* Everything the call listed is stored now. *)
  <1>3. pc[c] = "insert_rows" => \A u \in Listed(c) : Visible(rows'[Key(c)][u])
    <2> SUFFICES ASSUME pc[c] = "insert_rows", NEW u \in Listed(c)
                 PROVE  Visible(rows'[Key(c)][u])
      OBVIOUS
    <2>1. u \notin ToSet(todo[c])
      BY <1>0 DEF ToSet
    <2>2. Visible(rows[Key(c)][u]) \/ rows[Key(c)][u] = Inserted(c)
      BY <2>1 DEF IntakeInv, CallOK, ListedSoFar
    <2> QED BY <1>0, <1>2, <2>2
  <1>4. CallOK(c)'
    <2>1. CallOK(c) /\ Key(c)' = Key(c) /\ Listed(c)' = Listed(c)
      BY <1>0 DEF IntakeInv, Key, Listed
    <2>2. AcceptOK(c)'
      <3> SUFFICES ASSUME job[c].op = "accept"
                   PROVE  Visible(lead'[Key(c)]) /\ answer'[c] = lead'[Key(c)].by
        BY <1>0, <2>1 DEF AcceptOK, Visible
      <3>1. CASE pc[c] = "commit"
        BY <1>0, <1>2, <2>1, <3>1 DEF CallOK, AcceptOK
      <3>2. CASE pc[c] = "insert_rows"
        BY <1>0, <1>2, <2>1, <3>2 DEF CallOK, AcceptOK
      <3> QED BY <1>0, <3>1, <3>2
    <2>3. AttachOK(c)'
      BY <1>0, <1>3, <2>1 DEF CallOK, AttachOK, Visible
    <2> QED BY <1>0, <2>2, <2>3 DEF CallOK
  <1>5. ASSUME NEW k \in Keys PROVE LeadOK(k)'
    <2>0. LeadOK(k) /\ lead[k].by \in Calls \union {NoCall}
      BY <1>0 DEF IntakeInv, Entry
    <2>1. \A u \in Urls : Visible(rows[k][u]) => Visible(rows'[k][u])
      BY <1>0, <1>2
    <2>2. CASE lead[k] = Inserted(c)
      <3>1. pc[c] = "insert_rows" /\ Key(c) = k /\ lead[k].by = c
        BY <2>0, <2>2, NoCallAssumption DEF LeadOK, Inserted, NoCallAssumption
      <3>2. /\ lead'[k].by = c /\ ~lead'[k].open
            /\ \A u \in Listed(c) : Visible(rows'[k][u])
        BY <1>0, <1>2, <1>3, <2>2, <3>1
      <3> QED BY <1>0, <3>1, <3>2, NoCallAssumption DEF LeadOK, Visible, Key, Listed, NoCallAssumption
    <2>3. CASE lead[k] # Inserted(c)
      <3>1. lead'[k] = lead[k]
        BY <1>0, <2>3 DEF Committed
      <3>2. lead[k].open => lead[k].by \in Calls /\ lead[k].by # c
        BY <1>0, <2>0, <2>3 DEF LeadOK, Inserted, Entry
      <3> QED BY <1>0, <1>1, <2>0, <2>1, <3>1, <3>2, LeadKept DEF IntakeInv
    <2> QED BY <2>2, <2>3
  <1> QED BY <1>1, <1>4, <1>5, InvParts

LEMMA InvRollback ==
  ASSUME IntakeInv, TypeOK', NEW c \in Calls, Rollback(c), UNCHANGED <<job, todo, answer>>
  PROVE  IntakeInv'
  <1>0. /\ pc'[c] = "failed" /\ job' = job
        /\ \A k \in Keys : /\ lead'[k] = RolledBack(lead[k], c)
                           /\ \A u \in Urls : rows'[k][u] = RolledBack(rows[k][u], c)
        /\ \A k \in Keys : /\ lead[k] \in Entry
                           /\ \A u \in Urls : rows[k][u] \in Entry
    BY DEF Rollback, Goto, IntakeInv, TypeOK
  <1>1. \A b \in Calls : b # c => Keeps(b) /\ pc'[b] = pc[b]
    BY EndFacts DEF Rollback, IntakeInv, Goto, TypeOK
  <1>2. CallOK(c)'
    BY <1>0 DEF CallOK, AcceptOK, AttachOK
  <1>3. ASSUME NEW k \in Keys PROVE LeadOK(k)'
    <2>1. CASE lead[k] = Inserted(c)
      <3>1. lead'[k] = Absent
        BY <1>0, <2>1 DEF RolledBack
      <3> QED BY <3>1 DEF LeadOK, Absent, Visible
    <2>2. CASE lead[k] # Inserted(c)
      <3>1. lead'[k] = lead[k]
        BY <1>0, <2>2 DEF RolledBack
      <3>2. lead[k].open => lead[k].by \in Calls /\ lead[k].by # c
        BY <1>0, <2>2 DEF LeadOK, Inserted, Entry, IntakeInv
      <3>3. \A u \in Urls : Visible(rows[k][u]) => Visible(rows'[k][u])
        BY <1>0 DEF RolledBack, Inserted, Visible
      <3> QED BY <1>0, <1>1, <3>1, <3>2, <3>3, LeadKept DEF IntakeInv
    <2> QED BY <2>1, <2>2
  <1> QED BY <1>1, <1>2, <1>3, InvParts

LEMMA InvNext == IntakeInv /\ [Next]_vars => IntakeInv'
  <1> SUFFICES ASSUME IntakeInv, [Next]_vars PROVE IntakeInv'
    OBVIOUS
  <1>0. TypeOK'
    BY TypeNext DEF IntakeInv
  <1>1. ASSUME NEW c \in Calls, Acquire(c) PROVE IntakeInv'
    BY <1>0, <1>1, InvAcquire
  <1>2. ASSUME NEW c \in Calls, Statement(c) PROVE IntakeInv'
    BY <1>0, <1>2, InvInsertRequest, InvSelectExisting, InvCheckKnown, InvInsertRow,
       InvCommit, InvAnswer DEF Statement
  <1>3. ASSUME NEW c \in Calls, FailBeforeCommit(c) \/ DeadlockDetected(c) PROVE IntakeInv'
    BY <1>0, <1>3, InvRollback DEF FailBeforeCommit, DeadlockDetected
  <1>4. ASSUME NEW c \in Calls, LoseAnswer(c) PROVE IntakeInv'
    BY <1>0, <1>4, InvLoseAnswer
  <1>5. CASE UNCHANGED vars
    <2>1. UNCHANGED <<job, pc, todo, answer, lead, rows>>
      BY <1>5 DEF vars
    <2>2. \A c \in Calls : CallOK(c)'
      BY <2>1, CallKept DEF IntakeInv, Keeps
    <2>3. \A k \in Keys : LeadOK(k)'
      BY <2>1 DEF IntakeInv, LeadOK, Key, Listed, Visible
    <2> QED BY <1>0, <2>2, <2>3 DEF IntakeInv
  <1> QED BY <1>1, <1>2, <1>3, <1>4, <1>5 DEF Next, AllDone

LEMMA Invariant == Spec => []IntakeInv
  BY InvInit, InvNext, PTL DEF Spec

(* A lead becomes visible together with all its deliveries: the transaction of
   accept_request reaches its commit only after it has inserted each of them. *)
THEOREM LeadsAreWhole == Spec => []AllOrNothing
  <1>1. IntakeInv => AllOrNothing
    BY DEF IntakeInv, LeadOK, AllOrNothing
  <1> QED BY <1>1, Invariant, PTL

(* An answered accept_request names the stored lead of its key, whichever of
   the concurrent calls stored it. *)
THEOREM AnswersAreStored == Spec => []AcceptedIsStored
  <1>1. IntakeInv => AcceptedIsStored
    BY DEF IntakeInv, CallOK, AcceptOK, AcceptedIsStored, Answered
  <1> QED BY <1>1, Invariant, PTL

(* An answered attach_recipients leaves every URL it named stored, by itself
   or by the calls whose inserts it waited for. *)
THEOREM AttachmentsAreStored == Spec => []AttachedIsStored
  <1>1. IntakeInv => AttachedIsStored
    BY DEF IntakeInv, CallOK, AttachOK, AttachedIsStored, Answered
  <1> QED BY <1>1, Invariant, PTL

----------------------------------------------------------------------------
(* Intake does what AtomicIntake says.  This needs to know where each row of
   `deliveries` comes from: a call that named its URL and that, as long as the
   row is open, still inserts rows for a lead that is stored or its own; *)
RowOK(k, u) ==
    LET b == rows[k][u].by IN
    b # NoCall =>
       /\ Key(b) = k /\ u \in Listed(b)
       /\ rows[k][u].open => pc[b] = "insert_rows" /\ (Visible(lead[k]) \/ lead[k] = Inserted(b))
       /\ ~rows[k][u].open => Visible(lead[k])

(* and what an attachment was told by its SELECT: what it found stays. *)
KnowsOK(c) ==
    /\ pc[c] = "insert_rows" => ToSet(todo[c]) \subseteq Listed(c)
    /\ job[c].op = "attach" =>
          /\ pc[c] = "insert_rows" => answer[c] # NoCall
          /\ answer[c] # NoCall => Visible(lead[Key(c)]) /\ answer[c] = lead[Key(c)].by

StoreInv == /\ \A c \in Calls : KnowsOK(c)
            /\ \A k \in Keys, u \in Urls : RowOK(k, u)

CallStep(c) == \/ Acquire(c)
               \/ Statement(c)
               \/ FailBeforeCommit(c)
               \/ LoseAnswer(c)
               \/ DeadlockDetected(c)

(* What is stored stays as it is. *)
StoredStays ==
    /\ job' = job
    /\ \A k \in Keys : /\ Visible(lead[k]) => lead'[k] = lead[k]
                       /\ \A u \in Urls : Visible(rows[k][u]) => rows'[k][u] = rows[k][u]

LEMMA TablesKept ==
  ASSUME UNCHANGED <<job, lead, rows>>
  PROVE  StoredStays
  BY DEF StoredStays

LEMMA EndKeeps ==
  ASSUME TypeOK, NEW c \in Calls, job' = job,
         \/ /\ lead' = [k \in Keys |-> Committed(lead[k], c)]
            /\ rows' = [k \in Keys |-> [u \in Urls |-> Committed(rows[k][u], c)]]
         \/ /\ lead' = [k \in Keys |-> RolledBack(lead[k], c)]
            /\ rows' = [k \in Keys |-> [u \in Urls |-> RolledBack(rows[k][u], c)]]
  PROVE  StoredStays
  <1>1. \A e \in Entry : Visible(e) => Committed(e, c) = e /\ RolledBack(e, c) = e
    BY DEF Visible, Inserted, Committed, RolledBack
  <1> QED BY <1>1 DEF StoredStays, TypeOK

(* A step of c that writes no table. *)
LEMMA ReadsKeep ==
  ASSUME IntakeInv, NEW c \in Calls, NEW label, Goto(c, label), UNCHANGED <<job, lead, rows>>,
         NEW b \in Calls, b # c, todo'[b] = todo[b], answer'[b] = answer[b]
  PROVE  Keeps(b)
  <1>1. pc'[b] = pc[b]
    BY DEF Goto, IntakeInv, TypeOK
  <1> QED BY <1>1 DEF Keeps

LEMMA InsertRequestKeeps ==
  ASSUME IntakeInv, NEW c \in Calls, InsertRequest(c)
  PROVE  StoredStays /\ \A b \in Calls : b # c => Keeps(b)
  <1> DEFINE key == Key(c)
  <1>1. CASE /\ lead[key] = Absent /\ lead' = [lead EXCEPT ![key] = Inserted(c)]
             /\ answer' = [answer EXCEPT ![c] = c]
             /\ ToInsert(c) /\ Goto(c, "insert_rows")
    <2>0. job' = job /\ rows' = rows
      BY DEF InsertRequest
    <2>1. ~Visible(lead[key]) /\ \A b \in Calls : lead[key] # Inserted(b)
      BY <1>1, NoCallAssumption DEF Absent, Visible, Inserted, NoCallAssumption
    <2>2. \A k \in Keys : k # key => lead'[k] = lead[k]
      BY <1>1 DEF IntakeInv, TypeOK
    <2>3. \A b \in Calls : b # c => todo'[b] = todo[b] /\ answer'[b] = answer[b] /\ pc'[b] = pc[b]
      BY <1>1 DEF ToInsert, Goto, IntakeInv, TypeOK
    <2> HIDE DEF key
    <2>4. \A k \in Keys : Visible(lead[k]) => lead'[k] = lead[k]
      BY <2>1, <2>2
    <2>5. \A b \in Calls, k \in Keys : lead[k] = Inserted(b) => lead'[k] = lead[k]
      BY <2>1, <2>2
    <2> QED BY <2>0, <2>3, <2>4, <2>5 DEF StoredStays, Keeps
  <1>2. CASE Goto(c, "select_existing") /\ UNCHANGED <<lead, answer, todo>>
    BY <1>2, ReadsKeep, TablesKept DEF InsertRequest
  <1> QED BY <1>1, <1>2 DEF InsertRequest

LEMMA InsertRowKeeps ==
  ASSUME IntakeInv, NEW c \in Calls, InsertRow(c)
  PROVE  StoredStays /\ \A b \in Calls : b # c => Keeps(b)
  <1>0. UNCHANGED <<job, pc, answer, lead>> /\ todo' = [todo EXCEPT ![c] = Tail(@)]
    BY DEF InsertRow
  <1>1. \A b \in Calls : b # c => todo'[b] = todo[b]
    BY <1>0 DEF IntakeInv, TypeOK
  <1>2. \A k \in Keys, u \in Urls :
           rows[k][u] # Absent => rows'[k][u] = rows[k][u]
    <2>0. rows \in [Keys -> [Urls -> Entry]]
      BY DEF IntakeInv, TypeOK
    <2>1. CASE /\ rows[Key(c)][Head(todo[c])] = Absent
               /\ rows' = [rows EXCEPT ![Key(c)][Head(todo[c])] = Inserted(c)]
      BY <2>0, <2>1
    <2> QED BY <2>1 DEF InsertRow
  <1>3. ~Visible(Absent) /\ \A b \in Calls : Absent # Inserted(b)
    BY NoCallAssumption DEF Inserted, Absent, Visible, NoCallAssumption
  <1> QED BY <1>0, <1>1, <1>2, <1>3 DEF StoredStays, Keeps

LEMMA EveryStepKeeps ==
  ASSUME IntakeInv, NEW c \in Calls, CallStep(c)
  PROVE  StoredStays /\ \A b \in Calls : b # c => Keeps(b)
  <1>0. TypeOK
    BY DEF IntakeInv
  <1>1. ASSUME NEW label, Goto(c, label), UNCHANGED <<job, lead, rows, todo, answer>>
        PROVE  StoredStays /\ \A b \in Calls : b # c => Keeps(b)
    BY <1>1, ReadsKeep, TablesKept
  <1>2. CASE Acquire(c) \/ Answer(c) \/ LoseAnswer(c)
    BY <1>1, <1>2 DEF Acquire, Answer, LoseAnswer
  <1>3. CASE InsertRequest(c)
    BY <1>3, InsertRequestKeeps
  <1>4. CASE SelectExisting(c)
    <2>1. \A b \in Calls : b # c => todo'[b] = todo[b] /\ answer'[b] = answer[b]
      BY <1>0, <1>4 DEF SelectExisting, TypeOK
    <2> QED BY <1>4, <2>1, ReadsKeep, TablesKept DEF SelectExisting
  <1>5. CASE CheckKnown(c)
    <2>1. \A b \in Calls : b # c => todo'[b] = todo[b] /\ answer'[b] = answer[b]
      BY <1>0, <1>5 DEF CheckKnown, ToInsert, TypeOK
    <2>2. PICK label : Goto(c, label)
      BY <1>5 DEF CheckKnown
    <2> QED BY <1>5, <2>1, <2>2, ReadsKeep, TablesKept DEF CheckKnown
  <1>6. CASE InsertRow(c)
    BY <1>6, InsertRowKeeps
  <1>7. CASE Commit(c)
    BY <1>0, <1>7, EndFacts, EndKeeps DEF Commit
  <1>8. CASE Rollback(c) /\ UNCHANGED <<job, todo, answer>>
    BY <1>0, <1>8, EndFacts, EndKeeps DEF Rollback
  <1> QED BY <1>2, <1>3, <1>4, <1>5, <1>6, <1>7, <1>8
             DEF CallStep, Statement, FailBeforeCommit, DeadlockDetected

LEMMA KnowsKept ==
  ASSUME TypeOK, NEW c \in Calls, KnowsOK(c), Keeps(c)
  PROVE  KnowsOK(c)'
  <1>1. Key(c)' = Key(c) /\ Listed(c)' = Listed(c) /\ Key(c) \in Keys
    BY ListedUrls DEF Keeps, Key, Listed
  <1>2. /\ job'[c] = job[c] /\ pc'[c] = pc[c] /\ todo'[c] = todo[c] /\ answer'[c] = answer[c]
        /\ Visible(lead[Key(c)]) => lead'[Key(c)] = lead[Key(c)]
    BY <1>1 DEF Keeps
  <1> QED BY <1>1, <1>2 DEF KnowsOK, Visible

(* A call that does not go on to insert rows. *)
LEMMA KnowsStill ==
  ASSUME TypeOK, NEW c \in Calls, KnowsOK(c), StoredStays, pc'[c] # "insert_rows",
         job[c].op = "attach" => answer'[c] = answer[c]
  PROVE  KnowsOK(c)'
  <1>1. Key(c)' = Key(c) /\ job' = job /\ Key(c) \in Keys
    BY ListedUrls DEF StoredStays, Key
  <1>2. Visible(lead[Key(c)]) => lead'[Key(c)] = lead[Key(c)]
    BY <1>1 DEF StoredStays
  <1> QED BY <1>1, <1>2 DEF KnowsOK, Visible

LEMMA KnowsStep ==
  ASSUME IntakeInv, NEW c \in Calls, KnowsOK(c), CallStep(c)
  PROVE  KnowsOK(c)'
  <1>0. TypeOK /\ StoredStays /\ job' = job /\ Key(c)' = Key(c) /\ Listed(c)' = Listed(c)
    BY EveryStepKeeps DEF IntakeInv, StoredStays, Key, Listed
  <1>1. ASSUME pc'[c] # "insert_rows", answer' = answer
        PROVE  KnowsOK(c)'
    BY <1>0, <1>1, KnowsStill
  <1>2. ASSUME NEW label, Goto(c, label)
        PROVE  pc'[c] = label
    BY <1>0, <1>2 DEF Goto, TypeOK
  <1>3. ASSUME ToInsert(c)
        PROVE  ToSet(todo'[c]) \subseteq Listed(c)
    BY <1>0, <1>3, DedupeFacts, JobTypes DEF ToInsert, Listed, TypeOK
  <1>4. CASE Acquire(c) \/ Answer(c) \/ LoseAnswer(c) \/ Commit(c)
    <2>1. pc'[c] # "insert_rows" /\ answer' = answer
      BY <1>2, <1>4 DEF Acquire, Answer, LoseAnswer, Commit
    <2> QED BY <1>1, <2>1
  <1>5. CASE FailBeforeCommit(c) \/ DeadlockDetected(c)
    <2>1. pc'[c] # "insert_rows" /\ answer' = answer
      BY <1>2, <1>5 DEF FailBeforeCommit, DeadlockDetected, Rollback
    <2> QED BY <1>1, <2>1
  <1>6. CASE InsertRequest(c)
    <2>1. job[c].op # "attach"
      BY <1>6 DEF InsertRequest, IntakeInv, CallOK, AttachOK
    <2>2. CASE ToInsert(c)
      BY <1>0, <1>3, <2>1, <2>2 DEF KnowsOK
    <2>3. CASE Goto(c, "select_existing")
      BY <1>0, <1>2, <2>1, <2>3, KnowsStill
    <2> QED BY <1>6, <2>2, <2>3 DEF InsertRequest
  <1>7. CASE SelectExisting(c)
    <2>1. job[c].op # "attach"
      BY <1>7 DEF SelectExisting, IntakeInv, CallOK, AttachOK
    <2>2. pc'[c] # "insert_rows"
      BY <1>2, <1>7 DEF SelectExisting
    <2> QED BY <1>0, <2>1, <2>2, KnowsStill
  <1>8. CASE CheckKnown(c)
    <2>1. CASE /\ Visible(lead[Key(c)]) /\ ToInsert(c)
               /\ answer' = [answer EXCEPT ![c] = lead[Key(c)].by]
      <3>1. answer'[c] = lead[Key(c)].by /\ lead' = lead /\ answer'[c] # NoCall
        BY <1>0, <1>8, <2>1 DEF CheckKnown, TypeOK, Visible
      <3> QED BY <1>0, <1>3, <2>1, <3>1 DEF KnowsOK, Visible
    <2>2. CASE Goto(c, "commit") /\ answer' = answer
      BY <1>1, <1>2, <2>2
    <2> QED BY <1>8, <2>1, <2>2 DEF CheckKnown
  <1>9. CASE InsertRow(c)
    <2>1. ToSet(todo'[c]) \subseteq ToSet(todo[c])
      BY <1>0, <1>9, TailFacts DEF InsertRow, TypeOK
    <2>2. UNCHANGED <<pc, answer, lead>>
      BY <1>9 DEF InsertRow
    <2> QED BY <1>0, <2>1, <2>2 DEF KnowsOK, Visible
  <1> QED BY <1>4, <1>5, <1>6, <1>7, <1>8, <1>9 DEF CallStep, Statement

(* A row that its call's step, or another's, leaves alone. *)
LEMMA RowKept ==
  ASSUME TypeOK, NEW k \in Keys, NEW u \in Urls, RowOK(k, u), StoredStays,
         rows'[k][u] = rows[k][u],
         rows[k][u].open /\ rows[k][u].by # NoCall => Keeps(rows[k][u].by)
  PROVE  RowOK(k, u)'
  <1>0. PICK b : b = rows[k][u].by
    OBVIOUS
  <1>1. Key(b)' = Key(b) /\ Listed(b)' = Listed(b)
    BY DEF StoredStays, Key, Listed
  <1>2. Visible(lead[k]) => lead'[k] = lead[k]
    BY DEF StoredStays
  <1>3. rows[k][u].open /\ b # NoCall =>
           /\ pc'[b] = pc[b]
           /\ lead[k] = Inserted(b) => lead'[k] = lead[k]
    BY <1>0 DEF Keeps
  <1> QED BY <1>0, <1>1, <1>2, <1>3 DEF RowOK, Visible, Inserted

LEMMA RowsStep ==
  ASSUME IntakeInv, StoreInv, NEW c \in Calls, CallStep(c), NEW k \in Keys, NEW u \in Urls
  PROVE  RowOK(k, u)'
  <1>0. /\ TypeOK /\ StoredStays /\ job' = job /\ RowOK(k, u) /\ rows[k][u] \in Entry
        /\ \A b \in Calls : b # c => Keeps(b)
        /\ \A b : Key(b)' = Key(b) /\ Listed(b)' = Listed(b)
    BY EveryStepKeeps DEF IntakeInv, StoreInv, StoredStays, TypeOK, Key, Listed
  <1>1. ASSUME rows'[k][u] = rows[k][u], ~(rows[k][u].open /\ rows[k][u].by = c)
        PROVE  RowOK(k, u)'
    <2>1. rows[k][u].by \in Calls \union {NoCall}
      BY <1>0 DEF Entry
    <2> QED BY <1>0, <1>1, <2>1, RowKept
  <1>2. CASE rows' = rows /\ pc[c] # "insert_rows"
    <2>1. ~(rows[k][u].open /\ rows[k][u].by = c)
      BY <1>0, <1>2, NoCallAssumption DEF RowOK, NoCallAssumption
    <2> QED BY <1>1, <1>2, <2>1
  <1>3. CASE InsertRow(c)
    <2>1. UNCHANGED <<pc, lead, job>> /\ pc[c] = "insert_rows"
      BY <1>3 DEF InsertRow
    <2>2. CASE rows'[k][u] = rows[k][u]
      BY <1>0, <2>1, <2>2 DEF RowOK, Visible, Inserted
    <2>3. CASE rows'[k][u] = Inserted(c) /\ k = Key(c) /\ u = Head(todo[c])
      <3>1. u \in Listed(c)
        BY <1>0, <1>3, <2>1, <2>3, TailFacts DEF InsertRow, StoreInv, KnowsOK, TypeOK
      <3>2. Visible(lead[k]) \/ lead[k] = Inserted(c)
        BY <1>0, <2>1, <2>3, JobTypes DEF StoreInv, KnowsOK, IntakeInv, CallOK, AcceptOK
      <3>3. rows'[k][u].by = c /\ rows'[k][u].open
        BY <2>3 DEF Inserted
      <3>4. lead' = lead /\ pc' = pc /\ Key(c)' = k /\ u \in Listed(c)' /\ pc'[c] = "insert_rows"
        BY <1>0, <2>1, <2>3, <3>1
      <3> QED BY <3>2, <3>3, <3>4 DEF RowOK, Visible, Inserted
    <2>4. \/ rows' = rows
          \/ rows' = [rows EXCEPT ![Key(c)][Head(todo[c])] = Inserted(c)]
      BY <1>3 DEF InsertRow
    <2>5. rows'[k][u] = rows[k][u] \/ (rows'[k][u] = Inserted(c) /\ k = Key(c) /\ u = Head(todo[c]))
      BY <1>0, <2>4 DEF TypeOK
    <2> QED BY <2>2, <2>3, <2>5
  <1>4. CASE Commit(c)
    <2>0. rows'[k][u] = Committed(rows[k][u], c) /\ lead'[k] = Committed(lead[k], c)
      BY <1>4 DEF Commit
    <2>1. CASE rows[k][u] = Inserted(c)
      <3>1. rows'[k][u].by = c /\ ~rows'[k][u].open
        BY <2>0, <2>1 DEF Committed, Inserted
      <3>2. Key(c) = k /\ u \in Listed(c) /\ (Visible(lead[k]) \/ lead[k] = Inserted(c))
        BY <1>0, <2>1, NoCallAssumption DEF RowOK, Inserted, NoCallAssumption
      <3>3. Visible(lead'[k])
        BY <2>0, <3>2, NoCallAssumption DEF Committed, Visible, Inserted, NoCallAssumption
      <3> QED BY <1>0, <3>1, <3>2, <3>3 DEF RowOK, Visible
    <2>2. CASE rows[k][u] # Inserted(c)
      <3>1. rows'[k][u] = rows[k][u] /\ ~(rows[k][u].open /\ rows[k][u].by = c)
        BY <1>0, <2>0, <2>2 DEF Committed, Inserted, Entry
      <3> QED BY <1>1, <3>1
    <2> QED BY <2>1, <2>2
  <1>5. CASE Rollback(c)
    <2>0. rows'[k][u] = RolledBack(rows[k][u], c)
      BY <1>5 DEF Rollback
    <2>1. CASE rows[k][u] = Inserted(c)
      <3>1. rows'[k][u].by = NoCall
        BY <2>0, <2>1 DEF RolledBack, Absent
      <3> QED BY <3>1 DEF RowOK
    <2>2. CASE rows[k][u] # Inserted(c)
      <3>1. rows'[k][u] = rows[k][u] /\ ~(rows[k][u].open /\ rows[k][u].by = c)
        BY <1>0, <2>0, <2>2 DEF RolledBack, Inserted, Entry
      <3> QED BY <1>1, <3>1
    <2> QED BY <2>1, <2>2
  <1>6. CASE Acquire(c) \/ LoseAnswer(c) \/ Answer(c) \/ InsertRequest(c) \/ SelectExisting(c)
             \/ CheckKnown(c)
    <2>1. rows' = rows /\ pc[c] # "insert_rows"
      BY <1>6 DEF Acquire, LoseAnswer, Answer, InsertRequest, SelectExisting, CheckKnown
    <2> QED BY <1>2, <2>1
  <1> QED BY <1>3, <1>4, <1>5, <1>6 DEF CallStep, Statement, FailBeforeCommit, DeadlockDetected

LEMMA StoreInit == Init => StoreInv
  <1> SUFFICES ASSUME Init PROVE StoreInv
    OBVIOUS
  <1>1. \A c \in Calls : KnowsOK(c)
    BY DEF Init, KnowsOK
  <1>2. \A k \in Keys, u \in Urls : RowOK(k, u)
    BY DEF Init, RowOK, Absent
  <1> QED BY <1>1, <1>2 DEF StoreInv

LEMMA StoreNext == IntakeInv /\ StoreInv /\ [Next]_vars => StoreInv'
  <1> SUFFICES ASSUME IntakeInv, StoreInv, [Next]_vars PROVE StoreInv'
    OBVIOUS
  <1>1. ASSUME NEW c \in Calls, CallStep(c) PROVE StoreInv'
    <2>1. ASSUME NEW b \in Calls PROVE KnowsOK(b)'
      <3>1. CASE b = c
        BY <1>1, <3>1, KnowsStep DEF StoreInv
      <3>2. CASE b # c
        BY <1>1, <3>2, EveryStepKeeps, KnowsKept DEF StoreInv, IntakeInv
      <3> QED BY <3>1, <3>2
    <2>2. \A k \in Keys, u \in Urls : RowOK(k, u)'
      BY <1>1, RowsStep
    <2> QED BY <2>1, <2>2 DEF StoreInv
  <1>2. CASE UNCHANGED vars
    <2>1. UNCHANGED <<job, pc, todo, answer, lead, rows>>
      BY <1>2 DEF vars
    <2>2. \A c \in Calls : KnowsOK(c)'
      BY <2>1 DEF StoreInv, KnowsOK, Key, Listed, Visible
    <2>3. \A k \in Keys, u \in Urls : RowOK(k, u)'
      BY <2>1 DEF StoreInv, RowOK, Key, Listed, Visible, Inserted
    <2> QED BY <2>2, <2>3 DEF StoreInv
  <1> QED BY <1>1, <1>2 DEF Next, AllDone, CallStep

LEMMA StoreInvariant == Spec => [](IntakeInv /\ StoreInv)
  BY InvInit, InvNext, StoreInit, StoreNext, PTL DEF Spec

(* What the calls ask for never changes. *)
LEMMA AskedStays ==
  ASSUME job' = job
  PROVE  askedBar' = askedBar
  BY DEF askedBar, Key, Listed

(* Nothing appears. *)
NothingNew ==
    \A k \in Keys : /\ Visible(lead'[k]) => Visible(lead[k])
                    /\ \A u \in Urls : Visible(rows'[k][u]) => Visible(rows[k][u])

LEMMA StoreStays ==
  ASSUME StoredStays, NothingNew
  PROVE  ownerBar' = ownerBar /\ storedBar' = storedBar
  <1>1. \A k \in Keys : /\ Visible(lead'[k]) <=> Visible(lead[k])
                        /\ Visible(lead[k]) => lead'[k].by = lead[k].by
                        /\ \A u \in Urls : Visible(rows'[k][u]) <=> Visible(rows[k][u])
    BY DEF StoredStays, NothingNew
  <1>2. ownerBar' = [k \in Keys |-> IF Visible(lead'[k]) THEN lead'[k].by ELSE NoCall]
    BY DEF ownerBar, Visible
  <1>3. storedBar' = [k \in Keys |-> {u \in Urls : Visible(rows'[k][u])}]
    BY DEF storedBar, Visible
  <1> QED BY <1>1, <1>2, <1>3 DEF ownerBar, storedBar

LEMMA ToldStays ==
  ASSUME IntakeInv, NEW c \in Calls, CallStep(c), pc[c] # "answered", pc'[c] # "answered"
  PROVE  toldBar' = toldBar
  <1>1. \A b \in Calls : b # c => pc'[b] = pc[b] /\ answer'[b] = answer[b]
    BY EveryStepKeeps DEF Keeps
  <1> QED BY <1>1 DEF toldBar

(* Only a call that inserts rows can be in a deadlock. *)
LEMMA VictimInserts ==
  ASSUME NEW c \in Calls, DeadlockDetected(c)
  PROVE  pc[c] = "insert_rows"
  <1>1. PICK cycle \in SUBSET Calls : c \in cycle /\ {WaitsFor(b) : b \in cycle} = cycle
    BY DEF DeadlockDetected
  <1>2. WaitsFor(c) \in Calls
    BY <1>1
  <1> QED BY <1>2, NoCallAssumption DEF WaitsFor, NoCallAssumption

Stores(c) == Commit(c) /\ pc[c] = "insert_rows"

LEMMA NothingNewStep ==
  ASSUME IntakeInv, StoreInv, NEW c \in Calls, CallStep(c), ~Stores(c)
  PROVE  NothingNew
  <1>0. /\ \A k \in Keys : LeadOK(k) /\ lead[k] \in Entry
        /\ \A k \in Keys, u \in Urls : RowOK(k, u) /\ rows[k][u] \in Entry
        /\ lead \in [Keys -> Entry] /\ rows \in [Keys -> [Urls -> Entry]]
    BY DEF IntakeInv, StoreInv, TypeOK
  <1>1. ~Visible(Absent) /\ ~Visible(Inserted(c))
    BY DEF Visible, Absent, Inserted
  <1>2. ASSUME NEW e, Visible(RolledBack(e, c)) PROVE Visible(e)
    BY <1>1, <1>2 DEF RolledBack
  <1>3. CASE InsertRequest(c)
    <2>1. rows' = rows /\ (lead' = lead \/ lead' = [lead EXCEPT ![Key(c)] = Inserted(c)])
      BY <1>3 DEF InsertRequest
    <2>2. \A k \in Keys : lead'[k] = lead[k] \/ lead'[k] = Inserted(c)
      BY <1>0, <2>1
    <2> QED BY <1>1, <2>1, <2>2 DEF NothingNew
  <1>4. CASE InsertRow(c)
    <2>1. lead' = lead
      BY <1>4 DEF InsertRow
    <2>2. rows' = rows \/ rows' = [rows EXCEPT ![Key(c)][Head(todo[c])] = Inserted(c)]
      BY <1>4 DEF InsertRow
    <2>3. \A k \in Keys, u \in Urls : rows'[k][u] = rows[k][u] \/ rows'[k][u] = Inserted(c)
      BY <1>0, <2>2
    <2> QED BY <1>1, <2>1, <2>3 DEF NothingNew
  <1>5. CASE Commit(c)
    <2>1. pc[c] # "insert_rows"
      BY <1>5 DEF Stores
    <2>2. \A k \in Keys : lead[k] # Inserted(c) /\ \A u \in Urls : rows[k][u] # Inserted(c)
      BY <1>0, <2>1, NoCallAssumption DEF LeadOK, RowOK, Inserted, NoCallAssumption
    <2>3. \A k \in Keys : lead'[k] = lead[k] /\ \A u \in Urls : rows'[k][u] = rows[k][u]
      BY <1>5, <2>2 DEF Commit, Committed
    <2> QED BY <2>3 DEF NothingNew
  <1>6. CASE Rollback(c)
    BY <1>2, <1>6 DEF Rollback, NothingNew
  <1>7. CASE Acquire(c) \/ LoseAnswer(c) \/ Answer(c) \/ SelectExisting(c) \/ CheckKnown(c)
    <2>1. rows' = rows /\ lead' = lead
      BY <1>7 DEF Acquire, LoseAnswer, Answer, SelectExisting, CheckKnown
    <2> QED BY <2>1 DEF NothingNew
  <1> QED BY <1>3, <1>4, <1>5, <1>6, <1>7
             DEF CallStep, Statement, FailBeforeCommit, DeadlockDetected

(* Every step but the last two of a call is invisible. *)
LEMMA QuietStep ==
  ASSUME IntakeInv, StoreInv, NEW c \in Calls, CallStep(c), ~Stores(c), ~Answer(c)
  PROVE  UNCHANGED Atomic!vars
  <1>1. StoredStays /\ job' = job
    BY EveryStepKeeps DEF StoredStays
  <1>2. ownerBar' = ownerBar /\ storedBar' = storedBar /\ askedBar' = askedBar
    BY <1>1, NothingNewStep, StoreStays, AskedStays
  <1>3. ASSUME NEW label, Goto(c, label), label # "answered" PROVE pc'[c] # "answered"
    BY <1>3 DEF Goto, IntakeInv, TypeOK
  <1>4. pc[c] # "answered"
    <2>1. CASE Acquire(c) \/ LoseAnswer(c) \/ Statement(c) \/ FailBeforeCommit(c)
      BY <2>1 DEF Acquire, LoseAnswer, Answer, SelectExisting, CheckKnown, InsertRequest,
         InsertRow, Commit, Statement, FailBeforeCommit, InTransaction
    <2>2. CASE DeadlockDetected(c)
      BY <2>2, VictimInserts
    <2> QED BY <2>1, <2>2 DEF CallStep
  <1>5. pc'[c] # "answered"
    <2>1. CASE Acquire(c) \/ LoseAnswer(c) \/ SelectExisting(c) \/ CheckKnown(c)
               \/ InsertRequest(c) \/ Commit(c)
      BY <1>3, <2>1 DEF Acquire, LoseAnswer, SelectExisting, CheckKnown, InsertRequest, Commit
    <2>2. CASE InsertRow(c)
      BY <1>4, <2>2 DEF InsertRow
    <2>3. CASE Rollback(c)
      BY <1>3, <2>3 DEF Rollback
    <2> QED BY <2>1, <2>2, <2>3 DEF CallStep, Statement, FailBeforeCommit, DeadlockDetected
  <1>6. toldBar' = toldBar
    BY <1>4, <1>5, ToldStays
  <1> QED BY <1>2, <1>6 DEF Atomic!vars

(* What the commit of a call that inserted rows makes visible: its rows, and
   its lead if it had none. *)
LEMMA CommitShows ==
  ASSUME IntakeInv, StoreInv, NEW c \in Calls, Stores(c)
  PROVE  /\ \A u \in Listed(c) : Visible(rows'[Key(c)][u])
         /\ \A k \in Keys, u \in Urls :
               Visible(rows'[k][u]) => Visible(rows[k][u]) \/ (k = Key(c) /\ u \in Listed(c))
         /\ \A k \in Keys : lead[k] # Inserted(c) => lead'[k] = lead[k]
         /\ \A k \in Keys : lead[k] = Inserted(c) =>
               k = Key(c) /\ Visible(lead'[k]) /\ lead'[k].by = c
  <1>0. /\ pc[c] = "insert_rows" /\ todo[c] = <<>> /\ Key(c) \in Keys /\ Listed(c) \subseteq Urls
        /\ \A k \in Keys : /\ lead'[k] = Committed(lead[k], c) /\ LeadOK(k)
                           /\ \A u \in Urls : /\ rows'[k][u] = Committed(rows[k][u], c)
                                              /\ RowOK(k, u)
    BY ListedUrls DEF Stores, Commit, IntakeInv, StoreInv
  <1>1. /\ Visible(Committed(Inserted(c), c)) /\ Committed(Inserted(c), c).by = c
        /\ \A e : e # Inserted(c) => Committed(e, c) = e
        /\ \A e : Visible(e) => Committed(e, c) = e
    BY NoCallAssumption DEF Visible, Inserted, Committed, NoCallAssumption
  <1>2. ASSUME NEW u \in Listed(c) PROVE Visible(rows'[Key(c)][u])
    <2>1. u \notin ToSet(todo[c])
      BY <1>0 DEF ToSet
    <2>2. Visible(rows[Key(c)][u]) \/ rows[Key(c)][u] = Inserted(c)
      BY <1>0, <2>1 DEF IntakeInv, CallOK, ListedSoFar
    <2> QED BY <1>0, <1>1, <2>2
  <1>3. ASSUME NEW k \in Keys, NEW u \in Urls, rows[k][u] = Inserted(c)
        PROVE  k = Key(c) /\ u \in Listed(c)
    BY <1>0, <1>3, NoCallAssumption DEF RowOK, Inserted, NoCallAssumption
  <1>4. ASSUME NEW k \in Keys, NEW u \in Urls, Visible(rows'[k][u])
        PROVE  Visible(rows[k][u]) \/ (k = Key(c) /\ u \in Listed(c))
    BY <1>0, <1>1, <1>3, <1>4
  <1>5. ASSUME NEW k \in Keys, lead[k] = Inserted(c)
        PROVE  k = Key(c)
    BY <1>0, <1>5, NoCallAssumption DEF LeadOK, Inserted, NoCallAssumption
  <1> QED BY <1>0, <1>1, <1>2, <1>4, <1>5

LEMMA AskedAt ==
  ASSUME NEW c \in Calls
  PROVE  askedBar[c].op = job[c].op /\ askedBar[c].key = Key(c) /\ askedBar[c].urls = Listed(c)
  BY DEF askedBar

LEMMA StoredRows ==
  ASSUME IntakeInv, StoreInv, NEW c \in Calls, Stores(c), NEW k \in Keys, NEW u \in Urls
  PROVE  Visible(rows'[k][u]) <=> Visible(rows[k][u]) \/ (k = Key(c) /\ u \in Listed(c))
  <1>1. StoredStays
    BY EveryStepKeeps DEF Stores, CallStep, Statement
  <1> QED BY <1>1, CommitShows DEF StoredStays

(* That commit is the one step in which the lead, or the attachment, appears. *)
LEMMA StoreStep ==
  ASSUME IntakeInv, StoreInv, NEW c \in Calls, Stores(c)
  PROVE  Atomic!Store(c) \/ Atomic!Attach(c)
  <1> DEFINE key == Key(c)
  <1>0. /\ TypeOK /\ job' = job /\ pc[c] = "insert_rows" /\ key \in Keys /\ Listed(c) \subseteq Urls
        /\ pc'[c] = "committed" /\ CallStep(c)
    BY ListedUrls DEF Stores, Commit, Goto, IntakeInv, TypeOK, CallStep, Statement
  <1>1. askedBar' = askedBar /\ toldBar' = toldBar
    BY <1>0, AskedStays, ToldStays
  <1>2. /\ ownerBar' = [k \in Keys |-> IF Visible(lead'[k]) THEN lead'[k].by ELSE NoCall]
        /\ storedBar' = [k \in Keys |-> {u \in Urls : Visible(rows'[k][u])}]
    BY DEF ownerBar, storedBar, Visible
  <1>3. /\ \A k \in Keys : lead[k] # Inserted(c) => lead'[k] = lead[k]
        /\ \A k \in Keys : lead[k] = Inserted(c) => k = key /\ Visible(lead'[k]) /\ lead'[k].by = c
    BY CommitShows
  <1>4. askedBar[c].op = job[c].op /\ askedBar[c].key = key /\ askedBar[c].urls = Listed(c)
    BY AskedAt
  <1>5. CASE job[c].op = "accept"
    <2>1. lead[key] = Inserted(c)
      BY <1>0, <1>5 DEF IntakeInv, CallOK, AcceptOK
    <2>2. ~Visible(lead[key])
      BY <2>1 DEF Visible, Inserted
    <2> HIDE DEF key
    <2>3. ownerBar[key] = NoCall /\ ownerBar' = [ownerBar EXCEPT ![key] = c]
      <3>1. \A k \in Keys : k # key => lead'[k] = lead[k]
        BY <1>3
      <3> QED BY <1>0, <1>2, <1>3, <2>1, <2>2, <3>1 DEF ownerBar
    <2>4. storedBar' = [storedBar EXCEPT ![key] = Listed(c)]
      <3>1. \A u \in Urls : ~Visible(rows[key][u])
        BY <1>0, <2>2 DEF StoreInv, RowOK, Visible
      <3>2. \A k \in Keys, u \in Urls :
               Visible(rows'[k][u]) <=> Visible(rows[k][u]) \/ (k = key /\ u \in Listed(c))
        BY StoredRows DEF key
      <3>3. {u \in Urls : Visible(rows'[key][u])} = Listed(c)
        BY <1>0, <3>1, <3>2
      <3>4. ASSUME NEW k \in Keys, k # key
            PROVE  {u \in Urls : Visible(rows'[k][u])} = {u \in Urls : Visible(rows[k][u])}
        BY <3>2, <3>4
      <3> QED BY <1>0, <1>2, <3>3, <3>4 DEF storedBar
    <2> QED BY <1>1, <1>4, <1>5, <2>3, <2>4 DEF Atomic!Store
  <1>6. CASE job[c].op = "attach"
    <2>1. Visible(lead[key])
      BY <1>0, <1>6 DEF StoreInv, KnowsOK
    <2>2. ASSUME NEW k \in Keys, lead[k] = Inserted(c) PROVE FALSE
      <3>1. ~Visible(lead[k])
        BY <2>2 DEF Visible, Inserted
      <3>2. k = key
        BY <1>3, <2>2
      <3> QED BY <2>1, <3>1, <3>2
    <2> HIDE DEF key
    <2>3. ownerBar[key] # NoCall /\ ownerBar' = ownerBar
      <3>1. \A k \in Keys : lead'[k] = lead[k]
        BY <1>3, <2>2
      <3> QED BY <1>0, <1>2, <2>1, <3>1 DEF ownerBar, Visible
    <2>4. storedBar' = [storedBar EXCEPT ![key] = @ \union Listed(c)]
      <3>1. \A k \in Keys, u \in Urls :
               Visible(rows'[k][u]) <=> Visible(rows[k][u]) \/ (k = key /\ u \in Listed(c))
        BY StoredRows DEF key
      <3>2. {u \in Urls : Visible(rows'[key][u])}
               = {u \in Urls : Visible(rows[key][u])} \union Listed(c)
        BY <1>0, <3>1
      <3>3. ASSUME NEW k \in Keys, k # key
            PROVE  {u \in Urls : Visible(rows'[k][u])} = {u \in Urls : Visible(rows[k][u])}
        BY <3>1, <3>3
      <3> QED BY <1>0, <1>2, <3>2, <3>3 DEF storedBar
    <2> QED BY <1>1, <1>4, <1>6, <2>3, <2>4 DEF Atomic!Attach
  <1> QED BY <1>0, <1>5, <1>6, JobTypes

(* An answer is true when it is given. *)
LEMMA AnswerStep ==
  ASSUME IntakeInv, StoreInv, NEW c \in Calls, Answer(c)
  PROVE  \E id \in Calls \union {NoCall} : Atomic!Tell(c, id)
  <1> DEFINE key == Key(c)
             id == answer[c]
  <1>0. /\ TypeOK /\ pc[c] = "committed" /\ pc' = [pc EXCEPT ![c] = "answered"]
        /\ UNCHANGED <<job, answer, lead, rows>> /\ key \in Keys /\ Listed(c) \subseteq Urls
        /\ id \in Calls \union {NoCall}
    BY ListedUrls DEF Answer, Goto, IntakeInv, TypeOK
  <1>1. askedBar' = askedBar /\ ownerBar' = ownerBar /\ storedBar' = storedBar
    BY <1>0, AskedStays DEF ownerBar, storedBar
  <1>2. toldBar' = toldBar \union {<<c, id>>}
    BY <1>0 DEF toldBar, TypeOK
  <1>3. \A answered \in toldBar : answered[1] # c
    BY <1>0 DEF toldBar
  <1>4. askedBar[c].op = job[c].op /\ askedBar[c].key = key /\ askedBar[c].urls = Listed(c)
    BY AskedAt
  <1>5. ownerBar[key] = (IF Visible(lead[key]) THEN lead[key].by ELSE NoCall)
        /\ storedBar[key] = {u \in Urls : Visible(rows[key][u])}
    BY <1>0 DEF ownerBar, storedBar
  <1>6. CASE job[c].op = "accept"
    <2>1. Visible(lead[key]) /\ id = lead[key].by
      BY <1>0, <1>6 DEF IntakeInv, CallOK, AcceptOK
    <2>2. \A u \in Listed(id) : Visible(rows[key][u])
      BY <1>0, <2>1 DEF IntakeInv, LeadOK
    <2>3. id # NoCall /\ ownerBar[key] = id
      BY <1>5, <2>1 DEF Visible
    <2>4. id = c => Listed(c) \subseteq storedBar[key]
      BY <1>0, <1>5, <2>2
    <2> HIDE DEF key, id
    <2> QED BY <1>0, <1>1, <1>2, <1>3, <1>4, <1>6, <2>3, <2>4 DEF Atomic!Tell
  <1>7. CASE job[c].op = "attach"
    <2>1. id # NoCall => Visible(lead[key]) /\ id = lead[key].by
      BY <1>7 DEF StoreInv, KnowsOK
    <2>2. id # NoCall => \A u \in Listed(c) : Visible(rows[key][u])
      BY <1>0, <1>7 DEF IntakeInv, CallOK, AttachOK
    <2>3. id # NoCall => ownerBar[key] = id /\ Listed(c) \subseteq storedBar[key]
      BY <1>0, <1>5, <2>1, <2>2
    <2> HIDE DEF key, id
    <2> QED BY <1>0, <1>1, <1>2, <1>3, <1>4, <1>7, <2>3 DEF Atomic!Tell
  <1> QED BY <1>0, <1>6, <1>7, JobTypes

LEMMA AtomicInit == Init => Atomic!Init
  <1> SUFFICES ASSUME Init PROVE Atomic!Init
    OBVIOUS
  <1>0. TypeOK
    BY TypeInit
  <1>1. askedBar \in [Calls -> Atomic!Request]
    <2>1. \A c \in Calls : [op |-> job[c].op, key |-> Key(c), urls |-> Listed(c)] \in Atomic!Request
      BY <1>0, JobTypes, ListedUrls DEF Atomic!Request
    <2> QED BY <2>1 DEF askedBar
  <1>2. ownerBar = [k \in Keys |-> NoCall] /\ storedBar = [k \in Keys |-> {}]
    BY DEF Init, ownerBar, storedBar, Visible, Absent
  <1>3. toldBar = {}
    BY DEF Init, toldBar
  <1> QED BY <1>1, <1>2, <1>3 DEF Atomic!Init

(* Calls of accept_request and attach_recipients that run at the same time,
   wait for each other, deadlock and fail have the effect of calls that each
   take one step, the commit of the call that inserted; and every answer is
   true when it is given. *)
THEOREM IntakeIsAtomic == Spec => ImplementsAtomicIntake
  <1>1. IntakeInv /\ StoreInv /\ [Next]_vars => [Atomic!Next]_(Atomic!vars)
    <2> SUFFICES ASSUME IntakeInv, StoreInv, [Next]_vars
                 PROVE  Atomic!Next \/ UNCHANGED Atomic!vars
      OBVIOUS
    <2>1. ASSUME NEW c \in Calls, CallStep(c)
          PROVE  Atomic!Next \/ UNCHANGED Atomic!vars
      <3>1. CASE Stores(c)
        BY <3>1, StoreStep DEF Atomic!Next
      <3>2. CASE Answer(c)
        BY <3>2, AnswerStep DEF Atomic!Next
      <3> QED BY <2>1, <3>1, <3>2, QuietStep
    <2>2. CASE UNCHANGED vars
      <3>1. UNCHANGED <<job, pc, answer, lead, rows>>
        BY <2>2 DEF vars
      <3>2. UNCHANGED <<askedBar, ownerBar, storedBar, toldBar>>
        BY <3>1, AskedStays DEF ownerBar, storedBar, toldBar, Visible
      <3> QED BY <3>2 DEF Atomic!vars
    <2> QED BY <2>1, <2>2 DEF Next, AllDone, CallStep
  <1> QED BY <1>1, AtomicInit, StoreInvariant, PTL
             DEF ImplementsAtomicIntake, Atomic!IntakeSpec, Spec
=============================================================================
