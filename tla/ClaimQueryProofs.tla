-------------------------- MODULE ClaimQueryProofs --------------------------
(***************************************************************************)
(* Proofs about ClaimQuery, for any rows, origins, workers and settings:   *)
(* claims that overlap are like claims made one after the other.           *)
(***************************************************************************)
EXTENDS ClaimQuery, TLAPS, FiniteSetTheorems, SequenceTheorems

Lists == UNION {[1..n -> Rows] : n \in 0..Cardinality(Rows)}

Orderings == {s \in Lists : IsInjective(s)}

(* What a claim in the making may rely on: the rows it has locked are due and
   nobody else's, and there will be slots for them. *)
ClaimOK(w) ==
    /\ query[w].locked \subseteq ToSet(due)
    /\ Cardinality(query[w].locked) <= query[w].limit
    /\ query[w].phase = "picking" => Cardinality(HeldBy(w)) + query[w].limit <= WorkerConcurrency
    /\ \A v \in Workers \ {w} : query[v].locked \intersect query[w].locked = {}

(* The rows it has locked or may still lock, of one origin. *)
Candidates(w, o) == {r \in query[w].locked \union ToSet(query[w].ranked) : Origin[r] = o}

CapOK(w) == \A o \in Origins : Cardinality(Candidates(w, o)) <= MaxPerOrigin

ClaimInv == TypeOK /\ \A w \in Workers : ClaimOK(w)

CapInv == TypeOK /\ \A w \in Workers : CapOK(w)

----------------------------------------------------------------------------
(* Order. *)

LEMMA SetSizes ==
  /\ Cardinality(Rows) \in Nat
  /\ \A S \in SUBSET Rows : IsFiniteSet(S) /\ Cardinality(S) \in Nat /\ Cardinality(S) <= Cardinality(Rows)
  BY RowsAssumption, FS_CardinalityType, FS_Subset DEF RowsAssumption

LEMMA SubsetSizes ==
  ASSUME NEW S \in SUBSET Rows, NEW T \in SUBSET S
  PROVE  Cardinality(T) <= Cardinality(S)
  BY SetSizes, FS_Subset

(* An ordering: its length, and what it is made of. *)
LEMMA OrderingFacts ==
  ASSUME NEW s \in Orderings
  PROVE  /\ Len(s) \in Nat /\ DOMAIN s = 1..Len(s) /\ s \in [1..Len(s) -> Rows]
         /\ \A i, j \in 1..Len(s) : s[i] = s[j] => i = j
         /\ ToSet(s) \in SUBSET Rows
         /\ Cardinality(ToSet(s)) = Len(s)
  <1>1. PICK n \in 0..Cardinality(Rows) : s \in [1..n -> Rows]
    BY DEF Orderings, Lists
  <1>2. n \in Nat /\ Len(s) = n /\ DOMAIN s = 1..n
    BY <1>1, SetSizes
  <1>3. \A i, j \in 1..n : s[i] = s[j] => i = j
    BY <1>2 DEF Orderings, IsInjective
  <1>4. ToSet(s) \in SUBSET Rows
    BY <1>1, <1>2 DEF ToSet
  <1>5. s \in Injection(1..n, ToSet(s)) /\ s \in Surjection(1..n, ToSet(s))
    BY <1>1, <1>2, <1>3 DEF Injection, Surjection, IsInjective, ToSet
  <1>6. IsFiniteSet(1..n) /\ Cardinality(1..n) = n
    BY <1>2, FS_Interval
  <1>7. Cardinality(ToSet(s)) = n
    BY <1>5, <1>6, FS_Surjection
  <1> QED BY <1>1, <1>2, <1>3, <1>4, <1>7

(* Conversely. *)
LEMMA MakesOrdering ==
  ASSUME NEW n \in Nat, NEW s \in [1..n -> Rows], \A i, j \in 1..n : s[i] = s[j] => i = j
  PROVE  s \in Orderings
  <1>1. s \in Injection(1..n, Rows)
    BY DEF Injection, IsInjective
  <1>2. Cardinality(1..n) <= Cardinality(Rows) /\ Cardinality(1..n) = n
    BY <1>1, RowsAssumption, FS_Injection, FS_Interval DEF RowsAssumption
  <1>3. n \in 0..Cardinality(Rows)
    BY <1>2, SetSizes
  <1> QED BY <1>3 DEF Orderings, Lists, IsInjective

(* The places of a set of numbers: each has its number, from 1 on. *)
LEMMA Places ==
  ASSUME NEW n \in Nat, NEW P \in SUBSET (1..n)
  PROVE  /\ IsFiniteSet(P) /\ Cardinality(P) \in Nat
         /\ \A i \in P : Cardinality({j \in P : j <= i}) \in 1..Cardinality(P)
         /\ \A i, j \in P : i < j =>
              Cardinality({k \in P : k <= i}) < Cardinality({k \in P : k <= j})
         /\ \A k \in 1..Cardinality(P) : \E i \in P : Cardinality({j \in P : j <= i}) = k
  <1> DEFINE upTo(i) == {j \in P : j <= i}
             f == [i \in P |-> Cardinality(upTo(i))]
  <1>1. IsFiniteSet(P) /\ Cardinality(P) \in Nat
    <2>1. IsFiniteSet(1..n)
      BY FS_Interval
    <2> QED BY <2>1, FS_Subset, FS_CardinalityType
  <1>2. \A i \in P : IsFiniteSet(upTo(i)) /\ Cardinality(upTo(i)) \in Nat
    BY <1>1, FS_Subset, FS_CardinalityType
  <1>3. ASSUME NEW i \in P PROVE Cardinality(upTo(i)) \in 1..Cardinality(P)
    <2>1. upTo(i) \in SUBSET P /\ i \in upTo(i)
      OBVIOUS
    <2>2. Cardinality(upTo(i)) <= Cardinality(P)
      BY <1>1, <2>1, FS_Subset
    <2>3. Cardinality(upTo(i)) # 0
      BY <1>2, <2>1, FS_EmptySet
    <2> QED BY <1>1, <1>2, <2>2, <2>3
  <1>4. ASSUME NEW i \in P, NEW j \in P, i < j
        PROVE  Cardinality(upTo(i)) < Cardinality(upTo(j))
    <2>1. upTo(i) \in SUBSET upTo(j) /\ j \in upTo(j) /\ j \notin upTo(i)
      <3>1. \A k \in P : k \in Nat
        OBVIOUS
      <3>2. \A k \in P : k <= i => k <= j
        BY <1>4, <3>1
      <3>3. j <= j /\ ~(j <= i)
        BY <1>4, <3>1
      <3> QED BY <3>2, <3>3
    <2>2. /\ Cardinality(upTo(i)) <= Cardinality(upTo(j))
          /\ Cardinality(upTo(j)) = Cardinality(upTo(i)) => upTo(j) = upTo(i)
      BY <1>2, <2>1, FS_Subset
    <2> QED BY <1>2, <2>1, <2>2
  <1>5. f \in Injection(P, 1..Cardinality(P))
    <2>1. f \in [P -> 1..Cardinality(P)]
      BY <1>3
    <2>2. \A i, j \in P : f[i] = f[j] => i = j
      <3>1. \A i, j \in P : i < j => f[i] < f[j]
        BY <1>4
      <3>2. \A i \in P : f[i] \in Nat /\ i \in Nat
        BY <1>2
      <3> HIDE DEF f
      <3> QED BY <3>1, <3>2
    <2> HIDE DEF f
    <2> QED BY <2>1, <2>2 DEF Injection, IsInjective
  <1>6. f \in Surjection(P, 1..Cardinality(P))
    <2>1. IsFiniteSet(1..Cardinality(P)) /\ Cardinality(1..Cardinality(P)) = Cardinality(P)
      BY <1>1, FS_Interval
    <2> HIDE DEF f
    <2> QED BY <1>5, <2>1, FS_Injection
  <1>7. \A k \in 1..Cardinality(P) : \E i \in P : f[i] = k
    <2> HIDE DEF f
    <2> QED BY <1>6 DEF Surjection
  <1> QED BY <1>1, <1>3, <1>4, <1>7

(* The due rows among rs, in some order without repetition. *)
LEMMA InOrderFacts ==
  ASSUME due \in Orderings, NEW rs
  PROVE  InOrder(rs) \in Orderings /\ ToSet(InOrder(rs)) = ToSet(due) \intersect rs
  <1> DEFINE places == {i \in DOMAIN due : due[i] \in rs}
             rank(i) == Cardinality({j \in places : j <= i})
             nth(k) == CHOOSE i \in places : rank(i) = k
             m == Cardinality(places)
  <1>1. places \in SUBSET (1..Len(due)) /\ Len(due) \in Nat
    BY OrderingFacts
  <1>2. /\ m \in Nat
        /\ \A i \in places : rank(i) \in 1..m
        /\ \A i, j \in places : i < j => rank(i) < rank(j)
        /\ \A k \in 1..m : \E i \in places : rank(i) = k
    BY <1>1, Places
  <1>3. InOrder(rs) = [k \in 1..m |-> due[nth(k)]]
    BY DEF InOrder
  <1>4. \A i, j \in places : rank(i) = rank(j) => i = j
    <2>1. \A i \in places : i \in Nat /\ rank(i) \in Nat
      <3> HIDE DEF rank
      <3>1. \A i \in places : i \in 1..Len(due)
        BY <1>1
      <3>2. \A i \in places : rank(i) \in 1..m
        BY <1>2
      <3> HIDE DEF places
      <3> QED BY <1>1, <1>2, <3>1, <3>2
    <2> HIDE DEF rank, places
    <2> QED BY <1>2, <2>1
  <1> HIDE DEF rank
  <1>5. \A k \in 1..m : nth(k) \in places /\ rank(nth(k)) = k
    BY <1>2
  <1>6. \A i \in places : nth(rank(i)) = i
    BY <1>2, <1>4, <1>5
  <1> HIDE DEF nth
  <1>7. \A i \in places : i \in 1..Len(due) /\ due[i] \in Rows /\ due[i] \in rs
    BY <1>1, OrderingFacts
  <1>8. InOrder(rs) \in [1..m -> Rows]
    BY <1>3, <1>5, <1>7
  <1>9. \A k, l \in 1..m : InOrder(rs)[k] = InOrder(rs)[l] => k = l
    <2>1. \A k, l \in 1..m : due[nth(k)] = due[nth(l)] => nth(k) = nth(l)
      BY <1>5, <1>7, OrderingFacts
    <2> QED BY <1>3, <1>5, <2>1
  <1>10. InOrder(rs) \in Orderings
    BY <1>2, <1>8, <1>9, MakesOrdering
  <1>11. ASSUME NEW r PROVE r \in ToSet(InOrder(rs)) <=> r \in ToSet(due) /\ r \in rs
    <2>1. r \in ToSet(InOrder(rs)) <=> \E k \in 1..m : r = due[nth(k)]
      BY <1>3 DEF ToSet
    <2>2. r \in ToSet(due) /\ r \in rs <=> \E i \in places : r = due[i]
      BY DEF ToSet
    <2> HIDE DEF places
    <2>3. (\E k \in 1..m : r = due[nth(k)]) <=> \E i \in places : r = due[i]
      BY <1>2, <1>5, <1>6
    <2> QED BY <2>1, <2>2, <2>3
  <1> QED BY <1>10, <1>11

----------------------------------------------------------------------------
(* Types. *)

LEMMA TypeParts ==
  TypeOK <=> /\ due \in Orderings
             /\ holder \in [Rows -> Workers \union {NoOne}]
             /\ query \in [Workers -> Query]
             /\ disturbances \in 0..MaxDisturbances
  BY DEF TypeOK, Orderings, Lists

LEMMA TypePartsNext ==
  TypeOK' <=> /\ due' \in Orderings
              /\ holder' \in [Rows -> Workers \union {NoOne}]
              /\ query' \in [Workers -> Query]
              /\ disturbances' \in 0..MaxDisturbances
  BY DEF TypeOK, Orderings, Lists

LEMMA QueryParts ==
  Query = [phase : {"idle", "picking", "asleep"}, limit : 0..WorkerBatchSize,
           ranked : Lists, locked : SUBSET Rows, late : SUBSET Rows]
  BY DEF Query, Lists

LEMMA TailFacts ==
  ASSUME NEW s \in Lists, s # <<>>
  PROVE  /\ Head(s) \in Rows /\ Tail(s) \in Lists
         /\ ToSet(s) = {Head(s)} \union ToSet(Tail(s))
  <1>1. PICK n \in 0..Cardinality(Rows) : s \in [1..n -> Rows]
    BY DEF Lists
  <1>2. n \in Nat \ {0} /\ s \in Seq(Rows) /\ Len(s) = n
    BY <1>1, SetSizes
  <1>3. Tail(s) = [i \in 1..(n - 1) |-> s[i + 1]] /\ Head(s) = s[1]
    <2>1. /\ Tail(s) \in Seq(Rows) /\ Len(Tail(s)) = n - 1
          /\ \A i \in 1..Len(Tail(s)) : Tail(s)[i] = s[i + 1]
      BY <1>2, HeadTailProperties
    <2>2. Tail(s) \in [1..(n - 1) -> Rows]
      BY <2>1, LenProperties
    <2>3. \A i \in 1..(n - 1) : Tail(s)[i] = s[i + 1]
      BY <2>1
    <2>4. Head(s) = s[1]
      BY <1>2
    <2> QED BY <2>2, <2>3, <2>4
  <1>4. Tail(s) \in [1..(n - 1) -> Rows] /\ n - 1 \in 0..Cardinality(Rows)
    BY <1>1, <1>2, <1>3, SetSizes
  <1>5. ASSUME NEW r PROVE r \in ToSet(s) <=> r = s[1] \/ r \in ToSet(Tail(s))
    <2>1. r \in ToSet(s) <=> \E i \in 1..n : r = s[i]
      BY <1>1 DEF ToSet
    <2>2. r \in ToSet(Tail(s)) <=> \E i \in 1..(n - 1) : r = s[i + 1]
      BY <1>3 DEF ToSet
    <2>3. ASSUME NEW i \in 1..n, i # 1 PROVE i - 1 \in 1..(n - 1) /\ (i - 1) + 1 = i
      BY <1>2, <2>3
    <2>4. \A i \in 1..(n - 1) : i + 1 \in 1..n
      BY <1>2
    <2>5. 1 \in 1..n
      BY <1>2
    <2> QED BY <2>1, <2>2, <2>3, <2>4, <2>5
  <1> QED BY <1>1, <1>2, <1>3, <1>4, <1>5 DEF Lists

(* A row joins the queue at its end. *)
LEMMA JoinFacts ==
  ASSUME NEW s \in Orderings, NEW r \in Rows, r \notin ToSet(s)
  PROVE  Append(s, r) \in Orderings /\ ToSet(Append(s, r)) = ToSet(s) \union {r}
  <1> DEFINE n == Len(s)
             t == Append(s, r)
  <1>1. /\ n \in Nat /\ s \in [1..n -> Rows] /\ DOMAIN s = 1..n
        /\ \A i, j \in 1..n : s[i] = s[j] => i = j
    BY OrderingFacts
  <1>2. t = [i \in 1..(n + 1) |-> IF i \in 1..n THEN s[i] ELSE r]
    <2>1. s \in Seq(Rows)
      BY <1>1
    <2>2. /\ t \in Seq(Rows) /\ Len(t) = n + 1
          /\ \A i \in 1..n : t[i] = s[i]
          /\ t[n + 1] = r
      BY <1>1, <2>1, AppendProperties
    <2>3. t \in [1..(n + 1) -> Rows]
      BY <2>2, LenProperties
    <2>4. \A i \in 1..(n + 1) : i \in 1..n \/ i = n + 1
      BY <1>1
    <2> QED BY <1>1, <2>2, <2>3, <2>4
  <1>3. \A i \in 1..n : s[i] \in ToSet(s)
    BY <1>1 DEF ToSet
  <1> HIDE DEF t, n
  <1>4. \A i \in 1..(n + 1) : i \in 1..n \/ i = n + 1
    BY <1>1
  <1>5. t \in [1..(n + 1) -> Rows] /\ \A i, j \in 1..(n + 1) : t[i] = t[j] => i = j
    BY <1>1, <1>2, <1>3, <1>4
  <1>6. t \in Orderings
    BY <1>1, <1>5, MakesOrdering
  <1>7. ASSUME NEW q PROVE q \in ToSet(t) <=> q \in ToSet(s) \/ q = r
    <2>1. q \in ToSet(t) <=> \E i \in 1..(n + 1) : q = t[i]
      BY <1>2 DEF ToSet
    <2>2. q \in ToSet(s) <=> \E i \in 1..n : q = s[i]
      BY <1>1 DEF ToSet
    <2>3. t[n + 1] = r /\ n + 1 \in 1..(n + 1) /\ \A i \in 1..n : t[i] = s[i] /\ i \in 1..(n + 1)
      BY <1>1, <1>2
    <2> QED BY <1>4, <2>1, <2>2, <2>3
  <1> QED BY <1>6, <1>7 DEF t

LEMMA WithoutFacts ==
  ASSUME due \in Orderings, NEW rs
  PROVE  Without(rs) \in Orderings /\ ToSet(Without(rs)) = ToSet(due) \ rs
  BY InOrderFacts, OrderingFacts DEF Without

LEMMA LimitFacts ==
  ASSUME NEW w \in Workers, Limit(w) > 0
  PROVE  /\ Limit(w) \in 0..WorkerBatchSize
         /\ Cardinality(HeldBy(w)) + Limit(w) <= WorkerConcurrency
  <1>1. HeldBy(w) \in SUBSET Rows
    BY DEF HeldBy
  <1>2. Cardinality(HeldBy(w)) \in Nat /\ WorkerConcurrency \in Nat /\ WorkerBatchSize \in Nat
    BY <1>1, SetSizes, SettingsAssumption DEF SettingsAssumption
  <1> QED BY <1>2 DEF Limit, Smaller

LEMMA TypeInit == Init => TypeOK
  <1> SUFFICES ASSUME Init PROVE TypeOK
    OBVIOUS
  <1>1. due \in Orderings
    <2>1. /\ due \in [1..Cardinality(Rows) -> Rows]
          /\ \A i, j \in 1..Cardinality(Rows) : due[i] = due[j] => i = j
      BY DEF Init, SetToSeqs
    <2> QED BY <2>1, SetSizes, MakesOrdering
  <1>2. NoQuery("idle") \in Query
    <2>1. <<>> \in Lists
      BY SetSizes DEF Lists
    <2> QED BY <2>1, QueryParts, SettingsAssumption DEF NoQuery, SettingsAssumption
  <1> QED BY <1>1, <1>2, TypeParts, SettingsAssumption DEF Init, SettingsAssumption

LEMMA TypeNext == TypeOK /\ [Next]_vars => TypeOK'
  <1> SUFFICES ASSUME TypeOK, [Next]_vars PROVE TypeOK'
    OBVIOUS
  <1> USE TypeParts, TypePartsNext
  <1>0. \A phase \in {"idle", "asleep"} : NoQuery(phase) \in Query
    <2>1. <<>> \in Lists
      BY SetSizes DEF Lists
    <2> QED BY <2>1, QueryParts, SettingsAssumption DEF NoQuery, SettingsAssumption
  <1>1. ASSUME NEW w \in Workers, Rank(w) PROVE TypeOK'
    <2>1. Ranked(Limit(w)) \in Lists
      BY InOrderFacts DEF Ranked, Orderings
    <2>2. [phase |-> "picking", limit |-> Limit(w), ranked |-> Ranked(Limit(w)),
           locked |-> {}, late |-> {}] \in Query
      BY <1>1, <2>1, LimitFacts, QueryParts DEF Rank
    <2> QED BY <1>1, <2>2 DEF Rank
  <1>2. ASSUME NEW w \in Workers, Pick(w) PROVE TypeOK'
    <2> DEFINE r == Head(query[w].ranked)
               taken == IF ~Locked(r) /\ StillDue(w, r) THEN {r} ELSE {}
    <2>1. query[w] \in Query /\ query[w].ranked \in Lists /\ query[w].ranked # <<>>
      BY <1>2, QueryParts DEF Pick, PickingMore
    <2>2. taken \in SUBSET Rows /\ Tail(query[w].ranked) \in Lists
      BY <2>1, TailFacts
    <2>3. query' = [query EXCEPT ![w].ranked = Tail(@), ![w].locked = @ \union taken]
      BY <1>2 DEF Pick
    <2> HIDE DEF taken
    <2>4. query' \in [Workers -> Query]
      BY <2>1, <2>2, <2>3, QueryParts
    <2> QED BY <1>2, <2>4 DEF Pick
  <1>3. ASSUME NEW w \in Workers, Claim(w) PROVE TypeOK'
    <2>1. due' \in Orderings
      BY <1>3, WithoutFacts DEF Claim
    <2>2. holder' \in [Rows -> Workers \union {NoOne}]
      BY <1>3 DEF Claim
    <2>3. query' \in [Workers -> Query]
      BY <1>0, <1>3 DEF Claim
    <2> QED BY <1>3, <2>1, <2>2, <2>3 DEF Claim
  <1>4. ASSUME NEW w \in Workers, Abort(w) PROVE TypeOK'
    BY <1>0, <1>4, SettingsAssumption DEF Abort, Disturbance, SettingsAssumption
  <1>5. ASSUME NEW w \in Workers, Wake(w) PROVE TypeOK'
    BY <1>0, <1>5 DEF Wake
  <1>6. ASSUME NEW r \in Rows, Release(r) PROVE TypeOK'
    BY <1>6 DEF Release
  <1>7. ASSUME NEW r \in Rows, NEW ws, Later(r, ws) PROVE query' \in [Workers -> Query]
    BY <1>7, QueryParts DEF Later
  <1>8. ASSUME NEW r \in Rows, Arrive(r) PROVE TypeOK'
    BY <1>7, <1>8, JoinFacts DEF Arrive
  <1>9. ASSUME NEW r \in Rows, Requeue(r) PROVE TypeOK'
    <2>1. due' \in Orderings
      BY <1>9, WithoutFacts, JoinFacts DEF Requeue
    <2> QED BY <1>7, <1>9, <2>1, SettingsAssumption DEF Requeue, Disturbance, SettingsAssumption
  <1>10. CASE UNCHANGED vars
    BY <1>10 DEF vars
  <1> QED BY <1>1, <1>2, <1>3, <1>4, <1>5, <1>6, <1>8, <1>9, <1>10 DEF Next, ClaimStep

(* The state of the queue and of the claims is well typed; no row is due
   twice. *)
THEOREM TypeCorrect == Spec => []TypeOK
  BY TypeInit, TypeNext, PTL DEF Spec

----------------------------------------------------------------------------
(* Locks and slots. *)

(* A claim that a step does not touch, while the worker's slots only get free. *)
LEMMA ClaimKept ==
  ASSUME ClaimInv, NEW w \in Workers, ToSet(due') \in SUBSET Rows,
         query'[w].locked = query[w].locked, query'[w].limit = query[w].limit,
         query'[w].phase = query[w].phase,
         query[w].locked \subseteq ToSet(due'),
         \A r \in Rows : holder'[r] = w => holder[r] = w,
         \A v \in Workers \ {w} : query'[v].locked \intersect query[w].locked = {}
  PROVE  ClaimOK(w)'
  <1>1. HeldBy(w)' \in SUBSET HeldBy(w) /\ HeldBy(w) \in SUBSET Rows
    BY DEF HeldBy
  <1>2. /\ Cardinality(HeldBy(w)') <= Cardinality(HeldBy(w))
        /\ Cardinality(HeldBy(w)') \in Nat /\ Cardinality(HeldBy(w)) \in Nat
    BY <1>1, SubsetSizes, SetSizes
  <1>3. query[w].limit \in Nat /\ WorkerConcurrency \in Nat
    BY QueryParts, SettingsAssumption DEF ClaimInv, TypeOK, SettingsAssumption
  <1>4. ClaimOK(w)
    BY DEF ClaimInv
  <1> QED BY <1>2, <1>3, <1>4 DEF ClaimOK

(* A claim that begins or ends has no locks. *)
LEMMA NoLocks ==
  ASSUME NEW w \in Workers, query'[w].locked = {}, query'[w].limit \in Nat,
         query'[w].phase = "picking" =>
            Cardinality(HeldBy(w)') + query'[w].limit <= WorkerConcurrency
  PROVE  ClaimOK(w)'
  BY FS_EmptySet DEF ClaimOK

LEMMA ClaimInit == Init => ClaimInv
  <1> SUFFICES ASSUME Init PROVE ClaimInv
    OBVIOUS
  <1>1. \A w \in Workers : query[w].locked = {} /\ query[w].limit = 0 /\ query[w].phase # "picking"
    BY DEF Init, NoQuery
  <1>2. Cardinality({}) = 0
    BY FS_EmptySet
  <1>3. ASSUME NEW w \in Workers PROVE ClaimOK(w)
    <2>1. query[w].locked = {} /\ query[w].limit = 0 /\ query[w].phase # "picking"
      BY <1>1
    <2>2. Cardinality(query[w].locked) = 0
      BY <1>2, <2>1, Zenon
    <2>3. Cardinality(query[w].locked) <= query[w].limit
      BY <2>1, <2>2
    <2> QED BY <2>1, <2>3 DEF ClaimOK
  <1> QED BY <1>3, TypeInit DEF ClaimInv

LEMMA ClaimPick ==
  ASSUME ClaimInv, TypeOK', NEW w \in Workers, Pick(w), NEW v \in Workers
  PROVE  ClaimOK(v)'
  <1> DEFINE r == Head(query[w].ranked)
             taken == IF ~Locked(r) /\ StillDue(w, r) THEN {r} ELSE {}
  <1>1. /\ \A u \in Workers : ClaimOK(u) /\ query[u] \in Query
        /\ query \in [Workers -> Query] /\ due \in Orderings
    BY TypeParts DEF ClaimInv
  <1>2. /\ query' = [query EXCEPT ![w].ranked = Tail(@), ![w].locked = @ \union taken]
        /\ UNCHANGED <<due, holder>>
        /\ Cardinality(query[w].locked) < query[w].limit
    BY DEF Pick, PickingMore
  <1>3. /\ taken \subseteq ToSet(due) /\ taken \subseteq {r}
        /\ \A u \in Workers : query[u].locked \intersect taken = {}
    BY DEF StillDue, Locked
  <1> HIDE DEF taken
  <1>4. /\ query'[w].locked = query[w].locked \union taken
        /\ query'[w].limit = query[w].limit /\ query'[w].phase = query[w].phase
        /\ \A u \in Workers \ {w} : query'[u] = query[u]
    BY <1>1, <1>2, QueryParts
  <1>5. ToSet(due) \in SUBSET Rows
    BY <1>1, OrderingFacts
  <1>6. CASE v = w
    <2>1. Cardinality(query[w].locked \union taken) <= query[w].limit
      <3>1. IsFiniteSet(query[w].locked) /\ Cardinality(query[w].locked) \in Nat
        BY <1>1, SetSizes, QueryParts
      <3>2. CASE taken = {r}
        <4> DEFINE n == Cardinality(query[w].locked)
        <4>1. Cardinality(query[w].locked \union {r}) \in {n, n + 1}
          <5>1. Cardinality(query[w].locked \union {r}) = IF r \in query[w].locked THEN n ELSE n + 1
            BY <3>1, FS_AddElement
          <5> HIDE DEF n
          <5> QED BY <5>1
        <4>2. n \in Nat
          BY <3>1
        <4>3. query[w].limit \in Nat
          BY <1>1, QueryParts, SettingsAssumption DEF SettingsAssumption
        <4> QED BY <1>2, <3>2, <4>1, <4>2, <4>3
      <3>3. CASE taken = {}
        BY <1>1, <3>3 DEF ClaimOK
      <3> QED BY <1>3, <3>2, <3>3
    <2>2. HeldBy(w)' = HeldBy(w)
      BY <1>2 DEF HeldBy
    <2> QED BY <1>1, <1>2, <1>3, <1>4, <1>6, <2>1, <2>2 DEF ClaimOK
  <1>7. CASE v # w
    <2>1. /\ query[v].locked \subseteq ToSet(due')
          /\ \A u \in Workers \ {v} : query'[u].locked \intersect query[v].locked = {}
      BY <1>1, <1>2, <1>3, <1>4, <1>7 DEF ClaimOK
    <2> QED BY <1>2, <1>4, <1>5, <1>7, <2>1, ClaimKept
  <1> QED BY <1>6, <1>7

LEMMA ClaimClaim ==
  ASSUME ClaimInv, TypeOK', NEW w \in Workers, Claim(w), NEW v \in Workers
  PROVE  ClaimOK(v)'
  <1>1. /\ \A u \in Workers : ClaimOK(u)
        /\ query \in [Workers -> Query] /\ due \in Orderings
    BY TypeParts DEF ClaimInv
  <1>2. ToSet(due') = ToSet(due) \ query[w].locked /\ ToSet(due') \in SUBSET Rows
    BY <1>1, WithoutFacts, OrderingFacts DEF Claim
  <1>3. CASE v = w
    <2>1. query'[w].locked = {} /\ query'[w].limit = 0 /\ query'[w].phase # "picking"
      BY <1>1 DEF Claim, NoQuery
    <2> QED BY <1>3, <2>1, NoLocks
  <1>4. CASE v # w
    <2>1. /\ query'[v] = query[v] /\ query'[w].locked = {}
          /\ \A u \in Workers \ {w} : query'[u] = query[u]
      BY <1>1, <1>4 DEF Claim, NoQuery
    <2>2. /\ query[v].locked \subseteq ToSet(due')
          /\ \A u \in Workers \ {v} : query'[u].locked \intersect query[v].locked = {}
      BY <1>1, <1>2, <1>4, <2>1 DEF ClaimOK
    <2>3. \A r \in Rows : holder'[r] = v => holder[r] = v
      BY <1>4 DEF Claim
    <2> QED BY <1>2, <2>1, <2>2, <2>3, ClaimKept
  <1> QED BY <1>3, <1>4

(* A claim in the making loses nothing to what happens to rows meanwhile. *)
LEMMA ClaimMeanwhile ==
  ASSUME ClaimInv, ToSet(due') \in SUBSET Rows, ToSet(due) \subseteq ToSet(due'),
         \A w \in Workers : /\ query'[w].locked = query[w].locked
                            /\ query'[w].limit = query[w].limit
                            /\ query'[w].phase = query[w].phase,
         \A r \in Rows : holder'[r] \in {holder[r], NoOne}
  PROVE  \A w \in Workers : ClaimOK(w)'
  <1> SUFFICES ASSUME NEW w \in Workers PROVE ClaimOK(w)'
    OBVIOUS
  <1>1. ClaimOK(w)
    BY DEF ClaimInv
  <1>2. \A r \in Rows : holder'[r] = w => holder[r] = w
    BY OriginAssumption DEF OriginAssumption
  <1> QED BY <1>1, <1>2, ClaimKept DEF ClaimOK

LEMMA LaterFacts ==
  ASSUME query \in [Workers -> Query], NEW r, NEW ws, Later(r, ws)
  PROVE  \A w \in Workers : /\ query'[w].locked = query[w].locked
                            /\ query'[w].limit = query[w].limit
                            /\ query'[w].phase = query[w].phase
                            /\ query'[w].ranked = query[w].ranked
  BY QueryParts DEF Later

LEMMA ClaimNext == ClaimInv /\ [Next]_vars => ClaimInv'
  <1> SUFFICES ASSUME ClaimInv, [Next]_vars PROVE \A w \in Workers : ClaimOK(w)'
    BY TypeNext DEF ClaimInv
  <1>0. /\ TypeOK /\ TypeOK' /\ query \in [Workers -> Query]
        /\ ToSet(due) \in SUBSET Rows /\ ToSet(due') \in SUBSET Rows
    BY TypeNext, TypeParts, TypePartsNext, OrderingFacts DEF ClaimInv
  <1>1. ASSUME NEW w \in Workers, UNCHANGED <<due, holder>>,
               \A v \in Workers \ {w} : query'[v] = query[v],
               query'[w].locked = {}, query'[w].limit \in Nat,
               query'[w].phase = "picking" =>
                  Cardinality(HeldBy(w)') + query'[w].limit <= WorkerConcurrency,
               NEW v \in Workers
        PROVE  ClaimOK(v)'
    <2>1. CASE v = w
      BY <1>1, <2>1, NoLocks
    <2>2. CASE v # w
      <3>1. /\ query[v].locked \subseteq ToSet(due')
            /\ \A u \in Workers \ {v} : query'[u].locked \intersect query[v].locked = {}
        BY <1>1, <2>2 DEF ClaimInv, ClaimOK
      <3> QED BY <1>0, <1>1, <2>2, <3>1, ClaimKept
    <2> QED BY <2>1, <2>2
  <1>2. ASSUME NEW w \in Workers, Rank(w), NEW v \in Workers PROVE ClaimOK(v)'
    <2>1. /\ query'[w].locked = {} /\ query'[w].limit = Limit(w) /\ Limit(w) > 0
          /\ \A u \in Workers \ {w} : query'[u] = query[u]
          /\ UNCHANGED <<due, holder>>
      BY <1>0, <1>2 DEF Rank
    <2>2. HeldBy(w)' = HeldBy(w)
      BY <2>1 DEF HeldBy
    <2>3. /\ query'[w].limit \in Nat
          /\ Cardinality(HeldBy(w)') + query'[w].limit <= WorkerConcurrency
      BY <2>1, <2>2, LimitFacts, SettingsAssumption DEF SettingsAssumption
    <2> QED BY <1>1, <2>1, <2>3
  <1>3. ASSUME NEW w \in Workers, Abort(w) \/ Wake(w), NEW v \in Workers PROVE ClaimOK(v)'
    <2>1. /\ query'[w].locked = {} /\ query'[w].limit = 0 /\ query'[w].phase = "idle"
          /\ \A u \in Workers \ {w} : query'[u] = query[u]
          /\ UNCHANGED <<due, holder>>
      BY <1>0, <1>3 DEF Abort, Wake, NoQuery
    <2> QED BY <1>1, <2>1
  <1>4. ASSUME NEW r \in Rows, Release(r) PROVE \A w \in Workers : ClaimOK(w)'
    BY <1>0, <1>4, ClaimMeanwhile DEF Release, TypeOK
  <1>5. ASSUME NEW r \in Rows, Arrive(r) PROVE \A w \in Workers : ClaimOK(w)'
    <2>1. ToSet(due) \subseteq ToSet(due')
      BY <1>0, <1>5, TypeParts, JoinFacts DEF Arrive
    <2> QED BY <1>0, <1>5, <2>1, LaterFacts, ClaimMeanwhile DEF Arrive
  <1>6. ASSUME NEW r \in Rows, Requeue(r) PROVE \A w \in Workers : ClaimOK(w)'
    <2>1. ToSet(due) \subseteq ToSet(due')
      <3>1. /\ Without({r}) \in Orderings /\ ToSet(Without({r})) = ToSet(due) \ {r}
        BY <1>0, TypeParts, WithoutFacts
      <3>2. due' = Append(Without({r}), r)
        BY <1>6 DEF Requeue
      <3>3. ToSet(due') = (ToSet(due) \ {r}) \union {r}
        BY <3>1, <3>2, JoinFacts
      <3> QED BY <3>3
    <2>2. PICK ws \in SUBSET Workers : Later(r, ws)
      BY <1>6 DEF Requeue
    <2>3. UNCHANGED holder
      BY <1>6 DEF Requeue
    <2> QED BY <1>0, <2>1, <2>2, <2>3, LaterFacts, ClaimMeanwhile
  <1>7. CASE UNCHANGED vars
    BY <1>0, <1>7, ClaimMeanwhile DEF vars
  <1> QED BY <1>0, <1>2, <1>3, <1>4, <1>5, <1>6, <1>7, ClaimPick, ClaimClaim DEF Next, ClaimStep

LEMMA ClaimHolds == Spec => []ClaimInv
  BY ClaimInit, ClaimNext, PTL DEF Spec

----------------------------------------------------------------------------
(* The cap. *)

(* Of one origin, the ranking has max_claims_per_origin rows at the most. *)
LEMMA RankedCap ==
  ASSUME due \in Orderings, NEW limit \in Nat, NEW o
  PROVE  Cardinality({r \in ToSet(Ranked(limit)) : Origin[r] = o}) <= MaxPerOrigin
  <1> DEFINE n == Len(due)
             P == {i \in 1..n : Origin[due[i]] = o}
             Q == {i \in P : RowNumber(i) <= MaxPerOrigin}
             chosen == {i \in Window(limit) : RowNumber(i) <= MaxPerOrigin}
             C == {r \in ToSet(Ranked(limit)) : Origin[r] = o}
             f == [i \in Q |-> RowNumber(i)]
             g == [r \in C |-> CHOOSE i \in Q : due[i] = r]
  <1>1. n \in Nat /\ MaxPerOrigin \in Nat /\ Multiplier \in Nat
    BY OrderingFacts, SettingsAssumption DEF SettingsAssumption
  <1>2. P \in SUBSET (1..n) /\ Q \in SUBSET P
    OBVIOUS
  <1>3. ASSUME NEW i \in P PROVE RowNumber(i) = Cardinality({j \in P : j <= i})
    <2>1. {j \in 1..i : Origin[due[j]] = Origin[due[i]]} = {j \in P : j <= i}
      <3>1. \A j : j \in 1..i <=> j \in 1..n /\ j <= i
        BY <1>1, <1>3
      <3>2. Origin[due[i]] = o
        BY <1>3
      <3> QED BY <3>1, <3>2
    <2> QED BY <2>1 DEF RowNumber
  <1>4. IsFiniteSet(P) /\ IsFiniteSet(Q)
    BY <1>1, <1>2, Places, FS_Subset
  <1>5. \A i \in P : RowNumber(i) \in Nat \ {0} /\ i \in Nat
    <2>1. \A i \in P : Cardinality({j \in P : j <= i}) \in 1..Cardinality(P)
      BY <1>1, <1>2, Places
    <2>2. Cardinality(P) \in Nat
      BY <1>4, FS_CardinalityType
    <2> HIDE DEF P
    <2>3. ASSUME NEW i \in P PROVE RowNumber(i) \in Nat \ {0}
      <3>1. RowNumber(i) \in 1..Cardinality(P)
        BY <1>3, <2>1
      <3> QED BY <2>2, <3>1
    <2> HIDE DEF P
    <2>4. \A i \in P : i \in 1..n
      BY <1>2
    <2> HIDE DEF n
    <2> QED BY <1>1, <2>3, <2>4
  <1>6. \A i, j \in P : i < j => RowNumber(i) < RowNumber(j)
    <2>1. \A i, j \in P : i < j =>
             Cardinality({k \in P : k <= i}) < Cardinality({k \in P : k <= j})
      BY <1>1, <1>2, Places
    <2> HIDE DEF P
    <2> QED BY <1>3, <2>1
  <1>7. Cardinality(Q) <= MaxPerOrigin
    <2>1. \A i \in Q : RowNumber(i) \in 1..MaxPerOrigin
      BY <1>1, <1>5
    <2>2. \A i, j \in Q : RowNumber(i) = RowNumber(j) => i = j
      <3> HIDE DEF P
      <3> QED BY <1>5, <1>6
    <2> HIDE DEF Q
    <2>3. f \in Injection(Q, 1..MaxPerOrigin)
      BY <2>1, <2>2 DEF Injection, IsInjective
    <2>4. IsFiniteSet(1..MaxPerOrigin) /\ Cardinality(1..MaxPerOrigin) = MaxPerOrigin
      <3> DEFINE cap == MaxPerOrigin
      <3>1. 1 \in Int /\ cap \in Int /\ cap \in Nat
        BY <1>1
      <3> HIDE DEF cap
      <3>2. IsFiniteSet(1..cap) /\ Cardinality(1..cap) = IF 1 > cap THEN 0 ELSE cap - 1 + 1
        BY <3>1, FS_Interval
      <3>3. Cardinality(1..cap) = cap
        BY <3>1, <3>2
      <3> QED BY <3>2, <3>3 DEF cap
    <2> DEFINE Allowed == 1..MaxPerOrigin
    <2>5. f \in Injection(Q, Allowed) /\ IsFiniteSet(Allowed) /\ Cardinality(Allowed) = MaxPerOrigin
      BY <2>3, <2>4
    <2> HIDE DEF Allowed
    <2>6. Cardinality(Q) <= Cardinality(Allowed)
      BY <2>5, FS_Injection
    <2> QED BY <2>5, <2>6
  <1>8. ASSUME NEW r \in C PROVE \E i \in Q : due[i] = r
    <2>1. r \in {due[i] : i \in chosen}
      BY InOrderFacts DEF Ranked
    <2>2. PICK i \in chosen : due[i] = r
      BY <2>1
    <2>3. i \in 1..n
      <3>1. limit * Multiplier \in Nat
        BY <1>1
      <3> QED BY <1>1, <2>2, <3>1 DEF Window, Smaller
    <2> QED BY <2>2, <2>3
  <1>9. Cardinality(C) <= Cardinality(Q)
    <2> HIDE DEF Q, C
    <2>1. \A r \in C : g[r] \in Q /\ due[g[r]] = r
      BY <1>8
    <2>2. g \in [C -> Q]
      BY <2>1
    <2> HIDE DEF g
    <2>3. g \in Injection(C, Q)
      BY <2>1, <2>2 DEF Injection, IsInjective
    <2> QED BY <1>4, <2>3, FS_Injection
  <1>10. Cardinality(C) \in Nat /\ Cardinality(Q) \in Nat
    <2>1. C \in SUBSET Rows
      BY InOrderFacts, OrderingFacts DEF Ranked
    <2> QED BY <1>4, <2>1, SetSizes, FS_CardinalityType
  <1> QED BY <1>1, <1>7, <1>9, <1>10

(* A claim that has no more candidates than before. *)
LEMMA FewerCandidates ==
  ASSUME TypeOK, TypeOK', CapInv, NEW w \in Workers,
         query'[w].locked \union ToSet(query'[w].ranked)
            \subseteq query[w].locked \union ToSet(query[w].ranked)
  PROVE  CapOK(w)'
  <1>1. ASSUME NEW o \in Origins PROVE Cardinality(Candidates(w, o)') <= MaxPerOrigin
    <2>1. Candidates(w, o)' \in SUBSET Candidates(w, o)
      BY DEF Candidates
    <2>2. Candidates(w, o) \in SUBSET Rows
      <3>1. query[w].locked \in SUBSET Rows /\ query[w].ranked \in Lists
        BY TypeParts, QueryParts
      <3>2. ToSet(query[w].ranked) \in SUBSET Rows
        BY <3>1, SetSizes DEF Lists, ToSet
      <3> QED BY <3>1, <3>2 DEF Candidates
    <2>3. /\ Cardinality(Candidates(w, o)') <= Cardinality(Candidates(w, o))
          /\ Cardinality(Candidates(w, o)') \in Nat /\ Cardinality(Candidates(w, o)) \in Nat
      BY <2>1, <2>2, SubsetSizes, SetSizes
    <2>4. Cardinality(Candidates(w, o)) <= MaxPerOrigin /\ MaxPerOrigin \in Nat
      BY SettingsAssumption DEF CapInv, CapOK, SettingsAssumption
    <2> QED BY <2>3, <2>4
  <1> QED BY <1>1 DEF CapOK

LEMMA NoCandidates ==
  ASSUME NEW w \in Workers, query[w].locked = {}, query[w].ranked = <<>>
  PROVE  CapOK(w)
  <1>1. \A o \in Origins : Candidates(w, o) = {}
    BY DEF Candidates, ToSet
  <1>2. Cardinality({}) <= MaxPerOrigin
    BY FS_EmptySet, SettingsAssumption DEF SettingsAssumption
  <1> QED BY <1>1, <1>2 DEF CapOK

LEMMA CapInit == Init => CapInv
  BY TypeInit, NoCandidates DEF Init, NoQuery, CapInv

LEMMA CapNext == CapInv /\ [Next]_vars => CapInv'
  <1> SUFFICES ASSUME CapInv, [Next]_vars, NEW v \in Workers PROVE CapOK(v)'
    BY TypeNext DEF CapInv
  <1>0. /\ TypeOK /\ TypeOK' /\ query \in [Workers -> Query] /\ due \in Orderings
    BY TypeNext, TypeParts DEF CapInv
  <1>1. ASSUME query'[v].locked = {}, query'[v].ranked = <<>> PROVE CapOK(v)'
    <2>1. ToSet(query'[v].ranked) = {}
      BY <1>1 DEF ToSet
    <2> QED BY <1>0, <1>1, <2>1, FewerCandidates
  <1>2. ASSUME query'[v].locked = query[v].locked, query'[v].ranked = query[v].ranked
        PROVE  CapOK(v)'
    BY <1>0, <1>2, FewerCandidates
  <1>3. ASSUME NEW w \in Workers, Rank(w) PROVE CapOK(v)'
    <2>1. CASE v = w
      <3>1. query'[v].locked = {} /\ query'[v].ranked = Ranked(Limit(w)) /\ Limit(w) \in Nat
        BY <1>0, <1>3, <2>1, LimitFacts, SettingsAssumption DEF Rank, SettingsAssumption
      <3>2. ASSUME NEW o \in Origins PROVE Cardinality(Candidates(v, o)') <= MaxPerOrigin
        <4>1. Candidates(v, o)' = {r \in ToSet(Ranked(Limit(w))) : Origin[r] = o}
          BY <3>1 DEF Candidates
        <4> QED BY <1>0, <3>1, <4>1, RankedCap
      <3> QED BY <3>2 DEF CapOK
    <2>2. CASE v # w
      BY <1>0, <1>2, <1>3, <2>2 DEF Rank
    <2> QED BY <2>1, <2>2
  <1>4. ASSUME NEW w \in Workers, Pick(w) PROVE CapOK(v)'
    <2> DEFINE r == Head(query[w].ranked)
               taken == IF ~Locked(r) /\ StillDue(w, r) THEN {r} ELSE {}
    <2>1. CASE v = w
      <3>1. query[w].ranked \in Lists /\ query[w].ranked # <<>>
        BY <1>0, <1>4, QueryParts DEF Pick, PickingMore
      <3>2. ToSet(query[w].ranked) = {r} \union ToSet(Tail(query[w].ranked))
        BY <3>1, TailFacts
      <3>3. taken \subseteq {r}
        OBVIOUS
      <3>4. query' = [query EXCEPT ![w].ranked = Tail(@), ![w].locked = @ \union taken]
        BY <1>4 DEF Pick
      <3> HIDE DEF taken
      <3>5. /\ query'[v].locked = query[v].locked \union taken
            /\ query'[v].ranked = Tail(query[v].ranked)
        BY <1>0, <2>1, <3>4, QueryParts
      <3>6. query'[v].locked \union ToSet(query'[v].ranked)
              \subseteq query[v].locked \union ToSet(query[v].ranked)
        BY <2>1, <3>2, <3>3, <3>5
      <3> QED BY <1>0, <3>6, FewerCandidates
    <2>2. CASE v # w
      <3>1. query'[v] = query[v]
        BY <1>0, <1>4, <2>2 DEF Pick
      <3> QED BY <1>2, <3>1
    <2> QED BY <2>1, <2>2
  <1>5. ASSUME NEW w \in Workers, Claim(w) \/ Abort(w) \/ Wake(w) PROVE CapOK(v)'
    <2>1. CASE v = w
      BY <1>0, <1>1, <1>5, <2>1 DEF Claim, Abort, Wake, NoQuery
    <2>2. CASE v # w
      <3>1. query'[v] = query[v]
        BY <1>0, <1>5, <2>2 DEF Claim, Abort, Wake
      <3> QED BY <1>2, <3>1
    <2> QED BY <2>1, <2>2
  <1>6. ASSUME NEW r \in Rows, Release(r) PROVE CapOK(v)'
    BY <1>2, <1>6 DEF Release
  <1>7. ASSUME NEW r \in Rows, Arrive(r) PROVE CapOK(v)'
    BY <1>0, <1>2, <1>7, LaterFacts DEF Arrive
  <1>8. ASSUME NEW r \in Rows, Requeue(r) PROVE CapOK(v)'
    <2>1. PICK ws \in SUBSET Workers : Later(r, ws)
      BY <1>8 DEF Requeue
    <2> QED BY <1>0, <1>2, <2>1, LaterFacts
  <1>9. CASE UNCHANGED vars
    BY <1>2, <1>9 DEF vars
  <1> QED BY <1>3, <1>4, <1>5, <1>6, <1>7, <1>8, <1>9 DEF Next, ClaimStep

LEMMA CapImplies == CapInv => CapPerBatch
  <1> SUFFICES ASSUME CapInv, NEW w \in Workers, NEW o \in Origins
               PROVE  Cardinality({r \in query[w].locked : Origin[r] = o}) <= MaxPerOrigin
    BY DEF CapPerBatch
  <1> DEFINE L == {r \in query[w].locked : Origin[r] = o}
  <1>1. Cardinality(Candidates(w, o)) <= MaxPerOrigin /\ MaxPerOrigin \in Nat
    BY SettingsAssumption DEF CapInv, CapOK, SettingsAssumption
  <1>2. query[w].locked \in SUBSET Rows /\ query[w].ranked \in Lists
    BY TypeParts, QueryParts DEF CapInv
  <1>3. ToSet(query[w].ranked) \in SUBSET Rows
    BY <1>2, SetSizes DEF Lists, ToSet
  <1>4. Candidates(w, o) \in SUBSET Rows /\ L \in SUBSET Candidates(w, o)
    BY <1>2, <1>3 DEF Candidates
  <1>5. /\ Cardinality(L) <= Cardinality(Candidates(w, o))
        /\ Cardinality(L) \in Nat /\ Cardinality(Candidates(w, o)) \in Nat
    BY <1>4, SubsetSizes, SetSizes
  <1> QED BY <1>1, <1>5

(* No batch takes more rows of one origin than max_claims_per_origin, although
   the cap is applied to a ranking that rows leave and join while the batch
   locks them one by one. *)
THEOREM CapIsKept == Spec => []CapPerBatch
  BY CapInit, CapNext, CapImplies, PTL DEF Spec

----------------------------------------------------------------------------
(* The query implements an atomic claim. *)

LEMMA SameCardinality == \A S : Atomic!Cardinality(S) = Cardinality(S)
  BY DEF Cardinality, Atomic!Cardinality

LEMMA RefineInit == Init => Atomic!Init
  BY TypeInit, TypeParts, OrderingFacts DEF Init, Atomic!Init

(* The commit is the claim, or nothing when no row was locked. *)
LEMMA RefineClaim ==
  ASSUME ClaimInv, NEW w \in Workers, Claim(w)
  PROVE  Atomic!Claim(w, query[w].locked) \/ UNCHANGED <<ToSet(due), holder>>
  <1> DEFINE picked == query[w].locked
  <1>1. TypeOK /\ ClaimOK(w)
    BY DEF ClaimInv
  <1>2. /\ ToSet(due') = ToSet(due) \ picked
        /\ holder' = [r \in Rows |-> IF r \in picked THEN w ELSE holder[r]]
    BY <1>1, TypeParts, WithoutFacts DEF Claim
  <1>3. CASE picked = {}
    <2>1. holder' = holder
      BY <1>1, <1>2, <1>3, TypeParts
    <2> QED BY <1>2, <1>3, <2>1
  <1>4. CASE picked # {}
    <2>1. picked \subseteq ToSet(due) /\ query[w].phase = "picking"
      BY <1>1 DEF ClaimOK, Claim
    <2>2. Cardinality(HeldBy(w) \union picked) <= WorkerConcurrency
      <3>1. HeldBy(w) \in SUBSET Rows /\ picked \in SUBSET Rows
        BY <1>1, TypeParts, QueryParts DEF HeldBy
      <3>2. /\ Cardinality(HeldBy(w) \union picked)
                  = Cardinality(HeldBy(w)) + Cardinality(picked)
                      - Cardinality(HeldBy(w) \intersect picked)
            /\ Cardinality(HeldBy(w)) \in Nat /\ Cardinality(picked) \in Nat
        BY <3>1, SetSizes, FS_Union
      <3>3. Cardinality(HeldBy(w) \intersect picked) \in Nat
        <4>1. HeldBy(w) \intersect picked \in SUBSET Rows
          BY <3>1
        <4> QED BY <4>1, SetSizes
      <3>4. query[w].limit \in Nat /\ WorkerConcurrency \in Nat
        BY <1>1, TypeParts, QueryParts, SettingsAssumption DEF SettingsAssumption
      <3>5. /\ Cardinality(picked) <= query[w].limit
            /\ Cardinality(HeldBy(w)) + query[w].limit <= WorkerConcurrency
        BY <1>1, <2>1 DEF ClaimOK
      <3> QED BY <3>2, <3>3, <3>4, <3>5
    <2>3. Atomic!HeldBy(w) = HeldBy(w)
      BY DEF HeldBy, Atomic!HeldBy
    <2>4. Atomic!Cardinality(Atomic!HeldBy(w) \union picked) <= WorkerConcurrency
      BY <2>2, <2>3, SameCardinality
    <2>5. picked \in SUBSET Rows
      BY <1>1, TypeParts, QueryParts
    <2> QED BY <1>2, <1>4, <2>1, <2>4 DEF Atomic!Claim
  <1> QED BY <1>3, <1>4

LEMMA RefineNext ==
  ClaimInv /\ [Next]_vars => [Atomic!Next]_(Atomic!vars)
  <1> SUFFICES ASSUME ClaimInv, [Next]_vars
               PROVE  Atomic!Next \/ UNCHANGED <<ToSet(due), holder>>
    BY DEF Atomic!vars
  <1>0. TypeOK /\ due \in Orderings
    BY TypeParts DEF ClaimInv
  <1>1. ASSUME NEW w \in Workers, Rank(w) \/ Pick(w) \/ Abort(w) \/ Wake(w)
        PROVE  UNCHANGED <<ToSet(due), holder>>
    BY <1>1 DEF Rank, Pick, Abort, Wake
  <1>2. ASSUME NEW w \in Workers, Claim(w)
        PROVE  Atomic!Next \/ UNCHANGED <<ToSet(due), holder>>
    <2>1. query[w].locked \in SUBSET Rows
      BY <1>0, TypeParts, QueryParts
    <2> QED BY <1>2, <2>1, RefineClaim DEF Atomic!Next
  <1>3. ASSUME NEW r \in Rows, Release(r) PROVE Atomic!Next
    <2>1. {r} \in SUBSET Rows /\ Atomic!Release({r})
      <3>1. holder' = [q \in Rows |-> IF q \in {r} THEN NoOne ELSE holder[q]]
        BY <1>0, <1>3, TypeParts DEF Release
      <3> QED BY <1>3, <3>1 DEF Release, Atomic!Release
    <2> QED BY <2>1 DEF Atomic!Next
  <1>4. ASSUME NEW r \in Rows, Arrive(r) PROVE Atomic!Next
    <2>1. ToSet(due') = ToSet(due) \union {r}
      BY <1>0, <1>4, JoinFacts DEF Arrive
    <2>2. {r} \in SUBSET Rows /\ Atomic!Arrive({r})
      BY <1>4, <2>1 DEF Arrive, Atomic!Arrive
    <2> QED BY <2>2 DEF Atomic!Next
  <1>5. ASSUME NEW r \in Rows, Requeue(r) PROVE UNCHANGED <<ToSet(due), holder>>
    <2>1. /\ Without({r}) \in Orderings /\ ToSet(Without({r})) = ToSet(due) \ {r}
      BY <1>0, WithoutFacts
    <2>2. due' = Append(Without({r}), r) /\ r \in ToSet(due) /\ UNCHANGED holder
      BY <1>5 DEF Requeue
    <2>3. ToSet(due') = (ToSet(due) \ {r}) \union {r}
      BY <2>1, <2>2, JoinFacts
    <2> QED BY <2>2, <2>3
  <1>6. CASE UNCHANGED vars
    BY <1>6 DEF vars
  <1> QED BY <1>1, <1>2, <1>3, <1>4, <1>5, <1>6 DEF Next, ClaimStep

(* "A delivery another worker has just claimed drops out instead of being
   handed out twice" (queue.py): whatever the order in which claims rank, lock
   and commit, it is as if they had been made one after the other, each of due
   rows that nobody else takes and of no more rows than the worker has slots. *)
THEOREM ClaimsAreAtomic == Spec => ImplementsAtomicClaim
  <1>1. Spec => Atomic!Init
    BY RefineInit DEF Spec
  <1>2. Spec => [][Atomic!Next]_(Atomic!vars)
    BY ClaimHolds, RefineNext, PTL DEF Spec
  <1> QED BY <1>1, <1>2, PTL DEF ImplementsAtomicClaim, Atomic!AtomicSpec

=============================================================================
