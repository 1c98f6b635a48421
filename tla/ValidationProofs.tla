-------------------------- MODULE ValidationProofs --------------------------
(***************************************************************************)
(* Proofs about Validation, for all values, texts and URLs: that what the  *)
(* checks let through can be stored, under the right key.                  *)
(***************************************************************************)
EXTENDS Validation, TLAPS, WellFoundedInduction

----------------------------------------------------------------------------
(* Keys. *)

(* A stored key is a word with nothing around or in it. *)
KeysInv == requests \subseteq {k \in Text : k.word # "" /\ ~k.nul /\ ~k.padded}

LEMMA KeysInductive ==
  /\ Init => KeysInv
  /\ KeysInv /\ [Next]_vars => KeysInv'
  <1>1. Init => KeysInv
    BY DEF Init, KeysInv
  <1>2. ASSUME KeysInv, [Next]_vars PROVE KeysInv'
    <2>1. CASE requests' = requests
      BY <1>2, <2>1 DEF KeysInv
    <2>2. ASSUME NEW lead \in Leads, Create(lead) PROVE KeysInv'
      <3>1. KeyAccepted(lead.key) /\ requests' \subseteq requests \union {KeyOf(lead.key)}
        BY <2>2 DEF Create, LeadAccepted
      <3>2. lead.key \in Text
        BY DEF Leads
      <3>3. /\ KeyOf(lead.key) \in Text
            /\ KeyOf(lead.key).word = lead.key.word
            /\ KeyOf(lead.key).nul = lead.key.nul
            /\ ~KeyOf(lead.key).padded
        BY <3>2 DEF KeyOf, Strip, Text
      <3>4. lead.key.word # "" /\ ~lead.key.nul
        BY <3>1 DEF KeyAccepted, Blank
      <3> QED BY <1>2, <3>1, <3>3, <3>4 DEF KeysInv
    <2>3. (\E lead \in Leads : Create(lead)) \/ requests' = requests
      BY <1>2 DEF Next, vars, Refuse, Attach
    <2> QED BY <2>1, <2>2, <2>3
  <1> QED BY <1>1, <1>2

(* Where a sender repeats a key with other white space around it, and only
   there, the unique index on the key sees one lead. *)
THEOREM KeysAreClean == Spec => []OneLeadPerKey
  <1>1. KeysInv => OneLeadPerKey
    <2> SUFFICES ASSUME KeysInv
                 PROVE  /\ \A k \in requests : k.word # "" /\ ~k.nul
                        /\ \A k, l \in requests : k.word = l.word => k = l
      BY DEF OneLeadPerKey
    <2>1. \A k \in requests : k \in Text /\ k.word # "" /\ ~k.nul /\ ~k.padded
      BY DEF KeysInv
    <2>2. \A k, l \in Text : k.word = l.word /\ k.nul = l.nul /\ k.padded = l.padded => k = l
      BY DEF Text
    <2>3. \A k \in Text : k.nul \in BOOLEAN /\ k.padded \in BOOLEAN
      BY DEF Text
    <2> QED BY <2>1, <2>2, <2>3
  <1> QED BY <1>1, KeysInductive, PTL DEF Spec

----------------------------------------------------------------------------
(* Recursion over nested values. *)

(* What holds of a value if it holds of all that are nested less deep, holds
   of all values. *)
LEMMA AllValues ==
  ASSUME NEW T, \A v \in Values : (\A w \in Values : Depth[w] < Depth[v] => w \in T) => v \in T
  PROVE  Values \subseteq T
  <1> SUFFICES ASSUME Values \ T # {} PROVE FALSE
    OBVIOUS
  <1> DEFINE R == {ss \in Nat \X Nat : ss[1] < ss[2]}
             D == {Depth[v] : v \in Values \ T}
  <1>1. IsWellFoundedOn(R, Nat)
    BY NatLessThanWellFounded DEF OpToRel
  <1>2. \A m, n \in Nat : m < n => <<m, n>> \in R
    OBVIOUS
  <1>3. D \subseteq Nat /\ D # {}
    BY ValuesAssumption DEF ValuesAssumption
  <1> HIDE DEF R, D
  <1>4. PICK n \in D : \A m \in D : <<m, n>> \notin R
    BY <1>1, <1>3, WFMin
  <1>5. PICK v \in Values \ T : n = Depth[v]
    BY <1>4 DEF D
  <1>6. ASSUME NEW w \in Values, Depth[w] < Depth[v] PROVE w \in T
    <2>1. Depth[w] \in Nat /\ Depth[v] \in Nat
      BY ValuesAssumption DEF ValuesAssumption
    <2>2. Depth[w] \notin D
      BY <1>2, <1>4, <1>5, <1>6, <2>1
    <2> QED BY <2>2 DEF D
  <1> QED BY <1>5, <1>6

(* step[v][f] uses f on values nested less deep than v only. *)
IsStep(step, X) ==
    /\ step \in [Values -> [[Values -> X] -> X]]
    /\ \A v \in Values : \A f, g \in [Values -> X] :
          (\A w \in Values : Depth[w] < Depth[v] => f[w] = g[w]) => step[v][f] = step[v][g]

(* f follows the recursion on values nested at most as deep as v. *)
Follows(f, step, v) ==
    \A w \in Values : Depth[w] <= Depth[v] => f[w] = step[w][f]

LEMMA FollowsOnce ==
  ASSUME NEW X, NEW step, IsStep(step, X), NEW f \in [Values -> X], NEW g \in [Values -> X],
         NEW v \in Values, NEW u \in Values, Follows(f, step, v), Follows(g, step, u)
  PROVE  \A w \in Values : Depth[w] <= Depth[v] /\ Depth[w] <= Depth[u] => f[w] = g[w]
  <1> DEFINE T == {w \in Values : Depth[w] <= Depth[v] /\ Depth[w] <= Depth[u] => f[w] = g[w]}
  <1>1. \A w \in Values : Depth[w] \in Nat
    BY ValuesAssumption DEF ValuesAssumption
  <1>2. ASSUME NEW w \in Values, \A x \in Values : Depth[x] < Depth[w] => x \in T
        PROVE  w \in T
    <2> SUFFICES ASSUME Depth[w] <= Depth[v], Depth[w] <= Depth[u] PROVE f[w] = g[w]
      OBVIOUS
    <2>1. \A x \in Values : Depth[x] < Depth[w] => f[x] = g[x]
      BY <1>1, <1>2
    <2>2. step[w][f] = step[w][g]
      BY <2>1 DEF IsStep
    <2> QED BY <2>2 DEF Follows
  <1> HIDE DEF T
  <1>3. Values \subseteq T
    BY <1>2, AllValues
  <1> QED BY <1>3 DEF T

LEMMA FollowsSome ==
  ASSUME NEW X, NEW zero \in X, NEW step, IsStep(step, X), NEW v \in Values
  PROVE  \E f \in [Values -> X] : Follows(f, step, v)
  <1> DEFINE T == {u \in Values : \E f \in [Values -> X] : Follows(f, step, u)}
             pick(u) == CHOOSE f \in [Values -> X] : Follows(f, step, u)
  <1>1. \A w \in Values : Depth[w] \in Nat
    BY ValuesAssumption DEF ValuesAssumption
  <1>2. ASSUME NEW u \in Values, \A w \in Values : Depth[w] < Depth[u] => w \in T
        PROVE  u \in T
    <2>1. \A w \in Values : Depth[w] < Depth[u] => pick(w) \in [Values -> X] /\ Follows(pick(w), step, w)
      BY <1>2
    <2> HIDE DEF pick
    <2> DEFINE f0 == [w \in Values |-> IF Depth[w] < Depth[u] THEN pick(w)[w] ELSE zero]
               f == [w \in Values |-> IF Depth[w] < Depth[u] THEN pick(w)[w] ELSE step[w][f0]]
    <2>2. f0 \in [Values -> X]
      BY <2>1
    <2>3. f \in [Values -> X]
      <3> HIDE DEF f0
      <3>1. \A w \in Values : step[w][f0] \in X
        BY <2>2 DEF IsStep
      <3> QED BY <2>1, <3>1
    <2>4. \A w \in Values : Depth[w] < Depth[u] => f[w] = pick(w)[w] /\ f0[w] = pick(w)[w]
      OBVIOUS
    <2>5. \A w \in Values : ~(Depth[w] < Depth[u]) => f[w] = step[w][f0]
      OBVIOUS
    <2> HIDE DEF f0, f
    <2>6. ASSUME NEW w \in Values, Depth[w] <= Depth[u] PROVE f[w] = step[w][f]
      <3>1. CASE Depth[w] < Depth[u]
        <4>1. pick(w) \in [Values -> X] /\ Follows(pick(w), step, w)
          BY <2>1, <3>1
        <4>2. f[w] = step[w][pick(w)]
          BY <1>1, <2>4, <3>1, <4>1 DEF Follows
        <4>3. ASSUME NEW x \in Values, Depth[x] < Depth[w] PROVE f[x] = pick(w)[x]
          <5>1. Depth[x] < Depth[u] /\ Depth[x] <= Depth[x] /\ Depth[x] <= Depth[w]
            BY <1>1, <3>1, <4>3
          <5>2. pick(x) \in [Values -> X] /\ Follows(pick(x), step, x)
            BY <2>1, <5>1
          <5>3. pick(x)[x] = pick(w)[x]
            BY <4>1, <5>1, <5>2, FollowsOnce
          <5> QED BY <2>4, <5>1, <5>3
        <4>4. step[w][f] = step[w][pick(w)]
          BY <2>3, <4>1, <4>3 DEF IsStep
        <4> QED BY <4>2, <4>4
      <3>2. CASE ~(Depth[w] < Depth[u])
        <4>1. \A x \in Values : Depth[x] < Depth[w] => f[x] = f0[x]
          BY <1>1, <2>4, <2>6
        <4>2. step[w][f] = step[w][f0]
          BY <2>2, <2>3, <4>1 DEF IsStep
        <4> QED BY <2>5, <3>2, <4>2
      <3> QED BY <3>1, <3>2
    <2> QED BY <2>3, <2>6 DEF Follows
  <1> HIDE DEF T
  <1>3. Values \subseteq T
    BY <1>2, AllValues
  <1> QED BY <1>3 DEF T

(* A recursion over nested values has a solution. *)
LEMMA NestedRecursion ==
  ASSUME NEW X, NEW zero \in X, NEW step, IsStep(step, X)
  PROVE  \E f \in [Values -> X] : \A v \in Values : f[v] = step[v][f]
  <1> DEFINE pick(v) == CHOOSE f \in [Values -> X] : Follows(f, step, v)
             f == [v \in Values |-> pick(v)[v]]
  <1>1. \A w \in Values : Depth[w] \in Nat
    BY ValuesAssumption DEF ValuesAssumption
  <1>2. \A v \in Values : pick(v) \in [Values -> X] /\ Follows(pick(v), step, v)
    BY FollowsSome
  <1> HIDE DEF pick
  <1>3. f \in [Values -> X]
    BY <1>2
  <1>4. \A v \in Values : f[v] = pick(v)[v]
    OBVIOUS
  <1> HIDE DEF f
  <1>5. ASSUME NEW v \in Values PROVE f[v] = step[v][f]
    <2>1. pick(v)[v] = step[v][pick(v)]
      BY <1>1, <1>2 DEF Follows
    <2>2. ASSUME NEW x \in Values, Depth[x] < Depth[v] PROVE f[x] = pick(v)[x]
      <3>1. Depth[x] <= Depth[x] /\ Depth[x] <= Depth[v]
        BY <1>1, <2>2
      <3>2. pick(x)[x] = pick(v)[x]
        BY <1>2, <3>1, FollowsOnce
      <3> QED BY <1>4, <3>2
    <2>3. step[v][f] = step[v][pick(v)]
      BY <1>2, <1>3, <2>2 DEF IsStep
    <2> QED BY <1>4, <2>1, <2>3
  <1> QED BY <1>3, <1>5

----------------------------------------------------------------------------
(* Null bytes. *)

LEMMA ItemsAreValues ==
  ASSUME NEW v \in Values, NEW item \in Items(v)
  PROVE  item.value \in Values /\ Depth[item.value] < Depth[v]
  BY ValuesAssumption DEF ValuesAssumption

(* _contains_null_byte looks at a value, at the keys in it and, with the same
   function, at the values in it. *)
LEMMA NulUnrolls ==
  \A v \in Values : NulIn[v] <=> \/ IsNul(v)
                                 \/ \E key \in Keys(v) : IsNul(key)
                                 \/ \E item \in Items(v) : NulIn[item.value]
  <1> DEFINE here(v) == IsNul(v) \/ \E key \in Keys(v) : IsNul(key)
             step == [v \in Values |-> [f \in [Values -> BOOLEAN] |->
                         here(v) \/ \E item \in Items(v) : f[item.value]]]
  <1>1. step \in [Values -> [[Values -> BOOLEAN] -> BOOLEAN]]
    OBVIOUS
  <1>2. ASSUME NEW v \in Values, NEW f \in [Values -> BOOLEAN]
        PROVE  step[v][f] = (here(v) \/ \E item \in Items(v) : f[item.value])
    OBVIOUS
  <1> HIDE DEF step, here
  <1>3. ASSUME NEW v \in Values, NEW f \in [Values -> BOOLEAN], NEW g \in [Values -> BOOLEAN],
               \A w \in Values : Depth[w] < Depth[v] => f[w] = g[w]
        PROVE  step[v][f] = step[v][g]
    <2>1. \A item \in Items(v) : f[item.value] = g[item.value]
      BY <1>3, ItemsAreValues
    <2> QED BY <1>2, <2>1
  <1>4. IsStep(step, BOOLEAN)
    BY <1>1, <1>3 DEF IsStep
  <1>5. PICK f \in [Values -> BOOLEAN] : \A v \in Values : f[v] = step[v][f]
    <2> DEFINE X == BOOLEAN
               zero == FALSE
    <2>1. zero \in X /\ IsStep(step, X)
      BY <1>4
    <2> HIDE DEF X, zero
    <2>2. \E f \in [Values -> X] : \A v \in Values : f[v] = step[v][f]
      BY <2>1, NestedRecursion
    <2> QED BY <2>2 DEF X
  <1>6. \A v \in Values : f[v] = (here(v) \/ \E item \in Items(v) : f[item.value])
    BY <1>2, <1>5
  <1>7. f = [v \in Values |-> here(v) \/ \E item \in Items(v) : f[item.value]]
    BY <1>6
  <1>8. f = [v \in Values |-> \/ IsNul(v)
                              \/ \E key \in Keys(v) : IsNul(key)
                              \/ \E item \in Items(v) : f[item.value]]
    BY <1>7 DEF here
  <1>9. NulIn = [v \in Values |-> \/ IsNul(v)
                                  \/ \E key \in Keys(v) : IsNul(key)
                                  \/ \E item \in Items(v) : NulIn[item.value]]
    BY <1>8 DEF NulIn
  <1> QED BY <1>9

LEMMA PartsUnroll ==
  \A v \in Values :
      PartsOf[v] = {v} \union Keys(v) \union UNION {PartsOf[item.value] : item \in Items(v)}
  <1> DEFINE All == Values \union UNION {Keys(v) : v \in Values}
             X == SUBSET All
             step == [v \in Values |-> [f \in [Values -> X] |->
                         {v} \union Keys(v) \union UNION {f[item.value] : item \in Items(v)}]]
  <1>1. ASSUME NEW v \in Values, NEW f \in [Values -> X]
        PROVE  {v} \union Keys(v) \union UNION {f[item.value] : item \in Items(v)} \in X
    <2>1. \A item \in Items(v) : f[item.value] \subseteq All
      BY ItemsAreValues
    <2>2. {v} \union Keys(v) \subseteq All
      OBVIOUS
    <2> HIDE DEF All
    <2> QED BY <2>1, <2>2
  <1>2. step \in [Values -> [[Values -> X] -> X]]
    <2> HIDE DEF X
    <2> QED BY <1>1
  <1>3. ASSUME NEW v \in Values, NEW f \in [Values -> X]
        PROVE  step[v][f] = {v} \union Keys(v) \union UNION {f[item.value] : item \in Items(v)}
    OBVIOUS
  <1>4. {} \in X
    OBVIOUS
  <1> HIDE DEF step, X
  <1>5. ASSUME NEW v \in Values, NEW f \in [Values -> X], NEW g \in [Values -> X],
               \A w \in Values : Depth[w] < Depth[v] => f[w] = g[w]
        PROVE  step[v][f] = step[v][g]
    <2>1. \A item \in Items(v) : f[item.value] = g[item.value]
      BY <1>5, ItemsAreValues
    <2>2. UNION {f[item.value] : item \in Items(v)} = UNION {g[item.value] : item \in Items(v)}
      BY <2>1
    <2> QED BY <1>3, <2>2
  <1>6. IsStep(step, X)
    BY <1>2, <1>5 DEF IsStep
  <1>7. PICK f \in [Values -> X] : \A v \in Values : f[v] = step[v][f]
    BY <1>4, <1>6, NestedRecursion
  <1>8. \A v \in Values :
          f[v] = {v} \union Keys(v) \union UNION {f[item.value] : item \in Items(v)}
    BY <1>3, <1>7
  <1>9. f = [v \in Values |-> {v} \union Keys(v) \union UNION {f[item.value] : item \in Items(v)}]
    BY <1>8
  <1>10. PartsOf = [v \in Values |->
                      {v} \union Keys(v) \union UNION {PartsOf[item.value] : item \in Items(v)}]
    BY <1>9 DEF PartsOf
  <1> QED BY <1>10

(* _contains_null_byte finds a null byte at any depth. *)
LEMMA NulIsFound ==
  \A v \in Values : ~ContainsNullByte(v) => \A part \in Parts(v) : ~IsNul(part)
  <1> DEFINE T == {v \in Values : ~NulIn[v] => \A part \in PartsOf[v] : ~IsNul(part)}
  <1>1. ASSUME NEW v \in Values, \A w \in Values : Depth[w] < Depth[v] => w \in T
        PROVE  v \in T
    <2> SUFFICES ASSUME ~NulIn[v], NEW part \in PartsOf[v] PROVE ~IsNul(part)
      OBVIOUS
    <2>1. CASE part = v \/ part \in Keys(v)
      BY <2>1, NulUnrolls
    <2>2. ASSUME NEW item \in Items(v), part \in PartsOf[item.value] PROVE ~IsNul(part)
      <3>1. item.value \in T
        BY <1>1, ItemsAreValues
      <3>2. ~NulIn[item.value]
        BY NulUnrolls
      <3> QED BY <2>2, <3>1, <3>2
    <2>3. part = v \/ part \in Keys(v) \/ \E item \in Items(v) : part \in PartsOf[item.value]
      BY PartsUnroll
    <2> QED BY <2>1, <2>2, <2>3
  <1> HIDE DEF T
  <1>2. Values \subseteq T
    BY <1>1, AllValues
  <1> QED BY <1>2 DEF T, ContainsNullByte, Parts

(* What fails in the INSERT was accepted, so it has no null byte. *)
FailedInv == reply.status = 500 => reply.payload \in Values /\ ~ContainsNullByte(reply.payload)

(* A null byte at any depth of a payload, in an object's keys too, is refused
   like any other error of a lead and never fails in the INSERT. *)
THEOREM NullBytesAreRefused == Spec => []NullByteNeverCrashes
  <1>1. Init => FailedInv
    BY DEF Init, FailedInv
  <1>2. ASSUME FailedInv, [Next]_vars PROVE FailedInv'
    <2>1. ASSUME NEW lead \in Leads, Create(lead) PROVE FailedInv'
      <3>1. lead.payload \in Values
        BY ValuesAssumption DEF ValuesAssumption, Leads
      <3>2. ~ContainsNullByte(lead.payload)
        BY <2>1 DEF Create, LeadAccepted, PayloadAccepted
      <3>3. reply'.status # 500 \/ reply'.payload = lead.payload
        BY <2>1 DEF Create, Replies
      <3>4. ContainsNullByte(reply.payload)' = ContainsNullByte(reply'.payload)
        BY DEF ContainsNullByte
      <3> QED BY <3>1, <3>2, <3>3, <3>4 DEF FailedInv
    <2>2. ASSUME NEW rs \in Lists, Attach(rs) PROVE FailedInv'
      BY <2>2 DEF Attach, Replies, FailedInv
    <2>3. ASSUME NEW payload, Refuse(payload) PROVE FailedInv'
      BY <2>3 DEF Refuse, Replies, FailedInv
    <2>4. CASE UNCHANGED vars
      BY <1>2, <2>4 DEF vars, FailedInv, ContainsNullByte
    <2> QED BY <1>2, <2>1, <2>2, <2>3, <2>4 DEF Next
  <1>3. FailedInv => NullByteNeverCrashes
    BY NulIsFound DEF FailedInv, NullByteNeverCrashes, IsNul
  <1> QED BY <1>1, <1>2, <1>3, PTL DEF Spec
=============================================================================
