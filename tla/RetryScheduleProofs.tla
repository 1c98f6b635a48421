------------------------- MODULE RetryScheduleProofs -------------------------
(***************************************************************************)
(* Proofs about RetrySchedule, for all settings and any number of          *)
(* failures: the bounds of a delay, what a whole budget takes, and what    *)
(* operators are shown of it.                                              *)
(***************************************************************************)
EXTENDS RetrySchedule, TLAPS, FiniteSetTheorems, WellFoundedInduction

----------------------------------------------------------------------------
(* Induction and recursion, for sets and functions of numbers. *)

(* Every non-empty set of naturals has a least element. *)
LEMMA LeastNatural ==
  ASSUME NEW T, T \subseteq Nat, T # {}
  PROVE  \E n \in T : \A m \in T : n <= m
  <1> DEFINE R == {ss \in Nat \X Nat : ss[1] < ss[2]}
  <1>1. IsWellFoundedOn(R, Nat)
    BY NatLessThanWellFounded DEF OpToRel
  <1>2. \A m, n \in Nat : m < n => <<m, n>> \in R
    OBVIOUS
  <1> HIDE DEF R
  <1>3. PICK n \in T : \A m \in T : <<m, n>> \notin R
    BY <1>1, WFMin
  <1>4. \A m \in T : ~(m < n)
    BY <1>2, <1>3
  <1> QED BY <1>4

(* A set that contains 0 and the successor of each of its elements up to a
   bound contains everything up to the bound. *)
LEMMA UpTo ==
  ASSUME NEW bound \in Nat, NEW T, 0 \in T,
         \A n \in 0..(bound - 1) : n \in T => n + 1 \in T
  PROVE  0..bound \subseteq T
  <1> DEFINE U == (0..bound) \ T
  <1> SUFFICES ASSUME U # {} PROVE FALSE
    OBVIOUS
  <1>0. U \subseteq Nat
    OBVIOUS
  <1>1. PICK n \in U : \A m \in U : n <= m
    <2> HIDE DEF U
    <2> QED BY <1>0, LeastNatural
  <1>2. n - 1 \in 0..(bound - 1) /\ n - 1 \in T
    BY <1>1
  <1> QED BY <1>1, <1>2

(* The values of a recursion up to a bound: h[n][v] follows v at n. *)
Unrolls(f, a, h, bound) ==
    f = [n \in 0..bound |-> IF n = 0 THEN a ELSE h[n][f[n - 1]]]

LEMMA UnrollsOnce ==
  ASSUME NEW a, NEW h, NEW bound \in Nat, NEW b \in 0..bound, NEW f, NEW g,
         Unrolls(f, a, h, bound), Unrolls(g, a, h, b)
  PROVE  \A n \in 0..b : f[n] = g[n]
  <1> DEFINE T == {n \in Nat : n <= b => f[n] = g[n]}
  <1>1. 0 \in T
    BY DEF Unrolls
  <1>2. ASSUME NEW n \in 0..(b - 1), n \in T PROVE n + 1 \in T
    <2>1. n + 1 \in 0..b /\ n + 1 \in 0..bound /\ n + 1 # 0 /\ (n + 1) - 1 = n /\ f[n] = g[n]
      BY <1>2
    <2>2. f[n + 1] = h[n + 1][f[n]] /\ g[n + 1] = h[n + 1][g[n]]
      BY <2>1 DEF Unrolls
    <2> QED BY <2>1, <2>2
  <1> HIDE DEF T
  <1>3. 0..b \subseteq T
    BY <1>1, <1>2, UpTo
  <1> QED BY <1>3 DEF T

LEMMA UnrollsLast ==
  ASSUME NEW a, NEW h, NEW bound \in Nat, NEW b \in 0..bound, NEW f, NEW g,
         Unrolls(f, a, h, bound), Unrolls(g, a, h, b)
  PROVE  f[b] = g[b]
  <1>1. \A n \in 0..b : f[n] = g[n]
    BY UnrollsOnce
  <1>2. b \in 0..b
    OBVIOUS
  <1> QED BY <1>1, <1>2

LEMMA UnrollsSome ==
  ASSUME NEW a, NEW h, NEW bound \in Nat
  PROVE  \E f : Unrolls(f, a, h, bound)
  <1> DEFINE T == {n \in Nat : \E f : Unrolls(f, a, h, n)}
  <1>1. 0 \in T
    <2>1. Unrolls([n \in 0..0 |-> a], a, h, 0)
      BY DEF Unrolls
    <2> QED BY <2>1
  <1>2. ASSUME NEW n \in 0..(bound - 1), n \in T PROVE n + 1 \in T
    <2>1. PICK f : Unrolls(f, a, h, n)
      BY <1>2
    <2> DEFINE g == [m \in 0..(n + 1) |-> IF m <= n THEN f[m] ELSE h[n + 1][f[n]]]
    <2>2. ASSUME NEW m \in 0..(n + 1)
          PROVE  g[m] = IF m = 0 THEN a ELSE h[m][g[m - 1]]
      <3>1. CASE m = 0
        BY <2>1, <3>1 DEF Unrolls
      <3>2. CASE m \in 1..n
        <4>1. f[m] = h[m][f[m - 1]]
          BY <2>1, <3>2 DEF Unrolls
        <4> QED BY <3>2, <4>1
      <3>3. CASE m = n + 1
        BY <3>3
      <3> QED BY <3>1, <3>2, <3>3
    <2>3. Unrolls(g, a, h, n + 1)
      BY <2>2 DEF Unrolls
    <2> QED BY <2>3
  <1> HIDE DEF T
  <1>3. 0..bound \subseteq T
    BY <1>1, <1>2, UpTo
  <1> QED BY <1>3 DEF T

(* What holds at 0 and of n + 1 with n holds of all numbers. *)
LEMMA Everywhere ==
  ASSUME NEW T, 0 \in T, \A n \in Nat : n \in T => n + 1 \in T
  PROVE  Nat \subseteq T
  <1> SUFFICES ASSUME NEW n \in Nat PROVE n \in T
    OBVIOUS
  <1>1. 0..n \subseteq T
    BY UpTo
  <1> QED BY <1>1

(* A recursion over the naturals has a solution. *)
LEMMA Recursion ==
  ASSUME NEW a \in Nat, NEW h \in [Nat -> [Nat -> Nat]]
  PROVE  \E f \in [Nat -> Nat] : f = [n \in Nat |-> IF n = 0 THEN a ELSE h[n][f[n - 1]]]
  <1> DEFINE upTo(n) == CHOOSE f : Unrolls(f, a, h, n)
             f == [n \in Nat |-> upTo(n)[n]]
  <1>1. \A n \in Nat : Unrolls(upTo(n), a, h, n)
    BY UnrollsSome
  <1> HIDE DEF upTo
  <1>2. ASSUME NEW n \in Nat PROVE f[n] = IF n = 0 THEN a ELSE h[n][f[n - 1]]
    <2>1. CASE n = 0
      BY <1>1, <2>1 DEF Unrolls
    <2>2. CASE n # 0
      <3>1. n - 1 \in Nat /\ n - 1 \in 0..n /\ n \in 0..n /\ n - 1 \in 0..(n - 1)
        BY <2>2
      <3>2. upTo(n)[n] = h[n][upTo(n)[n - 1]]
        BY <1>1, <2>2, <3>1 DEF Unrolls
      <3>3. upTo(n)[n - 1] = upTo(n - 1)[n - 1]
        <4> DEFINE b == n - 1
        <4>1. b \in Nat /\ b \in 0..n /\ b \in 0..b
          BY <3>1
        <4>2. Unrolls(upTo(n), a, h, n) /\ Unrolls(upTo(b), a, h, b)
          BY <1>1, <4>1
        <4> HIDE DEF b, f
        <4>3. upTo(n)[b] = upTo(b)[b]
          BY <4>1, <4>2, UnrollsLast
        <4> QED BY <4>3 DEF b
      <3> QED BY <2>2, <3>1, <3>2, <3>3
    <2> QED BY <2>1, <2>2
  <1>3. f = [n \in Nat |-> IF n = 0 THEN a ELSE h[n][f[n - 1]]]
    <2>1. f = [n \in Nat |-> f[n]]
      OBVIOUS
    <2> HIDE DEF f
    <2> QED BY <1>2, <2>1
  <1>4. \A n \in Nat : f[n] \in Nat
    <2> HIDE DEF f
    <2> DEFINE T == {n \in Nat : f[n] \in Nat}
    <2>1. 0 \in T
      BY <1>2
    <2>2. ASSUME NEW n \in Nat, n \in T PROVE n + 1 \in T
      <3>1. n + 1 \in Nat /\ n + 1 # 0 /\ (n + 1) - 1 = n /\ f[n] \in Nat
        BY <2>2
      <3>2. f[n + 1] = h[n + 1][f[n]]
        BY <1>2, <3>1
      <3> QED BY <3>1, <3>2
    <2> HIDE DEF T
    <2>3. Nat \subseteq T
      BY <2>1, <2>2, Everywhere
    <2> QED BY <2>3 DEF T
  <1> HIDE DEF f
  <1>5. f \in [Nat -> Nat]
    BY <1>3, <1>4
  <1> QED BY <1>3, <1>5

----------------------------------------------------------------------------
(* The powers and the sums. *)

LEMMA SettingTypes ==
  ASSUME settings \in Settings
  PROVE  /\ settings.base \in Nat /\ settings.base >= 1
         /\ settings.factor \in Nat /\ settings.factor >= 1
         /\ settings.cap \in Nat /\ settings.cap >= 1
         /\ settings.budget \in Nat /\ settings.budget >= 1
         /\ settings.jitter \in 0..9
         /\ MinDelay \in Nat /\ MinDelay >= 1
  <1>1. /\ settings.base \in Bases /\ settings.factor \in Factors /\ settings.cap \in Caps
        /\ settings.budget \in Budgets /\ settings.jitter \in Jitters
    BY DEF Settings
  <1>2. ASSUME NEW n \in Nat \ {0} PROVE n \in Nat /\ n >= 1
    OBVIOUS
  <1>3. /\ settings.base \in Nat \ {0} /\ settings.factor \in Nat \ {0} /\ settings.cap \in Nat \ {0}
        /\ settings.budget \in Nat \ {0} /\ settings.jitter \in 0..9
    BY <1>1, FieldAssumption DEF FieldAssumption
  <1> QED BY <1>2, <1>3, FieldAssumption DEF FieldAssumption

LEMMA PowerUnrolls ==
  ASSUME settings \in Settings
  PROVE  /\ Power[0] = 1 /\ Power \in [Nat -> Nat]
         /\ \A n \in Nat : Power[n + 1] = settings.factor * Power[n]
  <1>h. PICK h : h = [n \in Nat |-> [v \in Nat |-> settings.factor * v]]
    OBVIOUS
  <1>1. h \in [Nat -> [Nat -> Nat]] /\ \A n, v \in Nat : h[n][v] = settings.factor * v
    BY <1>h, SettingTypes
  <1>one. 1 \in Nat
    OBVIOUS
  <1>2. PICK f \in [Nat -> Nat] : f = [n \in Nat |-> IF n = 0 THEN 1 ELSE h[n][f[n - 1]]]
    BY <1>1, <1>one, Recursion
  <1>3. f = [n \in Nat |-> IF n = 0 THEN 1 ELSE settings.factor * f[n - 1]]
    <2>1. ASSUME NEW n \in Nat PROVE f[n] = IF n = 0 THEN 1 ELSE settings.factor * f[n - 1]
      <3>1. CASE n = 0
        BY <1>2, <3>1
      <3>2. CASE n # 0
        <4>1. n - 1 \in Nat
          BY <3>2
        <4>2. f[n] = h[n][f[n - 1]]
          BY <1>2, <3>2
        <4>3. f[n - 1] \in Nat
          BY <1>2, <4>1
        <4> QED BY <1>1, <3>2, <4>2, <4>3
      <3> QED BY <3>1, <3>2
    <2> QED BY <1>2, <2>1
  <1>4. Power = [n \in Nat |-> IF n = 0 THEN 1 ELSE settings.factor * Power[n - 1]]
    BY <1>3 DEF Power
  <1>5. Power[0] = 1
    BY <1>4
  <1>6. ASSUME NEW n \in Nat PROVE Power[n + 1] = settings.factor * Power[n]
    <2>1. n + 1 \in Nat /\ n + 1 # 0 /\ (n + 1) - 1 = n
      OBVIOUS
    <2> QED BY <1>4, <2>1
  <1>7. \A n \in Nat : Power[n] \in Nat
    <2> DEFINE T == {n \in Nat : Power[n] \in Nat}
    <2>1. 0 \in T
      BY <1>5
    <2>2. ASSUME NEW n \in Nat, n \in T PROVE n + 1 \in T
      BY <1>6, <2>2, SettingTypes
    <2> HIDE DEF T
    <2>3. Nat \subseteq T
      BY <2>1, <2>2, Everywhere
    <2> QED BY <2>3 DEF T
  <1>8. Power \in [Nat -> Nat]
    BY <1>4, <1>7
  <1> QED BY <1>5, <1>6, <1>8

(* Multiplication by a number keeps the order and distributes. *)
LEMMA Products ==
  ASSUME NEW c \in Nat, NEW x \in Nat, NEW y \in Nat
  PROVE  /\ c * x \in Nat
         /\ c * (x + y) = c * x + c * y
         /\ x <= y => c * x <= c * y /\ x * c <= y * c
  OBVIOUS

LEMMA PowersArePositive ==
  ASSUME settings \in Settings
  PROVE  \A n \in Nat : Power[n] >= 1 /\ Power[n + 1] >= Power[n]
  <1>1. \A n \in Nat : Power[n + 1] >= Power[n]
    <2> SUFFICES ASSUME NEW n \in Nat PROVE Power[n + 1] >= Power[n]
      OBVIOUS
    <2>1. Power[n] \in Nat /\ Power[n + 1] = settings.factor * Power[n]
      BY PowerUnrolls
    <2>2. settings.factor \in Nat /\ 1 <= settings.factor
      BY SettingTypes
    <2>3. 1 * Power[n] <= settings.factor * Power[n]
      <3> DEFINE c == Power[n]
                 y == settings.factor
      <3>1. c \in Nat /\ y \in Nat /\ 1 <= y
        BY <2>1, <2>2
      <3> HIDE DEF c, y
      <3>2. 1 * c <= y * c
        BY <3>1, Products
      <3> QED BY <3>2 DEF c, y
    <2> QED BY <2>1, <2>3
  <1> DEFINE T == {n \in Nat : Power[n] >= 1}
  <1>2. 0 \in T
    BY PowerUnrolls
  <1>3. ASSUME NEW n \in Nat, n \in T PROVE n + 1 \in T
    <2>1. Power[n] >= 1 /\ Power[n + 1] >= Power[n] /\ Power[n] \in Nat /\ Power[n + 1] \in Nat
      BY <1>1, <1>3, PowerUnrolls
    <2> QED BY <2>1
  <1> HIDE DEF T
  <1>4. Nat \subseteq T
    BY <1>2, <1>3, Everywhere
  <1> QED BY <1>1, <1>4 DEF T

(* Where a power is a float, the earlier ones are. *)
LEMMA PowersRise ==
  ASSUME settings \in Settings, NEW m \in Nat, NEW n \in 0..m
  PROVE  Power[n] <= Power[m]
  <1> DEFINE T == {k \in Nat : n <= k => Power[n] <= Power[k]}
  <1>1. 0 \in T
    BY PowerUnrolls
  <1>2. ASSUME NEW k \in Nat, k \in T PROVE k + 1 \in T
    <2>1. Power[k] \in Nat /\ Power[k + 1] \in Nat /\ Power[k + 1] >= Power[k] /\ Power[n] \in Nat
      BY PowerUnrolls, PowersArePositive
    <2>2. n \in Nat /\ (n <= k + 1 => n <= k \/ n = k + 1)
      OBVIOUS
    <2> QED BY <1>2, <2>1, <2>2
  <1> HIDE DEF T
  <1>3. Nat \subseteq T
    BY <1>1, <1>2, Everywhere
  <1>4. m \in T
    BY <1>3
  <1> QED BY <1>4 DEF T

(* A delay without jitter is positive, at most the cap, and at least the
   base delay or the cap. *)
LEMMA BaseDelays ==
  ASSUME settings \in Settings, NEW n \in Nat \ {0}
  PROVE  /\ BaseDelay(n) \in Nat
         /\ BaseDelay(n) <= settings.cap
         /\ BaseDelay(n) >= settings.base \/ BaseDelay(n) >= settings.cap
  <1>1. n - 1 \in Nat
    OBVIOUS
  <1> DEFINE c == settings.base
             w == Power[n - 1]
  <1>2. w \in Nat /\ 1 <= w
    BY <1>1, PowerUnrolls, PowersArePositive
  <1>3. c \in Nat /\ settings.cap \in Nat
    BY SettingTypes
  <1>4. BaseDelay(n) = IF c * w < settings.cap THEN c * w ELSE settings.cap
    BY DEF BaseDelay, Smaller
  <1> HIDE DEF c, w
  <1>5. c * 1 <= c * w /\ c * w \in Nat
    BY <1>2, <1>3, Products
  <1>6. c <= c * w
    BY <1>3, <1>5
  <1>7. c = settings.base
    BY DEF c
  <1> QED BY <1>3, <1>4, <1>5, <1>6, <1>7

LEMMA WindowUnrolls ==
  ASSUME settings \in Settings
  PROVE  /\ Window[0] = 0 /\ Window \in [Nat -> Nat]
         /\ \A n \in Nat : Window[n + 1] = Window[n] + BaseDelay(n + 1)
  <1>h. PICK h : h = [n \in Nat |-> [v \in Nat |-> IF n = 0 THEN 0 ELSE v + BaseDelay(n)]]
    OBVIOUS
  <1>1. ASSUME NEW n \in Nat, NEW v \in Nat
        PROVE  h[n][v] \in Nat /\ (n # 0 => h[n][v] = v + BaseDelay(n))
    <2>1. h[n][v] = IF n = 0 THEN 0 ELSE v + BaseDelay(n)
      BY <1>h
    <2>2. n # 0 => BaseDelay(n) \in Nat
      BY BaseDelays
    <2> QED BY <2>1, <2>2
  <1>2. h \in [Nat -> [Nat -> Nat]]
    <2>1. \A n \in Nat : h[n] = [v \in Nat |-> h[n][v]]
      BY <1>h
    <2>2. \A n \in Nat : h[n] \in [Nat -> Nat]
      BY <1>1, <2>1
    <2> QED BY <1>h, <2>2
  <1>3. 0 \in Nat
    OBVIOUS
  <1>4. PICK f \in [Nat -> Nat] : f = [n \in Nat |-> IF n = 0 THEN 0 ELSE h[n][f[n - 1]]]
    BY <1>2, <1>3, Recursion
  <1>5. f = [n \in Nat |-> IF n = 0 THEN 0 ELSE f[n - 1] + BaseDelay(n)]
    <2>1. ASSUME NEW n \in Nat PROVE f[n] = IF n = 0 THEN 0 ELSE f[n - 1] + BaseDelay(n)
      <3>1. CASE n = 0
        BY <1>4, <3>1
      <3>2. CASE n # 0
        <4>1. n - 1 \in Nat
          BY <3>2
        <4>2. f[n] = h[n][f[n - 1]]
          BY <1>4, <3>2
        <4>3. f[n - 1] \in Nat
          BY <1>4, <4>1
        <4> QED BY <1>1, <3>2, <4>2, <4>3
      <3> QED BY <3>1, <3>2
    <2> QED BY <1>4, <2>1
  <1>6. Window = [n \in Nat |-> IF n = 0 THEN 0 ELSE Window[n - 1] + BaseDelay(n)]
    BY <1>5 DEF Window
  <1>7. Window[0] = 0
    BY <1>6
  <1>8. ASSUME NEW n \in Nat PROVE Window[n + 1] = Window[n] + BaseDelay(n + 1)
    <2>1. n + 1 \in Nat /\ n + 1 # 0 /\ (n + 1) - 1 = n
      OBVIOUS
    <2> QED BY <1>6, <2>1
  <1>9. \A n \in Nat : Window[n] \in Nat
    <2> DEFINE T == {n \in Nat : Window[n] \in Nat}
    <2>1. 0 \in T
      BY <1>7
    <2>2. ASSUME NEW n \in Nat, n \in T PROVE n + 1 \in T
      <3>1. n + 1 \in Nat \ {0} /\ Window[n] \in Nat
        BY <2>2
      <3>2. BaseDelay(n + 1) \in Nat
        BY <3>1, BaseDelays
      <3> QED BY <1>8, <3>1, <3>2
    <2> HIDE DEF T
    <2>3. Nat \subseteq T
      BY <2>1, <2>2, Everywhere
    <2> QED BY <2>3 DEF T
  <1>10. Window \in [Nat -> Nat]
    BY <1>6, <1>9
  <1> QED BY <1>7, <1>8, <1>10

(* What depends on the settings alone stays. *)
LEMMA ScheduleStays ==
  ASSUME settings' = settings
  PROVE  Power' = Power /\ Window' = Window /\ \A n : BaseDelay(n)' = BaseDelay(n)
  <1>1. Power' = Power
    BY DEF Power
  <1>2. \A n : BaseDelay(n)' = BaseDelay(n)
    BY <1>1 DEF BaseDelay
  <1>3. Window' = Window
    BY <1>2 DEF Window
  <1> QED BY <1>1, <1>2, <1>3

----------------------------------------------------------------------------
(* The bounds of a delay. *)

TypeInv == /\ settings \in Settings
           /\ made \in Nat /\ lost \in Nat
           /\ state \in {"pending", "failed", "raised"}
           /\ delay \in Nat /\ spent \in Nat

LEMMA Draws ==
  ASSUME settings \in Settings, NEW n \in Nat \ {0}, NEW dl \in NextDelays(n)
  PROVE  \E x \in Nat : /\ x >= 10 - settings.jitter /\ x <= 10 + settings.jitter
                       /\ x * BaseDelay(n) \in Nat
                       /\ dl = Greater(MinDelay, x * BaseDelay(n))
  <1>1. PICK x \in (10 - settings.jitter)..(10 + settings.jitter) : dl = Greater(MinDelay, x * BaseDelay(n))
    BY DEF NextDelays, Jittered
  <1>2. x \in Nat /\ x >= 10 - settings.jitter /\ x <= 10 + settings.jitter
    BY SettingTypes
  <1>3. BaseDelay(n) \in Nat
    BY BaseDelays
  <1>4. x * BaseDelay(n) \in Nat
    BY <1>2, <1>3, Products
  <1> QED BY <1>1, <1>2, <1>4

LEMMA DrawsAreNumbers ==
  ASSUME settings \in Settings, NEW n \in Nat \ {0}, NEW dl \in NextDelays(n)
  PROVE  dl \in Nat
  BY Draws, SettingTypes DEF Greater

LEMMA TypeInductive ==
  /\ Init => TypeInv
  /\ TypeInv /\ [Next]_vars => TypeInv'
  <1>1. Init => TypeInv
    BY DEF Init, TypeInv
  <1>2. ASSUME TypeInv, [Next]_vars PROVE TypeInv'
    <2>1. CASE RecordFailure
      <3>1. CASE IsExhausted(made + 1)
        BY <1>2, <2>1, <3>1 DEF RecordFailure, TypeInv
      <3>2. CASE ~IsExhausted(made + 1)
        <4>1. /\ settings \in Settings /\ made + 1 \in Nat \ {0} /\ spent \in Nat
              /\ \E dl \in NextDelays(made + 1) : delay' = dl /\ spent' = spent + dl
          BY <1>2, <2>1, <3>2 DEF RecordFailure, TypeInv
        <4>2. PICK dl \in NextDelays(made + 1) : delay' = dl /\ spent' = spent + dl
          BY <4>1
        <4>3. dl \in Nat
          BY <4>1, DrawsAreNumbers
        <4>4. delay' \in Nat /\ spent' \in Nat
          BY <4>1, <4>2, <4>3
        <4>5. settings' = settings /\ made' = made + 1 /\ lost' = lost /\ state' = "pending"
          BY <2>1, <3>2 DEF RecordFailure
        <4> QED BY <1>2, <4>4, <4>5 DEF TypeInv
      <3> QED BY <3>1, <3>2
    <2>2. CASE RecordingRaises
      BY <1>2, <2>2 DEF RecordingRaises, TypeInv
    <2>3. CASE LoseAttempt
      BY <1>2, <2>3 DEF LoseAttempt, TypeInv
    <2>4. CASE UNCHANGED vars
      BY <1>2, <2>4 DEF vars, TypeInv
    <2> QED BY <1>2, <2>1, <2>2, <2>3, <2>4 DEF Next
  <1> QED BY <1>1, <1>2

LEMMA DelaysBounded ==
  ASSUME settings \in Settings, NEW n \in Nat \ {0}, NEW dl \in NextDelays(n)
  PROVE  dl >= MinDelay /\ dl <= Greater(MinDelay, (10 + settings.jitter) * settings.cap)
  <1>1. PICK x \in Nat : /\ x <= 10 + settings.jitter
                       /\ x * BaseDelay(n) \in Nat
                       /\ dl = Greater(MinDelay, x * BaseDelay(n))
    BY Draws
  <1> DEFINE most == 10 + settings.jitter
             b == BaseDelay(n)
             cap == settings.cap
  <1>2. most \in Nat /\ cap \in Nat /\ MinDelay \in Nat /\ b \in Nat /\ b <= cap
    BY SettingTypes, BaseDelays
  <1>3. x <= most /\ x * b \in Nat /\ dl = Greater(MinDelay, x * b)
    BY <1>1
  <1> HIDE DEF most, b, cap
  <1>4. x * b <= most * b
    BY <1>2, <1>3, Products
  <1>5. most * b <= most * cap
    BY <1>2, Products
  <1>6. x * b \in Nat /\ most * b \in Nat /\ most * cap \in Nat
    BY <1>2, Products
  <1>7. dl >= MinDelay /\ dl <= Greater(MinDelay, most * cap)
    BY <1>2, <1>3, <1>4, <1>5, <1>6 DEF Greater
  <1> QED BY <1>7 DEF most, cap

(* However long the series of failures and whatever was lost in between,
   every delay next_delay_seconds draws lies between MIN_DELAY_SECONDS and the
   cap with its jitter. *)
THEOREM DelaysKeepBounds == Spec => []DelayWithinBounds
  <1>1. Init => DelayWithinBounds
    BY DEF Init, DelayWithinBounds
  <1>2. ASSUME TypeInv, DelayWithinBounds, [Next]_vars PROVE DelayWithinBounds'
    <2>1. CASE RecordFailure /\ ~IsExhausted(made + 1)
      <3>1. made + 1 \in Nat \ {0} /\ delay' \in NextDelays(made + 1) /\ settings' = settings
        BY <1>2, <2>1 DEF RecordFailure, TypeInv
      <3>2. delay' >= MinDelay /\ delay' <= Greater(MinDelay, (10 + settings.jitter) * settings.cap)
        BY <1>2, <3>1, DelaysBounded DEF TypeInv
      <3> QED BY <3>1, <3>2 DEF DelayWithinBounds, Greater
    <2>2. CASE UNCHANGED <<settings, delay, spent>>
      BY <1>2, <2>2 DEF DelayWithinBounds, Greater
    <2>3. UNCHANGED <<settings, delay, spent>> \/ (RecordFailure /\ ~IsExhausted(made + 1))
      BY <1>2 DEF Next, vars, RecordFailure, RecordingRaises, LoseAttempt
    <2> QED BY <2>1, <2>2, <2>3
  <1> QED BY <1>1, <1>2, TypeInductive, PTL DEF Spec

----------------------------------------------------------------------------
(* What a whole budget takes. *)

(* The jitter never makes a delay fall to MIN_DELAY_SECONDS. *)
NeverRaised == /\ settings.base * (10 - settings.jitter) >= MinDelay
               /\ settings.cap * (10 - settings.jitter) >= MinDelay

(* n delays took what the schedule says, give or take the jitter. *)
SpentOn(n) == /\ spent >= (10 - settings.jitter) * Window[n]
              /\ NeverRaised => spent <= (10 + settings.jitter) * Window[n]

(* Without lost attempts every failure was recorded and drew its delay, until
   the budget was spent or a power was no float any more.  From then on no
   failure can be recorded. *)
SpentInv ==
    lost = 0 => /\ state = "pending" => made < settings.budget /\ SpentOn(made)
                /\ state = "failed" => /\ made = settings.budget
                                       /\ SpentOn(settings.budget - 1)
                                       /\ Power[settings.budget - 1] <= MaxFloat
                /\ state = "raised" => made >= 1 /\ Power[made - 1] > MaxFloat

(* One more delay, drawn for position n + 1, and the sums go on. *)
LEMMA OneMoreDelay ==
  ASSUME settings \in Settings, spent \in Nat, NEW n \in Nat, SpentOn(n),
         NEW dl \in NextDelays(n + 1)
  PROVE  /\ spent + dl >= (10 - settings.jitter) * Window[n + 1]
         /\ NeverRaised => spent + dl <= (10 + settings.jitter) * Window[n + 1]
  <1> DEFINE least == 10 - settings.jitter
             most == 10 + settings.jitter
             b == BaseDelay(n + 1)
             w == Window[n]
             base == settings.base
             cap == settings.cap
  <1>1. n + 1 \in Nat \ {0}
    OBVIOUS
  <1>2. /\ least \in Nat /\ most \in Nat /\ least <= most
        /\ base \in Nat /\ cap \in Nat /\ MinDelay \in Nat
    BY SettingTypes
  <1>3. b \in Nat /\ (b >= base \/ b >= cap)
    BY <1>1, BaseDelays
  <1>4. w \in Nat /\ Window[n + 1] = w + b
    BY WindowUnrolls
  <1>5. PICK x \in Nat : /\ x >= least /\ x <= most
                       /\ x * b \in Nat
                       /\ dl = Greater(MinDelay, x * b)
    BY <1>1, Draws
  <1>6. /\ spent >= least * w
        /\ NeverRaised => spent <= most * w
    BY DEF SpentOn
  <1>7. NeverRaised => base * least >= MinDelay /\ cap * least >= MinDelay
    BY DEF NeverRaised
  <1> HIDE DEF least, most, b, w, base, cap
  <1>8. /\ least * (w + b) = least * w + least * b
        /\ most * (w + b) = most * w + most * b
        /\ least * w \in Nat /\ least * b \in Nat /\ most * w \in Nat /\ most * b \in Nat
    BY <1>2, <1>3, <1>4, Products
  <1>9. least * b <= x * b
    BY <1>2, <1>3, <1>5, Products
  <1>10. x * b <= most * b
    BY <1>2, <1>3, <1>5, Products
  <1>11. dl \in Nat /\ dl >= least * b
    BY <1>2, <1>5, <1>8, <1>9 DEF Greater
  <1>12. NeverRaised => dl <= most * b
    <2>1. b >= base => base * least <= b * least
      BY <1>2, <1>3, Products
    <2>2. b >= cap => cap * least <= b * least
      BY <1>2, <1>3, Products
    <2>3. b * least \in Nat /\ b * most \in Nat /\ base * least \in Nat /\ cap * least \in Nat
      BY <1>2, <1>3, Products
    <2>4. b * least <= b * most
      BY <1>2, <1>3, Products
    <2>5. b * most = most * b
      BY <1>2, <1>3
    <2>6. NeverRaised => MinDelay <= most * b
      BY <1>2, <1>3, <1>7, <2>1, <2>2, <2>3, <2>4, <2>5
    <2> QED BY <1>2, <1>5, <1>8, <1>10, <2>6 DEF Greater
  <1>13. spent + dl >= least * (w + b)
    BY <1>6, <1>8, <1>11
  <1>14. NeverRaised => spent + dl <= most * (w + b)
    BY <1>6, <1>8, <1>11, <1>12
  <1> QED BY <1>4, <1>13, <1>14 DEF least, most

LEMMA SpentInductive ==
  /\ Init => SpentInv
  /\ TypeInv /\ SpentInv /\ [Next]_vars => SpentInv'
  <1>1. ASSUME Init PROVE SpentInv
    <2>1. settings \in Settings /\ made = 0 /\ spent = 0 /\ state = "pending"
      BY <1>1 DEF Init
    <2>2. Window[0] = 0 /\ settings.budget >= 1 /\ settings.budget \in Nat /\ settings.jitter \in 0..9
      BY <2>1, WindowUnrolls, SettingTypes
    <2>3. SpentOn(0)
      BY <2>1, <2>2 DEF SpentOn
    <2> QED BY <2>1, <2>2, <2>3 DEF SpentInv
  <1>2. ASSUME TypeInv, SpentInv, [Next]_vars PROVE SpentInv'
    <2>1. settings \in Settings /\ made \in Nat /\ lost \in Nat /\ spent \in Nat /\ settings' = settings
      BY <1>2 DEF TypeInv, Next, vars, RecordFailure, RecordingRaises, LoseAttempt
    <2>2. Power' = Power /\ Window' = Window
      BY <2>1, ScheduleStays
    <2>3. settings.budget \in Nat /\ settings.budget >= 1
      BY <2>1, SettingTypes
    <2>4. SUFFICES ASSUME lost' = 0 PROVE SpentInv'
      BY DEF SpentInv
    <2>5. CASE RecordFailure
      <3>1. lost = 0 /\ made' = made + 1 /\ Power[made] <= MaxFloat
        BY <2>1, <2>4, <2>5 DEF RecordFailure, PowerExists
      <3>2. state # "raised"
        <4> SUFFICES ASSUME state = "raised" PROVE FALSE
          OBVIOUS
        <4>1. made >= 1 /\ Power[made - 1] > MaxFloat
          BY <1>2, <3>1 DEF SpentInv
        <4>2. made - 1 \in Nat /\ (made - 1) + 1 = made
          BY <2>1, <4>1
        <4>3. Power[made] >= Power[made - 1] /\ Power[made] \in Nat /\ Power[made - 1] \in Nat
          BY <2>1, <4>2, PowerUnrolls, PowersArePositive
        <4> QED BY <3>1, <4>1, <4>3, FieldAssumption DEF FieldAssumption
      <3>3. made < settings.budget /\ SpentOn(made)
        BY <1>2, <2>5, <3>1, <3>2 DEF SpentInv, RecordFailure, TypeInv
      <3>4. CASE IsExhausted(made + 1)
        <4>1. state' = "failed" /\ spent' = spent /\ made + 1 >= settings.budget
          BY <2>5, <3>4 DEF RecordFailure, IsExhausted
        <4>2. made' = settings.budget /\ settings.budget - 1 = made
          BY <2>1, <2>3, <3>1, <3>3, <4>1
        <4>3. SpentOn(settings.budget - 1)'
          BY <2>1, <2>2, <3>3, <4>1, <4>2 DEF SpentOn, NeverRaised
        <4>4. (Power[settings.budget - 1] <= MaxFloat)'
          BY <2>1, <2>2, <3>1, <4>2
        <4> QED BY <2>1, <4>1, <4>2, <4>3, <4>4 DEF SpentInv
      <3>5. CASE ~IsExhausted(made + 1)
        <4>1. /\ state' = "pending" /\ ~(made + 1 >= settings.budget)
              /\ delay' \in NextDelays(made + 1) /\ spent' = spent + delay'
          BY <2>5, <3>5 DEF RecordFailure, IsExhausted
        <4>2. /\ spent' >= (10 - settings.jitter) * Window[made + 1]
              /\ NeverRaised => spent' <= (10 + settings.jitter) * Window[made + 1]
          BY <2>1, <3>3, <4>1, OneMoreDelay
        <4>3. SpentOn(made)'
          BY <2>1, <2>2, <3>1, <4>2 DEF SpentOn, NeverRaised
        <4>4. made' < settings.budget'
          BY <2>1, <2>3, <3>1, <4>1
        <4> QED BY <4>1, <4>3, <4>4 DEF SpentInv
      <3> QED BY <3>4, <3>5
    <2>6. CASE RecordingRaises
      <3>1. state' = "raised" /\ made' = made + 1 /\ ~(Power[(made + 1) - 1] <= MaxFloat)
        BY <2>6 DEF RecordingRaises, PowerExists
      <3>2. (made + 1) - 1 = made /\ made' - 1 = made /\ made' >= 1
        BY <2>1, <3>1
      <3>3. Power[made] \in Nat
        BY <2>1, PowerUnrolls
      <3>4. Power'[made' - 1] > MaxFloat
        BY <2>2, <3>1, <3>2, <3>3, FieldAssumption DEF FieldAssumption
      <3> QED BY <3>1, <3>2, <3>4 DEF SpentInv
    <2>7. CASE LoseAttempt
      BY <2>1, <2>4, <2>7 DEF LoseAttempt
    <2>8. CASE UNCHANGED vars
      <3>1. UNCHANGED <<settings, made, lost, state, spent>>
        BY <2>8 DEF vars
      <3> QED BY <1>2, <2>2, <3>1 DEF SpentInv, SpentOn, NeverRaised
    <2> QED BY <1>2, <2>5, <2>6, <2>7, <2>8 DEF Next
  <1> QED BY <1>1, <1>2

(* A delivery that is given up without a lost attempt has waited for
   total_retry_window, give or take the jitter: what /healthz shows is what it
   gets, and /healthz can show it. *)
THEOREM WindowIsKept == Spec => []WindowIsHonest
  <1>1. ASSUME TypeInv, SpentInv, state = "failed", lost = 0 PROVE ~WindowRaises
    <2>1. settings \in Settings /\ Power[settings.budget - 1] <= MaxFloat
      BY <1>1 DEF TypeInv, SpentInv
    <2> DEFINE last == settings.budget - 1
    <2>2. last \in Nat
      BY <2>1, SettingTypes
    <2> SUFFICES ASSUME NEW n \in 1..last PROVE PowerExists(n)
      BY DEF WindowRaises
    <2> HIDE DEF last
    <2>3. n - 1 \in 0..last /\ n - 1 \in Nat
      BY <2>2
    <2>4. Power[n - 1] <= Power[last]
      BY <2>1, <2>2, <2>3, PowersRise
    <2>5. Power[n - 1] \in Nat /\ Power[last] \in Nat /\ Power[last] <= MaxFloat
      BY <2>1, <2>2, <2>3, PowerUnrolls DEF last
    <2> QED BY <2>4, <2>5, FieldAssumption DEF FieldAssumption, PowerExists
  <1>2. TypeInv /\ SpentInv => WindowIsHonest
    BY <1>1 DEF SpentInv, SpentOn, NeverRaised, WindowIsHonest, TotalRetryWindow
  <1> QED BY <1>2, TypeInductive, SpentInductive, PTL DEF Spec

----------------------------------------------------------------------------
(* The preview.  Its delays are added up in an order that is not known, so
   the sum over a set is compared with one that goes up the positions. *)

(* What MapThenSumSet chooses to add up the delays of some of n positions. *)
IsSum(f, n) ==
    f = [s \in SUBSET (1..n) |->
            IF s = {} THEN 0
            ELSE BaseDelay(CHOOSE x \in s : TRUE) + f[s \ {CHOOSE x \in s : TRUE}]]

(* f[k][s] is the sum over those of the positions s that are at most k. *)
IsPartial(f, n) ==
    /\ f \in [0..n -> [SUBSET (1..n) -> Nat]]
    /\ \A s \in SUBSET (1..n) : f[0][s] = 0
    /\ \A k \in 0..(n - 1), s \in SUBSET (1..n) :
          f[k + 1][s] = f[k][s] + IF k + 1 \in s THEN BaseDelay(k + 1) ELSE 0

LEMMA PartialSums ==
  ASSUME settings \in Settings, NEW n \in Nat
  PROVE  \E f : IsPartial(f, n)
  <1> DEFINE Ss == SUBSET (1..n)
             part(k, s) == IF k \in s THEN BaseDelay(k) ELSE 0
             a == [s \in Ss |-> 0]
             h == [k \in Nat |-> [v \in [Ss -> Nat] |-> [s \in Ss |-> v[s] + part(k, s)]]]
  <1>1. \A k \in Nat, s \in Ss : part(k, s) \in Nat
    <2> SUFFICES ASSUME NEW k \in Nat, NEW s \in Ss, k \in s PROVE BaseDelay(k) \in Nat
      OBVIOUS
    <2>1. k \in Nat \ {0}
      OBVIOUS
    <2> QED BY <2>1, BaseDelays
  <1>2. PICK f : Unrolls(f, a, h, n)
    BY UnrollsSome
  <1> HIDE DEF part
  <1>3. f[0] = a
    BY <1>2 DEF Unrolls
  <1>4. ASSUME NEW k \in 0..(n - 1), f[k] \in [Ss -> Nat]
        PROVE  f[k + 1] = [s \in Ss |-> f[k][s] + part(k + 1, s)]
    <2>1. k + 1 \in 0..n /\ k + 1 \in Nat /\ k + 1 # 0 /\ (k + 1) - 1 = k
      OBVIOUS
    <2> HIDE DEF h
    <2>2. f[k + 1] = h[k + 1][f[k]]
      BY <1>2, <2>1 DEF Unrolls
    <2> QED BY <1>4, <2>1, <2>2 DEF h
  <1> DEFINE T == {k \in Nat : f[k] \in [Ss -> Nat]}
  <1>5. 0 \in T
    <2>1. a \in [Ss -> Nat]
      OBVIOUS
    <2> HIDE DEF a
    <2> QED BY <1>3, <2>1
  <1>6. ASSUME NEW k \in 0..(n - 1), k \in T PROVE k + 1 \in T
    <2>1. k + 1 \in Nat /\ f[k] \in [Ss -> Nat]
      BY <1>6
    <2>2. f[k + 1] = [s \in Ss |-> f[k][s] + part(k + 1, s)]
      BY <1>4, <2>1
    <2>3. \A s \in Ss : f[k][s] + part(k + 1, s) \in Nat
      BY <1>1, <2>1
    <2> QED BY <2>1, <2>2, <2>3
  <1> HIDE DEF T
  <1>7. 0..n \subseteq T
    BY <1>5, <1>6, UpTo
  <1>8. \A k \in 0..n : f[k] \in [Ss -> Nat]
    BY <1>7 DEF T
  <1>9. f \in [0..n -> [Ss -> Nat]]
    <2>1. f = [k \in 0..n |-> f[k]]
      BY <1>2 DEF Unrolls
    <2> QED BY <1>8, <2>1
  <1>10. \A s \in Ss : f[0][s] = 0
    BY <1>3
  <1>11. ASSUME NEW k \in 0..(n - 1), NEW s \in Ss
         PROVE  f[k + 1][s] = f[k][s] + IF k + 1 \in s THEN BaseDelay(k + 1) ELSE 0
    <2>0. k \in 0..n
      OBVIOUS
    <2>1. f[k] \in [Ss -> Nat]
      BY <1>8, <2>0
    <2>2. f[k + 1][s] = f[k][s] + part(k + 1, s)
      BY <1>4, <2>1
    <2> QED BY <2>2 DEF part
  <1> HIDE DEF a, h
  <1>12. IsPartial(f, n)
    BY <1>9, <1>10, <1>11 DEF IsPartial
  <1> QED BY <1>12

(* An element of a set adds its delay to the partial sums, whatever its place. *)
LEMMA PartialAdds ==
  ASSUME settings \in Settings, NEW n \in Nat, NEW f, IsPartial(f, n),
         NEW s \in SUBSET (1..n), NEW x \in s
  PROVE  f[n][s] = BaseDelay(x) + f[n][s \ {x}]
  <1> DEFINE r == s \ {x}
             T == {k \in Nat : k <= n =>
                      f[k][s] = f[k][r] + IF x <= k THEN BaseDelay(x) ELSE 0}
  <1>1. r \in SUBSET (1..n) /\ x \in 1..n /\ \A y : y # x => (y \in r <=> y \in s)
    OBVIOUS
  <1>2. x \notin r
    OBVIOUS
  <1>3. x \in Nat /\ x >= 1 /\ x <= n /\ BaseDelay(x) \in Nat
    BY <1>1, BaseDelays
  <1>4. \A k \in 0..n : f[k][s] \in Nat /\ f[k][r] \in Nat
    <2>1. ASSUME NEW k \in 0..n PROVE f[k] \in [SUBSET (1..n) -> Nat]
      BY DEF IsPartial
    <2> QED BY <1>1, <2>1
  <1> HIDE DEF r
  <1>5. 0 \in T
    <2>1. f[0][s] = 0 /\ f[0][r] = 0
      BY <1>1 DEF IsPartial
    <2>2. ~(x <= 0)
      BY <1>3
    <2> QED BY <2>1, <2>2
  <1>6. ASSUME NEW k \in 0..(n - 1), k \in T PROVE k + 1 \in T
    <2>1. k \in 0..n /\ k + 1 \in 0..n /\ k + 1 \in Nat
      OBVIOUS
    <2>2. f[k][s] = f[k][r] + IF x <= k THEN BaseDelay(x) ELSE 0
      BY <1>6, <2>1
    <2>3. f[k + 1][s] = f[k][s] + IF k + 1 \in s THEN BaseDelay(k + 1) ELSE 0
      BY DEF IsPartial
    <2>4. f[k + 1][r] = f[k][r] + IF k + 1 \in r THEN BaseDelay(k + 1) ELSE 0
      BY <1>1 DEF IsPartial
    <2>5. CASE x = k + 1
      <3>1. ~(x <= k) /\ x <= k + 1 /\ k + 1 \in s /\ k + 1 \notin r
        BY <1>2, <2>1, <2>5
      <3>2. f[k + 1][s] = f[k + 1][r] + BaseDelay(x)
        BY <1>3, <1>4, <2>1, <2>2, <2>3, <2>4, <2>5, <3>1
      <3> QED BY <2>1, <3>1, <3>2
    <2>6. CASE x # k + 1
      <3>1. (x <= k <=> x <= k + 1) /\ (k + 1 \in r <=> k + 1 \in s)
        BY <1>1, <1>3, <2>1, <2>6
      <3>2. k + 1 \in s => BaseDelay(k + 1) \in Nat
        BY <2>1, BaseDelays
      <3>3. f[k + 1][s] = f[k + 1][r] + IF x <= k + 1 THEN BaseDelay(x) ELSE 0
        BY <1>3, <1>4, <2>1, <2>2, <2>3, <2>4, <3>1, <3>2
      <3> QED BY <2>1, <3>3
    <2> QED BY <2>5, <2>6
  <1> HIDE DEF T
  <1>7. n \in T
    BY <1>5, <1>6, UpTo
  <1>8. f[n][s] = f[n][r] + BaseDelay(x)
    BY <1>3, <1>7 DEF T
  <1>9. n \in 0..n
    OBVIOUS
  <1>10. f[n][s] = BaseDelay(x) + f[n][r]
    BY <1>3, <1>4, <1>8, <1>9
  <1> QED BY <1>10 DEF r

LEMMA PartialEnds ==
  ASSUME settings \in Settings, NEW n \in Nat, NEW f, IsPartial(f, n)
  PROVE  f[n][{}] = 0 /\ f[n][1..n] = Window[n]
  <1> DEFINE T == {k \in Nat : k <= n => f[k][{}] = 0 /\ f[k][1..n] = Window[k]}
             all == 1..n
  <1>1. {} \in SUBSET (1..n) /\ all \in SUBSET (1..n)
    OBVIOUS
  <1>2. 0 \in T
    BY <1>1, WindowUnrolls DEF IsPartial
  <1>3. ASSUME NEW k \in 0..(n - 1), k \in T PROVE k + 1 \in T
    <2>1. k \in Nat /\ k + 1 \in Nat /\ k + 1 \in all /\ k <= n
      OBVIOUS
    <2>2. f[k][{}] = 0 /\ f[k][all] = Window[k]
      BY <1>3, <2>1
    <2> HIDE DEF all
    <2>3. f[k + 1][{}] = f[k][{}] + 0
      BY <1>1 DEF IsPartial
    <2>4. f[k + 1][all] = f[k][all] + BaseDelay(k + 1)
      BY <1>1, <2>1 DEF IsPartial
    <2>5. Window[k + 1] = Window[k] + BaseDelay(k + 1)
      BY <2>1, WindowUnrolls
    <2>6. f[k + 1][{}] = 0 /\ f[k + 1][all] = Window[k + 1]
      BY <2>2, <2>3, <2>4, <2>5
    <2> QED BY <2>1, <2>6 DEF all
  <1> HIDE DEF T
  <1>4. n \in T
    BY <1>2, <1>3, UpTo
  <1> QED BY <1>4 DEF T

(* Whatever element MapThenSumSet takes first, its sums are the partial ones. *)
LEMMA PartialIsSum ==
  ASSUME settings \in Settings, NEW n \in Nat, NEW f, IsPartial(f, n)
  PROVE  IsSum([s \in SUBSET (1..n) |-> f[n][s]], n)
  <1> DEFINE g == [s \in SUBSET (1..n) |-> f[n][s]]
             first(s) == CHOOSE x \in s : TRUE
  <1>1. ASSUME NEW s \in SUBSET (1..n)
        PROVE  g[s] = IF s = {} THEN 0 ELSE BaseDelay(first(s)) + g[s \ {first(s)}]
    <2>1. CASE s = {}
      BY <2>1, PartialEnds
    <2>2. CASE s # {}
      <3>1. first(s) \in s
        BY <2>2
      <3> HIDE DEF first
      <3>2. f[n][s] = BaseDelay(first(s)) + f[n][s \ {first(s)}]
        <4>1. \A x \in s : f[n][s] = BaseDelay(x) + f[n][s \ {x}]
          BY PartialAdds
        <4> QED BY <3>1, <4>1
      <3>3. s \ {first(s)} \in SUBSET (1..n)
        OBVIOUS
      <3> QED BY <2>2, <3>2, <3>3
    <2> QED BY <2>1, <2>2
  <1>2. g = [s \in SUBSET (1..n) |-> g[s]]
    OBVIOUS
  <1> HIDE DEF g
  <1>3. IsSum(g, n)
    BY <1>1, <1>2 DEF IsSum
  <1> QED BY <1>3 DEF g

LEMMA SumIsUnique ==
  ASSUME NEW n \in Nat, NEW f, NEW g, IsSum(f, n), IsSum(g, n)
  PROVE  f[1..n] = g[1..n]
  <1> DEFINE T == {k \in Nat : \A s \in SUBSET (1..n) : Cardinality(s) = k => f[s] = g[s]}
             first(s) == CHOOSE x \in s : TRUE
  <1>1. \A s \in SUBSET (1..n) : IsFiniteSet(s)
    <2>1. IsFiniteSet(1..n)
      <3>1. 1 \in Int /\ n \in Int
        OBVIOUS
      <3> QED BY <3>1, FS_Interval
    <2> QED BY <2>1, FS_Subset
  <1>2. IsFiniteSet(1..n) /\ Cardinality(1..n) \in Nat
    BY <1>1, FS_CardinalityType
  <1>3. 0 \in T
    <2> SUFFICES ASSUME NEW s \in SUBSET (1..n), Cardinality(s) = 0 PROVE f[s] = g[s]
      OBVIOUS
    <2>1. s = {}
      BY <1>1, FS_EmptySet
    <2> QED BY <2>1 DEF IsSum
  <1>4. ASSUME NEW k \in Nat, k \in T PROVE k + 1 \in T
    <2> SUFFICES ASSUME NEW s \in SUBSET (1..n), Cardinality(s) = k + 1 PROVE f[s] = g[s]
      OBVIOUS
    <2>1. s # {}
      BY FS_EmptySet
    <2>2. first(s) \in s
      BY <2>1
    <2>3. f[s] = BaseDelay(first(s)) + f[s \ {first(s)}] /\ g[s] = BaseDelay(first(s)) + g[s \ {first(s)}]
      BY <2>1 DEF IsSum
    <2> HIDE DEF first
    <2> DEFINE r == s \ {first(s)}
    <2>4. r \in SUBSET (1..n) /\ Cardinality(r) = Cardinality(s) - 1
      BY <1>1, <2>2, FS_RemoveElement
    <2>5. Cardinality(r) = k
      BY <2>4
    <2>6. f[r] = g[r]
      BY <1>4, <2>4, <2>5
    <2> QED BY <2>3, <2>6
  <1> HIDE DEF T
  <1>5. Nat \subseteq T
    BY <1>3, <1>4, Everywhere
  <1>6. Cardinality(1..n) \in T
    BY <1>2, <1>5
  <1> QED BY <1>6 DEF T

LEMMA SumUpTo ==
  ASSUME settings \in Settings, NEW n \in Nat
  PROVE  MapThenSumSet(BaseDelay, 1..n) = Window[n]
  <1> DEFINE all == 1..n
             f == CHOOSE f : IsSum(f, n)
  <1>1. PICK p : IsPartial(p, n)
    BY PartialSums
  <1> DEFINE g == [s \in SUBSET (1..n) |-> p[n][s]]
  <1>2. IsSum(g, n)
    BY <1>1, PartialIsSum
  <1>3. IsSum(f, n)
    <2> HIDE DEF g
    <2> QED BY <1>2
  <1>4. MapThenSumSet(BaseDelay, 1..n) = f[1..n]
    BY DEF MapThenSumSet, MapThenFoldSet, IsSum
  <1>5. g[1..n] = Window[n]
    BY <1>1, PartialEnds
  <1> HIDE DEF f, g
  <1>6. f[1..n] = g[1..n]
    BY <1>2, <1>3, SumIsUnique
  <1> QED BY <1>4, <1>5, <1>6

(* schedule_preview, where it can be computed, is the beginning of the
   schedule: it starts at the base delay, never falls, and is the whole window
   if it is long enough. *)
THEOREM PreviewIsRight == Spec => []PreviewIsSchedule
  <1>1. ASSUME TypeInv PROVE PreviewIsSchedule
    <2>1. settings \in Settings /\ settings.budget \in Nat /\ settings.budget >= 1 /\ settings.base \in Nat
      BY <1>1, SettingTypes DEF TypeInv
    <2>2. BaseDelay(1) = Smaller(settings.base, settings.cap)
      <3>1. Power[1 - 1] = 1
        BY <2>1, PowerUnrolls
      <3>2. settings.base * 1 = settings.base
        BY <2>1
      <3> QED BY <3>1, <3>2 DEF BaseDelay
    <2>3. ASSUME NEW n \in Preview(12), n > 1 PROVE BaseDelay(n) >= BaseDelay(n - 1)
      <3>1. n \in Nat /\ n - 1 \in Nat /\ n - 2 \in Nat /\ (n - 1) - 1 = n - 2 /\ (n - 2) + 1 = n - 1
        BY <2>1, <2>3 DEF Preview, Smaller, Greater
      <3> DEFINE v == Power[n - 2]
                 w == Power[n - 1]
                 base == settings.base
                 cap == settings.cap
      <3>2. v \in Nat /\ w \in Nat /\ v <= w /\ base \in Nat /\ cap \in Nat
        BY <2>1, <3>1, PowerUnrolls, PowersArePositive, SettingTypes
      <3>3. BaseDelay(n) = Smaller(base * w, cap) /\ BaseDelay(n - 1) = Smaller(base * v, cap)
        BY <3>1 DEF BaseDelay
      <3> HIDE DEF v, w, base, cap
      <3>4. base * v <= base * w /\ base * v \in Nat /\ base * w \in Nat
        BY <3>2, Products
      <3> QED BY <3>2, <3>3, <3>4 DEF Smaller
    <2>4. ASSUME settings.budget <= 13, ~PreviewRaises(12)
          PROVE  ~WindowRaises /\ MapThenSumSet(BaseDelay, Preview(12)) = TotalRetryWindow
      <3>1. settings.budget - 1 \in Nat /\ Preview(12) = 1..(settings.budget - 1)
        BY <2>1, <2>4 DEF Preview, Smaller, Greater
      <3>2. MapThenSumSet(BaseDelay, 1..(settings.budget - 1)) = Window[settings.budget - 1]
        BY <2>1, <3>1, SumUpTo
      <3>3. ~WindowRaises
        BY <2>4, <3>1 DEF PreviewRaises, WindowRaises
      <3> QED BY <3>1, <3>2, <3>3 DEF TotalRetryWindow
    <2> QED BY <2>2, <2>3, <2>4 DEF PreviewIsSchedule
  <1> QED BY <1>1, TypeInductive, PTL DEF Spec
=============================================================================
