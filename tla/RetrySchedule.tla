---------------------------- MODULE RetrySchedule ----------------------------
(***************************************************************************)
(* The backoff (src/app/retry.py) under the settings a process accepts     *)
(* (src/app/config.py), followed through the budget of one delivery that   *)
(* fails again and again: record_result asks is_exhausted and              *)
(* next_delay_seconds for the budget position of the claim, and attempts   *)
(* that are never reported use up positions too.                           *)
(*                                                                         *)
(* Delays are integers, in tenths; retry_jitter_ratio is in tenths.  A     *)
(* float power beyond MaxFloat raises OverflowError, as in Python.         *)
(***************************************************************************)
EXTENDS Integers, FiniteSets, FiniteSetsExt

CONSTANTS
    Bases,      \* values of retry_base_seconds
    Factors,    \* values of retry_factor
    Caps,       \* values of retry_cap_seconds
    Budgets,    \* values of retry_max_attempts
    Jitters,    \* values of retry_jitter_ratio, in tenths
    MinDelay,   \* MIN_DELAY_SECONDS, in tenths
    MaxFloat,   \* the largest power that is a float
    MaxLost     \* bound: attempts that are never reported

(* The Field constraints; validate_invariants has none for these settings. *)
ASSUME FieldAssumption ==
    /\ Bases \subseteq Nat \ {0} /\ Factors \subseteq Nat \ {0} /\ Caps \subseteq Nat \ {0}
    /\ Budgets \subseteq Nat \ {0} /\ Jitters \subseteq 0..9
    /\ MinDelay \in Nat \ {0} /\ MaxFloat \in Nat \ {0} /\ MaxLost \in Nat

VARIABLES
    settings,   \* of the process
    made,       \* attempts: how many claims have burned
    lost,       \* attempts that were never reported
    state,      \* what recording the last attempt led to
    delay,      \* the last delay, in tenths
    spent       \* the sum of all delays, in tenths

vars == <<settings, made, lost, state, delay, spent>>

----------------------------------------------------------------------------

Settings == [base : Bases, factor : Factors, cap : Caps, budget : Budgets, jitter : Jitters]

Init == /\ settings \in Settings
        /\ made = 0 /\ lost = 0
        /\ state = "pending"
        /\ delay = 0 /\ spent = 0

Greater(a, b) == IF a > b THEN a ELSE b
Smaller(a, b) == IF a < b THEN a ELSE b

(* retry_factor ** n. *)
Power[n \in Nat] == IF n = 0 THEN 1 ELSE settings.factor * Power[n - 1]

(* retry_factor ** (attempts_made - 1) is a float. *)
PowerExists(n) == Power[n - 1] <= MaxFloat

(* Broken: the exponent is the number of attempts made. *)
BaseDelayOneFurther(n) == Smaller(settings.base * Power[n], settings.cap)

(* base_delay_seconds. *)
BaseDelay(n) == Smaller(settings.base * Power[n - 1], settings.cap)

(* What jitter makes of a delay, in tenths. *)
Jittered(d) == {x * d : x \in (10 - settings.jitter)..(10 + settings.jitter)}

(* Broken: jitter may undercut the shortest delay. *)
NextDelaysUnbounded(n) == Jittered(BaseDelay(n))

(* next_delay_seconds: the delays it can draw. *)
NextDelays(n) == {Greater(MinDelay, x) : x \in Jittered(BaseDelay(n))}

(* is_exhausted. *)
IsExhausted(n) == n >= settings.budget

(* The sum of the first n delays. *)
Window[n \in Nat] == IF n = 0 THEN 0 ELSE Window[n - 1] + BaseDelay(n)

(* Broken: one delay too many. *)
TotalRetryWindowInclusive == Window[settings.budget]

(* total_retry_window. *)
TotalRetryWindow == Window[settings.budget - 1]

(* It raises where a delay does, and GET /healthz with it. *)
WindowRaises == \E n \in 1..(settings.budget - 1) : ~PowerExists(n)

(* schedule_preview: the positions it shows. *)
Preview(limit) == 1..Smaller(limit, Greater(settings.budget - 1, 0))

PreviewRaises(limit) == \E n \in Preview(limit) : ~PowerExists(n)

----------------------------------------------------------------------------

(* An attempt fails and record_result moves the delivery on.  It asks for the
   delay in any case, also when the budget is spent. *)
RecordFailure ==
    /\ state # "failed"
    /\ PowerExists(made + 1)
    /\ made' = made + 1
    /\ IF IsExhausted(made + 1)
       THEN state' = "failed" /\ UNCHANGED <<delay, spent>>
       ELSE /\ state' = "pending"
            /\ delay' \in NextDelays(made + 1)
            /\ spent' = spent + delay'
    /\ UNCHANGED <<settings, lost>>

(* next_delay_seconds raises: nothing is recorded, the row stays in flight,
   and the next claim burns the next position. *)
RecordingRaises ==
    /\ state # "failed"
    /\ ~PowerExists(made + 1)
    /\ made < settings.budget + MaxLost
    /\ made' = made + 1
    /\ state' = "raised"
    /\ UNCHANGED <<settings, lost, delay, spent>>

(* An attempt whose result nobody records. *)
LoseAttempt ==
    /\ state # "failed"
    /\ lost < MaxLost
    /\ made < settings.budget + MaxLost
    /\ lost' = lost + 1 /\ made' = made + 1
    /\ UNCHANGED <<settings, state, delay, spent>>

Next == RecordFailure \/ RecordingRaises \/ LoseAttempt

Spec == Init /\ [][Next]_vars

----------------------------------------------------------------------------
(* What the schedule promises. *)

(* However long the series of failures, and whatever was lost in between,
   every delay next_delay_seconds draws lies between MIN_DELAY_SECONDS and
   the cap with its jitter. *)
DelayWithinBounds ==
    spent > 0 => /\ delay >= MinDelay
                 /\ delay <= Greater(MinDelay, (10 + settings.jitter) * settings.cap)

(* A delivery that is given up has outlasted the window the operators are
   shown: without lost attempts its delays add up to total_retry_window,
   give or take the jitter, so /healthz tells the truth about how long an
   outage is survived, and never raises where a whole budget was recorded. *)
WindowIsHonest ==
    state = "failed" /\ lost = 0 =>
        /\ made = settings.budget
        /\ ~WindowRaises
        /\ spent >= (10 - settings.jitter) * TotalRetryWindow
        /\ settings.base * (10 - settings.jitter) >= MinDelay
              /\ settings.cap * (10 - settings.jitter) >= MinDelay
           => spent <= (10 + settings.jitter) * TotalRetryWindow

(* The preview of /healthz, where it can be computed, is the beginning of the
   schedule: it starts at the base delay, never falls, and is the whole window
   if it is long enough. *)
PreviewIsSchedule ==
    ~PreviewRaises(12) =>
        /\ settings.budget > 1 => BaseDelay(1) = Smaller(settings.base, settings.cap)
        /\ \A n \in Preview(12) : n > 1 => BaseDelay(n) >= BaseDelay(n - 1)
        /\ settings.budget <= 13 =>
              ~WindowRaises /\ MapThenSumSet(BaseDelay, Preview(12)) = TotalRetryWindow

----------------------------------------------------------------------------
(* What the repository says of the program and the program does not do. *)

(* "Fail fast on settings that would quietly break delivery guarantees"
   (validate_invariants): with settings a process starts with, the failure of
   an attempt within the budget can be recorded. *)
FailureIsRecorded == state = "raised" => made > settings.budget
=============================================================================
