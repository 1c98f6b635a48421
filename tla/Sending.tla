------------------------------ MODULE Sending -------------------------------
(***************************************************************************)
(* Attempts on the wire: Sender.send (src/app/sender.py), with the         *)
(* timeouts of the HTTP client for each phase of a request and the         *)
(* deadline over all of them, against the stub recipient (Stub).           *)
(*                                                                         *)
(* Each delivery is attempted until it succeeds, one attempt at a time, as *)
(* the worker does while its results are recorded (DeliveryService).  A    *)
(* unit of model time passes for everyone at once, and no timer of the     *)
(* sender fires late.                                                      *)
(***************************************************************************)
EXTENDS Stub, Sequences

CONSTANTS
    MaxTries,       \* bound: attempts of a delivery
    ConnectTimeout, \* settings.connect_timeout_seconds
    WriteTimeout,   \* settings.write_timeout_seconds
    ReadTimeout,    \* settings.read_timeout_seconds
    Deadline        \* settings.attempt_deadline_seconds

(* The Field constraints, and the check of validate_invariants. *)
ASSUME SettingsAssumption ==
    /\ {ConnectTimeout, WriteTimeout, ReadTimeout, Deadline} \subseteq Nat \ {0}
    /\ ConnectTimeout + ReadTimeout <= Deadline
ASSUME TriesAssumption == Tries = 1..MaxTries
(* "Long enough to outlast any sane client timeout." *)
ASSUME SilentAssumption == ReadTimeout < SilentHold

VARIABLES
    attempt, \* the attempt of each delivery: number, phase (idle, connect, write, read),
             \* time in all and in the phase
    results  \* the results of its attempts so far

vars == <<behaviour, handled, received, handlers, answers, controls, setAt, numbered, history,
          attempt, results>>

NoCode == 0

Init == /\ StubInit
        /\ attempt = [d \in Keys |-> [n |-> 0, phase |-> "idle", total |-> 0, wait |-> 0]]
        /\ results = [d \in Keys |-> <<>>]

(* Broken: a redirect counts as delivered. *)
DeliversRedirect(code) == code \in 200..399

(* classify_status: the response counts as delivered. *)
Delivers(code) == code \in 200..299

Limit(phase) == CASE phase = "connect" -> ConnectTimeout
                  [] phase = "write" -> WriteTimeout
                  [] phase = "read" -> ReadTimeout

Enter(d, phase) == attempt' = [attempt EXCEPT ![d].phase = phase, ![d].wait = 0]

(* send returns; its connection is closed or goes back to the pool. *)
End(d, result) ==
    /\ attempt' = [attempt EXCEPT ![d].phase = "idle", ![d].total = 0, ![d].wait = 0]
    /\ results' = [results EXCEPT ![d] = Append(@, result)]

Failure(kind) == [ok |-> FALSE, code |-> NoCode, kind |-> kind]

----------------------------------------------------------------------------

(* The worker sends a delivery that is not delivered yet. *)
Post(d) ==
    /\ attempt[d].phase = "idle" /\ attempt[d].n < MaxTries
    /\ \A i \in DOMAIN results[d] : ~results[d][i].ok
    /\ attempt' = [attempt EXCEPT ![d] = [n |-> @.n + 1, phase |-> "connect", total |-> 0, wait |-> 0]]
    /\ UNCHANGED <<stubVars, results>>

Connect(d) ==
    /\ attempt[d].phase = "connect"
    /\ Enter(d, "write")
    /\ Arrive(d, attempt[d].n)
    /\ UNCHANGED <<behaviour, handled, received, answers, controls, setAt, numbered, history, results>>

Write(d) ==
    /\ attempt[d].phase = "write"
    /\ Enter(d, "read")
    /\ Upload(d, attempt[d].n)
    /\ UNCHANGED <<behaviour, handled, received, answers, controls, setAt, numbered, history, results>>

Answers(d) == {a \in answers : a.key = d /\ a.try = attempt[d].n}

(* A piece of a response that comes slowly: the read timeout of the client is
   for each piece. *)
Drip(d) ==
    /\ attempt[d].phase = "read" /\ attempt[d].wait > 0
    /\ Answers(d) # {}
    /\ Enter(d, "read")
    /\ UNCHANGED <<stubVars, results>>

(* The response is read to its end. *)
Read(d) ==
    /\ attempt[d].phase = "read"
    /\ \E a \in Answers(d) :
        End(d, [ok |-> Delivers(a.code), code |-> a.code, kind |-> "none"])
    /\ UNCHANGED stubVars

(* TransportError, or any other exception of the client. *)
Break(d) ==
    /\ attempt[d].phase # "idle"
    /\ End(d, Failure("connection"))
    /\ UNCHANGED stubVars

(* TimeoutException: a phase has lasted too long. *)
Expire(d) ==
    /\ attempt[d].phase # "idle"
    /\ attempt[d].wait >= Limit(attempt[d].phase)
    /\ End(d, Failure("timeout"))
    /\ UNCHANGED stubVars

(* Broken: only the timeouts of the phases end an attempt. *)
NeverOutOfTime(d) == FALSE

(* asyncio.timeout is due. *)
OutOfTime(d) == attempt[d].total >= Deadline

(* TimeoutError. *)
Abort(d) ==
    /\ attempt[d].phase # "idle"
    /\ OutOfTime(d)
    /\ End(d, Failure("deadline_exceeded"))
    /\ UNCHANGED stubVars

(* The stub reads the body, or notices that the client has gone before it was
   there. *)
HandleRequest ==
    \E h \in handlers :
        /\ h.got \/ attempt[h.key].n # h.try \/ attempt[h.key].phase # "write"
        /\ Handle(h)
        /\ UNCHANGED <<attempt, results>>

WakeRequest == \E h \in handlers : Wake(h) /\ UNCHANGED <<attempt, results>>

Control ==
    /\ (\E b \in Behaviours : SetBehaviour(b)) \/ ClearReceived \/ Restart
    /\ UNCHANGED <<attempt, results>>

Running(d) == attempt[d].phase # "idle"

(* Time passes, unless a timer is due: that timers do not fire late is assumed
   here and no result of the model.  The count stops past the deadline. *)
Elapse ==
    /\ \A d \in Keys : Running(d) => attempt[d].wait < Limit(attempt[d].phase) /\ ~OutOfTime(d)
    /\ attempt' = [d \in Keys |->
                    IF Running(d)
                    THEN [attempt[d] EXCEPT !.total = Smaller(@, Deadline) + 1, !.wait = @ + 1]
                    ELSE attempt[d]]
    /\ handlers' = Slept
    /\ UNCHANGED <<behaviour, handled, received, answers, controls, setAt, numbered, history, results>>

Next == \/ \E d \in Keys : \/ Post(d) \/ Connect(d) \/ Write(d) \/ Drip(d) \/ Read(d)
                           \/ Break(d) \/ Expire(d) \/ Abort(d)
        \/ HandleRequest \/ WakeRequest \/ Control \/ Elapse

Spec == Init /\ [][Next]_vars

(* Timers fire, and time passes: asyncio runs what is due, and nothing in send
   waits for anything else. *)
FairSpec == /\ Spec
            /\ WF_vars(Elapse)
            /\ \A d \in Keys : WF_vars(Expire(d)) /\ WF_vars(Abort(d))

----------------------------------------------------------------------------
(* Properties. *)

(* A delivery that counts as delivered was taken by the recipient, whole and
   by this very attempt: no error, no redirect, no held connection and no
   late answer to an attempt before it is mistaken for a success. *)
SuccessIsTaken ==
    \A d \in Keys : \A i \in DOMAIN results[d] :
        results[d][i].ok =>
            \E r \in history : r.key = d /\ r.try = i /\ r.body /\ r.with \in 200..299

(* A recipient that answered what the sender read has recorded that answer:
   only attempts that nobody answered leave it open whether the lead was
   taken.  So a lead is taken twice only after an attempt that ended without
   an answer. *)
TwiceOnlyUnanswered ==
    \A d \in Keys : \A r, s \in history :
        r.key = d /\ s.key = d /\ r.with = 200 /\ s.with = 200 /\ r.try < s.try
            => r.try \in DOMAIN results[d] /\ results[d][r.try].code = NoCode

(* "Fails 3 times, then works": however requests overlap, no more of them
   than fail_first fail under a behaviour until the counter is reset. *)
FailsAtMostFirst ==
    behaviour.first # NoLimit =>
        Cardinality({e \in numbered : e.under = setAt /\ e.bad}) <= behaviour.first

(* duplicate_deliveries of the summary tells whether a lead arrived twice: it
   counts repeats of accepted leads, not those answered with an error. *)
SummaryFindsDuplicates ==
    /\ Duplicates > 0 <=> \E r, s \in received : r.key = s.key /\ r.try # s.try
                                                 /\ r.with = 200 /\ s.with = 200
    /\ Duplicates <= RepeatsTotal

(* Every attempt ends and gives back its slot, whatever the recipient does:
   the timeouts of the phases do not see to it, as each piece of a response
   starts the read timeout again.  (How punctual the deadline is, is asyncio's
   to say: Elapse waits for every timer that is due.) *)
EveryAttemptEnds == \A d \in Keys : Running(d) ~> ~Running(d)

----------------------------------------------------------------------------
(* What the repository says of the program and the program does not do. *)

(* "fail_first counts from the moment it is set" (set_behaviour): the next
   requests fail until there were fail_first of them. *)
NextFail ==
    LET mine == {e \in numbered : e.under = setAt}
    IN  behaviour.first # NoLimit =>
            Cardinality({e \in mine : e.bad}) >= Smaller(Cardinality(mine), behaviour.first)

(* "The per-phase timeouts must fit inside the hard deadline, or the deadline
   would abort attempts that the HTTP client still considers healthy"
   (validate_invariants): when the deadline is due, so is a timeout of the
   client. *)
DeadlineIsLastResort ==
    \A d \in Keys : Running(d) /\ OutOfTime(d) => attempt[d].wait >= Limit(attempt[d].phase)
=============================================================================
