-------------------------------- MODULE Stub --------------------------------
(***************************************************************************)
(* One endpoint of the stub recipient (src/stub/main.py): requests that    *)
(* are handled at the same time on one event loop, and the controls that   *)
(* change the endpoint meanwhile.                                          *)
(*                                                                         *)
(* A request is the copy `try` of the lead `key`; the pair is sent at most *)
(* once, so the list of received records is kept as a set.                 *)
(***************************************************************************)
EXTENDS Integers, FiniteSets

CONSTANTS
    Keys,        \* Idempotency-Key
    Tries,       \* X-Intake-Attempt
    Behaviours,  \* what set_behaviour is called with
    NoLimit,     \* fail_first is None
    Silent,      \* responded_with "silent"
    SilentHold,  \* SILENT_HOLD_SECONDS, in model time
    MaxControls  \* bound: calls of the control endpoints

Modes == {"ok", "error", "silent", "slow"}

ASSUME BehavioursAssumption ==
    Behaviours \subseteq [mode : Modes, code : 100..599, delay : Nat, first : Nat \union {NoLimit}]
ASSUME StubAssumption ==
    {NoLimit, Silent} \intersect Nat = {} /\ SilentHold \in Nat \ {0} /\ MaxControls \in Nat

VARIABLES
    behaviour, \* of the endpoint
    handled,   \* requests since the counter was reset
    received,  \* the records, in no order: key, try, with what answered, body or None
    handlers,  \* the requests being handled, each at an await of receive: for its
               \* body, in the sleep of a slow answer, or held by a silent endpoint
    answers,   \* responses on their way
    controls,  \* ghost: control calls so far
    setAt,     \* ghost: the control call that set the behaviour
    numbered,  \* ghost: the requests numbered since the counter was reset
    history    \* ghost: every record ever made

stubVars == <<behaviour, handled, received, handlers, answers, controls, setAt, numbered, history>>

----------------------------------------------------------------------------

Smaller(a, b) == IF a < b THEN a ELSE b

DefaultBehaviour == [mode |-> "ok", code |-> 500, delay |-> 30, first |-> NoLimit]

StubInit == /\ behaviour = DefaultBehaviour
            /\ handled = 0
            /\ received = {} /\ handlers = {} /\ answers = {}
            /\ controls = 0 /\ setAt = 0 /\ numbered = {} /\ history = {}

(* Broken: the request after the last failing one fails too. *)
MisbehavesOnceMore(b, ordinal) == b.first = NoLimit \/ ordinal <= b.first + 1

(* misbehaving. *)
Misbehaves(b, ordinal) == b.first = NoLimit \/ ordinal <= b.first

ModeOf(b, ordinal) == IF Misbehaves(b, ordinal) THEN b.mode ELSE "ok"

(* Broken: record(200) comes with the answer to every mode. *)
ReceivesAsOk(k, t, code, body) ==
    LET r == [key |-> k, try |-> t, with |-> 200, body |-> body]
    IN  received' = received \union {r} /\ history' = history \union {r}

(* The inner function record. *)
Receives(k, t, code, body) ==
    LET r == [key |-> k, try |-> t, with |-> code, body |-> body]
    IN  received' = received \union {r} /\ history' = history \union {r}

Responds(h, code) == answers' = answers \union {[key |-> h.key, try |-> h.try, code |-> code]}

----------------------------------------------------------------------------

(* receive up to `await request.json()`: the headers are there, the behaviour
   is read. *)
Arrive(k, t) ==
    handlers' = handlers \union {[key |-> k, try |-> t, step |-> "body", got |-> FALSE,
                                  under |-> behaviour, since |-> setAt, left |-> 0]}

(* The body of a request is there. *)
Upload(k, t) ==
    handlers' = {IF h.key = k /\ h.try = t THEN [h EXCEPT !.got = TRUE] ELSE h : h \in handlers}

(* receive from there to the next await: the request is numbered, and
   answered unless its mode is to wait.  The body of a request whose client
   has gone is None. *)
Handle(h) ==
    LET mode == ModeOf(h.under, handled + 1)
        later(step, d) == handlers' = (handlers \ {h}) \union {[h EXCEPT !.step = step, !.left = d]}
    IN  /\ h.step = "body"
        /\ handled' = handled + 1
        /\ numbered' = numbered \union
                {[ordinal |-> handled + 1, under |-> h.since, bad |-> Misbehaves(h.under, handled + 1)]}
        /\ \/ /\ mode = "silent"
              /\ Receives(h.key, h.try, Silent, h.got)
              /\ later("hold", SilentHold)
              /\ UNCHANGED answers
           \/ /\ mode = "slow"
              /\ later("sleep", h.under.delay)
              /\ UNCHANGED <<received, history, answers>>
           \/ /\ mode \in {"error", "ok"}
              /\ LET code == IF mode = "ok" THEN 200 ELSE h.under.code
                 IN  Receives(h.key, h.try, code, h.got) /\ Responds(h, code)
              /\ handlers' = handlers \ {h}
        /\ UNCHANGED <<behaviour, controls, setAt>>

(* The sleep of a slow or silent request is over.  Only a slow one is recorded
   now; asyncio.sleep may return late. *)
Wake(h) ==
    /\ h.left = 0
    /\ handlers' = handlers \ {h}
    /\ \/ h.step = "sleep" /\ Receives(h.key, h.try, 200, h.got)
       \/ h.step = "hold" /\ UNCHANGED <<received, history>>
    /\ Responds(h, 200)
    /\ UNCHANGED <<behaviour, handled, controls, setAt, numbered>>

Slept == {IF h.left > 0 THEN [h EXCEPT !.left = @ - 1] ELSE h : h \in handlers}

(* set_behaviour. *)
SetBehaviour(b) ==
    /\ controls < MaxControls
    /\ controls' = controls + 1 /\ setAt' = controls + 1
    /\ behaviour' = b
    /\ handled' = 0 /\ numbered' = {}
    /\ UNCHANGED <<received, handlers, answers, history>>

(* clear_received. *)
ClearReceived ==
    /\ controls < MaxControls
    /\ controls' = controls + 1
    /\ received' = {}
    /\ handled' = 0 /\ numbered' = {}
    /\ UNCHANGED <<behaviour, handlers, answers, setAt, history>>

(* Restarting the stub. *)
Restart ==
    /\ controls < MaxControls
    /\ controls' = controls + 1 /\ setAt' = controls + 1
    /\ behaviour' = DefaultBehaviour
    /\ handled' = 0 /\ numbered' = {}
    /\ received' = {} /\ handlers' = {} /\ answers' = {}
    /\ UNCHANGED history

----------------------------------------------------------------------------
(* get_summary. *)

Accepted == {r \in received : r.with = 200}

KeysOf(rs) == {r.key : r \in rs}

(* Broken: a repeat that was answered with an error counts too. *)
DuplicatesOfAll == Cardinality(received) - Cardinality(KeysOf(received))

Duplicates == Cardinality(Accepted) - Cardinality(KeysOf(Accepted))

RepeatsTotal == Cardinality(received) - Cardinality(KeysOf(received))
=============================================================================
