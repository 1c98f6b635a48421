--------------------------- MODULE SendingProofs ----------------------------
(***************************************************************************)
(* Proofs about Sending, for any leads, any behaviours of the recipient,   *)
(* any timeouts that fit the deadline and any number of attempts.          *)
(***************************************************************************)
EXTENDS Sending, TLAPS, FiniteSetTheorems

Phases == {"idle", "connect", "write", "read"}

Codes == 100..599

BehaviourType == [mode : Modes, code : Codes, delay : Nat, first : Nat \union {NoLimit}]

HandlerType == [key : Keys, try : Nat, step : {"body", "sleep", "hold"}, got : BOOLEAN,
                under : BehaviourType, since : Nat, left : Nat]

RecordType == [key : Keys, try : Nat, with : Codes \union {Silent}, body : BOOLEAN]

ResultType == [ok : BOOLEAN, code : Codes \union {NoCode},
               kind : {"none", "connection", "timeout", "deadline_exceeded"}]

RecordsType == /\ history \subseteq RecordType
               /\ received \subseteq history /\ IsFiniteSet(received)

StubType == /\ behaviour \in BehaviourType
            /\ handled \in Nat /\ controls \in Nat /\ setAt \in Nat
            /\ handlers \subseteq HandlerType
            /\ answers \subseteq [key : Keys, try : Nat, code : Codes]
            /\ RecordsType

SenderType == /\ attempt \in [Keys -> [n : Nat, phase : Phases, total : Nat, wait : Nat]]
              /\ results \in [Keys -> Seq(ResultType)]

TypeInv == StubType /\ SenderType

(* No timer fires late, as Elapse assumes: an attempt is never past the limit
   of its phase. *)
TimeInv == \A d \in Keys : Running(d) => attempt[d].wait <= Limit(attempt[d].phase)

(* A request knows the behaviour that was set when it came, by its call; the
   numbers given out under the present behaviour are bad as it says. *)
CountInv ==
    /\ setAt <= controls
    /\ \A h \in handlers : h.since <= controls /\ (h.since = setAt => h.under = behaviour)
    /\ \A e \in numbered :
         /\ e \in [ordinal : 1..handled, under : Nat, bad : BOOLEAN]
         /\ e.under = setAt => e.bad = Misbehaves(behaviour, e.ordinal)

----------------------------------------------------------------------------
(* Attempt t of delivery d and its request. *)

Opened(d, t) == t \in 1..attempt[d].n /\ (t = attempt[d].n => attempt[d].phase # "connect")

Reading(d, t) == t = attempt[d].n /\ attempt[d].phase = "read"

(* All of the request is there, or its client is gone. *)
Complete(d, t) == Opened(d, t) /\ (t = attempt[d].n => attempt[d].phase # "write")

(* An attempt gives one result, and none follows a success. *)
ResultsInv ==
    \A d \in Keys :
        /\ Len(results[d]) = attempt[d].n - (IF Running(d) THEN 1 ELSE 0)
        /\ \A i \in DOMAIN results[d] : i < attempt[d].n => ~results[d][i].ok

(* A request is held by one handler.  As long as somebody waits for it, its
   handler has the body, and holds it for longer than anybody waits. *)
HandlerOK(h) ==
    /\ Opened(h.key, h.try)
    /\ Complete(h.key, h.try) \/ (h.step = "body" /\ ~h.got)
    /\ Reading(h.key, h.try) => h.got
    /\ Reading(h.key, h.try) /\ h.step = "hold" => h.left + attempt[h.key].wait >= SilentHold
    /\ \A g \in handlers : g.key = h.key /\ g.try = h.try => g = h

(* A handler that still has to record its request has not recorded it. *)
RecordOK(r) ==
    /\ Complete(r.key, r.try)
    /\ \A s \in history : s.key = r.key /\ s.try = r.try => s = r
    /\ \A h \in handlers : h.key = r.key /\ h.try = r.try => h.step = "hold"

Recorded(d, t, code) ==
    \E r \in history : r.key = d /\ r.try = t /\ r.body /\ r.with = code

(* The last thing that happens to a request; one that is still waited for was
   recorded with its body and this answer. *)
AnswerOK(a) ==
    /\ Complete(a.key, a.try)
    /\ \A h \in handlers : ~(h.key = a.key /\ h.try = a.try)
    /\ Reading(a.key, a.try) => Recorded(a.key, a.try, a.code)

(* What the sender has read was recorded, whole. *)
ResultOK(d, i) ==
    /\ results[d][i].ok = Delivers(results[d][i].code)
    /\ results[d][i].code # NoCode => Recorded(d, i, results[d][i].code)

WireInv == /\ ResultsInv
           /\ \A h \in handlers : HandlerOK(h)
           /\ \A r \in history : RecordOK(r)
           /\ \A a \in answers : AnswerOK(a)
           /\ \A d \in Keys : \A i \in DOMAIN results[d] : ResultOK(d, i)

----------------------------------------------------------------------------
(* Types and limits. *)

LEMMA Settings ==
  /\ \A phase \in Phases \ {"idle"} : Limit(phase) \in Nat \ {0}
  /\ Deadline \in Nat \ {0} /\ SilentHold \in Nat /\ ReadTimeout \in Nat
  /\ Silent \notin Nat /\ NoLimit \notin Nat
  BY SettingsAssumption, StubAssumption
     DEF SettingsAssumption, StubAssumption, Limit, Phases

(* The received records stay finitely many and a part of the history. *)
LEMMA ReceivesType ==
  ASSUME RecordsType, NEW h \in HandlerType, NEW code \in Codes \union {Silent},
         Receives(h.key, h.try, code, h.got)
  PROVE  RecordsType'
  <1> DEFINE r == [key |-> h.key, try |-> h.try, with |-> code, body |-> h.got]
  <1>1. r \in RecordType
    BY DEF RecordType, HandlerType
  <1>2. received' = received \union {r} /\ history' = history \union {r}
    BY DEF Receives
  <1>3. IsFiniteSet(received')
    BY <1>2, FS_AddElement DEF RecordsType
  <1> QED BY <1>1, <1>2, <1>3 DEF RecordsType

LEMMA TypeInit == Init => TypeInv
  <1> SUFFICES ASSUME Init PROVE TypeInv
    OBVIOUS
  <1> USE DEF Init, StubInit
  <1>1. behaviour \in BehaviourType
    BY DEF DefaultBehaviour, BehaviourType, Modes, Codes
  <1>2. IsFiniteSet(received)
    BY FS_EmptySet
  <1>3. StubType
    BY <1>1, <1>2 DEF StubType, RecordsType
  <1>4. SenderType
    BY DEF SenderType, Phases
  <1> QED BY <1>3, <1>4 DEF TypeInv

LEMMA StubUnchanged == StubType /\ UNCHANGED stubVars => StubType'
  BY DEF StubType, RecordsType, stubVars

LEMMA TypeEnd ==
  ASSUME SenderType, NEW d \in Keys, NEW result \in ResultType, End(d, result)
  PROVE  SenderType'
  <1>1. results' \in [Keys -> Seq(ResultType)]
    BY DEF SenderType, End
  <1>2. attempt' \in [Keys -> [n : Nat, phase : Phases, total : Nat, wait : Nat]]
    <2> DEFINE Attempt == [n : Nat, phase : Phases, total : Nat, wait : Nat]
               ended == [attempt[d] EXCEPT !.phase = "idle", !.total = 0, !.wait = 0]
    <2>1. attempt \in [Keys -> Attempt]
      BY DEF SenderType
    <2>2. ended \in Attempt
      BY <2>1 DEF Phases
    <2>3. attempt' = [attempt EXCEPT ![d] = ended]
      BY DEF End
    <2> HIDE DEF Attempt, ended
    <2>4. attempt' \in [Keys -> Attempt]
      BY <2>1, <2>2, <2>3
    <2> QED BY <2>4 DEF Attempt
  <1> QED BY <1>1, <1>2 DEF SenderType

LEMMA FailureType ==
  ASSUME NEW kind \in {"connection", "timeout", "deadline_exceeded"}
  PROVE  Failure(kind) \in ResultType
  BY DEF Failure, ResultType

LEMMA TypeHandle ==
  ASSUME StubType, NEW h \in handlers, Handle(h)
  PROVE  StubType'
  <1> DEFINE mode == ModeOf(h.under, handled + 1)
             code == IF mode = "ok" THEN 200 ELSE h.under.code
  <1>1. h \in HandlerType
    BY DEF StubType
  <1>2. behaviour' \in BehaviourType /\ handled' \in Nat /\ controls' \in Nat /\ setAt' \in Nat
    BY DEF Handle, StubType
  <1>3. code \in Codes /\ h.under.delay \in Nat /\ SilentHold \in Nat
    BY <1>1, Settings DEF HandlerType, BehaviourType, Codes
  <1>4. CASE /\ Receives(h.key, h.try, Silent, h.got)
             /\ handlers' = (handlers \ {h}) \union {[h EXCEPT !.step = "hold", !.left = SilentHold]}
             /\ UNCHANGED answers
    <2>1. [h EXCEPT !.step = "hold", !.left = SilentHold] \in HandlerType
      BY <1>1, <1>3 DEF HandlerType
    <2>2. handlers' \subseteq HandlerType
      BY <1>4, <2>1 DEF StubType
    <2>3. RecordsType'
      BY <1>1, <1>4, ReceivesType DEF StubType
    <2> QED BY <1>2, <1>4, <2>2, <2>3 DEF StubType
  <1>5. CASE /\ handlers' = (handlers \ {h}) \union {[h EXCEPT !.step = "sleep", !.left = h.under.delay]}
             /\ UNCHANGED <<received, history, answers>>
    <2>1. [h EXCEPT !.step = "sleep", !.left = h.under.delay] \in HandlerType
      BY <1>1, <1>3 DEF HandlerType
    <2>2. handlers' \subseteq HandlerType
      BY <1>5, <2>1 DEF StubType
    <2> QED BY <1>2, <1>5, <2>2 DEF StubType, RecordsType
  <1>6. CASE /\ Receives(h.key, h.try, code, h.got) /\ Responds(h, code)
             /\ handlers' = handlers \ {h}
    <2>1. answers' \subseteq [key : Keys, try : Nat, code : Codes]
      BY <1>1, <1>3, <1>6 DEF StubType, Responds, HandlerType
    <2>2. RecordsType'
      BY <1>1, <1>3, <1>6, ReceivesType DEF StubType
    <2> QED BY <1>2, <1>6, <2>1, <2>2 DEF StubType
  <1> QED BY <1>4, <1>5, <1>6 DEF Handle

LEMMA TypeWake ==
  ASSUME StubType, NEW h \in handlers, Wake(h)
  PROVE  StubType'
  <1>1. h \in HandlerType
    BY DEF StubType
  <1>2. 200 \in Codes
    BY DEF Codes
  <1>3. answers' \subseteq [key : Keys, try : Nat, code : Codes]
    BY <1>1, <1>2 DEF Wake, Responds, StubType, HandlerType
  <1>4. RecordsType'
    <2>1. CASE Receives(h.key, h.try, 200, h.got)
      BY <1>1, <1>2, <2>1, ReceivesType DEF StubType
    <2>2. CASE UNCHANGED <<received, history>>
      BY <2>2 DEF StubType, RecordsType
    <2> QED BY <2>1, <2>2 DEF Wake
  <1>5. handlers' \subseteq HandlerType
    BY DEF Wake, StubType
  <1> QED BY <1>3, <1>4, <1>5 DEF Wake, StubType

LEMMA TypeControl ==
  ASSUME StubType, Control
  PROVE  StubType'
  <1>1. Behaviours \subseteq BehaviourType
    BY BehavioursAssumption DEF BehavioursAssumption, BehaviourType, Codes
  <1>2. DefaultBehaviour \in BehaviourType
    BY DEF DefaultBehaviour, BehaviourType, Modes, Codes
  <1>3. RecordsType'
    BY FS_EmptySet DEF Control, SetBehaviour, ClearReceived, Restart, StubType, RecordsType
  <1>4. /\ handled' \in Nat /\ controls' \in Nat /\ setAt' \in Nat
        /\ handlers' \subseteq handlers /\ answers' \subseteq answers
    BY DEF Control, SetBehaviour, ClearReceived, Restart, StubType
  <1>5. behaviour' \in BehaviourType
    BY <1>1, <1>2 DEF Control, SetBehaviour, ClearReceived, Restart, StubType
  <1> QED BY <1>3, <1>4, <1>5 DEF StubType

LEMMA TypeNext == TypeInv /\ [Next]_vars => TypeInv'
  <1> SUFFICES ASSUME StubType, SenderType, [Next]_vars PROVE StubType' /\ SenderType'
    BY DEF TypeInv
  <1>1. ASSUME NEW d \in Keys, Post(d) PROVE StubType' /\ SenderType'
    BY <1>1, StubUnchanged DEF Post, SenderType, Phases
  <1>2. ASSUME NEW d \in Keys, Connect(d) PROVE StubType' /\ SenderType'
    <2>1. SenderType'
      BY <1>2 DEF Connect, Enter, SenderType, Phases
    <2>2. [key |-> d, try |-> attempt[d].n, step |-> "body", got |-> FALSE,
           under |-> behaviour, since |-> setAt, left |-> 0] \in HandlerType
      BY DEF StubType, SenderType, HandlerType
    <2>3. handlers' \subseteq HandlerType
      BY <1>2, <2>2 DEF Connect, Arrive, StubType
    <2> QED BY <1>2, <2>1, <2>3 DEF Connect, StubType, RecordsType
  <1>3. ASSUME NEW d \in Keys, Write(d) PROVE StubType' /\ SenderType'
    <2>1. SenderType'
      BY <1>3 DEF Write, Enter, SenderType, Phases
    <2>2. \A h \in handlers : [h EXCEPT !.got = TRUE] \in HandlerType
      BY DEF StubType, HandlerType
    <2>3. handlers' \subseteq HandlerType
      BY <1>3, <2>2 DEF Write, Upload, StubType
    <2> QED BY <1>3, <2>1, <2>3 DEF Write, StubType, RecordsType
  <1>4. ASSUME NEW d \in Keys, Drip(d) PROVE StubType' /\ SenderType'
    BY <1>4, StubUnchanged DEF Drip, Enter, SenderType, Phases
  <1>5. ASSUME NEW d \in Keys, Read(d) PROVE StubType' /\ SenderType'
    <2>1. PICK a \in Answers(d) :
            End(d, [ok |-> Delivers(a.code), code |-> a.code, kind |-> "none"])
      BY <1>5 DEF Read
    <2>2. [ok |-> Delivers(a.code), code |-> a.code, kind |-> "none"] \in ResultType
      BY DEF Answers, StubType, ResultType, Delivers
    <2> QED BY <1>5, <2>1, <2>2, StubUnchanged, TypeEnd DEF Read
  <1>6. ASSUME NEW d \in Keys, Break(d) PROVE StubType' /\ SenderType'
    BY <1>6, StubUnchanged, TypeEnd, FailureType DEF Break
  <1>7. ASSUME NEW d \in Keys, Expire(d) PROVE StubType' /\ SenderType'
    BY <1>7, StubUnchanged, TypeEnd, FailureType DEF Expire
  <1>8. ASSUME NEW d \in Keys, Abort(d) PROVE StubType' /\ SenderType'
    BY <1>8, StubUnchanged, TypeEnd, FailureType DEF Abort
  <1>9. CASE HandleRequest
    BY <1>9, TypeHandle DEF HandleRequest, SenderType
  <1>10. CASE WakeRequest
    BY <1>10, TypeWake DEF WakeRequest, SenderType
  <1>11. CASE Control
    BY <1>11, TypeControl DEF Control, SenderType
  <1>12. CASE Elapse
    <2>1. \A h \in handlers : h.left > 0 => [h EXCEPT !.left = @ - 1] \in HandlerType
      BY DEF StubType, HandlerType
    <2>2. handlers' \subseteq HandlerType
      BY <1>12, <2>1 DEF Elapse, Slept, StubType
    <2>3. \A d \in Keys : [attempt[d] EXCEPT !.total = Smaller(@, Deadline) + 1, !.wait = @ + 1]
                            \in [n : Nat, phase : Phases, total : Nat, wait : Nat]
      <3>1. \A d \in Keys : /\ attempt[d] \in [n : Nat, phase : Phases, total : Nat, wait : Nat]
                            /\ Smaller(attempt[d].total, Deadline) + 1 \in Nat
                            /\ attempt[d].wait + 1 \in Nat
        BY Settings DEF SenderType, Smaller
      <3> QED BY <3>1
    <2>4. SenderType'
      BY <1>12, <2>3 DEF Elapse, SenderType
    <2> QED BY <1>12, <2>2, <2>4 DEF Elapse, StubType, RecordsType
  <1>13. CASE UNCHANGED vars
    BY <1>13, StubUnchanged DEF vars, stubVars, SenderType
  <1> QED BY <1>1, <1>2, <1>3, <1>4, <1>5, <1>6, <1>7, <1>8, <1>9, <1>10, <1>11, <1>12, <1>13
          DEF Next

LEMMA TypesHold == Spec => []TypeInv
  BY TypeInit, TypeNext, PTL DEF Spec

----------------------------------------------------------------------------
(* Time. *)

LEMMA TimeInit == Init => TimeInv
  BY Settings DEF Init, TimeInv, Running

(* A sender that starts, goes on or ends does so with its clock at zero or as it was. *)
LEMMA TimeStep ==
  ASSUME TimeInv, SenderType, SenderType',
         \A d \in Keys : attempt'[d] = attempt[d] \/ attempt'[d].wait = 0
  PROVE  TimeInv'
  <1> SUFFICES ASSUME NEW d \in Keys, Running(d)'
               PROVE  attempt'[d].wait <= Limit(attempt'[d].phase)
    BY DEF TimeInv
  <1>1. CASE attempt'[d] = attempt[d]
    BY <1>1 DEF TimeInv, Running
  <1>2. CASE attempt'[d].wait = 0
    <2>1. attempt'[d].phase \in Phases
      BY DEF SenderType
    <2>2. Limit(attempt'[d].phase) \in Nat
      BY <2>1, Settings DEF Running
    <2> QED BY <1>2, <2>2
  <1> QED BY <1>1, <1>2

LEMMA TimeElapse == TimeInv /\ SenderType /\ Elapse => TimeInv'
  <1> SUFFICES ASSUME TimeInv, SenderType, Elapse, NEW d \in Keys, Running(d)'
               PROVE  attempt'[d].wait <= Limit(attempt'[d].phase)
    BY DEF TimeInv
  <1>1. CASE ~Running(d)
    BY <1>1 DEF Elapse, Running
  <1>2. CASE Running(d)
    <2>1. attempt[d].wait < Limit(attempt[d].phase) /\ Limit(attempt[d].phase) \in Nat
      <3>1. attempt[d].phase \in Phases \ {"idle"}
        BY <1>2 DEF SenderType, Running
      <3> QED BY <1>2, <3>1, Settings DEF Elapse
    <2>2. attempt'[d].wait = attempt[d].wait + 1 /\ attempt'[d].phase = attempt[d].phase
      BY <1>2 DEF Elapse, SenderType
    <2> QED BY <2>1, <2>2 DEF SenderType
  <1> QED BY <1>1, <1>2

LEMMA TimeNext == TypeInv /\ TypeInv' /\ TimeInv /\ [Next]_vars => TimeInv'
  <1> SUFFICES ASSUME SenderType, SenderType', TimeInv, [Next]_vars PROVE TimeInv'
    BY DEF TypeInv
  <1>1. CASE Elapse
    BY <1>1, TimeElapse
  <1>2. ASSUME NEW d \in Keys, Post(d) PROVE TimeInv'
    BY <1>2, TimeStep DEF SenderType, Post
  <1>3. ASSUME NEW d \in Keys, NEW phase, Enter(d, phase) PROVE TimeInv'
    BY <1>3, TimeStep DEF SenderType, Enter
  <1>4. ASSUME NEW d \in Keys, NEW result, End(d, result) PROVE TimeInv'
    BY <1>4, TimeStep DEF SenderType, End
  <1>5. CASE HandleRequest \/ WakeRequest \/ Control \/ UNCHANGED vars
    BY <1>5, TimeStep DEF HandleRequest, WakeRequest, Control, vars
  <1> QED BY <1>1, <1>2, <1>3, <1>4, <1>5
          DEF Next, Connect, Write, Drip, Read, Break, Expire, Abort

LEMMA TimeHolds == Spec => []TimeInv
  BY TimeInit, TimeNext, TypesHold, PTL DEF Spec

----------------------------------------------------------------------------
(* The counter of fail_first. *)

LEMMA CountInit == Init => CountInv
  BY DEF Init, StubInit, CountInv

LEMMA CountHandle ==
  ASSUME StubType, CountInv, NEW h \in handlers, Handle(h)
  PROVE  CountInv'
  <1> DEFINE new == [ordinal |-> handled + 1, under |-> h.since,
                     bad |-> Misbehaves(h.under, handled + 1)]
  <1>1. UNCHANGED <<behaviour, controls, setAt>> /\ handled' = handled + 1
    BY DEF Handle
  <1>2. numbered' = numbered \union {new}
    BY DEF Handle
  <1>3. h \in HandlerType
    BY DEF StubType
  <1>4. \A g \in handlers' : \E k \in handlers : g.since = k.since /\ g.under = k.under
    <2>1. \A step, left : /\ [h EXCEPT !.step = step, !.left = left].since = h.since
                          /\ [h EXCEPT !.step = step, !.left = left].under = h.under
      BY <1>3 DEF HandlerType
    <2>2. \A g \in handlers' : g \in handlers \/ \E step, left : g = [h EXCEPT !.step = step, !.left = left]
      BY DEF Handle
    <2> SUFFICES ASSUME NEW g \in handlers', g \notin handlers
                 PROVE  g.since = h.since /\ g.under = h.under
      OBVIOUS
    <2>3. PICK step, left : g = [h EXCEPT !.step = step, !.left = left]
      BY <2>2
    <2> QED BY <2>1, <2>3
  <1>5. new \in [ordinal : 1..handled', under : Nat, bad : BOOLEAN]
    BY <1>1, <1>3 DEF StubType, HandlerType, Misbehaves
  <1>6. new.under = setAt' => new.bad = Misbehaves(behaviour', new.ordinal)
    BY <1>1 DEF CountInv
  <1>7. \A e \in numbered : e \in [ordinal : 1..handled', under : Nat, bad : BOOLEAN]
    BY <1>1 DEF CountInv, StubType
  <1>8. \A e \in numbered : e.under = setAt' => e.bad = Misbehaves(behaviour', e.ordinal)
    BY <1>1 DEF CountInv
  <1> QED BY <1>1, <1>2, <1>4, <1>5, <1>6, <1>7, <1>8 DEF CountInv

LEMMA CountNext == TypeInv /\ CountInv /\ [Next]_vars => CountInv'
  <1> SUFFICES ASSUME StubType, SenderType, CountInv, [Next]_vars PROVE CountInv'
    BY DEF TypeInv
  <1>1. ASSUME UNCHANGED <<behaviour, handled, controls, setAt, numbered>>,
               \A g \in handlers' : \/ g.since = setAt /\ g.under = behaviour
                                    \/ \E h \in handlers : g.since = h.since /\ g.under = h.under
        PROVE  CountInv'
    BY <1>1 DEF CountInv, StubType, Misbehaves
  <1>2. ASSUME NEW d \in Keys,
               Post(d) \/ Drip(d) \/ Read(d) \/ Break(d) \/ Expire(d) \/ Abort(d)
        PROVE  CountInv'
    BY <1>1, <1>2 DEF Post, Drip, Read, Break, Expire, Abort, stubVars
  <1>3. ASSUME NEW d \in Keys, Connect(d) PROVE CountInv'
    BY <1>1, <1>3 DEF Connect, Arrive
  <1>4. ASSUME NEW d \in Keys, Write(d) PROVE CountInv'
    <2>1. \A h \in handlers : /\ [h EXCEPT !.got = TRUE].since = h.since
                              /\ [h EXCEPT !.got = TRUE].under = h.under
      BY DEF StubType, HandlerType
    <2> QED BY <1>1, <1>4, <2>1 DEF Write, Upload
  <1>5. CASE HandleRequest
    BY <1>5, CountHandle DEF HandleRequest
  <1>6. CASE WakeRequest
    BY <1>1, <1>6 DEF WakeRequest, Wake
  <1>7. CASE Control
    <2>1. CASE ClearReceived
      BY <2>1 DEF ClearReceived, CountInv, StubType, HandlerType
    <2>2. ASSUME setAt' = controls + 1, controls' = controls + 1,
                 numbered' = {}, handlers' \subseteq handlers
          PROVE  CountInv'
      BY <2>2 DEF CountInv, StubType, HandlerType
    <2>3. CASE Restart
      BY <2>2, <2>3 DEF Restart
    <2>4. ASSUME NEW b \in Behaviours, SetBehaviour(b) PROVE CountInv'
      BY <2>2, <2>4 DEF SetBehaviour
    <2> QED BY <1>7, <2>1, <2>3, <2>4 DEF Control
  <1>8. CASE Elapse
    <2>1. \A h \in handlers : /\ [h EXCEPT !.left = @ - 1].since = h.since
                              /\ [h EXCEPT !.left = @ - 1].under = h.under
      BY DEF StubType, HandlerType
    <2> QED BY <1>1, <1>8, <2>1 DEF Elapse, Slept
  <1>9. CASE UNCHANGED vars
    BY <1>1, <1>9 DEF vars
  <1> QED BY <1>2, <1>3, <1>4, <1>5, <1>6, <1>7, <1>8, <1>9 DEF Next

LEMMA CountHolds == Spec => []CountInv
  BY CountInit, CountNext, TypesHold, PTL DEF Spec

(* However requests overlap with each other and with the controls, the stub
   fails no more than it was told to. *)
THEOREM FailFirstIsExact == Spec => []FailsAtMostFirst
  <1>1. TypeInv /\ CountInv => FailsAtMostFirst
    <2> SUFFICES ASSUME StubType, CountInv, behaviour.first # NoLimit
                 PROVE  Cardinality({e \in numbered : e.under = setAt /\ e.bad}) <= behaviour.first
      BY DEF TypeInv, FailsAtMostFirst
    <2> DEFINE bad == {e \in numbered : e.under = setAt /\ e.bad}
               ordinals == 1..behaviour.first
               f == [e \in bad |-> e.ordinal]
    <2>1. behaviour.first \in Nat
      BY DEF StubType, BehaviourType
    <2>2. IsFiniteSet(ordinals) /\ Cardinality(ordinals) = behaviour.first
      <3> DEFINE b == behaviour.first
      <3>1. 1 \in Int /\ b \in Int /\ b \in Nat
        BY <2>1
      <3> HIDE DEF b
      <3>2. IsFiniteSet(1..b) /\ Cardinality(1..b) = IF 1 > b THEN 0 ELSE b - 1 + 1
        BY <3>1, FS_Interval
      <3>3. Cardinality(1..b) = b
        BY <3>1, <3>2
      <3> QED BY <3>2, <3>3 DEF b
    <2>3. \A e \in bad : e = [ordinal |-> e.ordinal, under |-> setAt, bad |-> TRUE]
      BY DEF CountInv
    <2>4. \A e \in bad : e.ordinal \in ordinals
      BY <2>1 DEF CountInv, Misbehaves, StubType
    <2>5. f \in Injection(bad, ordinals)
      <3>1. f \in [bad -> ordinals]
        BY <2>4
      <3>2. \A e, g \in bad : f[e] = f[g] => e = g
        BY <2>3
      <3> QED BY <3>1, <3>2 DEF Injection, IsInjective
    <2> QED BY <2>1, <2>2, <2>5, FS_Injection
  <1> QED BY <1>1, TypesHold, CountHolds, PTL

----------------------------------------------------------------------------
(* What requests, records, answers and results know of each other. *)

LEMMA WireInit == Init => WireInv
  BY DEF Init, StubInit, WireInv, ResultsInv, Running

LEMMA WireKeys ==
  ASSUME StubType
  PROVE  /\ \A h \in handlers : h.key \in Keys /\ h.try \in Nat /\ h.left \in Nat
         /\ \A r \in history : r.key \in Keys /\ r.try \in Nat
         /\ \A a \in answers : a.key \in Keys /\ a.try \in Nat
  BY DEF StubType, RecordsType, HandlerType, RecordType

(* A sender goes on to its next attempt, or stays in its phase or ends. *)
Onward(d) == \/ attempt'[d].n > attempt[d].n /\ attempt'[d].phase = "connect"
             \/ attempt'[d].n = attempt[d].n /\ attempt'[d].phase \in {attempt[d].phase, "idle"}

(* Then requests that are complete stay so, and nobody begins to wait. *)
LEMMA StaysComplete ==
  ASSUME SenderType, SenderType', NEW d \in Keys, NEW t \in Nat, Onward(d)
  PROVE  /\ Opened(d, t) => Opened(d, t)'
         /\ Complete(d, t) => Complete(d, t)'
         /\ Reading(d, t)' => Reading(d, t)
  BY DEF SenderType, Onward, Opened, Complete, Reading, Phases

(* A step of a sender that the recipient does not see: who waits does so longer. *)
LEMMA WireSender ==
  ASSUME StubType, SenderType, SenderType', WireInv, UNCHANGED stubVars,
         ResultsInv',
         \A d \in Keys : \A i \in DOMAIN results'[d] : ResultOK(d, i)',
         \A d \in Keys : Onward(d),
         \A h \in handlers : Reading(h.key, h.try)' => attempt'[h.key].wait >= attempt[h.key].wait
  PROVE  WireInv'
  <1> USE WireKeys
  <1>1. UNCHANGED <<handlers, history, answers>>
    BY DEF stubVars
  <1>2. ASSUME NEW h \in handlers PROVE HandlerOK(h)'
    <2>1. HandlerOK(h)
      BY DEF WireInv
    <2>2. attempt[h.key].wait \in Nat /\ attempt'[h.key].wait \in Nat /\ SilentHold \in Nat
      BY Settings DEF SenderType
    <2>3. /\ Opened(h.key, h.try)'
          /\ Complete(h.key, h.try) => Complete(h.key, h.try)'
          /\ Reading(h.key, h.try)' => Reading(h.key, h.try)
      BY <2>1, WireKeys, StaysComplete DEF HandlerOK
    <2>4. Reading(h.key, h.try)' /\ h.step = "hold" => h.left + attempt'[h.key].wait >= SilentHold
      BY <2>1, <2>2, <2>3 DEF HandlerOK
    <2> QED BY <1>1, <2>1, <2>3, <2>4 DEF HandlerOK
  <1>3. ASSUME NEW r \in history PROVE RecordOK(r)'
    <2>1. RecordOK(r)
      BY DEF WireInv
    <2>2. Complete(r.key, r.try)'
      BY <2>1, WireKeys, StaysComplete DEF RecordOK
    <2> QED BY <1>1, <2>1, <2>2 DEF RecordOK
  <1>4. ASSUME NEW a \in answers PROVE AnswerOK(a)'
    <2>1. AnswerOK(a)
      BY DEF WireInv
    <2>2. Complete(a.key, a.try)' /\ (Reading(a.key, a.try)' => Reading(a.key, a.try))
      BY <2>1, WireKeys, StaysComplete DEF AnswerOK
    <2>3. Recorded(a.key, a.try, a.code) => Recorded(a.key, a.try, a.code)'
      BY <1>1 DEF Recorded
    <2> QED BY <1>1, <2>1, <2>2, <2>3 DEF AnswerOK
  <1> QED BY <1>1, <1>2, <1>3, <1>4 DEF WireInv

LEMMA WirePost ==
  ASSUME StubType, SenderType, SenderType', WireInv, NEW d \in Keys, Post(d)
  PROVE  WireInv'
  <1>1. UNCHANGED <<stubVars, results>>
    BY DEF Post
  <1>2. ResultsInv'
    BY DEF Post, WireInv, ResultsInv, Running, SenderType
  <1>3. \A k \in Keys : \A i \in DOMAIN results'[k] : ResultOK(k, i)'
    BY <1>1 DEF WireInv, ResultOK, Recorded, stubVars
  <1>4. \A k \in Keys : Onward(k)
    BY DEF Post, Onward, SenderType
  <1>5. \A h \in handlers : Reading(h.key, h.try)' => attempt'[h.key].wait >= attempt[h.key].wait
    BY WireKeys DEF Post, Reading, SenderType
  <1> QED BY <1>1, <1>2, <1>3, <1>4, <1>5, WireSender

LEMMA WireDrip ==
  ASSUME StubType, SenderType, SenderType', WireInv, NEW d \in Keys, Drip(d)
  PROVE  WireInv'
  <1>1. UNCHANGED <<stubVars, results>>
    BY DEF Drip
  <1>2. ResultsInv'
    BY DEF Drip, Enter, WireInv, ResultsInv, Running, SenderType
  <1>3. \A k \in Keys : \A i \in DOMAIN results'[k] : ResultOK(k, i)'
    BY <1>1 DEF WireInv, ResultOK, Recorded, stubVars
  <1>4. \A k \in Keys : Onward(k)
    BY DEF Drip, Enter, Onward, SenderType
  <1>5. ASSUME NEW h \in handlers, Reading(h.key, h.try)'
        PROVE  attempt'[h.key].wait >= attempt[h.key].wait
    <2>1. CASE h.key = d
      <3>1. PICK a \in answers : a.key = d /\ a.try = attempt[d].n
        BY DEF Drip, Answers
      <3>2. h.try = attempt[d].n
        BY <1>5, <2>1 DEF Drip, Enter, Reading, SenderType
      <3> QED BY <2>1, <3>1, <3>2 DEF WireInv, AnswerOK
    <2>2. CASE h.key # d
      BY <2>2, WireKeys DEF Drip, Enter, SenderType
    <2> QED BY <2>1, <2>2
  <1> QED BY <1>1, <1>2, <1>3, <1>4, <1>5, WireSender

(* The end of an attempt, with a result of which the recipient knows. *)
LEMMA WireEnd ==
  ASSUME StubType, SenderType, SenderType', WireInv, NEW d \in Keys, Running(d),
         NEW result \in ResultType, End(d, result), UNCHANGED stubVars,
         result.ok = Delivers(result.code),
         result.code # NoCode => Recorded(d, attempt[d].n, result.code)
  PROVE  WireInv'
  <1> DEFINE n == attempt[d].n
  <1>1. n \in Nat /\ results[d] \in Seq(ResultType) /\ Len(results[d]) = n - 1
    BY DEF SenderType, WireInv, ResultsInv
  <1>2. /\ DOMAIN results'[d] = 1..n /\ Len(results'[d]) = n
        /\ results'[d][n] = result
        /\ \A i \in 1..(n - 1) : i \in DOMAIN results[d] /\ results'[d][i] = results[d][i]
    BY <1>1 DEF End, SenderType
  <1>3. /\ attempt'[d].n = n /\ attempt'[d].phase = "idle"
        /\ \A k \in Keys \ {d} : attempt'[k] = attempt[k] /\ results'[k] = results[k]
    BY DEF End, SenderType
  <1>4. ResultsInv'
    <2>1. /\ Len(results'[d]) = attempt'[d].n - 0
          /\ \A i \in DOMAIN results'[d] : i < attempt'[d].n => ~results'[d][i].ok
      <3>1. \A i \in DOMAIN results[d] : i < n => ~results[d][i].ok
        BY DEF WireInv, ResultsInv
      <3>2. \A i \in 1..n : i < n => i \in 1..(n - 1)
        BY <1>1
      <3>3. ASSUME NEW i \in 1..n, i < n PROVE ~results'[d][i].ok
        <4>1. i \in 1..(n - 1) /\ i \in DOMAIN results[d]
          BY <1>2, <3>2, <3>3
        <4>2. results'[d][i] = results[d][i]
          BY <1>2, <4>1
        <4> QED BY <3>1, <3>3, <4>1, <4>2
      <3>4. Len(results'[d]) = attempt'[d].n - 0
        BY <1>1, <1>2, <1>3
      <3> QED BY <1>2, <1>3, <3>3, <3>4
    <2>2. ~Running(d)'
      BY <1>3 DEF Running
    <2>3. \A k \in Keys \ {d} :
            /\ Len(results'[k]) = attempt'[k].n - (IF Running(k)' THEN 1 ELSE 0)
            /\ \A i \in DOMAIN results'[k] : i < attempt'[k].n => ~results'[k][i].ok
      BY <1>3 DEF WireInv, ResultsInv, Running
    <2> QED BY <2>1, <2>2, <2>3 DEF ResultsInv
  <1>5. ASSUME NEW k \in Keys, NEW i \in DOMAIN results'[k] PROVE ResultOK(k, i)'
    <2>1. CASE k = d /\ i = n
      BY <1>2, <2>1 DEF ResultOK, Recorded, stubVars
    <2>2. CASE k # d \/ i # n
      <3>1. i \in DOMAIN results[k] /\ results'[k][i] = results[k][i]
        <4>1. CASE k = d
          <5>1. i \in 1..(n - 1)
            BY <1>1, <1>2, <2>2, <4>1
          <5> QED BY <1>2, <4>1, <5>1
        <4>2. CASE k # d
          BY <1>3, <4>2
        <4> QED BY <4>1, <4>2
      <3>2. ResultOK(k, i)
        BY <3>1 DEF WireInv
      <3> QED BY <3>1, <3>2 DEF ResultOK, Recorded, stubVars
    <2> QED BY <2>1, <2>2
  <1>6. \A k \in Keys : Onward(k)
    BY <1>3 DEF Onward
  <1>7. ASSUME NEW h \in handlers, Reading(h.key, h.try)'
        PROVE  attempt'[h.key].wait >= attempt[h.key].wait
    <2>1. h.key \in Keys \ {d}
      BY <1>3, <1>7, WireKeys DEF Reading
    <2> QED BY <1>3, <2>1 DEF SenderType
  <1> QED BY <1>4, <1>5, <1>6, <1>7, WireSender

(* The headers of the request get there: a new handler, which nothing that
   was done before is about. *)
LEMMA WireConnect ==
  ASSUME StubType, SenderType, SenderType', WireInv, NEW d \in Keys, Connect(d)
  PROVE  WireInv'
  <1> USE WireKeys
  <1> DEFINE n == attempt[d].n
             new == [key |-> d, try |-> n, step |-> "body", got |-> FALSE,
                     under |-> behaviour, since |-> setAt, left |-> 0]
  <1>1. /\ UNCHANGED <<answers, history, results>> /\ handlers' = handlers \union {new}
        /\ attempt[d].phase = "connect" /\ attempt'[d].phase = "write" /\ attempt'[d].n = n
        /\ \A k \in Keys \ {d} : attempt'[k] = attempt[k]
        /\ n \in Nat
    BY DEF Connect, Arrive, Enter, SenderType
  <1>2. ResultsInv'
    BY <1>1 DEF WireInv, ResultsInv, Running
  <1>3. n >= 1
    <2>1. Len(results[d]) = n - 1 /\ results[d] \in Seq(ResultType)
      BY <1>1 DEF WireInv, ResultsInv, Running, SenderType
    <2> QED BY <1>1, <2>1
  <1>4. ASSUME NEW k \in Keys, NEW t \in Nat, Opened(k, t)
        PROVE  /\ ~(k = d /\ t = n) /\ Opened(k, t)'
               /\ Complete(k, t) => Complete(k, t)'
               /\ Reading(k, t)' => Reading(k, t) /\ attempt'[k] = attempt[k]
    BY <1>1, <1>4 DEF Opened, Complete, Reading, SenderType
  <1>5. ASSUME NEW h \in handlers PROVE HandlerOK(h)'
    <2>1. HandlerOK(h)
      BY DEF WireInv
    <2>2. /\ ~(h.key = d /\ h.try = n) /\ Opened(h.key, h.try)'
          /\ Complete(h.key, h.try) => Complete(h.key, h.try)'
          /\ Reading(h.key, h.try)' => Reading(h.key, h.try) /\ attempt'[h.key] = attempt[h.key]
      BY <1>4, <2>1 DEF HandlerOK
    <2> QED BY <1>1, <2>1, <2>2 DEF HandlerOK
  <1>6. ASSUME NEW h, h = new PROVE HandlerOK(h)'
    <2>1. h.key = d /\ h.try = n /\ h.step = "body" /\ ~h.got
      BY <1>6
    <2>2. Opened(h.key, h.try)' /\ ~Reading(h.key, h.try)'
      BY <1>1, <1>3, <2>1 DEF Opened, Reading
    <2>3. \A g \in handlers : ~(g.key = d /\ g.try = n)
      BY <1>4 DEF WireInv, HandlerOK
    <2> QED BY <1>1, <1>6, <2>1, <2>2, <2>3 DEF HandlerOK
  <1>7. ASSUME NEW r \in history PROVE RecordOK(r)'
    <2>1. RecordOK(r)
      BY DEF WireInv
    <2>2. ~(r.key = d /\ r.try = n) /\ Complete(r.key, r.try)'
      BY <1>4, <2>1 DEF RecordOK, Complete
    <2> QED BY <1>1, <2>1, <2>2 DEF RecordOK
  <1>8. ASSUME NEW a \in answers PROVE AnswerOK(a)'
    <2>1. AnswerOK(a)
      BY DEF WireInv
    <2>2. /\ ~(a.key = d /\ a.try = n) /\ Complete(a.key, a.try)'
          /\ Reading(a.key, a.try)' => Reading(a.key, a.try)
      BY <1>4, <2>1 DEF AnswerOK, Complete
    <2> QED BY <1>1, <2>1, <2>2 DEF AnswerOK, Recorded
  <1>9. \A k \in Keys : \A i \in DOMAIN results'[k] : ResultOK(k, i)'
    BY <1>1 DEF WireInv, ResultOK, Recorded
  <1>10. \A h \in handlers' : HandlerOK(h)'
    BY <1>1, <1>5, <1>6
  <1> QED BY <1>1, <1>2, <1>7, <1>8, <1>9, <1>10 DEF WireInv

(* The body gets there too: from now on the sender waits for an answer. *)
LEMMA WireWrite ==
  ASSUME StubType, SenderType, SenderType', WireInv, NEW d \in Keys, Write(d)
  PROVE  WireInv'
  <1> USE WireKeys
  <1> DEFINE n == attempt[d].n
             Up(h) == IF h.key = d /\ h.try = n THEN [h EXCEPT !.got = TRUE] ELSE h
  <1>1. /\ UNCHANGED <<answers, history, results>> /\ handlers' = {Up(h) : h \in handlers}
        /\ attempt[d].phase = "write" /\ attempt'[d].phase = "read" /\ attempt'[d].n = n
        /\ \A k \in Keys \ {d} : attempt'[k] = attempt[k]
        /\ n \in Nat
    BY DEF Write, Upload, Enter, SenderType
  <1>2. ResultsInv'
    BY <1>1 DEF WireInv, ResultsInv, Running
  <1>3. ASSUME NEW k \in Keys, NEW t \in Nat, Opened(k, t)
        PROVE  /\ Opened(k, t)'
               /\ Complete(k, t) => ~(k = d /\ t = n)
               /\ Complete(k, t) \/ (k = d /\ t = n) => Complete(k, t)'
               /\ Reading(k, t)' /\ ~(k = d /\ t = n) =>
                    Reading(k, t) /\ attempt'[k] = attempt[k]
    <2>1. CASE k = d
      BY <1>1, <1>3, <2>1 DEF Opened, Complete, Reading
    <2>2. CASE k # d
      <3>1. attempt'[k] = attempt[k] /\ attempt[k].n \in Nat
        BY <1>1, <2>2 DEF SenderType
      <3> QED BY <1>3, <2>2, <3>1 DEF Opened, Complete, Reading
    <2> QED BY <2>1, <2>2
  <1>4. \A h \in handlers : /\ Up(h).key = h.key /\ Up(h).try = h.try /\ Up(h).step = h.step
                            /\ Up(h).left = h.left /\ (h.got => Up(h).got)
                            /\ h.key = d /\ h.try = n => Up(h).got
    BY DEF StubType, HandlerType
  <1>5. ASSUME NEW h \in handlers' PROVE HandlerOK(h)'
    <2>1. PICK g \in handlers : h = Up(g)
      BY <1>1
    <2>2. HandlerOK(g)
      BY DEF WireInv
    <2>3. /\ h.key = g.key /\ h.try = g.try /\ h.step = g.step /\ h.left = g.left
          /\ (g.got => h.got) /\ (g.key = d /\ g.try = n => h.got)
          /\ ~(g.key = d /\ g.try = n) => h.got = g.got
      BY <1>4, <2>1
    <2>4. /\ Opened(h.key, h.try)'
          /\ Complete(h.key, h.try)' \/ (h.step = "body" /\ ~h.got)
      BY <1>3, <2>2, <2>3 DEF HandlerOK
    <2>5. Reading(h.key, h.try)' => h.got
      BY <1>3, <2>2, <2>3 DEF HandlerOK
    <2>6. g.key = d /\ g.try = n => g.step = "body"
      BY <1>3, <2>2 DEF HandlerOK
    <2>7. Reading(h.key, h.try)' /\ h.step = "hold" => h.left + attempt'[h.key].wait >= SilentHold
      BY <1>3, <2>2, <2>3, <2>6 DEF HandlerOK
    <2>8. ASSUME NEW k \in handlers', k.key = h.key, k.try = h.try PROVE k = h
      <3>1. PICK m \in handlers : k = Up(m)
        BY <1>1
      <3>2. m = g
        BY <1>4, <2>2, <2>3, <2>8, <3>1 DEF HandlerOK
      <3> QED BY <2>1, <3>1, <3>2
    <2> QED BY <2>4, <2>5, <2>7, <2>8 DEF HandlerOK
  <1>6. ASSUME NEW r \in history PROVE RecordOK(r)'
    <2>1. RecordOK(r)
      BY DEF WireInv
    <2>2. Complete(r.key, r.try)'
      BY <1>3, <2>1 DEF RecordOK, Complete
    <2>3. \A h \in handlers' : h.key = r.key /\ h.try = r.try => h.step = "hold"
      <3> HIDE DEF Up
      <3> QED BY <1>1, <1>4, <2>1 DEF RecordOK
    <2> QED BY <1>1, <2>1, <2>2, <2>3 DEF RecordOK
  <1>7. ASSUME NEW a \in answers PROVE AnswerOK(a)'
    <2>1. AnswerOK(a)
      BY DEF WireInv
    <2>2. Complete(a.key, a.try)' /\ (Reading(a.key, a.try)' => Reading(a.key, a.try))
      BY <1>3, <2>1 DEF AnswerOK, Complete
    <2>3. \A h \in handlers' : ~(h.key = a.key /\ h.try = a.try)
      <3> HIDE DEF Up
      <3> QED BY <1>1, <1>4, <2>1 DEF AnswerOK
    <2> QED BY <1>1, <2>1, <2>2, <2>3 DEF AnswerOK, Recorded
  <1>8. \A k \in Keys : \A i \in DOMAIN results'[k] : ResultOK(k, i)'
    BY <1>1 DEF WireInv, ResultOK, Recorded
  <1> QED BY <1>1, <1>2, <1>5, <1>6, <1>7, <1>8 DEF WireInv

(* Time: what a handler still waits shrinks no faster than its sender's wait grows. *)
LEMMA WireElapse ==
  ASSUME StubType, SenderType, SenderType', WireInv, Elapse
  PROVE  WireInv'
  <1> USE WireKeys
  <1> DEFINE After(h) == IF h.left > 0 THEN [h EXCEPT !.left = @ - 1] ELSE h
  <1>1. UNCHANGED <<answers, history, results>> /\ handlers' = {After(h) : h \in handlers}
    BY DEF Elapse, Slept
  <1>2. \A d \in Keys : /\ attempt'[d].n = attempt[d].n /\ attempt'[d].phase = attempt[d].phase
                        /\ attempt'[d].phase # "idle" => attempt'[d].wait = attempt[d].wait + 1
    BY DEF Elapse, Running, SenderType
  <1>3. ResultsInv'
    BY <1>1, <1>2 DEF WireInv, ResultsInv, Running
  <1>4. ASSUME NEW k \in Keys, NEW t \in Nat
        PROVE  /\ Opened(k, t) => Opened(k, t)'
               /\ Complete(k, t) => Complete(k, t)'
               /\ Reading(k, t)' => Reading(k, t) /\ attempt'[k].wait = attempt[k].wait + 1
    BY <1>2 DEF Opened, Complete, Reading
  <1>5. \A h \in handlers : /\ After(h).key = h.key /\ After(h).try = h.try /\ After(h).got = h.got
                            /\ After(h).step = h.step /\ After(h).left + 1 >= h.left
                            /\ After(h).left \in Nat
    BY DEF StubType, HandlerType
  <1> HIDE DEF After
  <1>6. ASSUME NEW h \in handlers' PROVE HandlerOK(h)'
    <2>1. PICK g \in handlers : h = After(g)
      BY <1>1
    <2>2. HandlerOK(g)
      BY DEF WireInv
    <2>3. /\ h.key = g.key /\ h.try = g.try /\ h.step = g.step /\ h.got = g.got
          /\ h.left + 1 >= g.left /\ h.left \in Nat
      BY <1>5, <2>1
    <2>4. /\ Opened(h.key, h.try)'
          /\ Complete(h.key, h.try)' \/ (h.step = "body" /\ ~h.got)
          /\ Reading(h.key, h.try)' => h.got
      BY <1>4, <2>2, <2>3 DEF HandlerOK
    <2>5. Reading(h.key, h.try)' /\ h.step = "hold" => h.left + attempt'[h.key].wait >= SilentHold
      <3>1. SilentHold \in Nat /\ attempt[h.key].wait \in Nat
        BY Settings, <2>3 DEF SenderType
      <3>2. Reading(h.key, h.try)' => Reading(g.key, g.try) /\ attempt'[h.key].wait = attempt[h.key].wait + 1
        BY <1>4, <2>3
      <3>3. Reading(g.key, g.try) /\ g.step = "hold" => g.left + attempt[g.key].wait >= SilentHold
        BY <2>2 DEF HandlerOK
      <3> QED BY <2>3, <3>1, <3>2, <3>3
    <2>6. ASSUME NEW k \in handlers', k.key = h.key, k.try = h.try PROVE k = h
      <3>1. PICK m \in handlers : k = After(m)
        BY <1>1
      <3>2. m = g
        BY <1>5, <2>2, <2>3, <2>6, <3>1 DEF HandlerOK
      <3> QED BY <2>1, <3>1, <3>2
    <2> QED BY <2>4, <2>5, <2>6 DEF HandlerOK
  <1>7. ASSUME NEW r \in history PROVE RecordOK(r)'
    <2>1. RecordOK(r)
      BY DEF WireInv
    <2>2. Complete(r.key, r.try)'
      BY <1>4, <2>1 DEF RecordOK
    <2>3. \A h \in handlers' : h.key = r.key /\ h.try = r.try => h.step = "hold"
      BY <1>1, <1>5, <2>1 DEF RecordOK
    <2> QED BY <1>1, <2>1, <2>2, <2>3 DEF RecordOK
  <1>8. ASSUME NEW a \in answers PROVE AnswerOK(a)'
    <2>1. AnswerOK(a)
      BY DEF WireInv
    <2>2. Complete(a.key, a.try)' /\ (Reading(a.key, a.try)' => Reading(a.key, a.try))
      BY <1>4, <2>1 DEF AnswerOK
    <2>3. \A h \in handlers' : ~(h.key = a.key /\ h.try = a.try)
      BY <1>1, <1>5, <2>1 DEF AnswerOK
    <2> QED BY <1>1, <2>1, <2>2, <2>3 DEF AnswerOK, Recorded
  <1>9. \A k \in Keys : \A i \in DOMAIN results'[k] : ResultOK(k, i)'
    BY <1>1 DEF WireInv, ResultOK, Recorded
  <1> QED BY <1>1, <1>3, <1>6, <1>7, <1>8, <1>9 DEF WireInv

(* What the recipient does leaves the senders as they are. *)
LEMMA Undisturbed ==
  ASSUME UNCHANGED <<attempt, results>>, history \subseteq history', WireInv
  PROVE  /\ ResultsInv'
         /\ \A d \in Keys : \A i \in DOMAIN results'[d] : ResultOK(d, i)'
  BY DEF WireInv, ResultsInv, Running, ResultOK, Recorded

LEMMA SameAttempts ==
  ASSUME UNCHANGED attempt, NEW d, NEW t
  PROVE  /\ Opened(d, t)' <=> Opened(d, t)
         /\ Complete(d, t)' <=> Complete(d, t)
         /\ Reading(d, t)' <=> Reading(d, t)
  BY DEF Opened, Complete, Reading

(* The controls drop handlers and answers at most. *)
LEMMA WireControl ==
  ASSUME WireInv, UNCHANGED <<attempt, results, history>>,
         handlers' \subseteq handlers, answers' \subseteq answers
  PROVE  WireInv'
  <1>1. ASSUME NEW h \in handlers' PROVE HandlerOK(h)'
    <2>1. HandlerOK(h)
      BY DEF WireInv
    <2> QED BY <2>1, SameAttempts DEF HandlerOK
  <1>2. ASSUME NEW r \in history' PROVE RecordOK(r)'
    <2>1. RecordOK(r)
      BY DEF WireInv
    <2> QED BY <2>1, SameAttempts DEF RecordOK
  <1>3. ASSUME NEW a \in answers' PROVE AnswerOK(a)'
    <2>1. AnswerOK(a)
      BY DEF WireInv
    <2> QED BY <2>1, SameAttempts DEF AnswerOK, Recorded
  <1> QED BY <1>1, <1>2, <1>3, Undisturbed DEF WireInv

(* A request is recorded once: its handler is done, or holds it from now on. *)
LEMMA NewRecord ==
  ASSUME WireInv, UNCHANGED attempt, NEW h \in handlers, h.step # "hold", Complete(h.key, h.try),
         NEW r, r.key = h.key, r.try = h.try, history' = history \union {r},
         \A g \in handlers' : \/ g \in handlers \ {h}
                              \/ g.key = h.key /\ g.try = h.try /\ g.step = "hold"
  PROVE  \A s \in history' : RecordOK(s)'
  <1> SUFFICES ASSUME NEW s \in history' PROVE RecordOK(s)'
    OBVIOUS
  <1>1. \A q \in history : ~(q.key = h.key /\ q.try = h.try)
    BY DEF WireInv, RecordOK
  <1>2. \A g \in handlers : g.key = h.key /\ g.try = h.try => g = h
    BY DEF WireInv, HandlerOK
  <1>3. Complete(s.key, s.try)
    BY DEF WireInv, RecordOK
  <1>4. \A q \in history' : q.key = s.key /\ q.try = s.try => q = s
    BY <1>1 DEF WireInv, RecordOK
  <1>5. \A g \in handlers' : g.key = s.key /\ g.try = s.try => g.step = "hold"
    <2>1. CASE s = r
      BY <1>2, <2>1
    <2>2. CASE s \in history
      <3>1. RecordOK(s)
        BY <2>2 DEF WireInv
      <3> QED BY <3>1 DEF RecordOK
    <2> QED BY <2>1, <2>2
  <1> QED BY <1>3, <1>4, <1>5, SameAttempts DEF RecordOK

(* A handler goes on to sleep, or records its request and holds it. *)
LEMMA WireWaits ==
  ASSUME StubType, SenderType, WireInv, UNCHANGED <<attempt, results, answers>>,
         NEW h \in handlers, h.step = "body", Complete(h.key, h.try),
         NEW next, next.key = h.key, next.try = h.try, next.got = h.got,
         handlers' = (handlers \ {h}) \union {next},
         \/ next.step = "sleep" /\ history' = history
         \/ /\ next.step = "hold" /\ next.left = SilentHold
            /\ \E r : r.key = h.key /\ r.try = h.try /\ history' = history \union {r}
  PROVE  WireInv'
  <1>1. HandlerOK(h)
    BY DEF WireInv
  <1>2. ASSUME NEW g \in handlers' PROVE HandlerOK(g)'
    <2>1. CASE g = next
      <3>1. /\ Opened(g.key, g.try)' /\ Complete(g.key, g.try)'
            /\ Reading(g.key, g.try)' => Reading(h.key, h.try)
        BY <1>1, <2>1, SameAttempts DEF HandlerOK
      <3>2. Reading(h.key, h.try) => h.got
        BY <1>1 DEF HandlerOK
      <3>3. \A k \in handlers' : k.key = g.key /\ k.try = g.try => k = g
        BY <1>1, <2>1 DEF HandlerOK
      <3>4. g.step = "hold" => g.left + attempt'[g.key].wait >= SilentHold
        BY <2>1, Settings, WireKeys DEF SenderType
      <3> QED BY <2>1, <3>1, <3>2, <3>3, <3>4 DEF HandlerOK
    <2>2. CASE g \in handlers \ {h}
      <3>1. HandlerOK(g)
        BY <2>2 DEF WireInv
      <3>2. ~(g.key = h.key /\ g.try = h.try)
        BY <1>1, <2>2 DEF HandlerOK
      <3> QED BY <3>1, <3>2, SameAttempts DEF HandlerOK
    <2> QED BY <2>1, <2>2
  <1>3. \A r \in history' : RecordOK(r)'
    <2>1. CASE history' = history
      <3> SUFFICES ASSUME NEW r \in history PROVE RecordOK(r)'
        BY <2>1
      <3>1. RecordOK(r)
        BY DEF WireInv
      <3>2. ~(r.key = h.key /\ r.try = h.try)
        BY <3>1 DEF RecordOK
      <3> QED BY <2>1, <3>1, <3>2, SameAttempts DEF RecordOK
    <2>2. CASE /\ next.step = "hold"
               /\ \E r : r.key = h.key /\ r.try = h.try /\ history' = history \union {r}
      <3>1. PICK r : r.key = h.key /\ r.try = h.try /\ history' = history \union {r}
        BY <2>2
      <3>2. \A g \in handlers' : \/ g \in handlers \ {h}
                                 \/ g.key = h.key /\ g.try = h.try /\ g.step = "hold"
        BY <2>2
      <3>3. h.step # "hold"
        OBVIOUS
      <3> QED BY <3>1, <3>2, <3>3, NewRecord
    <2> QED BY <2>1, <2>2
  <1>4. ASSUME NEW a \in answers' PROVE AnswerOK(a)'
    <2>1. AnswerOK(a)
      BY DEF WireInv
    <2>2. \A g \in handlers' : ~(g.key = a.key /\ g.try = a.try)
      BY <2>1 DEF AnswerOK
    <2>3. Recorded(a.key, a.try, a.code) => Recorded(a.key, a.try, a.code)'
      BY DEF Recorded
    <2> QED BY <2>1, <2>2, <2>3, SameAttempts DEF AnswerOK
  <1>5. history \subseteq history'
    OBVIOUS
  <1> QED BY <1>2, <1>3, <1>4, <1>5, Undisturbed DEF WireInv

(* A handler answers: it records its request now, or nobody waits for it. *)
LEMMA WireAnswers ==
  ASSUME StubType, SenderType, WireInv, UNCHANGED <<attempt, results>>,
         NEW h \in handlers, Complete(h.key, h.try), NEW code, Responds(h, code),
         handlers' = handlers \ {h},
         \/ h.step # "hold" /\ Receives(h.key, h.try, code, h.got)
         \/ ~Reading(h.key, h.try) /\ history' = history
  PROVE  WireInv'
  <1>1. HandlerOK(h)
    BY DEF WireInv
  <1>2. ASSUME NEW g \in handlers' PROVE HandlerOK(g)'
    <2>1. HandlerOK(g)
      BY DEF WireInv
    <2> QED BY <2>1, SameAttempts DEF HandlerOK
  <1>3. \A r \in history' : RecordOK(r)'
    <2>1. CASE history' = history
      <3> SUFFICES ASSUME NEW r \in history PROVE RecordOK(r)'
        BY <2>1
      <3>1. RecordOK(r)
        BY DEF WireInv
      <3> QED BY <2>1, <3>1, SameAttempts DEF RecordOK
    <2>2. CASE h.step # "hold" /\ Receives(h.key, h.try, code, h.got)
      <3>1. PICK r : r = [key |-> h.key, try |-> h.try, with |-> code, body |-> h.got]
        OBVIOUS
      <3>2. r.key = h.key /\ r.try = h.try /\ history' = history \union {r}
        BY <2>2, <3>1 DEF Receives
      <3>3. \A g \in handlers' : \/ g \in handlers \ {h}
                                 \/ g.key = h.key /\ g.try = h.try /\ g.step = "hold"
        OBVIOUS
      <3> QED BY <2>2, <3>2, <3>3, NewRecord
    <2> QED BY <2>1, <2>2
  <1>4. history \subseteq history'
    BY DEF Receives
  <1>5. ASSUME NEW a \in answers' PROVE AnswerOK(a)'
    <2>1. \A d, t, c : Recorded(d, t, c) => Recorded(d, t, c)'
      BY <1>4 DEF Recorded
    <2>2. CASE a \in answers
      <3>1. AnswerOK(a)
        BY <2>2 DEF WireInv
      <3> QED BY <2>1, <3>1, SameAttempts DEF AnswerOK
    <2>3. CASE a = [key |-> h.key, try |-> h.try, code |-> code]
      <3>1. a.key = h.key /\ a.try = h.try /\ a.code = code
        BY <2>3
      <3>2. \A g \in handlers' : ~(g.key = a.key /\ g.try = a.try)
        BY <1>1, <3>1 DEF HandlerOK
      <3>3. Reading(h.key, h.try) => Recorded(a.key, a.try, a.code)'
        <4> SUFFICES ASSUME Reading(h.key, h.try) PROVE Recorded(a.key, a.try, a.code)'
          OBVIOUS
        <4>1. h.got
          BY <1>1 DEF HandlerOK
        <4>2. [key |-> h.key, try |-> h.try, with |-> code, body |-> h.got] \in history'
          BY DEF Receives
        <4> QED BY <3>1, <4>1, <4>2 DEF Recorded
      <3>4. Complete(a.key, a.try)' /\ (Reading(a.key, a.try)' => Reading(h.key, h.try))
        BY <3>1, SameAttempts
      <3> QED BY <3>2, <3>3, <3>4 DEF AnswerOK
    <2> QED BY <2>2, <2>3 DEF Responds
  <1> QED BY <1>2, <1>3, <1>4, <1>5, Undisturbed DEF WireInv

LEMMA WireHandle ==
  ASSUME StubType, SenderType, WireInv, NEW h \in handlers, Handle(h),
         h.got \/ attempt[h.key].n # h.try \/ attempt[h.key].phase # "write",
         UNCHANGED <<attempt, results>>
  PROVE  WireInv'
  <1>1. PICK code : code = IF ModeOf(h.under, handled + 1) = "ok" THEN 200 ELSE h.under.code
    OBVIOUS
  <1>2. h.step = "body" /\ h \in HandlerType
    BY DEF Handle, StubType
  <1>3. Complete(h.key, h.try)
    <2>1. HandlerOK(h)
      BY DEF WireInv
    <2> QED BY <2>1 DEF HandlerOK, Complete
  <1>4. CASE /\ Receives(h.key, h.try, Silent, h.got)
             /\ handlers' = (handlers \ {h}) \union {[h EXCEPT !.step = "hold", !.left = SilentHold]}
             /\ UNCHANGED answers
    <2>1. PICK next : next = [h EXCEPT !.step = "hold", !.left = SilentHold]
      OBVIOUS
    <2>2. /\ next.key = h.key /\ next.try = h.try /\ next.got = h.got
          /\ next.step = "hold" /\ next.left = SilentHold
      BY <1>2, <2>1 DEF HandlerType
    <2>3. \E r : r.key = h.key /\ r.try = h.try /\ history' = history \union {r}
      <3>1. PICK r : r = [key |-> h.key, try |-> h.try, with |-> Silent, body |-> h.got]
        OBVIOUS
      <3>2. r.key = h.key /\ r.try = h.try /\ history' = history \union {r}
        BY <1>4, <3>1 DEF Receives
      <3> QED BY <3>2
    <2> QED BY <1>2, <1>3, <1>4, <2>1, <2>2, <2>3, WireWaits
  <1>5. CASE /\ handlers' = (handlers \ {h}) \union {[h EXCEPT !.step = "sleep", !.left = h.under.delay]}
             /\ UNCHANGED <<received, history, answers>>
    <2>1. PICK next : next = [h EXCEPT !.step = "sleep", !.left = h.under.delay]
      OBVIOUS
    <2>2. next.key = h.key /\ next.try = h.try /\ next.got = h.got /\ next.step = "sleep"
      BY <1>2, <2>1 DEF HandlerType
    <2> QED BY <1>2, <1>3, <1>5, <2>1, <2>2, WireWaits
  <1>6. CASE /\ Receives(h.key, h.try, code, h.got) /\ Responds(h, code)
             /\ handlers' = handlers \ {h}
    BY <1>2, <1>3, <1>6, WireAnswers
  <1> QED BY <1>1, <1>4, <1>5, <1>6 DEF Handle

(* Nobody waits any longer for the answer of a silent recipient. *)
LEMMA WireWake ==
  ASSUME StubType, SenderType, TimeInv, WireInv, NEW h \in handlers, Wake(h),
         UNCHANGED <<attempt, results>>
  PROVE  WireInv'
  <1>1. HandlerOK(h) /\ h.step # "body"
    BY DEF WireInv, Wake
  <1>2. Complete(h.key, h.try)
    BY <1>1 DEF HandlerOK
  <1>3. CASE h.step = "sleep" /\ Receives(h.key, h.try, 200, h.got)
    BY <1>2, <1>3, WireAnswers DEF Wake
  <1>4. CASE h.step = "hold" /\ UNCHANGED <<received, history>>
    <2>1. ~Reading(h.key, h.try)
      <3> SUFFICES ASSUME Reading(h.key, h.try) PROVE FALSE
        OBVIOUS
      <3>1. h.left + attempt[h.key].wait >= SilentHold /\ h.left = 0
        BY <1>1, <1>4 DEF HandlerOK, Wake
      <3>2. h.key \in Keys /\ attempt[h.key].wait \in Nat
        BY WireKeys DEF SenderType
      <3>3. attempt[h.key].wait <= ReadTimeout
        BY <3>2 DEF TimeInv, Reading, Running, Limit
      <3> QED BY <3>1, <3>2, <3>3, Settings, SilentAssumption DEF SilentAssumption
    <2> QED BY <1>2, <1>4, <2>1, WireAnswers DEF Wake
  <1> QED BY <1>3, <1>4 DEF Wake

LEMMA WireNext == TypeInv /\ TypeInv' /\ TimeInv /\ WireInv /\ [Next]_vars => WireInv'
  <1> SUFFICES ASSUME StubType, SenderType, SenderType', TimeInv, WireInv, [Next]_vars
               PROVE  WireInv'
    BY DEF TypeInv
  <1>1. ASSUME NEW d \in Keys, Post(d) PROVE WireInv'
    BY <1>1, WirePost
  <1>2. ASSUME NEW d \in Keys, Connect(d) PROVE WireInv'
    BY <1>2, WireConnect
  <1>3. ASSUME NEW d \in Keys, Write(d) PROVE WireInv'
    BY <1>3, WireWrite
  <1>4. ASSUME NEW d \in Keys, Drip(d) PROVE WireInv'
    BY <1>4, WireDrip
  <1>5. ASSUME NEW d \in Keys, Read(d) PROVE WireInv'
    <2>1. PICK a \in Answers(d) :
            End(d, [ok |-> Delivers(a.code), code |-> a.code, kind |-> "none"])
      BY <1>5 DEF Read
    <2>2. PICK result : result = [ok |-> Delivers(a.code), code |-> a.code, kind |-> "none"]
      OBVIOUS
    <2>3. a.code \in Codes /\ a \in answers /\ a.key = d /\ a.try = attempt[d].n
      BY DEF Answers, StubType
    <2>4. /\ result \in ResultType /\ result.ok = Delivers(result.code)
          /\ result.code = a.code
      BY <2>2, <2>3 DEF ResultType, Delivers
    <2>5. Running(d) /\ UNCHANGED stubVars /\ Reading(a.key, a.try)
      BY <1>5, <2>3 DEF Read, Running, Reading
    <2>6. Recorded(d, attempt[d].n, result.code)
      BY <2>3, <2>4, <2>5 DEF WireInv, AnswerOK
    <2> QED BY <2>1, <2>2, <2>4, <2>5, <2>6, WireEnd
  <1>6. ASSUME NEW d \in Keys, NEW kind \in {"connection", "timeout", "deadline_exceeded"},
               Running(d), End(d, Failure(kind)), UNCHANGED stubVars
        PROVE  WireInv'
    <2>1. Failure(kind).code = 0 /\ Failure(kind).ok = FALSE
      BY DEF Failure, NoCode
    <2>2. Delivers(Failure(kind).code) = FALSE /\ Failure(kind).code = NoCode
      BY <2>1 DEF Delivers, NoCode
    <2>3. Failure(kind) \in ResultType
      BY <1>6, FailureType
    <2> QED BY <1>6, <2>1, <2>2, <2>3, WireEnd
  <1>7. ASSUME NEW d \in Keys, Break(d) \/ Expire(d) \/ Abort(d) PROVE WireInv'
    BY <1>6, <1>7 DEF Break, Expire, Abort, Running
  <1>8. CASE HandleRequest
    BY <1>8, WireHandle DEF HandleRequest
  <1>9. CASE WakeRequest
    BY <1>9, WireWake DEF WakeRequest
  <1>10. CASE Control
    BY <1>10, WireControl DEF Control, SetBehaviour, ClearReceived, Restart
  <1>11. CASE Elapse
    BY <1>11, WireElapse
  <1>12. CASE UNCHANGED vars
    BY <1>12, WireControl DEF vars
  <1> QED BY <1>1, <1>2, <1>3, <1>4, <1>5, <1>7, <1>8, <1>9, <1>10, <1>11, <1>12 DEF Next

LEMMA WireHolds == Spec => []WireInv
  BY WireInit, WireNext, TypesHold, TimeHolds, PTL DEF Spec

----------------------------------------------------------------------------
(* The results. *)

(* What counts as delivered was read from an answer, which was recorded with
   the whole request: whatever was restarted, held or answered late. *)
THEOREM SuccessIsHonest == Spec => []SuccessIsTaken
  <1>1. TypeInv /\ WireInv => SuccessIsTaken
    <2> SUFFICES ASSUME StubType, WireInv, NEW d \in Keys, NEW i \in DOMAIN results[d],
                        results[d][i].ok
                 PROVE  \E r \in history : r.key = d /\ r.try = i /\ r.body /\ r.with \in 200..299
      BY DEF TypeInv, SuccessIsTaken
    <2>1. results[d][i].code \in 200..299 /\ Recorded(d, i, results[d][i].code)
      <3>1. ResultOK(d, i)
        BY DEF WireInv
      <3>2. Delivers(results[d][i].code)
        BY <3>1 DEF ResultOK
      <3> QED BY <3>1, <3>2 DEF ResultOK, Delivers, NoCode
    <2> QED BY <2>1 DEF Recorded
  <1> QED BY <1>1, TypesHold, WireHolds, PTL

(* A lead is sent again only after an attempt without an answer or with one
   that says it was not taken. *)
THEOREM RepeatsAreExcused == Spec => []TwiceOnlyUnanswered
  <1>1. TypeInv /\ WireInv => TwiceOnlyUnanswered
    <2> SUFFICES ASSUME StubType, SenderType, WireInv, NEW d \in Keys,
                        NEW r \in history, NEW s \in history, r.key = d, s.key = d,
                        r.with = 200, s.with = 200, r.try < s.try
                 PROVE  r.try \in DOMAIN results[d] /\ results[d][r.try].code = NoCode
      BY DEF TypeInv, TwiceOnlyUnanswered
    <2>1. /\ r.try \in 1..attempt[d].n /\ s.try \in 1..attempt[d].n
          /\ attempt[d].n \in Nat
      BY DEF WireInv, RecordOK, Complete, Opened, SenderType
    <2>2. DOMAIN results[d] = 1..Len(results[d]) /\ Len(results[d]) >= attempt[d].n - 1
      <3>1. results[d] \in Seq(ResultType)
        BY DEF SenderType
      <3>2. Len(results[d]) = attempt[d].n - (IF Running(d) THEN 1 ELSE 0)
        BY DEF WireInv, ResultsInv
      <3> QED BY <2>1, <3>1, <3>2
    <2>3. r.try \in DOMAIN results[d] /\ r.try < attempt[d].n
      BY <2>1, <2>2 DEF SenderType
    <2>4. ~results[d][r.try].ok
      BY <2>3 DEF WireInv, ResultsInv
    <2>5. ASSUME results[d][r.try].code # NoCode PROVE FALSE
      <3>1. PICK q \in history : /\ q.key = d /\ q.try = r.try
                                 /\ q.with = results[d][r.try].code
        BY <2>3, <2>5 DEF WireInv, ResultOK, Recorded
      <3>2. q = r
        BY <3>1 DEF WireInv, RecordOK
      <3>3. results[d][r.try].ok = Delivers(results[d][r.try].code)
        BY <2>3 DEF WireInv, ResultOK
      <3>4. Delivers(results[d][r.try].code)
        BY <3>1, <3>2 DEF Delivers
      <3> QED BY <2>4, <3>3, <3>4
    <2> QED BY <2>3, <2>5
  <1> QED BY <1>1, TypesHold, WireHolds, PTL

(* A set of records has as many keys as records unless a key repeats. *)
LEMMA KeysCounted ==
  ASSUME NEW S, IsFiniteSet(S)
  PROVE  /\ Cardinality(S) \in Nat
         /\ IsFiniteSet(KeysOf(S)) /\ Cardinality(KeysOf(S)) \in Nat
         /\ Cardinality(KeysOf(S)) <= Cardinality(S)
         /\ Cardinality(KeysOf(S)) = Cardinality(S) <=> \A r, s \in S : r.key = s.key => r = s
  <1> DEFINE f == [r \in S |-> r.key]
  <1>1. f \in [S -> KeysOf(S)] /\ \A k \in KeysOf(S) : \E r \in S : f[r] = k
    BY DEF KeysOf
  <1>2. f \in Surjection(S, KeysOf(S))
    BY <1>1 DEF Surjection
  <1>3. f \in Injection(S, KeysOf(S)) <=> \A r, s \in S : r.key = s.key => r = s
    BY <1>1 DEF Injection, IsInjective
  <1>4. IsFiniteSet(KeysOf(S)) /\ Cardinality(KeysOf(S)) <= Cardinality(S)
    BY <1>2, FS_Surjection
  <1>5. Cardinality(KeysOf(S)) = Cardinality(S) <=> f \in Injection(S, KeysOf(S))
    BY <1>2, FS_Surjection
  <1> QED BY <1>3, <1>4, <1>5, FS_CardinalityType

(* duplicate_deliveries finds every lead that arrived twice and nothing else. *)
THEOREM SummaryIsRight == Spec => []SummaryFindsDuplicates
  <1>1. TypeInv /\ WireInv => SummaryFindsDuplicates
    <2> SUFFICES ASSUME StubType, WireInv PROVE SummaryFindsDuplicates
      BY DEF TypeInv
    <2> DEFINE rest == received \ Accepted
    <2>1. /\ IsFiniteSet(received) /\ IsFiniteSet(Accepted) /\ IsFiniteSet(rest)
          /\ Cardinality(rest) = Cardinality(received) - Cardinality(Accepted)
      <3>1. IsFiniteSet(received) /\ Accepted \subseteq received
        BY DEF StubType, RecordsType, Accepted
      <3>2. IsFiniteSet(Accepted)
        BY <3>1, FS_Subset
      <3>3. IsFiniteSet(rest)
           /\ Cardinality(rest) = Cardinality(received) - Cardinality(received \intersect Accepted)
        BY <3>1, FS_Difference
      <3>4. received \intersect Accepted = Accepted
        BY <3>1
      <3> QED BY <3>1, <3>2, <3>3, <3>4, Zenon
    <2>2. \A r, s \in received : r.key = s.key /\ r.try = s.try => r = s
      BY DEF StubType, RecordsType, WireInv, RecordOK
    <2>3. Duplicates > 0 <=> ~ \A r, s \in Accepted : r.key = s.key => r = s
      <3> DEFINE repeats == ~ \A r, s \in Accepted : r.key = s.key => r = s
                 all == Cardinality(Accepted)
                 keys == Cardinality(KeysOf(Accepted))
      <3>1. all \in Nat /\ keys \in Nat /\ keys <= all /\ (keys = all <=> ~repeats)
        BY <2>1, KeysCounted
      <3>2. Duplicates = all - keys
        BY DEF Duplicates
      <3> HIDE DEF repeats, all, keys
      <3>3. Duplicates > 0 <=> repeats
        BY <3>1, <3>2
      <3> QED BY <3>3 DEF repeats
    <2>4. Duplicates > 0 <=> \E r, s \in received : /\ r.key = s.key /\ r.try # s.try
                                                  /\ r.with = 200 /\ s.with = 200
      BY <2>2, <2>3 DEF Accepted
    <2>5. Cardinality(KeysOf(received)) <= Cardinality(KeysOf(Accepted)) + Cardinality(KeysOf(rest))
      <3>1. KeysOf(received) = KeysOf(Accepted) \union KeysOf(rest)
        BY DEF KeysOf, Accepted
      <3>2. /\ IsFiniteSet(KeysOf(Accepted)) /\ IsFiniteSet(KeysOf(rest))
            /\ Cardinality(KeysOf(Accepted)) \in Nat /\ Cardinality(KeysOf(rest)) \in Nat
        BY <2>1, KeysCounted
      <3>3. Cardinality(KeysOf(Accepted) \intersect KeysOf(rest)) \in Nat
        BY <3>2, FS_Intersection, FS_CardinalityType
      <3>4. Cardinality(KeysOf(Accepted) \union KeysOf(rest)) =
              Cardinality(KeysOf(Accepted)) + Cardinality(KeysOf(rest))
                - Cardinality(KeysOf(Accepted) \intersect KeysOf(rest))
        BY <3>2, FS_Union
      <3> QED BY <3>1, <3>2, <3>3, <3>4
    <2>6. Duplicates <= RepeatsTotal
      BY <2>1, <2>5, KeysCounted DEF Duplicates, RepeatsTotal
    <2> QED BY <2>4, <2>6 DEF SummaryFindsDuplicates
  <1> QED BY <1>1, TypesHold, WireHolds, PTL
=============================================================================
