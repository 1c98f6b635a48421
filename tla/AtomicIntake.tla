---------------------------- MODULE AtomicIntake ----------------------------
(***************************************************************************)
(* What intake promises to the rest of the service and to its callers: a   *)
(* lead appears in one step, with every recipient of the call that stored  *)
(* it; the recipients of an attachment appear in one step too; nothing     *)
(* disappears; and whoever is told that a lead is stored is told so while  *)
(* it is, whole.  DeliveryService and Reporting add leads in such steps;   *)
(* Intake shows that the statements of concurrent calls amount to them.    *)
(***************************************************************************)
CONSTANTS Calls, NoCall, Keys, Urls

VARIABLES
    asked,      \* what each call asks for
    owner,      \* the call that stored the lead of each key, or NoCall
    stored,     \* the recipients of each lead
    told        \* pairs of a call and the lead it was answered with

vars == <<asked, owner, stored, told>>

Request == [op : {"accept", "attach"}, key : Keys, urls : SUBSET Urls]

Init == /\ asked \in [Calls -> Request]
        /\ owner = [k \in Keys |-> NoCall]
        /\ stored = [k \in Keys |-> {}]
        /\ told = {}

Store(c) ==
    LET k == asked[c].key IN
    /\ asked[c].op = "accept"
    /\ owner[k] = NoCall
    /\ owner' = [owner EXCEPT ![k] = c]
    /\ stored' = [stored EXCEPT ![k] = asked[c].urls]
    /\ UNCHANGED <<asked, told>>

Attach(c) ==
    LET k == asked[c].key IN
    /\ asked[c].op = "attach"
    /\ owner[k] # NoCall
    /\ stored' = [stored EXCEPT ![k] = @ \union asked[c].urls]
    /\ UNCHANGED <<asked, owner, told>>

(* An answer names the one lead of the key; only an attachment may be told
   that there is none.  Nobody is answered twice. *)
Tell(c, id) ==
    LET k == asked[c].key IN
    /\ \A answered \in told : answered[1] # c
    /\ id = NoCall => asked[c].op = "attach"
    /\ id # NoCall => owner[k] = id
    /\ id # NoCall /\ (asked[c].op = "attach" \/ id = c) => asked[c].urls \subseteq stored[k]
    /\ told' = told \union {<<c, id>>}
    /\ UNCHANGED <<asked, owner, stored>>

Next == \E c \in Calls : \/ Store(c)
                         \/ Attach(c)
                         \/ \E id \in Calls \union {NoCall} : Tell(c, id)

IntakeSpec == Init /\ [][Next]_vars
=============================================================================
