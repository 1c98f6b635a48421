-------------------------- MODULE DeliveryPromise --------------------------
(***************************************************************************)
(* What the service promises to those who hand it leads, without workers,  *)
(* leases, attempts or time: a stored delivery stays open until its        *)
(* recipient has the lead or the service gives it up, one of the two       *)
(* happens, and nothing is sent for a delivery that is not open.  Copies   *)
(* may be sent more than once while it is open.  Only an operator opens a  *)
(* settled delivery again, and then it has to reach the recipient anew.    *)
(***************************************************************************)
CONSTANT Deliveries

VARIABLES
    fate,   \* what a report shows of each delivery
    got     \* deliveries whose recipient took a copy since they were opened

promiseVars == <<fate, got>>

PromiseTypeOK == /\ fate \in [Deliveries -> {"absent", "open", "delivered", "failed"}]
                 /\ got \subseteq Deliveries

PromiseInit == fate = [d \in Deliveries |-> "absent"] /\ got = {}

(* A lead is stored, or recipients are attached to it. *)
Store(ds) ==
    /\ \A d \in ds : fate[d] = "absent"
    /\ fate' = [d \in Deliveries |-> IF d \in ds THEN "open" ELSE fate[d]]
    /\ UNCHANGED got

(* The recipient takes a copy. *)
Reach(d) ==
    /\ fate[d] = "open"
    /\ got' = got \union {d}
    /\ UNCHANGED fate

Deliver(d) ==
    /\ fate[d] = "open"
    /\ d \in got
    /\ fate' = [fate EXCEPT ![d] = "delivered"]
    /\ UNCHANGED got

GiveUp(d) ==
    /\ fate[d] = "open"
    /\ fate' = [fate EXCEPT ![d] = "failed"]
    /\ UNCHANGED got

(* An operator asks for another round. *)
Reopen(ds) ==
    /\ \A d \in ds : fate[d] # "absent"
    /\ fate' = [d \in Deliveries |-> IF d \in ds THEN "open" ELSE fate[d]]
    /\ got' = got \ ds

Settle(d) == Deliver(d) \/ GiveUp(d)

PromiseNext ==
    \/ \E ds \in SUBSET Deliveries : Store(ds) \/ Reopen(ds)
    \/ \E d \in Deliveries : Reach(d) \/ Deliver(d) \/ GiveUp(d)

PromiseSafety == PromiseInit /\ [][PromiseNext]_promiseVars

PromiseSpec == /\ PromiseSafety
               /\ \A d \in Deliveries : WF_promiseVars(Settle(d))
=============================================================================
