----------------------------- MODULE MCSending ------------------------------
(* Sending on small instances: behaviours of the stub, symmetry of the leads. *)
EXTENDS Sending, TLC

MCTries == 1..MaxTries

Always(mode, code) == [mode |-> mode, code |-> code, delay |-> 2, first |-> NoLimit]

(* Recipients that break in each of the ways the stub can break. *)
Broken == {Always("error", 202), Always("error", 302), Always("silent", 500), Always("slow", 500),
           [Always("error", 500) EXCEPT !.first = 1]}

(* Endpoints set to fail a number of requests. *)
FailFirst == {[Always("error", 500) EXCEPT !.first = 1], [Always("slow", 500) EXCEPT !.first = 2]}

Symmetry == Permutations(Keys)
=============================================================================
