------------------------------ MODULE MCIntake ------------------------------
(* Intake on small instances: symmetry of the interchangeable ids. *)
EXTENDS Intake, TLC

Symmetry == Permutations(Calls) \union Permutations(Urls) \union Permutations(Keys)
=============================================================================
