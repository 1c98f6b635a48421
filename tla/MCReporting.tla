---------------------------- MODULE MCReporting ----------------------------
(* Reporting on small instances: one lead with all deliveries, one without. *)
EXTENDS Reporting, TLC

CONSTANTS l1, l2

LeadOfDeliveries == [d \in Deliveries |-> l1]

Symmetry == Permutations(Deliveries)
=============================================================================
