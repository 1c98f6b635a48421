------------------------- MODULE MCDeliveryService -------------------------
(* DeliveryService on small instances: symmetry of the interchangeable ids. *)
EXTENDS DeliveryService, TLC

WorkerSymmetry == Permutations(Workers)

Symmetry == Permutations(Workers) \union Permutations(Deliveries \ Unstorable)
=============================================================================
