---------------------------- MODULE MCClaimQuery ----------------------------
(* ClaimQuery on small instances: three rows of a busy origin and one of
   another. *)
EXTENDS ClaimQuery, TLC

CONSTANTS a1, a2, a3, b1, busy, quiet

OriginOfRows == [r \in Rows |-> IF r = b1 THEN quiet ELSE busy]

Symmetry == Permutations({a1, a2, a3}) \union Permutations(Workers)
=============================================================================
