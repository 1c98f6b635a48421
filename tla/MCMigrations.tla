---------------------------- MODULE MCMigrations ----------------------------
(* Migrations on small instances: symmetry of the processes. *)
EXTENDS Migrations, TLC

Symmetry == Permutations(Procs)
=============================================================================
