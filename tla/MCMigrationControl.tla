------------------------ MODULE MCMigrationControl ------------------------
(* Constants for model-checking MigrationControl.                          *)
EXTENDS MigrationControl, TLC

Symmetry == Permutations(Calls) \cup Permutations(Jobs)
=============================================================================
