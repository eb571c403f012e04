----------------------------- MODULE MCAdminPolicy -----------------------------
(* Small instances of AdminPolicy.                                         *)
EXTENDS AdminPolicy, TLC

Symmetry == Permutations(Calls) \cup Permutations(Tokens) \cup Permutations(Keys)
=============================================================================
