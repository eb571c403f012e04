--------------------------- MODULE MCCutoverEvidence ---------------------------
(* A small instance of CutoverEvidence: the first snapshot meets a macro and   *)
(* an orphan, the second one a macro.                                          *)
EXTENDS CutoverEvidence, TLC

CONSTANTS m1, o1, m2

Found == {m1, o1, m2}
FoundBy == [i \in Found |-> IF i = m2 THEN 2 ELSE 1]
CountedIn == [i \in Found |-> IF i = o1 THEN "PAGE_HIERARCHY" ELSE "MACROS"]

Symmetry == Permutations(Calls)
=============================================================================
