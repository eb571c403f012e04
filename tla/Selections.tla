------------------------------- MODULE Selections -------------------------------
(* Parts of sequences, as the loops that filter a slice make them.          *)
EXTENDS SequencesExt

\* The elements of s that are in S, in their order.
Selected(s, S) == FoldLeft(LAMBDA b, x : IF x \in S THEN Append(b, x) ELSE b, <<>>, s)
=============================================================================
