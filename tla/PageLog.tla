-------------------------------- MODULE PageLog --------------------------------
(***************************************************************************)
(* What the page store promises to those who edit pages (docs/             *)
(* ARCHITECTURE.md, "Canonical page"): the versions of a page are a log    *)
(* that only grows, and each published version was written by someone who  *)
(* had the last one before their eyes.                                     *)
(***************************************************************************)
EXTENDS Naturals, Sequences

CONSTANTS Pages, Texts, NoText   \* NoText: what the first version builds on

VARIABLE log   \* log[p]: the versions of p, each with the text it builds on

Entries == [text : Texts, base : Texts \cup {NoText}]

Init == log = [p \in Pages |-> <<>>]

\* The text the next version of p has to build on.
LastText(p) == IF log[p] = <<>> THEN NoText ELSE log[p][Len(log[p])].text

Publish(p, text) ==
  log' = [log EXCEPT ![p] = Append(@, [text |-> text, base |-> LastText(p)])]

Next == \E p \in Pages, text \in Texts : Publish(p, text)

Spec == Init /\ [][Next]_log
=============================================================================
