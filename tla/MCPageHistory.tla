----------------------------- MODULE MCPageHistory -----------------------------
(* Small sources for PageHistory.                                          *)
EXTENDS PageHistory

\* Two ids, in the order of their decimals.
Lexicographic == {<<1, 2>>}

AllSources ==
  [Contents -> [prev : Contents \cup {0}, version : 0..2, current : BOOLEAN, capital : {TRUE}]]

\* A page of two versions, both with status current, as in CONTENT tables
\* whose history rows keep that status.
ChainSource ==
  {[c \in Contents |-> [prev |-> c - 1, version |-> c, current |-> TRUE, capital |-> TRUE]]}

\* A page whose records have any numbers (the second missing, equal, falling)
\* and are both current; and one whose newest record is not current.
WildSources ==
  {src \in AllSources :
     /\ \A c \in Contents : src[c].prev = c - 1
     /\ \/ src[1].version # 0 /\ \A c \in Contents : src[c].current
        \/ \A c \in Contents : src[c].version = c /\ (src[c].current <=> c = 1)}

\* A second snapshot, and a page that the editors create, are beside the chain
\* only, and not both; the last edit is for a created page, so that two editors
\* can race each other on it.
Created == {p \in NewPages : current[p] # 0}
Scope ==
  /\ Cardinality({j \in Jobs : job[j] # "NEW"}) = 2 => source \in ChainSource /\ Created = {}
  /\ Created # {} => source \in ChainSource
  /\ edits = MaxEdits => Created # {}

Symmetry == Permutations(Editors) \cup Permutations(Jobs)
=============================================================================
