----------------------------- MODULE VersionChain -----------------------------
(***************************************************************************)
(* How the snapshot turns the CONTENT rows of the legacy database into     *)
(* pages with numbered versions: resolveLogicalPages follows PREVVER to    *)
(* the end of each chain, importPages groups the records by that end,      *)
(* numbers them and picks the one that becomes the page.                   *)
(*                                                                         *)
(* A source is a function from content ids to records: prev (PREVVER, 0    *)
(* for none), version, current (CONTENT_STATUS = 'current') and capital    *)
(* (CONTENTTYPE is PAGE or BLOGPOST in capitals: the query, which ignores  *)
(* case, reads others too).                                                *)
(***************************************************************************)
EXTENDS Integers, Sequences, SequencesExt, Selections

CONSTANTS
  Contents,     \* ids of the PAGE and BLOGPOST rows of the source
  StringOrder   \* pairs of ids of which the first is the lesser string ("10" < "9")

\* Ids are positive, so that 0 stands for an empty string.
ASSUME ContentsAssumption == Contents \subseteq Nat \ {0} /\ IsFiniteSet(Contents)
ASSUME StringOrderAssumption ==
  /\ StringOrder \subseteq Contents \X Contents
  /\ \A c \in Contents : <<c, c>> \notin StringOrder
  /\ \A c, d \in Contents : c # d => <<c, d>> \in StringOrder \/ <<d, c>> \in StringOrder
  /\ \A c, d, e \in Contents :
       <<c, d>> \in StringOrder /\ <<d, e>> \in StringOrder => <<c, e>> \in StringOrder

Records == [prev : Contents \cup {0}, version : Nat, current : BOOLEAN, capital : BOOLEAN]

-----------------------------------------------------------------------------
(* resolveLogicalPages                                                     *)

\* children[id]: the records whose PREVVER is id, if their kind is in capitals.
Children(src, id) == {c \in Contents : src[c].prev = id /\ src[c].capital}

\* candidates[0] after the sort by descending version: the sort keeps the
\* order in which loadContent reads equal versions, by number (fewer than 12
\* candidates).
NewestChild(src, id) ==
  CHOOSE c \in Children(src, id) :
    \A d \in Children(src, id) \ {c} :
      \/ src[c].version > src[d].version
      \/ src[c].version = src[d].version /\ c < d

\* Mutant: the chain is followed for one link only.
LogicalPageOneLink(src, id) ==
  IF ~src[id].capital THEN 0
  ELSE IF Children(src, id) = {} THEN id ELSE NewestChild(src, id)

\* logicalPage[id]: the end of the chain that starts at id; a chain that
\* bites its tail ends where it comes back to.  A record that is left out of
\* byID has none: looking it up gives the empty string.
LogicalPage(src, id) ==
  LET walk[seen \in SUBSET Contents] ==
        [at \in Contents |->
           IF Children(src, at) = {} \/ at \in seen
             THEN at
             ELSE walk[seen \cup {at}][NewestChild(src, at)]]
  IN IF src[id].capital THEN walk[{}][id] ELSE 0

-----------------------------------------------------------------------------
(* importPages: grouping and numbering                                     *)

LogicalPages(src) == {LogicalPage(src, c) : c \in Contents}

\* What a sort makes of the records in S.
Sorted(S, before) ==
  CHOOSE s \in [1..Cardinality(S) -> S] :
    \A i \in DOMAIN s : \A j \in 1..(i - 1) : <<s[j], s[i]>> \in before

\* By version, then id as a string.
Older(src) ==
  {r \in Contents \X Contents :
     \/ src[r[1]].version < src[r[2]].version
     \/ src[r[1]].version = src[r[2]].version /\ r \in StringOrder}

\* groups[page], sorted.
RecordsOf(src, page) == {c \in Contents : LogicalPage(src, c) = page}
Group(src, page) == Sorted(RecordsOf(src, page), Older(src))

\* Mutant: positions count from 0.
NumbersFromZero(src, page) ==
  LET g == Group(src, page)
      numbered[i \in 0..Len(g)] ==
        IF i = 0 THEN <<>>
        ELSE LET v == src[g[i]].version
                 used == ToSet(numbered[i - 1])
             IN Append(numbered[i - 1], IF v < 1 \/ v \in used THEN i - 1 ELSE v)
  IN numbered[Len(g)]

\* c.Version of each record of the group: a version below 1 or already used
\* is replaced by the record's position.
Numbers(src, page) ==
  LET g == Group(src, page)
      numbered[i \in 0..Len(g)] ==
        IF i = 0 THEN <<>>
        ELSE LET v == src[g[i]].version
                 used == ToSet(numbered[i - 1])
             IN Append(numbered[i - 1], IF v < 1 \/ v \in used THEN i ELSE v)
  IN numbered[Len(g)]

\* The number under which content c is imported.
VersionOf(src, c) ==
  LET p == LogicalPage(src, c)
  IN Numbers(src, p)[CHOOSE i \in DOMAIN Group(src, p) : Group(src, p)[i] = c]

\* Mutant: the oldest record is taken.
LatestFirst(src, page) == Head(Group(src, page))

\* The record that becomes the page: the last one that is current, or else
\* the last one.
Latest(src, page) ==
  LET g == Group(src, page)
      current == {i \in DOMAIN g : src[g[i]].current}
  IN IF current = {} THEN Last(g) ELSE g[Max(current)]

\* latestContent, which picks the record whose PARENTID is used: a later
\* record replaces the choice if it is current or has a higher number.
LatestContent(src, page) ==
  LET g == Group(src, page)
      n == Numbers(src, page)
      pick[i \in 1..Len(g)] ==
        IF i = 1 THEN 1
        ELSE IF src[g[i]].current \/ n[i] > n[pick[i - 1]] THEN i ELSE pick[i - 1]
  IN g[pick[Len(g)]]

\* sort.Strings: the empty string comes first.
PageOrder == StringOrder \cup ({0} \X Contents)

\* Mutant: the record left out is taken to be the last one.
withoutLast(g, id) == Front(g)

withoutContent(g, id) == Selected(g, Contents \ {id})

\* The records in the order of import: page after page, and of a page the
\* record it is made of first.
ImportPlan(src) ==
  LET pages == Sorted(LogicalPages(src), PageOrder)
      records(p) == <<Latest(src, p)>> \o withoutContent(Group(src, p), Latest(src, p))
  IN FlattenSeq([i \in DOMAIN pages |-> records(pages[i])])

-----------------------------------------------------------------------------
(* Shapes of sources the properties speak of                               *)

\* Every record has at most one successor, no chain bites its tail, and the
\* kinds are in capitals, as Confluence writes them.
Linear(src) ==
  /\ \A c \in Contents : src[c].capital
  /\ \A c \in Contents : Cardinality(Children(src, c)) <= 1
  /\ \A S \in SUBSET Contents \ {{}} : \E c \in S : Children(src, c) \cap S = {}

\* Version numbers rise along the chain from 1 on, and the end of a chain is
\* current (the other records may be, too).
WellVersioned(src) ==
  /\ Linear(src)
  /\ \A c \in Contents :
       /\ src[c].version >= 1
       /\ src[c].prev # 0 => src[c].version > src[src[c].prev].version
       /\ Children(src, c) = {} => src[c].current
=============================================================================
