------------------------ MODULE ImportAlgorithms_proofs ------------------------
(***************************************************************************)
(* How pages, numbers and the plan come out, for sources of any size, and  *)
(* what ConvertStorage makes of a body of any length: the loop makes a     *)
(* tree in which nodes have intervals of the document and words ascend,    *)
(* and each fold over it keeps the words and what lies between them.       *)
(***************************************************************************)
EXTENDS ImportAlgorithms, VersionChain_proofs

\* The plan is the one of the source.
PlanKnown ==
  /\ source # <<>> => source \in [Contents -> Records]
  /\ plan # <<>> => source # <<>> /\ plan = ImportPlan(source)

LEMMA PlanInv == Spec => []PlanKnown
  <1>1. Init => PlanKnown
    BY MaxVersionAssumption DEF Init, PlanKnown, Records
  <1>2. PlanKnown /\ [Next]_vars => PlanKnown'
    BY DEF PlanKnown, Next, vars, PlanImport, Continue, Convert
  <1> QED BY <1>1, <1>2, PTL DEF Spec

\* Whatever the links of the source, the plan has every record once, and of a
\* page the record it is made of first (importPages' order).
THEOREM Complete == Spec => []PlanIsComplete
  <1>1. ASSUME PlanKnown, plan # <<>>
        PROVE  /\ Len(plan) = Cardinality(Contents) /\ ToSet(plan) = Contents
               /\ \A i, j \in DOMAIN plan :
                    plan[i] = Latest(source, LogicalPage(source, plan[j])) => i <= j
    <2> DEFINE n == Cardinality(Contents)
    <2>1. source \in [Contents -> Records] /\ plan = ImportPlan(source)
      BY <1>1 DEF PlanKnown
    <2>2. /\ n \in Nat /\ plan \in [1..n -> Contents]
          /\ \A c \in Contents : \E i \in 1..n : plan[i] = c
          /\ \A i, j \in 1..n :
               plan[i] = Latest(source, LogicalPage(source, plan[j])) => i <= j
      BY <2>1, PlanTyping
    <2> HIDE DEF n
    <2>3. Len(plan) = n /\ DOMAIN plan = 1..n
      BY <2>2
    <2>4. ToSet(plan) = Contents
      BY <2>2, <2>3 DEF ToSet
    <2> QED BY <2>2, <2>3, <2>4 DEF n
  <1>2. PlanKnown => PlanIsComplete
    BY <1>1 DEF PlanIsComplete
  <1> QED BY <1>2, PlanInv, PTL

-----------------------------------------------------------------------------
(* Numbers                                                                 *)

\* A number is the version of its record, or its place in the group if the
\* version is missing or taken.
LEMMA NumberCases ==
  ASSUME NEW src \in [Contents -> Records], NEW p \in LogicalPages(src)
  PROVE  /\ Numbers(src, p) \in Seq(Nat \ {0}) /\ Len(Numbers(src, p)) = Len(Group(src, p))
         /\ \A i \in 1..Len(Group(src, p)) :
              LET number == Numbers(src, p)
                  version == src[Group(src, p)[i]].version
              IN \/ /\ number[i] = version /\ version >= 1
                    /\ \A k \in 1..i - 1 : number[k] # version
                 \/ /\ number[i] = i
                    /\ version < 1 \/ \E k \in 1..i - 1 : number[k] = version
  <1> DEFINE g == Group(src, p)
             w == Numbered(src, g)
             Chosen(s, i) ==
               \/ /\ s[i] = src[g[i]].version /\ src[g[i]].version >= 1
                  /\ \A k \in 1..i - 1 : s[k] # src[g[i]].version
               \/ /\ s[i] = i
                  /\ src[g[i]].version < 1 \/ \E k \in 1..i - 1 : s[k] = src[g[i]].version
             P == {n \in 0..Len(g) : \A i \in 1..n : Chosen(w[n], i)}
  <1>1. Len(g) \in Nat /\ \A i \in 1..Len(g) : g[i] \in Contents
    BY GroupFacts
  <1>2. \A i \in 0..Len(g) : w[i] \in Seq(Nat \ {0}) /\ Len(w[i]) = i
    BY NumberedTyping
  <1>3. \A i \in 1..Len(g) : src[g[i]].version \in Nat
    BY <1>1, VersionTypes
  <1> HIDE DEF g
  <1>4. \A i \in 1..Len(g) : w[i] = Append(w[i - 1], NextNumber(src, g, w[i - 1], i))
    BY <1>1, NumberedFacts
  <1> HIDE DEF w
  <1>5. 0 \in P
    BY <1>1
  <1>6. ASSUME NEW n \in 1..Len(g), n - 1 \in P
        PROVE  n \in P
    <2> DEFINE v == src[g[n]].version
               s == w[n - 1]
               t == w[n]
    <2>1. n - 1 \in 0..Len(g) /\ s \in Seq(Nat \ {0}) /\ Len(s) = n - 1 /\ v \in Nat
      BY <1>1, <1>2, <1>3
    <2>2. PICK x \in Nat \ {0} : x = NextNumber(src, g, s, n)
      BY <2>1 DEF NextNumber
    <2>3. t = Append(s, x)
      BY <1>4, <2>2
    <2>4. \A i \in 1..n - 1 : Chosen(s, i)
      BY <1>6
    <2> HIDE DEF s, t
    <2>5. t[n] = x /\ \A k \in 1..n - 1 : t[k] = s[k]
      BY <2>1, <2>3, AppendProperties
    <2>6. v \in ToSet(s) <=> \E k \in 1..n - 1 : t[k] = v
      BY <2>1, <2>5 DEF ToSet
    <2>7. Chosen(t, n)
      BY <2>1, <2>2, <2>5, <2>6 DEF NextNumber
    <2>8. ASSUME NEW i \in 1..n - 1
          PROVE  Chosen(t, i)
      <3>1. \A k \in 1..i : t[k] = s[k]
        BY <2>5
      <3>2. i \in 1..i /\ 1..i - 1 \subseteq 1..i
        OBVIOUS
      <3> QED BY <2>4, <3>1, <3>2
    <2>9. \A i \in 1..n : i = n \/ i \in 1..n - 1
      OBVIOUS
    <2> HIDE DEF Chosen
    <2>10. \A i \in 1..n : Chosen(t, i)
      BY <2>7, <2>8, <2>9
    <2> QED BY <1>1, <2>10 DEF t
  <1>7. Len(g) \in P
    <2> HIDE DEF P
    <2>1. \A n \in 0..Len(g) : n \in P
      BY <1>1, <1>5, <1>6, Upwards
    <2> QED BY <1>1, <2>1
  <1>8. Numbers(src, p) = w[Len(g)]
    BY NumbersAreNumbered DEF w, g
  <1>9. w[Len(g)] \in Seq(Nat \ {0}) /\ Len(w[Len(g)]) = Len(g)
    BY <1>1, <1>2
  <1> QED BY <1>7, <1>8, <1>9 DEF g

\* Missing version numbers are filled in without a collision, if those that the
\* source has differ (importPages).
THEOREM FilledIn == Spec => []MissingNumbersFilledIn
  <1>1. ASSUME NEW src \in [Contents -> Records], NEW p \in LogicalPages(src),
               \A i, j \in DOMAIN Group(src, p) :
                 i # j /\ src[Group(src, p)[i]].version = src[Group(src, p)[j]].version
                   => src[Group(src, p)[i]].version = 0
        PROVE  /\ \A i \in DOMAIN Group(src, p) : Numbers(src, p)[i] >= 1
               /\ IsInjective(Numbers(src, p))
    <2> DEFINE g == Group(src, p)
               n == Numbers(src, p)
               version(i) == src[g[i]].version
    <2>1. /\ Len(g) \in Nat /\ DOMAIN g = 1..Len(g)
          /\ \A i \in 1..Len(g) : g[i] \in Contents
          /\ \A i, j \in 1..Len(g) : j < i => <<g[j], g[i]>> \in Older(src)
      BY GroupFacts
    <2>2. n \in Seq(Nat \ {0}) /\ DOMAIN n = 1..Len(g) /\ \A i \in 1..Len(g) : n[i] \in Nat \ {0}
      BY NumberCases
    <2>3. \A i \in 1..Len(g) :
            \/ n[i] = version(i) /\ version(i) >= 1 /\ \A k \in 1..i - 1 : n[k] # version(i)
            \/ n[i] = i /\ (version(i) < 1 \/ \E k \in 1..i - 1 : n[k] = version(i))
      BY NumberCases
    <2>4. \A i \in 1..Len(g) : version(i) \in Nat
      BY <2>1, VersionTypes
    <2>5. \A i, j \in 1..Len(g) : j < i => version(j) <= version(i)
      <3> SUFFICES ASSUME NEW i \in 1..Len(g), NEW j \in 1..Len(g), j < i
                   PROVE  version(j) <= version(i)
        OBVIOUS
      <3>1. <<g[j], g[i]>> \in Older(src)
        BY <2>1
      <3>2. version(j) < version(i) \/ version(j) = version(i)
        BY <3>1 DEF Older
      <3> QED BY <2>4, <3>2
    <2>6. \A i, j \in 1..Len(g) : i # j /\ version(i) = version(j) => version(i) = 0
      BY <1>1, <2>1
    <2> HIDE DEF g, n, version
    <2>7. ASSUME NEW i \in 1..Len(g), NEW j \in 1..i - 1
          PROVE  n[i] # n[j]
      <3>1. j \in 1..Len(g) /\ j < i /\ i # j
        BY <2>1
      <3>2. CASE n[i] = version(i) /\ version(i) >= 1 /\ \A k \in 1..i - 1 : n[k] # version(i)
        BY <3>2
      <3>3. CASE n[i] = i /\ (version(i) < 1 \/ \E k \in 1..i - 1 : n[k] = version(i))
        <4> SUFFICES ASSUME n[j] = i PROVE FALSE
          BY <3>3
        <4>1. version(j) = i /\ version(j) >= 1
          BY <2>3, <3>1
        <4>2. version(i) >= i /\ version(i) \in Nat
          BY <2>4, <2>5, <3>1, <4>1
        <4>3. PICK k \in 1..i - 1 : n[k] = version(i)
          BY <3>3, <4>1, <4>2
        <4>4. k \in 1..Len(g) /\ k < i
          BY <2>1
        <4>5. version(k) = version(i)
          BY <2>3, <4>2, <4>3, <4>4
        <4>6. version(i) = 0
          BY <2>6, <4>4, <4>5
        <4> QED BY <4>2, <4>6
      <3> QED BY <2>3, <3>2, <3>3
    <2>8. ASSUME NEW i \in 1..Len(g), NEW j \in 1..Len(g), n[i] = n[j]
          PROVE  i = j
      <3>1. ~(j < i) /\ ~(i < j)
        <4>1. j < i => j \in 1..i - 1
          OBVIOUS
        <4>2. i < j => i \in 1..j - 1
          OBVIOUS
        <4> QED BY <2>7, <2>8, <4>1, <4>2
      <3> QED BY <3>1
    <2>9. IsInjective(n)
      BY <2>2, <2>8 DEF IsInjective
    <2> QED BY <2>1, <2>2, <2>9 DEF g, n
  <1>2. PlanKnown => MissingNumbersFilledIn
    BY <1>1 DEF PlanKnown, MissingNumbersFilledIn
  <1> QED BY <1>2, PlanInv, PTL
-----------------------------------------------------------------------------
(* The latest record                                                       *)

\* latestContent's choice, one record further.
Choice(src, g, n, pick) ==
  [i \in 1..Len(g) |->
     IF i = 1 THEN 1
     ELSE IF src[g[i]].current \/ n[i] > n[pick[i - 1]] THEN i ELSE pick[i - 1]]
Pick(src, g, n) == CHOOSE pick : pick = Choice(src, g, n, pick)

LEMMA ChoiceAt ==
  ASSUME NEW src, NEW g, Len(g) \in Nat, NEW n, NEW pick
  PROVE  \A i \in 1..Len(g) :
           Choice(src, g, n, pick)[i] =
             IF i = 1 THEN 1
             ELSE IF src[g[i]].current \/ n[i] > n[pick[i - 1]] THEN i ELSE pick[i - 1]
  BY DEF Choice

LEMMA PickExists ==
  ASSUME NEW src, NEW g, Len(g) \in Nat, NEW n
  PROVE  \E pick : pick = Choice(src, g, n, pick)
  <1> DEFINE IsTable(w) == w = [i \in 1..Len(g) |-> w[i]]
             Fits(w, k) == \A i \in 1..Len(g) : i <= k => w[i] = Choice(src, g, n, w)[i]
             P == {k \in 0..Len(g) : \E w : IsTable(w) /\ Fits(w, k)}
  <1>1. 0 \in P
    <2> DEFINE w == [i \in 1..Len(g) |-> i]
    <2>1. IsTable(w)
      OBVIOUS
    <2>2. \A i \in 1..Len(g) : ~(i <= 0)
      OBVIOUS
    <2> HIDE DEF w
    <2>3. Fits(w, 0)
      BY <2>2
    <2> QED BY <2>1, <2>3
  <1>2. ASSUME NEW k \in 1..Len(g), k - 1 \in P
        PROVE  k \in P
    <2>1. PICK w : IsTable(w) /\ Fits(w, k - 1)
      BY <1>2
    <2> DEFINE v == Choice(src, g, n, w)
    <2>2. IsTable(v)
      BY DEF Choice
    <2>3. ASSUME NEW i \in 1..Len(g), i <= k
          PROVE  v[i] = Choice(src, g, n, v)[i]
      <3>1. CASE i = 1
        BY <3>1, ChoiceAt
      <3>2. CASE i # 1
        <4>1. i - 1 \in 1..Len(g) /\ i - 1 <= k - 1
          BY <2>3, <3>2
        <4>2. w[i - 1] = v[i - 1]
          BY <2>1, <4>1
        <4>3. v[i] = IF src[g[i]].current \/ n[i] > n[w[i - 1]] THEN i ELSE w[i - 1]
          BY <3>2, ChoiceAt
        <4>4. Choice(src, g, n, v)[i] = IF src[g[i]].current \/ n[i] > n[v[i - 1]] THEN i ELSE v[i - 1]
          BY <3>2, ChoiceAt
        <4> HIDE DEF v
        <4> QED BY <4>2, <4>3, <4>4
      <3> QED BY <3>1, <3>2
    <2> HIDE DEF v
    <2>4. Fits(v, k)
      BY <2>3
    <2> QED BY <2>2, <2>4
  <1>3. Len(g) \in P
    <2> HIDE DEF P
    <2>1. \A i \in 0..Len(g) : i \in P
      BY <1>1, <1>2, Upwards
    <2> QED BY <2>1
  <1>4. PICK w : IsTable(w) /\ Fits(w, Len(g))
    BY <1>3
  <1>5. \A i \in 1..Len(g) : w[i] = Choice(src, g, n, w)[i]
    BY <1>4
  <1>6. Choice(src, g, n, w) = [i \in 1..Len(g) |-> Choice(src, g, n, w)[i]]
    BY DEF Choice
  <1>7. w = Choice(src, g, n, w)
    BY <1>4, <1>5, <1>6
  <1> QED BY <1>7

\* Among rising numbers latestContent picks the last record.
LEMMA PicksLast ==
  ASSUME NEW src, NEW g, Len(g) \in Nat \ {0}, NEW n,
         \A i \in 1..Len(g) : n[i] \in Nat,
         \A i, j \in 1..Len(g) : j < i => n[j] < n[i]
  PROVE  Pick(src, g, n)[Len(g)] = Len(g)
  <1> DEFINE pick == Pick(src, g, n)
             next == Choice(src, g, n, pick)
             P == {k \in 0..Len(g) : k = 0 \/ pick[k] = k}
  <1>1. pick = next
    BY PickExists DEF Pick
  <1> HIDE DEF pick
  <1>2. \A i \in 1..Len(g) :
          next[i] = IF i = 1 THEN 1
                    ELSE IF src[g[i]].current \/ n[i] > n[pick[i - 1]] THEN i ELSE pick[i - 1]
    BY DEF Choice
  <1> HIDE DEF next
  <1>3. \A i \in 1..Len(g) :
          pick[i] = IF i = 1 THEN 1
                    ELSE IF src[g[i]].current \/ n[i] > n[pick[i - 1]] THEN i ELSE pick[i - 1]
    BY <1>1, <1>2
  <1>4. ASSUME NEW k \in 1..Len(g), k - 1 \in P
        PROVE  k \in P
    <2>1. CASE k = 1
      BY <1>3, <2>1
    <2>2. CASE k # 1
      <3>1. k - 1 \in 1..Len(g) /\ k - 1 < k /\ pick[k - 1] = k - 1
        BY <1>4, <2>2
      <3>2. n[k] > n[pick[k - 1]]
        BY <3>1
      <3>3. pick[k] = k
        BY <1>3, <2>2, <3>2
      <3> QED BY <3>3
    <2> QED BY <2>1, <2>2
  <1>5. 0 \in P
    OBVIOUS
  <1>6. Len(g) \in P
    <2> HIDE DEF P
    <2>1. \A i \in 0..Len(g) : i \in P
      BY <1>4, <1>5, Upwards
    <2> QED BY <2>1
  <1> QED BY <1>6 DEF pick

\* With rising versions a page is made of the end of its chain, by both ways to
\* choose it, and all its other records have lower numbers (resolveLogicalPages,
\* importPages, latestContent).
THEOREM ChainEnd == Spec => []PageIsChainEnd
  <1>1. ASSUME NEW src \in [Contents -> Records], WellVersioned(src), NEW p \in LogicalPages(src)
        PROVE  /\ Latest(src, p) = p /\ LatestContent(src, p) = p
               /\ \A c \in Contents : LogicalPage(src, c) = p /\ c # p =>
                    VersionOf(src, c) < VersionOf(src, p)
    <2>capital. \A c \in Contents : src[c].capital
      BY <1>1 DEF WellVersioned, Linear
    <2>1. Latest(src, p) = p /\ p \in Contents /\ p \in RecordsOf(src, p) /\ src[p].current
      <3>1. PICK c \in Contents : p = LogicalPage(src, c)
        BY DEF LogicalPages
      <3>2. p \in Contents /\ LogicalPage(src, p) = p /\ src[p].current
        BY <1>1, <2>capital, <3>1, PageTyping, PageEnds
      <3>3. Latest(src, p) = p
        BY <1>1, LatestIsEnd
      <3> QED BY <3>2, <3>3 DEF RecordsOf
    <2>0. ASSUME NEW c \in RecordsOf(src, p)
          PROVE  c = p \/ src[c].version < src[p].version
      <3>1. c \in Contents /\ c \in Before(src, p)
        BY <2>capital, PagesFollow DEF RecordsOf
      <3> QED BY <1>1, <2>1, <3>1, VersionsRise
    <2>2. ASSUME NEW c \in Contents, LogicalPage(src, c) = p, c # p
          PROVE  VersionOf(src, c) < VersionOf(src, p)
      <3>1. src[c].version < src[p].version
        BY <2>0, <2>2 DEF RecordsOf
      <3>2. VersionOf(src, c) = src[c].version /\ VersionOf(src, p) = src[p].version
        BY <1>1, <2>1, NumberIsVersion
      <3> QED BY <3>1, <3>2
    <2> DEFINE g == Group(src, p)
               n == Numbers(src, p)
    <2>3. /\ Len(g) \in Nat \ {0} /\ \A i \in 1..Len(g) : g[i] \in RecordsOf(src, p)
          /\ \A i, j \in 1..Len(g) : j < i => <<g[j], g[i]>> \in Older(src)
          /\ \A i, j \in 1..Len(g) : g[i] = g[j] => i = j
      BY GroupFacts
    <2>4. \A i \in 1..Len(g) : n[i] = src[g[i]].version
      <3>1. \A c \in RecordsOf(src, p) : src[c].version >= 1
        BY <1>1 DEF RecordsOf, WellVersioned
      <3>2. \A c, d \in RecordsOf(src, p) : src[c].version = src[d].version => c = d
        BY <1>1, VersionsOfPage
      <3> QED BY <3>1, <3>2, VersionsKept
    <2>5. \A i \in 1..Len(g) : g[i] \in Contents /\ n[i] \in Nat
      BY <2>3, <2>4, VersionTypes DEF RecordsOf
    <2>6. ASSUME NEW i \in 1..Len(g), NEW j \in 1..Len(g), j < i
          PROVE  n[j] < n[i]
      <3>1. <<g[j], g[i]>> \in Older(src) /\ g[i] # g[j]
        BY <2>3, <2>6
      <3>2. src[g[j]].version < src[g[i]].version \/ src[g[j]].version = src[g[i]].version
        BY <3>1 DEF Older
      <3>3. src[g[j]].version # src[g[i]].version
        <4>1. \A c, d \in RecordsOf(src, p) : src[c].version = src[d].version => c = d
          BY <1>1, VersionsOfPage
        <4> QED BY <2>3, <3>1, <4>1
      <3> QED BY <2>4, <3>2, <3>3
    <2>7. LatestContent(src, p) = g[Pick(src, g, n)[Len(g)]]
      BY DEF LatestContent, Pick, Choice
    <2>8. LatestContent(src, p) = g[Len(g)]
      <3> HIDE DEF g, n
      <3> QED BY <2>3, <2>5, <2>6, <2>7, PicksLast
    <2>9. g[Len(g)] = p
      <3>1. g[Len(g)] \in RecordsOf(src, p) /\ g[Len(g)] \in Contents
        BY <2>3, <2>5
      <3>2. PICK i \in 1..Len(g) : g[i] = p
        BY <2>1, GroupFacts
      <3>3. i = Len(g)
        <4> HIDE DEF g, n
        <4> SUFFICES ASSUME i # Len(g) PROVE FALSE
          OBVIOUS
        <4>1. Len(g) \in 1..Len(g) /\ i < Len(g)
          <5>1. Len(g) \in Nat \ {0}
            BY <2>3
          <5> QED BY <5>1
        <4>2. n[i] < n[Len(g)]
          BY <2>6, <4>1
        <4>3. src[p].version < src[g[Len(g)]].version
          BY <2>4, <3>2, <4>1, <4>2
        <4>4. g[Len(g)] = p \/ src[g[Len(g)]].version < src[p].version
          BY <2>0, <3>1
        <4> QED BY <2>1, <3>1, <4>3, <4>4, VersionTypes
      <3> QED BY <3>2, <3>3
    <2> QED BY <2>1, <2>2, <2>8, <2>9
  <1>2. PlanKnown => PageIsChainEnd
    BY <1>1 DEF PlanKnown, PageIsChainEnd
  <1> QED BY <1>2, PlanInv, PTL
-----------------------------------------------------------------------------
(* Chains                                                                  *)

\* Of a record before e that is not e itself, a child is before e as well.
LEMMA ChildBefore ==
  ASSUME NEW src \in [Contents -> Records], NEW e \in Contents, NEW z \in Before(src, e), z # e
  PROVE  \E w \in Before(src, e) : src[w].prev = z
  <1> SUFFICES ASSUME \A w \in Before(src, e) : src[w].prev # z PROVE FALSE
    OBVIOUS
  <1> DEFINE S == Before(src, e) \ {z}
  <1>1. S \in SUBSET Contents /\ e \in S
    BY BeforeFacts DEF Before
  <1>2. \A y \in S : src[y].prev # 0 => src[y].prev \in S
    BY BeforeFacts
  <1> HIDE DEF S
  <1>3. z \in S
    BY <1>1, <1>2, BeforeInduction
  <1> QED BY <1>3 DEF S

\* A chain without forks does not come back to where it was.
LEMMA NoLoop ==
  ASSUME NEW src \in [Contents -> Records], Linear(src),
         NEW at \in Contents, NEW d \in Contents, src[d].prev = at
  PROVE  d \notin Before(src, at)
  <1> SUFFICES ASSUME d \in Before(src, at) PROVE FALSE
    OBVIOUS
  <1> DEFINE U == {z \in Before(src, at) : d \in Before(src, z)}
  <1>1. U \in SUBSET Contents /\ d \in U /\ at \in U
    BY BeforeFacts DEF Before
  <1>2. PICK z \in U : Children(src, z) \cap U = {}
    BY <1>1 DEF Linear
  <1>capital. \A c \in Contents : src[c].capital
    BY DEF Linear
  <1>3. CASE z = at
    BY <1>1, <1>2, <1>3, <1>capital DEF Children
  <1>4. CASE z # at
    <2>1. PICK w \in Before(src, at) : src[w].prev = z
      BY <1>4, ChildBefore
    <2>2. w \in Contents /\ z \in Contents /\ z # 0
      BY <2>1, VersionTypes DEF Before
    <2>3. d \in Before(src, w)
      <3>1. z \in Before(src, w)
        BY <2>1, <2>2, BeforeFacts
      <3>2. Before(src, w) \in SUBSET Contents
            /\ \A y \in Before(src, w) : src[y].prev # 0 => src[y].prev \in Before(src, w)
        BY <2>2, BeforeFacts DEF Before
      <3>3. Before(src, z) \subseteq Before(src, w)
        BY <2>2, <3>1, <3>2, BeforeInduction
      <3> QED BY <3>3
    <2> QED BY <1>2, <1>capital, <2>1, <2>2, <2>3 DEF Children
  <1> QED BY <1>3, <1>4

\* So the walk comes to the end of the chain.
LEMMA WalkEnds ==
  ASSUME NEW src \in [Contents -> Records], Linear(src), NEW c \in Contents
  PROVE  Children(src, LogicalPage(src, c)) = {}
  <1> DEFINE P == [seen \in SUBSET Contents |->
                     {at \in Contents :
                        (\A x \in seen : at \notin Before(src, x)) =>
                          Children(src, Walk(src)[seen][at]) = {}}]
  <1>1. ASSUME NEW seen \in SUBSET Contents, NEW at \in Contents,
               Stops(src, seen, at) \/ NewestChild(src, at) \in P[seen \cup {at}]
        PROVE  at \in P[seen]
    <2> SUFFICES ASSUME \A x \in seen : at \notin Before(src, x)
                 PROVE  Children(src, Walk(src)[seen][at]) = {}
      OBVIOUS
    <2>1. at \notin seen
      BY BeforeFacts
    <2>2. CASE Stops(src, seen, at)
      <3>1. Walk(src)[seen][at] = at
        BY <2>2, WalkFacts
      <3>2. Children(src, at) = {}
        BY <2>1, <2>2 DEF Stops
      <3> QED BY <3>1, <3>2
    <2>3. CASE ~Stops(src, seen, at)
      <3> DEFINE d == NewestChild(src, at)
      <3>1. d \in Contents /\ src[d].prev = at /\ at # 0
        BY <2>3, NewestFacts, VersionTypes DEF Stops
      <3>2. Walk(src)[seen][at] = Walk(src)[seen \cup {at}][d]
        BY <2>3, WalkFacts
      <3>3. d \in P[seen \cup {at}] /\ seen \cup {at} \in SUBSET Contents
        BY <1>1, <2>3
      <3> HIDE DEF d
      <3>4. ASSUME NEW x \in seen \cup {at}
            PROVE  d \notin Before(src, x)
        <4>1. CASE x = at
          BY <3>1, <4>1, NoLoop
        <4>2. CASE x \in seen
          BY <3>1, <4>2, BeforeFacts
        <4> QED BY <4>1, <4>2
      <3>5. Children(src, Walk(src)[seen \cup {at}][d]) = {}
        BY <3>3, <3>4
      <3> QED BY <3>2, <3>5
    <2> QED BY <2>2, <2>3
  <1>2. \A seen \in SUBSET Contents, at \in Contents : at \in P[seen]
    <2> HIDE DEF P
    <2> QED BY <1>1, WalkInduction
  <1>3. c \in P[{}]
    BY <1>2
  <1>4. Children(src, Walk(src)[{}][c]) = {}
    BY <1>3
  <1>5. src[c].capital
    BY DEF Linear
  <1> QED BY <1>4, <1>5, WalkFacts

\* And a chain without forks has one end.
LEMMA OneEnd ==
  ASSUME NEW src \in [Contents -> Records], Linear(src), NEW e \in Contents, NEW f \in Contents,
         Children(src, e) = {}, Children(src, f) = {},
         NEW c \in Contents, c \in Before(src, e), c \in Before(src, f)
  PROVE  e = f
  <1>capital. \A z \in Contents : src[z].capital
    BY DEF Linear
  <1> DEFINE S == {z \in Contents : z \in Before(src, f) => e = f}
  <1>1. e \in S
    <2> SUFFICES ASSUME e \in Before(src, f), e # f PROVE FALSE
      OBVIOUS
    <2>1. PICK w \in Before(src, f) : src[w].prev = e
      BY ChildBefore
    <2> QED BY <1>capital, <2>1 DEF Children, Before
  <1>2. ASSUME NEW y \in S, src[y].prev # 0
        PROVE  src[y].prev \in S
    <2> DEFINE z == src[y].prev
    <2>1. y \in Contents /\ z \in Contents /\ y \in Children(src, z)
      BY <1>2, <1>capital, VersionTypes DEF Children
    <2> SUFFICES ASSUME z \in Before(src, f) PROVE e = f
      BY <2>1
    <2> HIDE DEF z
    <2>2. z # f
      BY <2>1
    <2>3. PICK w \in Before(src, f) : src[w].prev = z
      BY <2>1, <2>2, ChildBefore
    <2>4. w \in Children(src, z)
      BY <1>capital, <2>3 DEF Children, Before
    <2>5. w = y
      <3>1. IsFiniteSet(Children(src, z)) /\ Cardinality(Children(src, z)) \in Nat
            /\ Cardinality(Children(src, z)) <= 1
        BY <2>1, ContentsAssumption, FS_Subset, FS_CardinalityType DEF Linear, Children
      <3>2. Cardinality(Children(src, z)) # 0
        BY <2>4, <3>1, FS_EmptySet
      <3>3. Cardinality(Children(src, z)) = 1
        BY <3>1, <3>2
      <3>4. \E x : Children(src, z) = {x}
        <4> DEFINE D == Children(src, z)
        <4>1. IsFiniteSet(D) /\ Cardinality(D) = 1
          BY <3>1, <3>3
        <4> HIDE DEF D
        <4>2. \E x : D = {x}
          BY <4>1, FS_Singleton, Zenon
        <4> QED BY <4>2 DEF D
      <3> QED BY <2>1, <2>4, <3>4
    <2> QED BY <2>3, <2>5
  <1>3. S \in SUBSET Contents
    OBVIOUS
  <1>4. Before(src, e) \subseteq S
    <2> HIDE DEF S
    <2> QED BY <1>1, <1>2, <1>3, BeforeInduction
  <1> QED BY <1>4

\* Records become versions of one page exactly when PREVVER links connect them,
\* as long as no record has two successors (resolveLogicalPages).
THEOREM Chains == Spec => []ChainsBecomePages
  <1>1. ASSUME PlanKnown, source # <<>>, Linear(source), NEW c \in Contents, NEW d \in Contents
        PROVE  SameChain(c, d) <=> LogicalPage(source, c) = LogicalPage(source, d)
    <2>0. source \in [Contents -> Records]
      BY <1>1 DEF PlanKnown
    <2>capital. \A x \in Contents : source[x].capital
      BY <1>1 DEF Linear
    <2>1. ASSUME SameChain(c, d)
          PROVE  LogicalPage(source, c) = LogicalPage(source, d)
      <3> DEFINE S == {x \in Contents : LogicalPage(source, x) = LogicalPage(source, c)}
      <3>1. ASSUME NEW x \in Contents, source[x].prev # 0
            PROVE  LogicalPage(source, x) = LogicalPage(source, source[x].prev)
        <4> DEFINE z == source[x].prev
                   e == LogicalPage(source, x)
                   f == LogicalPage(source, z)
        <4>1. z \in Contents
          BY <2>0, <3>1, VersionTypes
        <4> HIDE DEF z
        <4>2. /\ e \in Contents /\ Children(source, e) = {} /\ x \in Before(source, e)
              /\ f \in Contents /\ Children(source, f) = {} /\ z \in Before(source, f)
          BY <1>1, <2>0, <2>capital, <4>1, PageTyping, WalkEnds, PagesFollow
        <4> HIDE DEF e, f
        <4>3. z \in Before(source, e)
          BY <2>0, <3>1, <4>2, BeforeFacts DEF z
        <4>4. e = f
          BY <1>1, <2>0, <4>1, <4>2, <4>3, OneEnd
        <4> QED BY <4>4 DEF e, f, z
      <3>2. Closed(S)
        BY <2>0, <3>1, VersionTypes DEF Closed
      <3>3. c \in S /\ S \in SUBSET Contents
        OBVIOUS
      <3> HIDE DEF S
      <3>4. d \in S
        BY <2>1, <3>2, <3>3 DEF SameChain
      <3> QED BY <3>4 DEF S
    <2>2. ASSUME LogicalPage(source, c) = LogicalPage(source, d),
                 NEW S \in SUBSET Contents, Closed(S)
          PROVE  c \in S <=> d \in S
      <3> DEFINE p == LogicalPage(source, c)
                 T == Contents \ S
      <3>1. p \in Contents /\ c \in Before(source, p) /\ d \in Before(source, p)
        BY <2>0, <2>2, <2>capital, PageTyping, PagesFollow
      <3> HIDE DEF p
      <3>2. \A y \in S : source[y].prev # 0 => source[y].prev \in S
        BY <2>2 DEF Closed
      <3>3. \A y \in T : source[y].prev # 0 => source[y].prev \in T
        BY <2>0, <2>2, VersionTypes DEF Closed
      <3>4. p \in S => Before(source, p) \subseteq S
        BY <3>1, <3>2, BeforeInduction
      <3>5. p \in T => Before(source, p) \subseteq T
        <4>1. T \in SUBSET Contents
          OBVIOUS
        <4> HIDE DEF T
        <4> QED BY <3>1, <3>3, <4>1, BeforeInduction
      <3> QED BY <3>1, <3>4, <3>5
    <2> QED BY <2>1, <2>2 DEF SameChain
  <1>2. PlanKnown => ChainsBecomePages
    BY <1>1 DEF ChainsBecomePages
  <1> QED BY <1>2, PlanInv, PTL

-----------------------------------------------------------------------------
(* White space                                                             *)

Word == Nat \ {Space}

\* normalizeText, one character further.
Drops(b, x) == x = Space /\ (b = <<>> \/ Last(b) = Space)
CollapseFurther(text, iter) ==
  [t \in SUBSET DOMAIN text |->
     IF t = {} THEN <<>>
     ELSE IF /\ text[Max(t)] = Space
             /\ iter[t \ {Max(t)}] = <<>> \/ Last(iter[t \ {Max(t)}]) = Space
          THEN iter[t \ {Max(t)}]
          ELSE Append(iter[t \ {Max(t)}], text[Max(t)])]
Collapses(f, text) ==
  /\ f[0] = <<>>
  /\ \A k \in 1..Len(text) :
       f[k] = IF Drops(f[k - 1], text[k]) THEN f[k - 1] ELSE Append(f[k - 1], text[k])

LEMMA CollapseSteps ==
  ASSUME NEW text \in Seq(Nat)
  PROVE  \E f : /\ Collapses(f, text)
                /\ normalizeText(text) =
                     IF f[Len(text)] # <<>> /\ Last(f[Len(text)]) = Space
                     THEN Front(f[Len(text)]) ELSE f[Len(text)]
  <1> DEFINE n == Len(text)
             V == Seq(Nat)
             Step(b, k) == IF text[k] = Space /\ (b = <<>> \/ Last(b) = Space)
                           THEN b ELSE Append(b, text[k])
             step == [p \in V \X (1..n) |-> Step(p[1], p[2])]
             iter == CHOOSE w : w = CollapseFurther(text, w)
  <1>0. n \in Nat /\ DOMAIN text = 1..n /\ \A k \in 1..n : text[k] \in Nat
    OBVIOUS
  <1>1. <<>> \in V /\ step \in [V \X (1..n) -> V]
    <2>1. \A b \in V, k \in 1..n : Step(b, k) \in V
      BY <1>0
    <2> HIDE DEF Step, V
    <2>2. step \in [V \X (1..n) -> V]
      BY <2>1
    <2> QED BY <2>2 DEF V
  <1> HIDE DEF n, V
  <1>2. \E w : w = CollapseFurther(text, w)
    <2>0. PICK w \in [SUBSET (1..n) -> V] : IsFold(w, n, <<>>, step)
      <3> HIDE DEF step
      <3> QED BY <1>0, <1>1, FoldTable
    <2>1. \A t \in SUBSET (1..n) :
            w[t] = IF t = {} THEN <<>> ELSE step[<<w[t \ {Max(t)}], Max(t)>>]
      <3> HIDE DEF step
      <3> QED BY <2>0 DEF IsFold
    <2>2. ASSUME NEW t \in SUBSET (1..n), t # {}
          PROVE  w[t] = Step(w[t \ {Max(t)}], Max(t))
      <3>1. Max(t) \in 1..n
        BY <1>0, <2>2, GreatestIndex
      <3>2. w[t \ {Max(t)}] \in V
        OBVIOUS
      <3>3. step[<<w[t \ {Max(t)}], Max(t)>>] = Step(w[t \ {Max(t)}], Max(t))
        <4> HIDE DEF Step
        <4> QED BY <3>1, <3>2
      <3> HIDE DEF step, Step
      <3> QED BY <2>1, <2>2, <3>3
    <2>3. w = [t \in SUBSET (1..n) |-> w[t]]
      OBVIOUS
    <2>4. w[{}] = <<>>
      BY <2>1
    <2>5. \A t \in SUBSET (1..n) :
            w[t] = IF t = {} THEN <<>> ELSE Step(w[t \ {Max(t)}], Max(t))
      <3> HIDE DEF Step, step
      <3> QED BY <2>2, <2>4
    <2>6. w = CollapseFurther(text, w)
      BY <1>0, <2>3, <2>5 DEF CollapseFurther
    <2> QED BY <2>6
  <1>3. iter = CollapseFurther(text, iter)
    BY <1>2
  <1>4. normalizeText(text) = IF iter[1..n] # <<>> /\ Last(iter[1..n]) = Space
                              THEN Front(iter[1..n]) ELSE iter[1..n]
    BY <1>0 DEF normalizeText, FoldLeft, MapThenFoldSet, CollapseFurther
  <1> HIDE DEF iter
  <1>5. iter[1..0] = <<>>
    BY <1>0, <1>3, FoldChain DEF CollapseFurther
  <1>6. ASSUME NEW k \in 1..n
        PROVE  iter[1..k] = Step(iter[1..(k - 1)], k)
    <2>1. 1..k \in SUBSET (1..n) /\ 1..k # {} /\ Max(1..k) = k /\ (1..k) \ {Max(1..k)} = 1..(k - 1)
      BY <1>0, FoldChain
    <2>2. CollapseFurther(text, iter)[1..k] = Step(iter[1..(k - 1)], k)
      BY <1>0, <2>1 DEF CollapseFurther
    <2> QED BY <1>3, <2>2
  <1> DEFINE f == [k \in 0..n |-> iter[1..k]]
  <1>7. f[0] = <<>> /\ f[n] = iter[1..n]
    BY <1>0, <1>5
  <1>8. \A k \in 1..n : f[k] = Step(f[k - 1], k)
    <2>1. \A k \in 1..n : k \in 0..n /\ k - 1 \in 0..n
      BY <1>0
    <2> HIDE DEF Step
    <2> QED BY <1>6, <2>1
  <1>9. normalizeText(text) = IF f[n] # <<>> /\ Last(f[n]) = Space THEN Front(f[n]) ELSE f[n]
    <2> HIDE DEF f
    <2> QED BY <1>4, <1>7
  <1> HIDE DEF f
  <1> QED BY <1>7, <1>8, <1>9 DEF n, Collapses, Drops

\* Among the first n characters of x: v, v with a space after it, and v and w
\* with a space between them.
Has(x, n, v) == \E a \in 1..n : x[a] = v
Spaced(x, n, v) == \E a, b \in 1..n : a < b /\ x[a] = v /\ x[b] = Space
Parted(x, n, v, w) ==
  \E a, b, c \in 1..n : a < b /\ b < c /\ x[a] = v /\ x[b] = Space /\ x[c] = w

\* No two spaces follow each other, and none begins x.
Tight(x) ==
  \A i \in 1..Len(x) : x[i] = Space => i > 1 /\ x[i - 1] # Space

LEMMA OneMore ==
  ASSUME NEW x, NEW n \in Nat, NEW v, NEW w
  PROVE  /\ Has(x, n + 1, v) <=> Has(x, n, v) \/ x[n + 1] = v
         /\ Spaced(x, n + 1, v) <=> Spaced(x, n, v) \/ (x[n + 1] = Space /\ Has(x, n, v))
         /\ Parted(x, n + 1, v, w) <=> Parted(x, n, v, w) \/ (x[n + 1] = w /\ Spaced(x, n, v))
  <1>1. /\ \A a \in 1..(n + 1) : a \in 1..n \/ a = n + 1
        /\ \A a \in 1..n : a \in 1..(n + 1) /\ a < n + 1
        /\ n + 1 \in 1..(n + 1)
        /\ \A a, b \in 1..(n + 1) : a < b => a \in 1..n
    OBVIOUS
  <1>2. Has(x, n + 1, v) <=> Has(x, n, v) \/ x[n + 1] = v
    BY <1>1 DEF Has
  <1>3. Spaced(x, n + 1, v) <=> Spaced(x, n, v) \/ (x[n + 1] = Space /\ Has(x, n, v))
    BY <1>1 DEF Has, Spaced
  <1>4. ASSUME Parted(x, n + 1, v, w)
        PROVE  Parted(x, n, v, w) \/ (x[n + 1] = w /\ Spaced(x, n, v))
    <2>1. PICK a \in 1..(n + 1), b \in 1..(n + 1), c \in 1..(n + 1) :
            a < b /\ b < c /\ x[a] = v /\ x[b] = Space /\ x[c] = w
      BY <1>4 DEF Parted
    <2>2. a \in 1..n /\ b \in 1..n
      BY <1>1, <2>1
    <2> QED BY <1>1, <2>1, <2>2 DEF Parted, Spaced
  <1>5. ASSUME Parted(x, n, v, w) \/ (x[n + 1] = w /\ Spaced(x, n, v))
        PROVE  Parted(x, n + 1, v, w)
    <2>1. CASE Parted(x, n, v, w)
      BY <1>1, <2>1 DEF Parted
    <2>2. CASE x[n + 1] = w /\ Spaced(x, n, v)
      BY <1>1, <2>2 DEF Parted, Spaced
    <2> QED BY <1>5, <2>1, <2>2
  <1> QED BY <1>2, <1>3, <1>4, <1>5

LEMMA SamePrefix ==
  ASSUME NEW x, NEW y, NEW n \in Nat, \A a \in 1..n : x[a] = y[a], NEW v, NEW w
  PROVE  /\ Has(x, n, v) <=> Has(y, n, v)
         /\ Spaced(x, n, v) <=> Spaced(y, n, v)
         /\ Parted(x, n, v, w) <=> Parted(y, n, v, w)
  BY DEF Has, Spaced, Parted

\* y is the text x up to the amount of white space.
SameWords(x, m, y, n) ==
  \A v, w \in Word : /\ Has(x, m, v) <=> Has(y, n, v)
                     /\ Parted(x, m, v, w) <=> Parted(y, n, v, w)

LEMMA CollapseFacts ==
  ASSUME NEW text \in Seq(Nat), NEW f, Collapses(f, text), NEW k \in 0..Len(text)
  PROVE  /\ f[k] \in Seq(Nat) /\ Tight(f[k])
         /\ SameWords(text, k, f[k], Len(f[k]))
         /\ AscendingIn(text, Word) => AscendingIn(f[k], Word)
  <1> DEFINE n == Len(text)
             Good(i) == /\ f[i] \in Seq(Nat) /\ Tight(f[i])
                        /\ SameWords(text, i, f[i], Len(f[i]))
                        /\ \A v \in Word : Spaced(text, i, v) <=> Spaced(f[i], Len(f[i]), v)
                        /\ AscendingIn(text, Word) => AscendingIn(f[i], Word)
             P == {i \in 0..n : Good(i)}
  <1>0. n \in Nat /\ DOMAIN text = 1..n /\ \A i \in 1..n : text[i] \in Nat
    OBVIOUS
  <1>1. 0 \in P
    <2>1. f[0] = <<>> /\ f[0] \in Seq(Nat) /\ Len(f[0]) = 0 /\ DOMAIN f[0] = {}
      BY DEF Collapses
    <2>2. Good(0)
      BY <2>1 DEF Tight, SameWords, Has, Spaced, Parted, AscendingIn
    <2> HIDE DEF Good
    <2> QED BY <1>0, <2>2
  <1>2. ASSUME NEW i \in 1..n, i - 1 \in P
        PROVE  i \in P
    <2> DEFINE b == f[i - 1]
               m == Len(b)
               c == text[i]
    <2>1. /\ b \in Seq(Nat) /\ Tight(b) /\ SameWords(text, i - 1, b, m)
          /\ \A v \in Word : Spaced(text, i - 1, v) <=> Spaced(b, m, v)
          /\ AscendingIn(text, Word) => AscendingIn(b, Word)
      BY <1>2
    <2>2. f[i] = IF Drops(b, c) THEN b ELSE Append(b, c)
      BY DEF Collapses
    <2>3. m \in Nat /\ DOMAIN b = 1..m /\ c \in Nat /\ i - 1 \in Nat /\ (i - 1) + 1 = i
      BY <1>0, <2>1
    <2> HIDE DEF n, b, c
    <2>4. ASSUME NEW v \in Word, NEW w \in Word
          PROVE  /\ Has(text, i, v) <=> Has(text, i - 1, v) \/ c = v
                 /\ Spaced(text, i, v) <=> Spaced(text, i - 1, v) \/ (c = Space /\ Has(text, i - 1, v))
                 /\ Parted(text, i, v, w) <=> Parted(text, i - 1, v, w) \/ (c = w /\ Spaced(text, i - 1, v))
      BY <2>3, OneMore DEF c
    <2>5. CASE Drops(b, c)
      <3>1. f[i] = b /\ c = Space /\ \A v \in Word : v # c
        BY <2>2, <2>5 DEF Drops, Word
      <3>2. ASSUME NEW v \in Word, Has(b, m, v) PROVE Spaced(b, m, v)
        <4>1. PICK a \in 1..m : b[a] = v
          BY <3>2 DEF Has
        <4>2. b # <<>> /\ b[m] = Space /\ m \in 1..m
          BY <2>1, <2>3, <2>5, <4>1 DEF Drops, Last
        <4>3. a # m
          BY <4>1, <4>2 DEF Word
        <4>4. m \in Nat
          BY <2>3
        <4> HIDE DEF m
        <4>5. a < m
          BY <4>1, <4>3, <4>4
        <4> QED BY <4>1, <4>2, <4>5 DEF Spaced
      <3>3. SameWords(text, i, b, m)
        BY <2>1, <2>4, <3>1 DEF SameWords
      <3>4. \A v \in Word : Spaced(text, i, v) <=> Spaced(b, m, v)
        BY <2>1, <2>4, <3>1, <3>2 DEF SameWords
      <3>5. Good(i)
        BY <2>1, <3>1, <3>3, <3>4
      <3> HIDE DEF Good
      <3> QED BY <3>5 DEF n
    <2>6. CASE ~Drops(b, c)
      <3> DEFINE y == f[i]
      <3>1. /\ y \in Seq(Nat) /\ Len(y) = m + 1 /\ y[m + 1] = c /\ DOMAIN y = 1..(m + 1)
            /\ \A a \in 1..m : y[a] = b[a]
        BY <2>1, <2>2, <2>3, <2>6, AppendProperties, LenProperties
      <3> HIDE DEF y
      <3>2. ASSUME NEW v \in Word, NEW w \in Word
            PROVE  /\ Has(y, m + 1, v) <=> Has(b, m, v) \/ c = v
                   /\ Spaced(y, m + 1, v) <=> Spaced(b, m, v) \/ (c = Space /\ Has(b, m, v))
                   /\ Parted(y, m + 1, v, w) <=> Parted(b, m, v, w) \/ (c = w /\ Spaced(b, m, v))
        <4>1. /\ Has(y, m, v) <=> Has(b, m, v)
              /\ Spaced(y, m, v) <=> Spaced(b, m, v)
              /\ Parted(y, m, v, w) <=> Parted(b, m, v, w)
          BY <2>3, <3>1, SamePrefix
        <4> QED BY <2>3, <3>1, <4>1, OneMore
      <3>3. SameWords(text, i, y, m + 1)
        BY <2>1, <2>4, <3>2 DEF SameWords
      <3>4. \A v \in Word : Spaced(text, i, v) <=> Spaced(y, m + 1, v)
        BY <2>1, <2>4, <3>2 DEF SameWords
      <3>5. Tight(y)
        <4> SUFFICES ASSUME NEW a \in 1..(m + 1), y[a] = Space
                     PROVE  a > 1 /\ y[a - 1] # Space
          BY <3>1 DEF Tight
        <4>1. CASE a \in 1..m
          <5>1. b[a] = Space
            BY <3>1, <4>1
          <5>2. a > 1 /\ b[a - 1] # Space /\ a - 1 \in 1..m
            BY <2>1, <2>3, <4>1, <5>1 DEF Tight
          <5> QED BY <3>1, <5>2
        <4>2. CASE a = m + 1
          <5>1. c = Space /\ b # <<>> /\ Last(b) # Space
            BY <2>6, <3>1, <4>2 DEF Drops
          <5>2. m > 0 /\ b[m] # Space /\ m \in 1..m
            BY <2>1, <2>3, <5>1 DEF Last
          <5> QED BY <2>3, <3>1, <4>2, <5>2
        <4> QED BY <2>3, <4>1, <4>2
      <3>6. ASSUME AscendingIn(text, Word) PROVE AscendingIn(y, Word)
        <4> SUFFICES ASSUME NEW p \in 1..(m + 1), NEW q \in 1..(m + 1), p < q,
                            y[p] \in Word, y[q] \in Word
                     PROVE  y[p] < y[q]
          BY <3>1 DEF AscendingIn
        <4>1. p \in 1..m
          BY <2>3
        <4>2. CASE q \in 1..m
          <5>1. b[p] < b[q]
            BY <2>1, <2>3, <3>1, <3>6, <4>1, <4>2 DEF AscendingIn
          <5> QED BY <3>1, <4>1, <4>2, <5>1
        <4>3. CASE q = m + 1
          <5>1. Has(b, m, y[p])
            BY <3>1, <4>1 DEF Has
          <5>2. Has(text, i - 1, y[p])
            BY <2>1, <5>1 DEF SameWords
          <5>3. PICK a \in 1..(i - 1) : text[a] = y[p]
            BY <5>2 DEF Has
          <5>4. a \in 1..n /\ i \in 1..n /\ a < i /\ y[q] = text[i]
            BY <1>0, <2>3, <3>1, <4>3 DEF n, c
          <5> QED BY <1>0, <3>6, <5>3, <5>4 DEF AscendingIn, n
        <4> QED BY <2>3, <4>2, <4>3
      <3>7. Good(i)
        BY <3>1, <3>3, <3>4, <3>5, <3>6 DEF y
      <3> HIDE DEF Good
      <3> QED BY <3>7 DEF n
    <2> QED BY <2>5, <2>6
  <1>3. \A i \in 0..n : i \in P
    <2> HIDE DEF P, n
    <2> QED BY <1>0, <1>1, <1>2, Upwards
  <1> QED BY <1>3

\* normalizeText keeps the words, their order and what separates them; of the
\* white space it leaves single spaces between words.
LEMMA NormalizeFacts ==
  ASSUME NEW text \in Seq(Nat)
  PROVE  LET y == normalizeText(text) IN
         /\ y \in Seq(Nat) /\ Tight(y) /\ (Len(y) > 0 => y[Len(y)] # Space)
         /\ SameWords(text, Len(text), y, Len(y))
         /\ AscendingIn(text, Word) => AscendingIn(y, Word)
  <1>1. PICK f : /\ Collapses(f, text)
                 /\ normalizeText(text) =
                      IF f[Len(text)] # <<>> /\ Last(f[Len(text)]) = Space
                      THEN Front(f[Len(text)]) ELSE f[Len(text)]
    BY CollapseSteps
  <1> DEFINE b == f[Len(text)]
             n == Len(b)
             y == normalizeText(text)
  <1>2. /\ b \in Seq(Nat) /\ Tight(b) /\ SameWords(text, Len(text), b, n)
        /\ AscendingIn(text, Word) => AscendingIn(b, Word)
    BY <1>1, CollapseFacts
  <1>3. y = IF b # <<>> /\ Last(b) = Space THEN Front(b) ELSE b
    BY <1>1
  <1> HIDE DEF b, y
  <1>4. n \in Nat /\ DOMAIN b = 1..n
    BY <1>2
  <1>5. CASE b # <<>> /\ Last(b) = Space
    <2>1. n \in 1..n /\ b[n] = Space
      BY <1>2, <1>4, <1>5 DEF Last
    <2>2. /\ y \in Seq(Nat) /\ Len(y) = n - 1 /\ DOMAIN y = 1..(n - 1)
          /\ \A i \in 1..(n - 1) : y[i] = b[i]
      BY <1>2, <1>3, <1>4, <1>5, <2>1, SubSeqProperties DEF Front
    <2>3. \A i \in 1..(n - 1) : i \in 1..n /\ (i > 1 => i - 1 \in 1..(n - 1))
      BY <1>4
    <2>4. Tight(y)
      BY <1>2, <2>2, <2>3 DEF Tight
    <2>5. n - 1 > 0 => y[n - 1] # Space
      BY <1>2, <1>4, <2>1, <2>2 DEF Tight
    <2>6. SameWords(text, Len(text), y, n - 1)
      <3> SUFFICES ASSUME NEW v \in Word, NEW w \in Word
                   PROVE  /\ Has(b, n, v) <=> Has(y, n - 1, v)
                          /\ Parted(b, n, v, w) <=> Parted(y, n - 1, v, w)
        BY <1>2 DEF SameWords
      <3>1. b[n] # v /\ b[n] # w /\ n - 1 \in Nat /\ (n - 1) + 1 = n
        BY <1>4, <2>1 DEF Word
      <3> DEFINE k == n - 1
      <3>2. /\ Has(b, n, v) <=> Has(b, n - 1, v)
            /\ Parted(b, n, v, w) <=> Parted(b, n - 1, v, w)
        <4>1. k \in Nat /\ k + 1 = n
          BY <3>1
        <4> HIDE DEF k, n
        <4>2. /\ Has(b, k + 1, v) <=> Has(b, k, v) \/ b[k + 1] = v
              /\ Parted(b, k + 1, v, w) <=> Parted(b, k, v, w) \/ (b[k + 1] = w /\ Spaced(b, k, v))
          BY <4>1, OneMore
        <4>3. /\ Has(b, n, v) <=> Has(b, k, v)
              /\ Parted(b, n, v, w) <=> Parted(b, k, v, w)
          BY <3>1, <4>1, <4>2
        <4> QED BY <4>3 DEF k
      <3>3. /\ Has(b, n - 1, v) <=> Has(y, n - 1, v)
            /\ Parted(b, n - 1, v, w) <=> Parted(y, n - 1, v, w)
        BY <2>2, <3>1, SamePrefix
      <3> QED BY <3>2, <3>3
    <2>7. AscendingIn(text, Word) => AscendingIn(y, Word)
      <3> SUFFICES ASSUME AscendingIn(b, Word), NEW i \in 1..(n - 1), NEW j \in 1..(n - 1),
                          i < j, y[i] \in Word, y[j] \in Word
                   PROVE  y[i] < y[j]
        BY <1>2, <2>2 DEF AscendingIn
      <3>1. i \in 1..n /\ j \in 1..n /\ y[i] = b[i] /\ y[j] = b[j]
        BY <2>2, <2>3
      <3> QED BY <1>4, <3>1 DEF AscendingIn
    <2> QED BY <2>2, <2>4, <2>5, <2>6, <2>7 DEF y
  <1>6. CASE ~(b # <<>> /\ Last(b) = Space)
    <2>1. y = b
      BY <1>3, <1>6
    <2>2. n > 0 => b[n] # Space
      BY <1>2, <1>6 DEF Last
    <2> QED BY <1>2, <2>1, <2>2 DEF y
  <1> QED BY <1>5, <1>6

\* Words of a text whose words ascend: they are listed in that order.
LEMMA WordsFacts ==
  ASSUME NEW x \in Seq(Int), NEW S, AscendingIn(x, Word), \A v \in Word : Has(x, Len(x), v) <=> v \in S
  PROVE  /\ Words(x) \in Seq(Int) /\ Ascending(Words(x))
         /\ ToSet(Words(x)) = S \cap Word
  <1>1. ToSet(x) \cap Word = S \cap Word
    <2>1. DOMAIN x = 1..Len(x)
      OBVIOUS
    <2>2. \A v : v \in ToSet(x) <=> Has(x, Len(x), v)
      BY <2>1 DEF ToSet, Has
    <2> QED BY <2>2
  <1> QED BY <1>1, SelectedFacts DEF Words, Word

-----------------------------------------------------------------------------
(* The elements that are open, and the tokens that are accepted            *)

Change(tok) == CASE tok.token = "start" -> 1 [] tok.token = "end" -> -1 [] OTHER -> 0
DepthFurther(input, i, w) ==
  [j \in 1..i |-> IF j = 1 THEN 0 ELSE w[j - 1] + Change(input[j - 1])]
Deepens(d, input) ==
  d[0] = 0 /\ \A k \in 1..Len(input) : d[k] \in Int /\ d[k] = d[k - 1] + Change(input[k])

LEMMA DepthSteps ==
  ASSUME NEW input \in Seq(Tokens)
  PROVE  \E d : Deepens(d, input) /\ \A i \in 1..(Len(input) + 1) : Depth(input, i) = d[i - 1]
  <1> DEFINE L == Len(input)
             step == [p \in Int \X (1..L) |-> p[1] + Change(input[p[2]])]
  <1>1. L \in Nat /\ \A tok : Change(tok) \in Int
    BY DEF Change
  <1>2. PICK d \in [0..L -> Int] : IsChain(d, L, 0, step)
    <2>1. step \in [Int \X (1..L) -> Int]
      <3> HIDE DEF L
      <3> QED BY <1>1
    <2> DEFINE V == Int
    <2>2. 0 \in V /\ step \in [V \X (1..L) -> V]
      BY <2>1
    <2> HIDE DEF step, L, V
    <2>3. \E d \in [0..L -> V] : IsChain(d, L, 0, step)
      BY <1>1, <2>2, ChainTable
    <2> QED BY <2>3 DEF V
  <1>3. d[0] = 0 /\ \A k \in 1..L : d[k - 1] \in Int /\ d[k] \in Int /\ d[k] = d[k - 1] + Change(input[k])
    <2>1. d[0] = 0
      BY <1>2 DEF IsChain
    <2>2. ASSUME NEW k \in 1..L
          PROVE  d[k - 1] \in Int /\ d[k] \in Int /\ d[k] = d[k - 1] + Change(input[k])
      <3>1. d[k - 1] \in Int /\ d[k] \in Int
        <4>1. k - 1 \in 0..L /\ k \in 0..L
          BY <1>1
        <4> HIDE DEF L, step
        <4> QED BY <1>2, <4>1
      <3>2. step[<<d[k - 1], k>>] = d[k - 1] + Change(input[k])
        BY <3>1
      <3>3. d[k] = step[<<d[k - 1], k>>]
        <4> HIDE DEF step
        <4> QED BY <1>2 DEF IsChain
      <3> QED BY <3>1, <3>2, <3>3
    <2> QED BY <2>1, <2>2
  <1>4. ASSUME NEW i \in 1..(L + 1)
        PROVE  Depth(input, i) = d[i - 1]
    <2> DEFINE w == [j \in 1..i |-> d[j - 1]]
               g == CHOOSE v : v = DepthFurther(input, i, v)
               P == {k \in 0..(i - 1) : g[k + 1] = d[k]}
    <2>0. i \in Nat /\ i - 1 \in Nat /\ (i - 1) + 1 = i /\ i - 1 \in 0..L
      BY <1>1
    <2>1. w = DepthFurther(input, i, w)
      <3>1. ASSUME NEW j \in 1..i
            PROVE  w[j] = IF j = 1 THEN 0 ELSE w[j - 1] + Change(input[j - 1])
        <4>1. CASE j = 1
          <5>1. j - 1 = 0
            BY <4>1
          <5> QED BY <1>3, <4>1, <5>1
        <4>2. CASE j # 1
          <5>1. j - 1 \in 1..i /\ j - 1 \in 1..L
            BY <1>1, <2>0, <4>2
          <5>2. w[j - 1] = d[(j - 1) - 1] /\ w[j] = d[j - 1]
            BY <5>1
          <5> QED BY <1>3, <4>2, <5>1, <5>2
        <4> QED BY <4>1, <4>2
      <3>2. w = [j \in 1..i |-> w[j]]
        OBVIOUS
      <3> HIDE DEF w
      <3> QED BY <3>1, <3>2 DEF DepthFurther
    <2>2. g = DepthFurther(input, i, g)
      BY <2>1
    <2>3. Depth(input, i) = g[i]
      BY DEF Depth, DepthFurther, Change
    <2> HIDE DEF g
    <2>4. \A j \in 1..i : g[j] = IF j = 1 THEN 0 ELSE g[j - 1] + Change(input[j - 1])
      <3>1. \A j \in 1..i : DepthFurther(input, i, g)[j] =
                              IF j = 1 THEN 0 ELSE g[j - 1] + Change(input[j - 1])
        BY DEF DepthFurther
      <3> QED BY <2>2, <3>1
    <2>5. 0 \in P
      <3>1. 1 \in 1..i /\ 0 \in 0..(i - 1) /\ 0 + 1 = 1
        BY <2>0
      <3> QED BY <1>3, <2>4, <3>1
    <2>6. ASSUME NEW k \in 1..(i - 1), k - 1 \in P
          PROVE  k \in P
      <3>1. k + 1 \in 1..i /\ k + 1 # 1 /\ (k + 1) - 1 = k /\ (k - 1) + 1 = k
            /\ k \in 1..L /\ k \in 0..(i - 1)
        BY <1>1, <2>0
      <3>2. g[k + 1] = g[k] + Change(input[k])
        BY <2>4, <3>1
      <3>3. g[k] = d[k - 1]
        BY <2>6, <3>1
      <3> QED BY <1>3, <3>1, <3>2, <3>3
    <2>7. i - 1 \in P
      <3> HIDE DEF P
      <3>1. \A k \in 0..(i - 1) : k \in P
        BY <2>0, <2>5, <2>6, Upwards
      <3> QED BY <2>0, <3>1
    <2> QED BY <2>0, <2>3, <2>7
  <1> QED BY <1>3, <1>4 DEF Deepens

LEMMA LeastIndex ==
  ASSUME NEW s \in SUBSET Nat, s # {}
  PROVE  Min(s) \in s /\ \A y \in s : Min(s) <= y
  <1>1. PICK x \in s : \A y \in s : x <= y
    BY LeastNumber
  <1> QED BY <1>1 DEF Min

\* What the loop reads of a body, d being the depths.
Reading(input, d, n) ==
  /\ n \in 0..Len(input)
  /\ \A k \in 0..n : d[k] \in Nat
  /\ \A k \in 1..n : /\ input[k].token \notin Faults
                     /\ input[k].token = "end" => d[k - 1] # 0
  /\ d[0] = 0 /\ \A k \in 1..n : d[k] = d[k - 1] + Change(input[k])

LEMMA AcceptedFacts ==
  ASSUME NEW input \in Seq(Tokens)
  PROVE  /\ Accepted(input) \in Seq(Tokens)
         /\ \A k \in 1..Len(Accepted(input)) : Accepted(input)[k] = input[k]
         /\ \E d : Reading(input, d, Len(Accepted(input)))
         /\ WellFormed(input) => Accepted(input) = input
  <1> DEFINE L == Len(input)
             n == Len(Accepted(input))
  <1>1. PICK d : Deepens(d, input) /\ \A i \in 1..(L + 1) : Depth(input, i) = d[i - 1]
    BY DepthSteps
  <1>2. L \in Nat /\ DOMAIN input = 1..L
    OBVIOUS
  <1>3. /\ n \in 0..L /\ Accepted(input) \in Seq(Tokens)
        /\ \A k \in 1..n : Accepted(input)[k] = input[k] /\ k \notin Rejected(input)
    <2>1. CASE WellFormed(input)
      BY <1>2, <2>1 DEF Accepted, WellFormed
    <2>2. CASE ~WellFormed(input)
      <3> DEFINE m == Min(Rejected(input))
      <3>1. Rejected(input) \in SUBSET (1..(L + 1)) /\ Rejected(input) # {}
        BY <1>2, <2>2 DEF Rejected, WellFormed
      <3>2. m \in Rejected(input) /\ \A y \in Rejected(input) : m <= y
        <4>1. Rejected(input) \in SUBSET Nat
          BY <1>2, <3>1
        <4> QED BY <3>1, <4>1, LeastIndex
      <3>3. m \in 1..(L + 1)
        BY <3>1, <3>2
      <3> HIDE DEF m
      <3>4. Accepted(input) = SubSeq(input, 1, m - 1)
        BY <2>2 DEF Accepted, m
      <3>5. /\ n = m - 1 /\ Accepted(input) \in Seq(Tokens)
            /\ \A k \in 1..n : Accepted(input)[k] = input[k]
        <4>1. m - 1 \in 0..L /\ \A k \in 1..(m - 1) : k \in 1..L /\ 1 + k - 1 = k
          BY <1>2, <3>3
        <4> HIDE DEF L
        <4> QED BY <1>2, <3>3, <3>4, <4>1, SubSeqProperties
      <3>6. \A k \in 1..n : k \notin Rejected(input)
        BY <1>2, <3>2, <3>3, <3>5
      <3> QED BY <1>2, <3>3, <3>5, <3>6
    <2> QED BY <2>1, <2>2
  <1> HIDE DEF n
  <1>4. ASSUME NEW k \in 1..n
        PROVE  /\ input[k].token \notin Faults /\ (input[k].token = "end" => d[k - 1] # 0)
               /\ d[k] = d[k - 1] + Change(input[k])
    <2>1. k \in 1..L /\ k \in 1..(L + 1) /\ k \notin Rejected(input)
      BY <1>2, <1>3
    <2>2. Depth(input, k) = d[k - 1]
      BY <1>1, <2>1
    <2>3. d[k] = d[k - 1] + Change(input[k])
      BY <1>1, <2>1 DEF Deepens
    <2> QED BY <1>2, <2>1, <2>2, <2>3 DEF Rejected
  <1> DEFINE P == {k \in 0..n : d[k] \in Nat}
  <1>5. 0 \in P
    BY <1>1, <1>2, <1>3 DEF Deepens
  <1>6. ASSUME NEW k \in 1..n, k - 1 \in P
        PROVE  k \in P
    <2>1. d[k - 1] \in Nat /\ k \in 0..n
      BY <1>2, <1>3, <1>6
    <2>2. Change(input[k]) \in Int /\ (Change(input[k]) < 0 => input[k].token = "end" /\ Change(input[k]) = -1)
      BY DEF Change
    <2> QED BY <1>4, <2>1, <2>2
  <1>7. \A k \in 0..n : k \in P
    <2>1. n \in Nat
      BY <1>2, <1>3
    <2> HIDE DEF P
    <2> QED BY <1>5, <1>6, <2>1, Upwards
  <1>8. Reading(input, d, n)
    BY <1>1, <1>3, <1>4, <1>7 DEF Reading, Deepens
  <1>9. WellFormed(input) => Accepted(input) = input
    BY DEF Accepted
  <1> QED BY <1>3, <1>8, <1>9 DEF n

-----------------------------------------------------------------------------
(* The loop over the tokens                                                *)

Types == ElementTypes \cup {"document", "text"}
Names == STRING \cup {"", "unknown"}
Links == [type : {"URL", "PAGE"}, target : STRING]
NodeRecords == [type : Types, text : Seq(Nat), name : Names, parent : Nat]

Reads(r, tokens) ==
  r[0] = Start /\ \A k \in 1..Len(tokens) : r[k] = Read(r[k - 1], tokens[k], k)
ReadFurther(tokens, w) ==
  [i \in 0..Len(tokens) |-> IF i = 0 THEN Start ELSE Read(w[i - 1], tokens[i], i)]

\* What a state of the loop is made of, also if the stack were empty.
Loose ==
  [nodes : Seq([type : Types, text : Seq(Nat), name : Names, parent : Nat \cup {Last(<<>>)}]),
   stack : Seq(Nat), macros : Seq(Names), links : Seq(Links)]

\* The tokens of character data that hold a word.
TextTokens == Text \cup Cdata

LEMMA TokenFacts ==
  ASSUME NEW tok \in Tokens
  PROVE  /\ tok.token \in {"start", "end"} \cup TextTokens \cup {"blank", "newline"} \cup Faults
         /\ tok.token = "start" =>
              /\ tok.type \in ElementTypes /\ tok.type # "text" /\ tok.type # "document"
              /\ tok.type \in Types /\ tok.name \in STRING /\ MacroName(tok) \in Names
  <1>1. ASSUME tok.token = "start"
        PROVE  tok \in [token : {"start"}, type : ElementTypes, name : STRING]
    BY <1>1 DEF Tokens
  <1>2. \A t \in ElementTypes : t # "text" /\ t # "document"
    BY DEF ElementTypes, BlockTypes, VoidTypes
  <1>3. tok.token \in {"start", "end"} \cup TextTokens \cup {"blank", "newline"} \cup Faults
    BY DEF Tokens, TextTokens, Text, Cdata, Faults
  <1>4. tok.name \in STRING => MacroName(tok) \in Names
    BY DEF MacroName, Names
  <1> HIDE DEF ElementTypes
  <1> QED BY <1>1, <1>2, <1>3, <1>4 DEF Types

LEMMA CharDataFacts ==
  ASSUME NEW tok \in Tokens, NEW i \in Nat
  PROVE  /\ CharData(tok, i) \in Seq(Nat)
         /\ \/ tok.token \in TextTokens \ {"wordSpace"} /\ CharData(tok, i) = <<i>>
            \/ tok.token = "wordSpace" /\ CharData(tok, i) = <<i, Space>>
            \/ tok.token = "blank" /\ CharData(tok, i) = <<Space>>
            \/ /\ tok.token \notin TextTokens \cup {"blank"}
               /\ CharData(tok, i) = <<>>
  BY DEF CharData, Space, TextTokens, Text, Cdata

LEMMA ReadTyping ==
  ASSUME NEW s \in Loose, NEW tok \in Tokens, NEW i \in Nat
  PROVE  Read(s, tok, i) \in Loose
  <1> DEFINE N == [type : Types, text : Seq(Nat), name : Names, parent : Nat \cup {Last(<<>>)}]
             V == Seq(Nat)
             T == Seq(Names)
             U == Seq(Links)
  <1>1. /\ s.nodes \in Seq(N) /\ s.stack \in Seq(Nat)
        /\ s.macros \in T /\ s.links \in U
        /\ s = [nodes |-> s.nodes, stack |-> s.stack, macros |-> s.macros, links |-> s.links]
    BY DEF Loose
  <1>2. Last(s.stack) \in Nat \cup {Last(<<>>)}
    <2>1. CASE s.stack = <<>>
      BY <2>1
    <2>2. CASE s.stack # <<>>
      BY <1>1, <2>2 DEF Last
    <2> QED BY <2>1, <2>2
  <1>3. "text" \in Types /\ "" \in Names /\ \A x \in STRING : x \in Names
    BY DEF Types, Names
  <1>4. \A t \in Seq(Nat), x \in Types, y \in Names : Node(x, t, y, Last(s.stack)) \in N
    BY <1>2 DEF Node
  <1>5. startNode(tok, i, Last(s.stack)) \in N \/ tok.token # "start"
    <2>1. <<i>> \in Seq(Nat) /\ <<>> \in Seq(Nat)
      OBVIOUS
    <2> HIDE DEF N
    <2> QED BY <1>3, <1>4, <2>1, TokenFacts DEF startNode
  <1>6. Node("text", CharData(tok, i), "", Last(s.stack)) \in N
    <2> HIDE DEF N
    <2> QED BY <1>3, <1>4, CharDataFacts
  <1>7. \A nodes \in Seq(N), stack \in V, macros \in T, links \in U :
          [nodes |-> nodes, stack |-> stack, macros |-> macros, links |-> links] \in Loose
    BY DEF Loose
  <1> HIDE DEF N
  <1>12. /\ \A x \in Names : Append(s.macros, x) \in T
         /\ \A x \in Links : Append(s.links, x) \in U
    BY <1>1, AppendProperties
  <1>8. CASE tok.token = "start"
    <2>1. /\ Append(s.nodes, startNode(tok, i, Last(s.stack))) \in Seq(N)
          /\ Append(s.stack, Len(s.nodes) + 1) \in V
      BY <1>1, <1>5, <1>8
    <2> DEFINE link == [type |-> LinkTypes[tok.type], target |-> tok.name]
    <2>2. /\ (IF tok.type = "macro" THEN Append(s.macros, MacroName(tok)) ELSE s.macros) \in T
          /\ (IF tok.type \in DOMAIN LinkTypes THEN Append(s.links, link) ELSE s.links) \in U
      <3>1. tok.type \in DOMAIN LinkTypes => link \in Links
        BY <1>8, TokenFacts DEF LinkTypes, Links
      <3>2. MacroName(tok) \in Names
        BY <1>8, TokenFacts
      <3> HIDE DEF link, T, U
      <3> QED BY <1>1, <1>12, <3>1, <3>2
    <2> DEFINE nodes == Append(s.nodes, startNode(tok, i, Last(s.stack)))
               stack == Append(s.stack, Len(s.nodes) + 1)
               macros == IF tok.type = "macro" THEN Append(s.macros, MacroName(tok)) ELSE s.macros
               links == IF tok.type \in DOMAIN LinkTypes THEN Append(s.links, link) ELSE s.links
    <2>3. CharData(tok, i) = <<>>
      BY <1>8 DEF CharData
    <2>4. Read(s, tok, i) = [nodes |-> nodes, stack |-> stack, macros |-> macros, links |-> links]
      <3> HIDE DEF T, U, V
      <3> QED BY <1>8, <2>3 DEF Read
    <2> HIDE DEF link, V, T, U, nodes, stack, macros, links
    <2> QED BY <1>7, <2>1, <2>2, <2>4 DEF nodes, stack, macros, links
  <1>9. CASE tok.token = "end"
    <2>1. Front(s.stack) \in V
      BY <1>1 DEF Front
    <2>2. Read(s, tok, i) = [nodes |-> s.nodes, stack |-> Front(s.stack),
                             macros |-> s.macros, links |-> s.links]
      <3> DEFINE stack == Front(s.stack)
      <3>1. \A x : [s EXCEPT !.stack = x] =
                      [nodes |-> s.nodes, stack |-> x, macros |-> s.macros, links |-> s.links]
        BY <1>1
      <3>2. Read(s, tok, i) = [s EXCEPT !.stack = stack]
        <4>1. CharData(tok, i) = <<>>
          BY <1>9 DEF CharData
        <4> HIDE DEF V, T, U, N
        <4> QED BY <1>9, <4>1 DEF Read
      <3> HIDE DEF stack
      <3>3. Read(s, tok, i) = [nodes |-> s.nodes, stack |-> stack,
                               macros |-> s.macros, links |-> s.links]
        BY <3>1, <3>2
      <3> QED BY <3>3 DEF stack
    <2> DEFINE stack == Front(s.stack)
    <2>3. stack \in V /\ s.macros \in T /\ s.links \in U
      BY <1>1, <2>1
    <2> HIDE DEF V, T, U, stack
    <2>4. [nodes |-> s.nodes, stack |-> stack, macros |-> s.macros, links |-> s.links] \in Loose
      BY <1>1, <1>7, <2>3
    <2> QED BY <2>2, <2>4 DEF stack
  <1>10. CASE tok.token \notin {"start", "end"} /\ CharData(tok, i) # <<>>
    <2> DEFINE nodes == Append(s.nodes, Node("text", CharData(tok, i), "", Last(s.stack)))
    <2>1. nodes \in Seq(N)
      <3> DEFINE z == Node("text", CharData(tok, i), "", Last(s.stack))
      <3>1. z \in N
        BY <1>6
      <3> HIDE DEF z
      <3>2. Append(s.nodes, z) \in Seq(N)
        BY <1>1, <3>1, AppendProperties
      <3> QED BY <3>2 DEF z
    <2>2. Read(s, tok, i) = [nodes |-> nodes, stack |-> s.stack,
                             macros |-> s.macros, links |-> s.links]
      BY <1>1, <1>10 DEF Read
    <2> HIDE DEF nodes
    <2> QED BY <1>1, <1>7, <2>1, <2>2
  <1>11. CASE tok.token \notin {"start", "end"} /\ CharData(tok, i) = <<>>
    BY <1>11 DEF Read
  <1> QED BY <1>8, <1>9, <1>10, <1>11

LEMMA ReadSteps ==
  ASSUME NEW input \in Seq(Tokens)
  PROVE  \E r : /\ Reads(r, Accepted(input)) /\ Parsed(input) = r[Len(Accepted(input))]
                /\ \A k \in 0..Len(Accepted(input)) : r[k] \in Loose
  <1> DEFINE tokens == Accepted(input)
             n == Len(tokens)
             step == [p \in Loose \X (1..n) |-> Read(p[1], tokens[p[2]], p[2])]
             r == CHOOSE w : w = ReadFurther(tokens, w)
  <1>1. n \in Nat /\ tokens \in Seq(Tokens)
    BY AcceptedFacts
  <1>2. Parsed(input) = r[n]
    BY DEF Parsed, ReadFurther
  <1> HIDE DEF tokens
  <1>3. Start \in Loose
    <2>1. Document \in [type : Types, text : Seq(Nat), name : Names,
                        parent : Nat \cup {Last(<<>>)}]
      BY DEF Document, Node, Types, Names
    <2> QED BY <2>1 DEF Start, Loose
  <1>4. step \in [Loose \X (1..n) -> Loose]
    <2>1. \A k \in 1..n : tokens[k] \in Tokens /\ k \in Nat
      BY <1>1
    <2>2. \A s \in Loose, k \in 1..n : Read(s, tokens[k], k) \in Loose
      BY <2>1, ReadTyping
    <2> HIDE DEF n
    <2> QED BY <2>2
  <1>5. PICK w \in [0..n -> Loose] : IsChain(w, n, Start, step)
    <2> HIDE DEF step, n
    <2> QED BY <1>1, <1>3, <1>4, ChainTable
  <1>6. w = ReadFurther(tokens, w)
    <2>1. ASSUME NEW i \in 0..n
          PROVE  w[i] = IF i = 0 THEN Start ELSE Read(w[i - 1], tokens[i], i)
      <3>1. CASE i = 0
        <4> HIDE DEF step
        <4> QED BY <1>5, <3>1 DEF IsChain
      <3>2. CASE i # 0
        <4>1. i \in 1..n /\ i - 1 \in 0..n
          BY <1>1, <3>2
        <4>2. w[i - 1] \in Loose
          BY <1>5, <4>1
        <4>3. step[<<w[i - 1], i>>] = Read(w[i - 1], tokens[i], i)
          BY <4>1, <4>2
        <4>4. w[i] = step[<<w[i - 1], i>>]
          <5> HIDE DEF step
          <5> QED BY <1>5, <4>1 DEF IsChain
        <4> QED BY <3>2, <4>3, <4>4
      <3> QED BY <3>1, <3>2
    <2>2. w = [i \in 0..n |-> w[i]]
      BY <1>5
    <2> QED BY <2>1, <2>2 DEF ReadFurther, n
  <1>7. r = ReadFurther(tokens, r)
    BY <1>6
  <1> HIDE DEF r
  <1>8. \A i \in 0..n : ReadFurther(tokens, r)[i] =
                          IF i = 0 THEN Start ELSE Read(r[i - 1], tokens[i], i)
    BY DEF ReadFurther, n
  <1>9. Reads(r, tokens)
    <2>1. 0 \in 0..n /\ \A k \in 1..n : k \in 0..n /\ k # 0
      BY <1>1
    <2> HIDE DEF n
    <2>2. r[0] = Start /\ \A k \in 1..n : r[k] = Read(r[k - 1], tokens[k], k)
      BY <1>7, <1>8, <2>1
    <2> QED BY <2>2 DEF Reads, n
  <1> DEFINE P == {k \in 0..n : r[k] \in Loose}
  <1>10. \A k \in 0..n : k \in P
    <2>1. 0 \in P
      BY <1>1, <1>3, <1>9 DEF Reads
    <2>2. ASSUME NEW k \in 1..n, k - 1 \in P PROVE k \in P
      <3>1. r[k] = Read(r[k - 1], tokens[k], k) /\ tokens[k] \in Tokens
            /\ r[k - 1] \in Loose /\ k \in Nat /\ k \in 0..n
        BY <1>1, <1>9, <2>2 DEF Reads
      <3> QED BY <3>1, ReadTyping
    <2> HIDE DEF P, n
    <2> QED BY <1>1, <2>1, <2>2, Upwards
  <1> QED BY <1>2, <1>9, <1>10 DEF tokens

-----------------------------------------------------------------------------
(* Trees in the order of a document                                        *)

Childless == Contentless \cup {"text"}
Occurs(v, x) == Has(x, Len(x), v)

\* Every node follows its parent and, once a node is closed, nothing is added
\* to it: no link to a parent crosses another one.
Nested(nodes) ==
  /\ \A n \in 2..Len(nodes) : nodes[n].parent \in 1..(n - 1)
  /\ \A m, q \in 1..Len(nodes) : nodes[m].parent < q /\ q < m => nodes[m].parent <= nodes[q].parent

\* Only texts have text, and its words ascend through the document.
TextsAscend(nodes) ==
  /\ \A n \in 1..Len(nodes) : /\ nodes[n].type # "text" => nodes[n].text = <<>>
                              /\ AscendingIn(nodes[n].text, Word)
  /\ \A m, n \in 1..Len(nodes) : \A v, w \in Word :
       m < n /\ Occurs(v, nodes[m].text) /\ Occurs(w, nodes[n].text) => v < w

IsTree(nodes) ==
  /\ nodes \in Seq(NodeRecords) /\ Len(nodes) >= 1 /\ nodes[1] = Document
  /\ Nested(nodes)
  /\ \A n \in 2..Len(nodes) : nodes[nodes[n].parent].type \notin Childless
  /\ TextsAscend(nodes)

LEMMA DocumentFacts ==
  /\ Document \in NodeRecords /\ Document.type = "document" /\ Document.parent = 0
  /\ Document.text = <<>> /\ Document.type \notin Childless
  BY DEF Document, Node, NodeRecords, Types, Names, Childless, Contentless, VoidTypes

LEMMA DocumentAlone == IsTree(<<Document>>)
  <1>1. <<Document>> \in Seq(NodeRecords) /\ Len(<<Document>>) = 1 /\ <<Document>>[1] = Document
    BY DocumentFacts
  <1>2. 2..1 = {} /\ 1..1 = {1}
    OBVIOUS
  <1> DEFINE nodes == <<Document>>
  <1>3. Len(nodes) = 1 /\ nodes[1] = Document /\ nodes \in Seq(NodeRecords)
    BY <1>1
  <1> HIDE DEF nodes
  <1>4. Nested(nodes)
    BY <1>2, <1>3 DEF Nested
  <1>5. TextsAscend(nodes)
    <2>1. AscendingIn(<<>>, Word)
      BY DEF AscendingIn
    <2> QED BY <1>2, <1>3, <2>1, DocumentFacts DEF TextsAscend
  <1>6. IsTree(nodes)
    BY <1>2, <1>3, <1>4, <1>5 DEF IsTree
  <1> QED BY <1>6 DEF nodes

\* A node is added to one that is still open.
LEMMA NodeAdded ==
  ASSUME NEW nodes, IsTree(nodes), NEW x \in NodeRecords, x.parent \in 1..Len(nodes),
         nodes[x.parent].type \notin Childless,
         \A q \in 1..Len(nodes) : q > x.parent => nodes[q].parent >= x.parent,
         x.type # "text" => x.text = <<>>, AscendingIn(x.text, Word),
         \A m \in 1..Len(nodes) : \A v, w \in Word :
           Occurs(v, nodes[m].text) /\ Occurs(w, x.text) => v < w
  PROVE  IsTree(Append(nodes, x))
  <1> DEFINE N == Len(nodes)
             longer == Append(nodes, x)
  <1>1. /\ nodes \in Seq(NodeRecords) /\ N \in Nat /\ N >= 1 /\ nodes[1] = Document
        /\ Nested(nodes) /\ TextsAscend(nodes)
        /\ \A n \in 2..N : nodes[nodes[n].parent].type \notin Childless
    BY DEF IsTree
  <1>2. /\ longer \in Seq(NodeRecords) /\ Len(longer) = N + 1 /\ longer[N + 1] = x
        /\ \A n \in 1..N : longer[n] = nodes[n]
    BY <1>1, AppendProperties, LenProperties
  <1>3. \A n \in 1..(N + 1) : n \in 1..N \/ n = N + 1
    BY <1>1
  <1>4. \A n \in 1..N : nodes[n].parent \in Nat /\ (n # 1 => n \in 2..N /\ nodes[n].parent \in 1..N)
    <2>1. \A n \in 1..N : nodes[n] \in NodeRecords
      BY <1>1
    <2>2. \A n \in 2..N : n - 1 \in 1..N /\ nodes[n].parent \in 1..(n - 1)
      BY <1>1 DEF Nested
    <2>3. ASSUME NEW y \in NodeRecords PROVE y.parent \in Nat
      BY DEF NodeRecords
    <2>4. \A n \in 1..N : nodes[n].parent \in Nat
      BY <2>1, <2>3
    <2>5. ASSUME NEW n \in 1..N, n # 1 PROVE n \in 2..N /\ nodes[n].parent \in 1..N
      <3>1. n \in 2..N
        BY <1>1, <2>5
      <3> QED BY <1>1, <2>2, <3>1
    <2> QED BY <2>4, <2>5
  <1> HIDE DEF longer
  <1>5. Nested(longer)
    <2>1. ASSUME NEW n \in 2..(N + 1) PROVE longer[n].parent \in 1..(n - 1)
      <3>1. CASE n = N + 1
        BY <1>1, <1>2, <3>1
      <3>2. CASE n # N + 1
        <4>1. n \in 2..N /\ n \in 1..N
          BY <1>1, <3>2
        <4> QED BY <1>1, <1>2, <4>1 DEF Nested
      <3> QED BY <3>1, <3>2
    <2>2. ASSUME NEW m \in 1..(N + 1), NEW q \in 1..(N + 1), longer[m].parent < q, q < m
          PROVE  longer[m].parent <= longer[q].parent
      <3>1. q \in 1..N
        BY <1>1, <2>2
      <3>2. CASE m = N + 1
        BY <1>1, <1>2, <1>4, <2>2, <3>1, <3>2
      <3>3. CASE m \in 1..N
        BY <1>1, <1>2, <2>2, <3>1, <3>3 DEF Nested
      <3> QED BY <1>3, <3>2, <3>3
    <2> QED BY <1>2, <2>1, <2>2 DEF Nested
  <1>6. ASSUME NEW n \in 2..(N + 1) PROVE longer[longer[n].parent].type \notin Childless
    <2>1. CASE n = N + 1
      BY <1>2, <2>1
    <2>2. CASE n # N + 1
      <3>1. n \in 2..N /\ n \in 1..N /\ nodes[n].parent \in 1..N
        BY <1>1, <1>4, <2>2
      <3> QED BY <1>1, <1>2, <3>1
    <2> QED BY <2>1, <2>2
  <1>7. TextsAscend(longer)
    <2>1. ASSUME NEW n \in 1..(N + 1)
          PROVE  /\ longer[n].type # "text" => longer[n].text = <<>>
                 /\ AscendingIn(longer[n].text, Word)
      BY <1>1, <1>2, <1>3 DEF TextsAscend
    <2>2. ASSUME NEW m \in 1..(N + 1), NEW n \in 1..(N + 1), NEW v \in Word, NEW w \in Word,
                 m < n, Occurs(v, longer[m].text), Occurs(w, longer[n].text)
          PROVE  v < w
      <3>1. m \in 1..N /\ longer[m] = nodes[m]
        BY <1>1, <1>2, <2>2
      <3>2. CASE n = N + 1
        BY <1>2, <2>2, <3>1, <3>2
      <3>3. CASE n \in 1..N
        <4>1. longer[n] = nodes[n]
          BY <1>2, <3>3
        <4> QED BY <1>1, <2>2, <3>1, <3>3, <4>1 DEF TextsAscend
      <3> QED BY <1>3, <3>2, <3>3
    <2> QED BY <1>2, <2>1, <2>2 DEF TextsAscend
  <1>8. longer[1] = Document /\ N + 1 >= 1
    BY <1>1, <1>2
  <1>9. IsTree(longer)
    BY <1>2, <1>5, <1>6, <1>7, <1>8 DEF IsTree
  <1> QED BY <1>9 DEF longer

IsWordToken(tok) == tok.token \in TextTokens \/ IsEmoticon(tok)

\* The text of the node that a token makes.
NewText(tok, i) ==
  IF tok.token = "start" THEN IF tok.type = "emoticon" THEN <<i>> ELSE <<>> ELSE CharData(tok, i)

\* A word ends the text it is in, or a space after it does.
Shape(text) == \/ text = <<>> \/ text = <<Space>>
               \/ \E i \in Word : text = <<i>> \/ text = <<i, Space>>

LEMMA NewTextFacts ==
  ASSUME NEW tok \in Tokens, NEW i \in Word
  PROVE  /\ NewText(tok, i) \in Seq(Nat) /\ AscendingIn(NewText(tok, i), Word)
         /\ Shape(NewText(tok, i))
         /\ \A v \in Word : Occurs(v, NewText(tok, i)) <=> v = i /\ IsWordToken(tok)
  <1> DEFINE text == NewText(tok, i)
  <1>1. i \in Nat /\ i # Space /\ \A v \in Word : v \in Nat /\ v # Space
    BY DEF Word
  <1>2. \/ text = <<i>> /\ IsWordToken(tok)
        \/ text = <<i, Space>> /\ IsWordToken(tok)
        \/ text = <<Space>> /\ ~IsWordToken(tok)
        \/ text = <<>> /\ ~IsWordToken(tok)
    <2>1. CASE tok.token = "start"
      BY <2>1 DEF NewText, IsWordToken, IsEmoticon, TextTokens, Text, Cdata
    <2>2. CASE tok.token # "start"
      <3>1. "wordSpace" \in TextTokens /\ "blank" \notin TextTokens
        BY DEF TextTokens, Text, Cdata
      <3> QED BY <1>1, <2>2, <3>1, CharDataFacts DEF NewText, IsWordToken, IsEmoticon
    <2> QED BY <2>1, <2>2
  <1> HIDE DEF text
  <1>3. CASE text = <<i>> /\ IsWordToken(tok)
    <2>1. Len(text) = 1 /\ text[1] = i /\ DOMAIN text = 1..1 /\ 1..1 = {1} /\ text \in Seq(Nat)
      BY <1>1, <1>3
    <2> QED BY <1>1, <1>3, <2>1 DEF Occurs, Has, AscendingIn, Shape, text
  <1>4. CASE text = <<i, Space>> /\ IsWordToken(tok)
    <2>1. /\ Len(text) = 2 /\ text[1] = i /\ text[2] = Space /\ DOMAIN text = 1..2
          /\ 1..2 = {1, 2} /\ text \in Seq(Nat)
      BY <1>1, <1>4 DEF Space
    <2>2. Space \notin Word
      BY DEF Word
    <2> QED BY <1>1, <1>4, <2>1, <2>2 DEF Occurs, Has, AscendingIn, Shape, text
  <1>5. CASE text = <<Space>> /\ ~IsWordToken(tok)
    <2>1. Len(text) = 1 /\ text[1] = Space /\ DOMAIN text = 1..1 /\ 1..1 = {1} /\ text \in Seq(Nat)
      BY <1>1, <1>5 DEF Space
    <2> QED BY <1>1, <1>5, <2>1 DEF Occurs, Has, AscendingIn, Shape, text
  <1>6. CASE text = <<>> /\ ~IsWordToken(tok)
    <2>1. Len(text) = 0 /\ DOMAIN text = {} /\ 1..0 = {} /\ text \in Seq(Nat)
      BY <1>6
    <2> QED BY <1>1, <1>6, <2>1 DEF Occurs, Has, AscendingIn, Shape, text
  <1> QED BY <1>2, <1>3, <1>4, <1>5, <1>6

\* The stack: the nodes of the elements that are open, the innermost last.
OpenElements(nodes, stack, depth) ==
  /\ stack \in Seq(Nat) /\ Len(stack) = depth + 1
  /\ \A a \in 1..Len(stack) : stack[a] \in 1..Len(nodes)
  /\ \A a, b \in 1..Len(stack) : a < b => stack[a] < stack[b]
  /\ \A a \in 1..Len(stack) : \A q \in 1..Len(nodes) :
       q > stack[a] => nodes[q].parent >= stack[a]

\* An element without content is closed by the next token.
ChildlessTop(nodes, stack, text, k) ==
  \A a \in 1..Len(stack) :
    nodes[stack[a]].type \in Childless => a = Len(stack) /\ k > 0 /\ IsContentless(text[k])

WordsRead(nodes, text, k) ==
  /\ \A n \in 1..Len(nodes) : Shape(nodes[n].text)
  /\ \A v \in Word : (\E n \in 1..Len(nodes) : Occurs(v, nodes[n].text))
                     <=> v <= k /\ IsWordToken(text[v])

LEMMA NodeMade ==
  ASSUME NEW nodes, NEW stack, NEW depth \in Nat, NEW text, NEW k \in Word, text[k] \in Tokens,
         IsTree(nodes), OpenElements(nodes, stack, depth), WordsRead(nodes, text, k - 1),
         NEW x \in NodeRecords, x.parent = Last(stack), nodes[Last(stack)].type \notin Childless,
         x.text = NewText(text[k], k), x.type # "text" => x.text = <<>>
  PROVE  /\ IsTree(Append(nodes, x))
         /\ OpenElements(Append(nodes, x), stack, depth)
         /\ WordsRead(Append(nodes, x), text, k)
         /\ Len(Append(nodes, x)) = Len(nodes) + 1
         /\ \A n \in 1..Len(nodes) : Append(nodes, x)[n] = nodes[n]
         /\ Append(nodes, x)[Len(nodes) + 1] = x
  <1> DEFINE N == Len(nodes)
             longer == Append(nodes, x)
             top == Last(stack)
  <1>1. nodes \in Seq(NodeRecords) /\ N \in Nat /\ N >= 1 /\ k \in Nat /\ k > 0
    BY DEF IsTree, Word, Space
  <1>2. /\ longer \in Seq(NodeRecords) /\ Len(longer) = N + 1 /\ longer[N + 1] = x
        /\ \A n \in 1..N : longer[n] = nodes[n]
    BY <1>1, AppendProperties, LenProperties
  <1>3. \A n \in 1..(N + 1) : n \in 1..N \/ n = N + 1
    BY <1>1
  <1>4. /\ depth + 1 \in 1..(depth + 1) /\ top = stack[depth + 1] /\ Len(stack) = depth + 1
        /\ top \in 1..N
    BY DEF OpenElements, Last
  <1>5. \A a \in 1..(depth + 1) : stack[a] \in 1..N /\ stack[a] <= top
    <2>1. \A a \in 1..(depth + 1) : stack[a] \in 1..N
      BY <1>4 DEF OpenElements
    <2>2. \A a \in 1..(depth + 1) : a # depth + 1 => stack[a] < stack[depth + 1]
      BY <1>4 DEF OpenElements
    <2> QED BY <1>1, <1>4, <2>1, <2>2
  <1>6. IsTree(longer)
    <2>1. \A q \in 1..N : q > x.parent => nodes[q].parent >= x.parent
      BY <1>4 DEF OpenElements
    <2>2. ASSUME NEW m \in 1..N, NEW v \in Word, NEW w \in Word,
                 Occurs(v, nodes[m].text), Occurs(w, x.text)
          PROVE  v < w
      <3>1. w = k
        BY <2>2, NewTextFacts
      <3>2. v <= k - 1
        BY <2>2 DEF WordsRead
      <3> QED BY <1>1, <3>1, <3>2 DEF Word
    <2>3. AscendingIn(x.text, Word)
      BY NewTextFacts
    <2> HIDE DEF N, top
    <2> QED BY <1>4, <2>1, <2>2, <2>3, NodeAdded DEF N, top
  <1> HIDE DEF longer
  <1>7. OpenElements(longer, stack, depth)
    <2>1. ASSUME NEW a \in 1..Len(stack), NEW q \in 1..(N + 1), q > stack[a]
          PROVE  longer[q].parent >= stack[a]
      <3>1. CASE q \in 1..N
        BY <1>2, <2>1, <3>1 DEF OpenElements
      <3>2. CASE q = N + 1
        BY <1>1, <1>2, <1>4, <1>5, <3>2
      <3> QED BY <1>3, <3>1, <3>2
    <2>2. \A a \in 1..Len(stack) : stack[a] \in 1..(N + 1)
      BY <1>1, <1>4, <1>5
    <2> QED BY <1>2, <2>1, <2>2 DEF OpenElements
  <1>8. WordsRead(longer, text, k)
    <2>1. \A n \in 1..(N + 1) : Shape(longer[n].text)
      BY <1>2, <1>3, NewTextFacts DEF WordsRead
    <2>2. ASSUME NEW v \in Word
          PROVE  (\E n \in 1..(N + 1) : Occurs(v, longer[n].text)) <=> v <= k /\ IsWordToken(text[v])
      <3>1. Occurs(v, x.text) <=> v = k /\ IsWordToken(text[k])
        BY NewTextFacts
      <3>2. (\E n \in 1..N : Occurs(v, nodes[n].text)) <=> v <= k - 1 /\ IsWordToken(text[v])
        BY DEF WordsRead
      <3>3. (\E n \in 1..(N + 1) : Occurs(v, longer[n].text))
              <=> Occurs(v, x.text) \/ \E n \in 1..N : Occurs(v, nodes[n].text)
        <4>1. N + 1 \in 1..(N + 1) /\ \A n \in 1..N : n \in 1..(N + 1)
          BY <1>1
        <4> QED BY <1>2, <1>3, <4>1
      <3>4. v <= k <=> v = k \/ v <= k - 1
        BY <1>1 DEF Word
      <3>5. ~(v = k /\ v <= k - 1)
        BY <1>1
      <3> QED BY <3>1, <3>2, <3>3, <3>4, <3>5
    <2> QED BY <1>2, <2>1, <2>2 DEF WordsRead
  <1> QED BY <1>2, <1>6, <1>7, <1>8 DEF longer

Grown(s, text, depth, k) ==
  /\ IsTree(s.nodes) /\ OpenElements(s.nodes, s.stack, depth)
  /\ ChildlessTop(s.nodes, s.stack, text, k) /\ WordsRead(s.nodes, text, k)

LEMMA StartGrown == ASSUME NEW text PROVE Grown(Start, text, 0, 0)
  <1> DEFINE nodes == <<Document>>
             stack == <<1>>
  <1>1. Len(nodes) = 1 /\ nodes[1] = Document /\ 1..1 = {1} /\ Len(stack) = 1 /\ stack[1] = 1
        /\ stack \in Seq(Nat) /\ Start.nodes = nodes /\ Start.stack = stack
    BY DEF Start
  <1>2. IsTree(nodes)
    BY DocumentAlone
  <1> HIDE DEF nodes, stack
  <1>3. OpenElements(nodes, stack, 0)
    BY <1>1 DEF OpenElements
  <1>4. ChildlessTop(nodes, stack, text, 0)
    BY <1>1, DocumentFacts DEF ChildlessTop
  <1>5. WordsRead(nodes, text, 0)
    <2>1. Document.text = <<>> /\ Len(Document.text) = 0 /\ Shape(Document.text)
      BY DocumentFacts DEF Shape
    <2>2. \A v \in Word : ~Occurs(v, Document.text) /\ ~(v <= 0)
      BY <2>1 DEF Occurs, Has, Word, Space
    <2> QED BY <1>1, <2>1, <2>2 DEF WordsRead
  <1> QED BY <1>1, <1>2, <1>3, <1>4, <1>5 DEF Grown

LEMMA ReadGrows ==
  ASSUME NEW text \in Bodies, NEW d, NEW n, Reading(text, d, n), NEW k \in 1..n,
         NEW s \in Loose, Grown(s, text, d[k - 1], k - 1)
  PROVE  Grown(Read(s, text[k], k), text, d[k], k)
  <1> DEFINE tok == text[k]
             nodes == s.nodes
             stack == s.stack
             N == Len(nodes)
             depth == d[k - 1]
  <1>1. /\ text \in Seq(Tokens) /\ Len(text) \in Nat /\ DOMAIN text = 1..Len(text)
        /\ n \in 0..Len(text) /\ k \in 1..Len(text) /\ tok \in Tokens /\ k \in Word /\ k - 1 \in 0..n
    <2>1. text \in Seq(Tokens) /\ n \in 0..Len(text)
      BY DEF Bodies, Reading
    <2>2. Len(text) \in Nat /\ DOMAIN text = 1..Len(text)
      BY <2>1
    <2>3. k \in 1..Len(text) /\ k \in Nat /\ k # 0 /\ k - 1 \in 0..n
      BY <2>1, <2>2
    <2> QED BY <2>1, <2>2, <2>3 DEF Word, Space
  <1>2. /\ depth \in Nat /\ d[k] = depth + Change(tok) /\ d[k] \in Nat
        /\ tok.token = "end" => depth # 0
    BY <1>1 DEF Reading
  <1>3. /\ IsTree(nodes) /\ OpenElements(nodes, stack, depth)
        /\ ChildlessTop(nodes, stack, text, k - 1) /\ WordsRead(nodes, text, k - 1)
    BY DEF Grown
  <1>4. /\ stack \in Seq(Nat) /\ Len(stack) = depth + 1 /\ stack # <<>>
        /\ Last(stack) = stack[depth + 1] /\ Last(stack) \in 1..N /\ N \in Nat
    <2>1. stack \in Seq(Nat) /\ Len(stack) = depth + 1
      BY <1>3 DEF OpenElements
    <2>2. depth + 1 \in 1..Len(stack) /\ stack # <<>> /\ Last(stack) = stack[depth + 1]
      BY <1>2, <2>1 DEF Last
    <2>3. Last(stack) \in 1..N
      BY <1>3, <2>2 DEF OpenElements
    <2>4. N \in Nat
      BY <1>3 DEF IsTree
    <2> QED BY <2>1, <2>2, <2>3, <2>4
  <1>5. /\ Change(tok) = (CASE tok.token = "start" -> 1 [] tok.token = "end" -> -1 [] OTHER -> 0)
    BY DEF Change
  <1> HIDE DEF tok, nodes, stack, N, depth
  <1>11. k \in Nat /\ Last(stack) \in Nat
    BY <1>1, <1>4 DEF Word
  <1>6. tok.token # "end" => \A a \in 1..Len(stack) : nodes[stack[a]].type \notin Childless
    <2> SUFFICES ASSUME tok.token # "end", NEW a \in 1..Len(stack),
                        nodes[stack[a]].type \in Childless
                 PROVE  FALSE
      OBVIOUS
    <2>1. k - 1 > 0 /\ IsContentless(text[k - 1])
      BY <1>3 DEF ChildlessTop
    <2>2. k - 1 \in DOMAIN text /\ (k - 1) + 1 = k
      BY <1>1, <2>1
    <2>3. text[k].token = "end"
      BY <2>1, <2>2 DEF Bodies
    <2> QED BY <2>3 DEF tok
  <1>7. CASE tok.token = "start"
    <2> DEFINE x == startNode(tok, k, Last(stack))
               longer == Append(nodes, x)
               deeper == Append(stack, N + 1)
    <2>1. /\ x \in NodeRecords /\ x.parent = Last(stack) /\ x.text = NewText(tok, k)
          /\ x.type # "text" => x.text = <<>>
          /\ x.type \in Childless => IsContentless(tok)
      <3>1. /\ tok.type \in Types /\ tok.name \in Names /\ tok.type # "text" /\ "text" \in Types
            /\ "" \in Names /\ <<k>> \in Seq(Nat) /\ <<>> \in Seq(Nat) /\ Last(stack) \in Nat
        <4>1. /\ tok.type \in Types /\ tok.name \in STRING /\ tok.type # "text"
          BY <1>1, <1>7, TokenFacts
        <4>2. "text" \in Types /\ "" \in Names /\ tok.name \in Names
          BY <4>1 DEF Names, Types
        <4>3. <<k>> \in Seq(Nat) /\ <<>> \in Seq(Nat)
          BY <1>11
        <4> QED BY <1>11, <4>1, <4>2, <4>3
      <3>2. CASE tok.type = "emoticon"
        <4>1. x = [type |-> "text", text |-> <<k>>, name |-> "", parent |-> Last(stack)]
          BY <3>2 DEF startNode, Node
        <4>2. NewText(tok, k) = <<k>> /\ IsContentless(tok)
          BY <1>7, <3>2 DEF NewText, IsContentless, Contentless
        <4> HIDE DEF x
        <4> QED BY <3>1, <4>1, <4>2 DEF NodeRecords
      <3>3. CASE tok.type # "emoticon"
        <4> DEFINE name == IF tok.type = "macro" THEN MacroName(tok) ELSE tok.name
        <4>1. x = [type |-> tok.type, text |-> <<>>, name |-> name, parent |-> Last(stack)]
          BY <3>3 DEF startNode, Node
        <4>2. NewText(tok, k) = <<>> /\ (tok.type \in Childless => IsContentless(tok))
          BY <1>7, <3>1, <3>3 DEF NewText, IsContentless, Childless
        <4>3. name \in Names
          BY <1>1, <1>7, <3>1, TokenFacts
        <4> HIDE DEF x, name
        <4> QED BY <3>1, <4>1, <4>2, <4>3 DEF NodeRecords
      <3> QED BY <3>2, <3>3
    <2> HIDE DEF x
    <2>2. nodes[Last(stack)].type \notin Childless
      <3>1. depth + 1 \in 1..Len(stack)
        BY <1>2, <1>4
      <3> QED BY <1>4, <1>6, <1>7, <3>1
    <2>3. /\ IsTree(longer) /\ OpenElements(longer, stack, depth) /\ WordsRead(longer, text, k)
          /\ Len(longer) = N + 1 /\ \A m \in 1..N : longer[m] = nodes[m]
          /\ longer[N + 1] = x
      BY <1>1, <1>2, <1>3, <2>1, <2>2, NodeMade DEF N, tok
    <2>4. /\ deeper \in Seq(Nat) /\ Len(deeper) = depth + 2 /\ deeper[depth + 2] = N + 1
          /\ \A a \in 1..(depth + 1) : deeper[a] = stack[a]
      BY <1>2, <1>4
    <2> HIDE DEF longer, deeper
    <2>5. \A a \in 1..(depth + 2) : a \in 1..(depth + 1) \/ a = depth + 2
      BY <1>2
    <2>6. \A a \in 1..(depth + 1) : stack[a] \in 1..N
      BY <1>3, <1>4 DEF OpenElements
    <2>7. OpenElements(longer, deeper, depth + 1)
      <3>1. \A a \in 1..(depth + 2) : deeper[a] \in 1..(N + 1)
        <4>1. \A a \in 1..(depth + 1) : deeper[a] \in 1..(N + 1)
          BY <1>4, <2>4, <2>6
        <4>2. deeper[depth + 2] \in 1..(N + 1)
          BY <1>4, <2>4
        <4> QED BY <2>5, <4>1, <4>2
      <3>2. ASSUME NEW a \in 1..(depth + 2), NEW b \in 1..(depth + 2), a < b
            PROVE  deeper[a] < deeper[b]
        <4>1. a \in 1..(depth + 1)
          BY <1>2, <3>2
        <4>2. CASE b = depth + 2
          BY <1>4, <2>4, <2>6, <4>1, <4>2
        <4>3. CASE b \in 1..(depth + 1)
          <5>1. stack[a] < stack[b]
            BY <1>3, <1>4, <3>2, <4>1, <4>3 DEF OpenElements
          <5> QED BY <2>4, <4>1, <4>3, <5>1
        <4> QED BY <2>5, <4>2, <4>3
      <3>3. ASSUME NEW a \in 1..(depth + 2), NEW q \in 1..(N + 1), q > deeper[a]
            PROVE  longer[q].parent >= deeper[a]
        <4>1. CASE a = depth + 2
          BY <1>4, <2>4, <3>3, <4>1
        <4>2. CASE a \in 1..(depth + 1)
          <5>1. q > stack[a]
            BY <2>4, <3>3, <4>2
          <5>2. longer[q].parent >= stack[a]
            BY <1>4, <2>3, <4>2, <5>1 DEF OpenElements
          <5> QED BY <2>4, <4>2, <5>2
        <4> QED BY <2>5, <4>1, <4>2
      <3>4. Len(deeper) = (depth + 1) + 1
        BY <1>2, <2>4
      <3> QED BY <2>3, <2>4, <3>1, <3>2, <3>3, <3>4 DEF OpenElements
    <2>8. ChildlessTop(longer, deeper, text, k)
      <3>1. ASSUME NEW a \in 1..(depth + 2), longer[deeper[a]].type \in Childless
            PROVE  a = depth + 2 /\ k > 0 /\ IsContentless(text[k])
        <4>1. a \notin 1..(depth + 1)
          <5> SUFFICES ASSUME a \in 1..(depth + 1) PROVE FALSE
            OBVIOUS
          <5>1. longer[deeper[a]] = nodes[stack[a]]
            BY <2>3, <2>4, <2>6
          <5> QED BY <1>4, <1>6, <1>7, <3>1, <5>1
        <4>2. a = depth + 2 /\ IsContentless(tok)
          BY <2>1, <2>3, <2>4, <2>5, <3>1, <4>1
        <4> QED BY <1>1, <4>2 DEF tok
      <3> QED BY <2>4, <3>1 DEF ChildlessTop
    <2>9. Read(s, tok, k).nodes = longer /\ Read(s, tok, k).stack = deeper
      <3>1. CharData(tok, k) = <<>> /\ tok.token # "end"
        BY <1>7 DEF CharData
      <3> QED BY <1>7, <3>1 DEF Read, longer, deeper, nodes, stack, N, x
    <2>10. d[k] = depth + 1
      BY <1>2, <1>5, <1>7
    <2> QED BY <2>3, <2>7, <2>8, <2>9, <2>10 DEF Grown, tok
  <1>8. CASE tok.token = "end"
    <2> DEFINE shorter == Front(stack)
    <2>1. depth \in Nat /\ depth # 0
      BY <1>2, <1>8
    <2>2. /\ shorter \in Seq(Nat) /\ Len(shorter) = depth
          /\ \A a \in 1..depth : shorter[a] = stack[a] /\ a \in 1..(depth + 1)
      <3>1. shorter = SubSeq(stack, 1, depth)
        BY <1>4, <2>1 DEF Front
      <3>2. \A a \in 1..depth : a \in 1..(depth + 1) /\ 1 + a - 1 = a
        BY <2>1
      <3> HIDE DEF shorter
      <3> QED BY <1>4, <2>1, <3>1, <3>2, SubSeqProperties
    <2> HIDE DEF shorter
    <2>3. d[k] = depth - 1 /\ Len(shorter) = (depth - 1) + 1
      BY <1>2, <1>5, <1>8, <2>1, <2>2
    <2>4. OpenElements(nodes, shorter, depth - 1)
      <3>1. \A a \in 1..depth : shorter[a] \in 1..N
        BY <1>3, <1>4, <2>2 DEF OpenElements, N
      <3>2. \A a, b \in 1..depth : a < b => shorter[a] < shorter[b]
        BY <1>3, <1>4, <2>2 DEF OpenElements
      <3>3. \A a \in 1..depth : \A q \in 1..N : q > shorter[a] => nodes[q].parent >= shorter[a]
        BY <1>3, <1>4, <2>2 DEF OpenElements, N
      <3> QED BY <2>2, <2>3, <3>1, <3>2, <3>3 DEF OpenElements, N
    <2>5. ChildlessTop(nodes, shorter, text, k)
      <3> SUFFICES ASSUME NEW a \in 1..depth, nodes[shorter[a]].type \in Childless PROVE FALSE
        BY <2>2 DEF ChildlessTop
      <3>1. nodes[stack[a]].type \in Childless /\ a \in 1..Len(stack) /\ a # Len(stack)
        BY <1>4, <2>1, <2>2
      <3> QED BY <1>3, <3>1 DEF ChildlessTop
    <2>6. WordsRead(nodes, text, k)
      <3>1. ~IsWordToken(text[k])
        BY <1>8 DEF IsWordToken, IsEmoticon, TextTokens, Text, Cdata, tok
      <3>2. \A v \in Word : v <= k <=> v = k \/ v <= k - 1
        BY <1>1 DEF Word
      <3>3. \A v \in Word : (v <= k - 1 /\ IsWordToken(text[v])) <=> (v <= k /\ IsWordToken(text[v]))
        BY <3>1, <3>2
      <3> QED BY <1>3, <3>3 DEF WordsRead
    <2>7. Read(s, tok, k).nodes = nodes /\ Read(s, tok, k).stack = shorter
      <3>1. CharData(tok, k) = <<>> /\ tok.token # "start"
        BY <1>8 DEF CharData
      <3>2. Read(s, tok, k) = [s EXCEPT !.stack = Front(s.stack)]
        BY <1>8, <3>1 DEF Read
      <3>3. /\ s = [nodes |-> s.nodes, stack |-> s.stack, macros |-> s.macros, links |-> s.links]
        BY DEF Loose
      <3> QED BY <3>2, <3>3 DEF shorter, nodes, stack
    <2> QED BY <1>3, <2>3, <2>4, <2>5, <2>6, <2>7 DEF Grown, tok
  <1>9. CASE tok.token \notin {"start", "end"} /\ CharData(tok, k) # <<>>
    <2> DEFINE x == Node("text", CharData(tok, k), "", Last(stack))
               longer == Append(nodes, x)
    <2>1. /\ x \in NodeRecords /\ x.parent = Last(stack) /\ x.text = NewText(tok, k)
          /\ x.type # "text" => x.text = <<>>
      <3>1. x = [type |-> "text", text |-> CharData(tok, k), name |-> "", parent |-> Last(stack)]
        BY DEF Node
      <3>2. CharData(tok, k) \in Seq(Nat) /\ "text" \in Types /\ "" \in Names /\ Last(stack) \in Nat
        BY <1>1, <1>4, <1>11, CharDataFacts DEF Types, Names
      <3>3. NewText(tok, k) = CharData(tok, k)
        BY <1>9 DEF NewText
      <3> HIDE DEF x
      <3> QED BY <3>1, <3>2, <3>3 DEF NodeRecords
    <2> HIDE DEF x
    <2>2. \A a \in 1..Len(stack) : nodes[stack[a]].type \notin Childless
      BY <1>6, <1>9
    <2>3. nodes[Last(stack)].type \notin Childless
      <3>1. depth + 1 \in 1..Len(stack)
        BY <1>2, <1>4
      <3> QED BY <1>4, <2>2, <3>1
    <2>4. /\ IsTree(longer) /\ OpenElements(longer, stack, depth) /\ WordsRead(longer, text, k)
          /\ Len(longer) = N + 1 /\ \A m \in 1..N : longer[m] = nodes[m]
      BY <1>1, <1>2, <1>3, <2>1, <2>3, NodeMade DEF N, tok
    <2> HIDE DEF longer
    <2>5. ChildlessTop(longer, stack, text, k)
      <3>1. \A a \in 1..Len(stack) : stack[a] \in 1..N
        BY <1>3 DEF OpenElements, N
      <3> QED BY <2>2, <2>4, <3>1 DEF ChildlessTop
    <2>6. Read(s, tok, k).nodes = longer /\ Read(s, tok, k).stack = stack
      <3>1. Read(s, tok, k) = [s EXCEPT !.nodes = longer]
        BY <1>9 DEF Read, longer, x, nodes, stack
      <3>2. /\ s = [nodes |-> s.nodes, stack |-> s.stack, macros |-> s.macros, links |-> s.links]
        BY DEF Loose
      <3> QED BY <3>1, <3>2 DEF stack
    <2>7. d[k] = depth
      BY <1>2, <1>5, <1>9
    <2> QED BY <2>4, <2>5, <2>6, <2>7 DEF Grown, tok
  <1>10. CASE tok.token \notin {"start", "end"} /\ CharData(tok, k) = <<>>
    <2>1. Read(s, tok, k) = s
      BY <1>10 DEF Read
    <2>2. ChildlessTop(nodes, stack, text, k)
      BY <1>6, <1>10 DEF ChildlessTop
    <2>3. WordsRead(nodes, text, k)
      <3>1. ~IsWordToken(text[k])
        <4>1. k \in Nat
          BY <1>1 DEF Word
        <4>2. <<k>> # <<>> /\ <<k, Space>> # <<>>
          OBVIOUS
        <4>3. tok.token \notin TextTokens
          BY <1>1, <1>10, <4>1, <4>2, CharDataFacts DEF TextTokens, Text, Cdata
        <4> QED BY <1>10, <4>3 DEF IsWordToken, IsEmoticon, tok
      <3>2. \A v \in Word : v <= k <=> v = k \/ v <= k - 1
        BY <1>1 DEF Word
      <3>3. \A v \in Word : (v <= k - 1 /\ IsWordToken(text[v])) <=> (v <= k /\ IsWordToken(text[v]))
        BY <3>1, <3>2
      <3> QED BY <1>3, <3>3 DEF WordsRead
    <2>4. d[k] = depth
      BY <1>2, <1>5, <1>10
    <2> QED BY <1>3, <2>1, <2>2, <2>3, <2>4 DEF Grown, tok, nodes, stack
  <1> QED BY <1>7, <1>8, <1>9, <1>10

\* What the loop makes of a body: a tree with the words of the tokens it reads.
LEMMA ParsedFacts ==
  ASSUME NEW text \in Bodies
  PROVE  /\ Parsed(text) \in Loose /\ IsTree(Parsed(text).nodes)
         /\ WordsRead(Parsed(text).nodes, text, Len(Accepted(text)))
  <1> DEFINE n == Len(Accepted(text))
  <1>1. text \in Seq(Tokens) /\ n \in Nat
    <2>1. text \in Seq(Tokens)
      BY DEF Bodies
    <2> QED BY <2>1, AcceptedFacts
  <1>2. PICK r : /\ Reads(r, Accepted(text)) /\ Parsed(text) = r[n]
                 /\ \A k \in 0..n : r[k] \in Loose
    BY <1>1, ReadSteps
  <1>3. PICK d : Reading(text, d, n)
    BY <1>1, AcceptedFacts
  <1>4. /\ r[0] = Start /\ d[0] = 0
        /\ \A k \in 1..n : r[k] = Read(r[k - 1], text[k], k)
    BY <1>1, <1>2, <1>3, AcceptedFacts DEF Reads, Reading
  <1> DEFINE P == {k \in 0..n : Grown(r[k], text, d[k], k)}
  <1> HIDE DEF n
  <1>5. 0 \in P
    BY <1>1, <1>4, StartGrown
  <1>6. ASSUME NEW k \in 1..n, k - 1 \in P
        PROVE  k \in P
    <2>1. k \in 0..n /\ k - 1 \in 0..n /\ Grown(r[k - 1], text, d[k - 1], k - 1)
      BY <1>1, <1>6
    <2>2. Grown(Read(r[k - 1], text[k], k), text, d[k], k)
      BY <1>2, <1>3, <2>1, ReadGrows
    <2> QED BY <1>4, <2>1, <2>2
  <1>7. n \in P
    <2> HIDE DEF P
    <2>1. \A k \in 0..n : k \in P
      BY <1>1, <1>5, <1>6, Upwards
    <2> QED BY <1>1, <2>1
  <1>8. n \in 0..n
    BY <1>1
  <1> QED BY <1>2, <1>7, <1>8 DEF Grown, n

\* The words that survive tagStripper.
Survives(text, v) ==
  \/ text[v].token = "cdataMore"
  \/ text[v].token \in Text /\ ~Swallowed(text, v)

LEMMA FallbackFacts ==
  ASSUME NEW text \in Seq(Tokens)
  PROVE  /\ Fallback(text) \in Seq(Nat) /\ AscendingIn(Fallback(text), Word)
         /\ \A v \in Word : Occurs(v, Fallback(text)) <=> v \in 1..Len(text) /\ Survives(text, v)
  <1> DEFINE n == Len(text)
             seqs == [i \in DOMAIN text |->
                        CASE text[i].token = "cdataMore" -> <<Space, i>>
                          [] text[i].token \in Text /\ ~Swallowed(text, i) -> CharData(text[i], i)
                          [] OTHER -> <<Space>>]
             x == FlattenSeq(seqs)
             y == normalizeText(x)
             Place(i) == IF text[i].token = "cdataMore" THEN 2 ELSE 1
  <1>1. n \in Nat /\ DOMAIN text = 1..n
    OBVIOUS
  <1>2. ASSUME NEW i \in 1..n
        PROVE  /\ seqs[i] \in Seq(Nat)
               /\ Survives(text, i) => Place(i) \in 1..Len(seqs[i]) /\ seqs[i][Place(i)] = i
               /\ \A p \in 1..Len(seqs[i]) : seqs[i][p] \in Word =>
                    seqs[i][p] = i /\ p = Place(i) /\ Survives(text, i)
    <2>1. i \in Nat /\ Space \in Nat /\ Space \notin Word
      BY DEF Space, Word
    <2>2. CASE text[i].token = "cdataMore"
      <3>1. seqs[i] = <<Space, i>> /\ Place(i) = 2 /\ Survives(text, i)
        BY <1>1, <2>2 DEF Survives, Text
      <3>2. 1..2 = {1, 2}
        OBVIOUS
      <3> HIDE DEF seqs, Place
      <3> QED BY <2>1, <3>1, <3>2
    <2>3. CASE text[i].token \in Text /\ ~Swallowed(text, i)
      <3>1. text[i].token # "cdataMore"
        BY <2>3 DEF Text
      <3>2. seqs[i] = CharData(text[i], i) /\ Place(i) = 1 /\ Survives(text, i)
        BY <1>1, <2>3, <3>1 DEF Survives
      <3>3. CharData(text[i], i) = <<i>> \/ CharData(text[i], i) = <<i, Space>>
        BY <2>3 DEF Text, CharData
      <3>4. 1..2 = {1, 2} /\ 1..1 = {1}
        OBVIOUS
      <3> HIDE DEF seqs, Place
      <3>5. CASE seqs[i] = <<i>>
        BY <2>1, <3>2, <3>4, <3>5
      <3>6. CASE seqs[i] = <<i, Space>>
        BY <2>1, <3>2, <3>4, <3>6
      <3> QED BY <3>2, <3>3, <3>5, <3>6
    <2>4. CASE text[i].token # "cdataMore" /\ ~(text[i].token \in Text /\ ~Swallowed(text, i))
      <3>1. seqs[i] = <<Space>> /\ ~Survives(text, i)
        BY <1>1, <2>4 DEF Survives
      <3>2. 1..1 = {1}
        OBVIOUS
      <3> HIDE DEF seqs, Place
      <3> QED BY <2>1, <3>1, <3>2
    <2> QED BY <2>2, <2>3, <2>4
  <1>3. DOMAIN seqs = 1..n
    BY <1>1
  <1>4. Fallback(text) = y
    BY DEF Fallback, Text
  <1>11. seqs = [i \in 1..n |-> seqs[i]]
    BY <1>1
  <1> HIDE DEF seqs, Place
  <1>5. seqs \in Seq(Seq(Nat)) /\ Len(seqs) = n
    BY <1>1, <1>2, <1>11
  <1> HIDE DEF n
  <1>7. x \in Seq(Nat) /\ MadeOf(x, n, seqs)
    BY <1>5, FlattenFacts
  <1> HIDE DEF x
  <1>8. \A v \in Word : Occurs(v, x) <=> v \in 1..n /\ Survives(text, v)
    <2> SUFFICES ASSUME NEW v \in Word
                 PROVE  Occurs(v, x) <=> v \in 1..n /\ Survives(text, v)
      OBVIOUS
    <2>1. ASSUME Occurs(v, x) PROVE v \in 1..n /\ Survives(text, v)
      <3>1. PICK a \in 1..Len(x) : x[a] = v
        BY <2>1 DEF Occurs, Has
      <3>2. PICK i \in 1..n, p \in Nat : From(x, a, seqs, i, p)
        BY <1>7 DEF MadeOf
      <3> QED BY <1>2, <3>1, <3>2 DEF From
    <2>2. ASSUME v \in 1..n, Survives(text, v) PROVE Occurs(v, x)
      <3>1. Place(v) \in 1..Len(seqs[v]) /\ seqs[v][Place(v)] = v
        BY <1>2, <2>2
      <3>2. \E a \in 1..Len(x) : x[a] = v
        BY <1>7, <2>2, <3>1 DEF MadeOf
      <3> QED BY <3>2 DEF Occurs, Has
    <2> QED BY <2>1, <2>2
  <1>9. AscendingIn(x, Word)
    <2> SUFFICES ASSUME NEW a \in 1..Len(x), NEW b \in 1..Len(x), a < b, x[a] \in Word, x[b] \in Word
                 PROVE  x[a] < x[b]
      BY <1>7 DEF AscendingIn
    <2>1. PICK i \in 1..n, j \in 1..n, p \in Nat, q \in Nat :
            /\ From(x, a, seqs, i, p) /\ From(x, b, seqs, j, q)
            /\ i < j \/ (i = j /\ p < q)
      BY <1>7 DEF MadeOf
    <2>2. x[a] = i /\ p = Place(i) /\ x[b] = j /\ q = Place(j)
      BY <1>2, <2>1 DEF From
    <2> QED BY <2>1, <2>2
  <1>10. /\ y \in Seq(Nat) /\ AscendingIn(y, Word)
         /\ \A v \in Word : Occurs(v, x) <=> Occurs(v, y)
    BY <1>7, <1>9, NormalizeFacts DEF SameWords, Occurs
  <1> QED BY <1>4, <1>8, <1>10 DEF n

\* The words the search is to find.
IsKept(text, v) ==
  /\ v \in 1..Len(text)
  /\ IF WellFormed(text) THEN IsWordToken(text[v]) ELSE Survives(text, v)

\* After an error the tree is one paragraph with one text.
LEMMA FallbackTree ==
  ASSUME NEW text \in Seq(Nat), AscendingIn(text, Word)
  PROVE  LET nodes == <<Document, Node("paragraph", <<>>, "", 1), Node("text", text, "", 2)>> IN
         /\ IsTree(nodes) /\ Len(nodes) = 3
         /\ \A v : (\E n \in 1..3 : Occurs(v, nodes[n].text)) <=> Occurs(v, text)
  <1> DEFINE one == <<Document>>
             p == Node("paragraph", <<>>, "", 1)
             two == Append(one, p)
             t == Node("text", text, "", 2)
             nodes == <<Document, p, t>>
  <1>1. /\ p = [type |-> "paragraph", text |-> <<>>, name |-> "", parent |-> 1]
        /\ t = [type |-> "text", text |-> text, name |-> "", parent |-> 2]
    BY DEF Node
  <1>2. p \in NodeRecords /\ t \in NodeRecords
    <2>1. {"paragraph", "text"} \subseteq Types /\ "" \in Names /\ <<>> \in Seq(Nat)
      BY DEF Types, Names, ElementTypes, BlockTypes
    <2> HIDE DEF p, t
    <2> QED BY <1>1, <2>1 DEF NodeRecords
  <1>3. /\ p.parent = 1 /\ p.text = <<>> /\ p.type = "paragraph" /\ p.type \notin Childless
        /\ t.parent = 2 /\ t.text = text /\ t.type = "text"
    <2> HIDE DEF p, t
    <2>1. "paragraph" \notin Childless
      BY DEF Childless, Contentless, VoidTypes
    <2> QED BY <1>1, <2>1
  <1>4. /\ IsTree(one) /\ Len(one) = 1 /\ one[1] = Document
        /\ two = <<Document, p>> /\ nodes = Append(two, t)
        /\ Len(two) = 2 /\ two[1] = Document /\ two[2] = p
        /\ Len(nodes) = 3 /\ nodes[1] = Document /\ nodes[2] = p /\ nodes[3] = t
    <2> HIDE DEF p, t
    <2>1. IsTree(one) /\ Len(one) = 1 /\ one[1] = Document
      BY DocumentAlone
    <2>2. two = <<Document, p>> /\ Len(two) = 2 /\ two[1] = Document /\ two[2] = p
      <3>1. ASSUME NEW x, NEW y PROVE Append(<<x>>, y) = <<x, y>>
        <4> DEFINE a == Append(<<x>>, y)
                   b == <<x, y>>
        <4>1. <<x>> \in Seq({x, y}) /\ Len(<<x>>) = 1 /\ <<x>>[1] = x
          OBVIOUS
        <4>2. a \in Seq({x, y}) /\ Len(a) = 2 /\ a[1] = x /\ a[2] = y
          BY <4>1, AppendProperties
        <4>3. b \in Seq({x, y}) /\ Len(b) = 2 /\ b[1] = x /\ b[2] = y /\ 1..2 = {1, 2}
          OBVIOUS
        <4> HIDE DEF a, b
        <4>4. \A i \in 1..Len(a) : a[i] = b[i]
          BY <4>2, <4>3
        <4>5. a = b
          BY <4>2, <4>3, <4>4, SeqEqual
        <4> QED BY <4>5 DEF a, b
      <3>2. two = <<Document, p>>
        BY <3>1
      <3>3. Len(<<Document, p>>) = 2 /\ <<Document, p>>[1] = Document /\ <<Document, p>>[2] = p
        OBVIOUS
      <3> HIDE DEF two
      <3> QED BY <3>2, <3>3
    <2>3. Len(nodes) = 3 /\ nodes[1] = Document /\ nodes[2] = p /\ nodes[3] = t
      OBVIOUS
    <2>4. nodes = Append(<<Document, p>>, t)
      OBVIOUS
    <2> HIDE DEF two, nodes, one
    <2> QED BY <2>1, <2>2, <2>3, <2>4
  <1> HIDE DEF one, two, p, t, nodes
  <1>5. AscendingIn(<<>>, Word) /\ \A v : ~Occurs(v, <<>>)
    BY DEF AscendingIn, Occurs, Has
  <1>6. IsTree(two)
    <2>1. 1 \in 1..Len(one) /\ one[p.parent].type \notin Childless
      BY <1>3, <1>4, DocumentFacts
    <2>2. \A q \in 1..Len(one) : q > p.parent => one[q].parent >= p.parent
      BY <1>3, <1>4
    <2>3. \A m \in 1..Len(one) : \A v, w \in Word :
            Occurs(v, one[m].text) /\ Occurs(w, p.text) => v < w
      BY <1>3, <1>5
    <2>4. AscendingIn(p.text, Word)
      BY <1>3, <1>5
    <2> QED BY <1>2, <1>3, <1>4, <2>1, <2>2, <2>3, <2>4, NodeAdded DEF two
  <1>7. IsTree(nodes)
    <2>1. 2 \in 1..Len(two) /\ two[t.parent].type \notin Childless /\ 1..2 = {1, 2}
      BY <1>3, <1>4
    <2>2. \A q \in 1..Len(two) : q > t.parent => two[q].parent >= t.parent
      BY <1>3, <1>4
    <2>3. \A m \in 1..Len(two) : \A v, w \in Word :
            Occurs(v, two[m].text) /\ Occurs(w, t.text) => v < w
      BY <1>3, <1>4, <1>5, <2>1, DocumentFacts
    <2> QED BY <1>2, <1>3, <1>4, <1>6, <2>1, <2>2, <2>3, NodeAdded
  <1>8. \A v : (\E n \in 1..3 : Occurs(v, nodes[n].text)) <=> Occurs(v, text)
    <2>1. 1..3 = {1, 2, 3}
      OBVIOUS
    <2> QED BY <1>3, <1>4, <1>5, <2>1, DocumentFacts
  <1> QED BY <1>4, <1>7, <1>8 DEF nodes, p, t

LEMMA NodesFacts ==
  ASSUME NEW text \in Bodies
  PROVE  /\ IsTree(Nodes(text))
         /\ \A v \in Word :
              (\E n \in 1..Len(Nodes(text)) : Occurs(v, Nodes(text)[n].text)) <=> IsKept(text, v)
         /\ WellFormed(text) => /\ Nodes(text) = Parsed(text).nodes
                                /\ \A n \in 1..Len(Nodes(text)) : Shape(Nodes(text)[n].text)
  <1>1. text \in Seq(Tokens)
    BY DEF Bodies
  <1>2. CASE WellFormed(text)
    <2>1. /\ Nodes(text) = Parsed(text).nodes /\ IsTree(Nodes(text))
          /\ WordsRead(Nodes(text), text, Len(text))
      BY <1>1, <1>2, AcceptedFacts, ParsedFacts DEF Nodes
    <2>2. \A v \in Word : IsKept(text, v) <=> v <= Len(text) /\ IsWordToken(text[v])
      <3>1. \A v \in Word : v \in Nat /\ v # 0
        BY DEF Word, Space
      <3>2. \A v \in Word : v \in 1..Len(text) <=> v <= Len(text)
        BY <1>1, <3>1
      <3> QED BY <1>2, <3>2 DEF IsKept
    <2> QED BY <2>1, <2>2 DEF WordsRead
  <1>3. CASE ~WellFormed(text)
    <2> DEFINE x == Fallback(text)
               nodes == <<Document, Node("paragraph", <<>>, "", 1), Node("text", x, "", 2)>>
    <2>1. Nodes(text) = nodes
      BY <1>3 DEF Nodes
    <2>2. /\ x \in Seq(Nat) /\ AscendingIn(x, Word)
          /\ \A v \in Word : Occurs(v, x) <=> IsKept(text, v)
      BY <1>1, <1>3, FallbackFacts DEF IsKept
    <2> HIDE DEF x
    <2>3. /\ IsTree(nodes) /\ Len(nodes) = 3
          /\ \A v : (\E n \in 1..3 : Occurs(v, nodes[n].text)) <=> Occurs(v, x)
      BY <2>2, FallbackTree
    <2> HIDE DEF nodes
    <2> QED BY <1>3, <2>1, <2>2, <2>3
  <1> QED BY <1>2, <1>3

-----------------------------------------------------------------------------
(* The nodes within a node                                                 *)

\* m is n or within n: nothing from n to m is outside of n.
Within(nodes, n, m) ==
  /\ m \in 1..Len(nodes) /\ n <= m
  /\ \A q \in (n + 1)..m : nodes[q].parent >= n

LEMMA WithinFacts ==
  ASSUME NEW nodes, IsTree(nodes), NEW n \in 1..Len(nodes)
  PROVE  /\ Within(nodes, n, n)
         /\ \A m \in 1..Len(nodes) : Within(nodes, n, m) => n <= m
         /\ \A m \in 1..Len(nodes) : Within(nodes, 1, m)
         /\ \A m \in 1..Len(nodes) : nodes[m].parent \in Nat /\ nodes[m].parent < m
         /\ \A m, q \in 1..Len(nodes) : nodes[m].parent < q /\ q < m => nodes[m].parent <= nodes[q].parent
         /\ nodes[n].type \in Childless => \A c \in 1..Len(nodes) : nodes[c].parent # n
  <1> DEFINE N == Len(nodes)
  <1>1. /\ nodes \in Seq(NodeRecords) /\ N \in Nat /\ N >= 1 /\ nodes[1] = Document
        /\ Nested(nodes)
        /\ \A c \in 2..N : nodes[nodes[c].parent].type \notin Childless
    BY DEF IsTree
  <1>2. ASSUME NEW m \in 1..N
        PROVE  /\ nodes[m].parent \in Nat /\ nodes[m].parent < m
               /\ m # 1 => m \in 2..N /\ nodes[m].parent >= 1
    <2>1. CASE m = 1
      BY <1>1, <2>1, DocumentFacts
    <2>2. CASE m # 1
      <3>1. m \in 2..N
        BY <1>1, <2>2
      <3>2. nodes[m].parent \in 1..(m - 1)
        BY <1>1, <3>1 DEF Nested
      <3> QED BY <3>1, <3>2
    <2> QED BY <2>1, <2>2
  <1>3. (n + 1)..n = {}
    BY <1>1
  <1>4. \A m \in 1..N : \A q \in 2..m : q \in 1..N /\ q # 1
    BY <1>1
  <1>5. \A m \in 1..N : 1 <= m /\ 1 + 1 = 2
    BY <1>1
  <1> HIDE DEF N
  <1>6. Within(nodes, n, n)
    BY <1>1, <1>3 DEF Within
  <1>7. \A m \in 1..N : Within(nodes, 1, m)
    BY <1>2, <1>4, <1>5 DEF Within, N
  <1>8. ASSUME nodes[n].type \in Childless, NEW c \in 1..N, nodes[c].parent = n PROVE FALSE
    <2>1. c # 1
      BY <1>1, <1>8, DocumentFacts DEF N
    <2> QED BY <1>1, <1>2, <1>8, <2>1
  <1> QED BY <1>1, <1>2, <1>6, <1>7, <1>8 DEF N, Nested, Within

\* What is within n is n itself, or within exactly one child of n.
LEMMA WithinChild ==
  ASSUME NEW nodes, IsTree(nodes), NEW n \in 1..Len(nodes), NEW m \in 1..Len(nodes), m # n
  PROVE  Within(nodes, n, m) <=>
           \E c \in 1..Len(nodes) : nodes[c].parent = n /\ Within(nodes, c, m)
  <1> DEFINE N == Len(nodes)
             parent(q) == nodes[q].parent
  <1>1. /\ N \in Nat
        /\ \A q \in 1..N : parent(q) \in Nat /\ parent(q) < q
        /\ \A l, q \in 1..N : parent(l) < q /\ q < l => parent(l) <= parent(q)
    BY WithinFacts DEF IsTree
  <1> HIDE DEF N, parent
  <1>2. ASSUME Within(nodes, n, m)
        PROVE  \E c \in 1..N : nodes[c].parent = n /\ Within(nodes, c, m)
    <2> DEFINE S == {q \in 1..m : parent(q) = n}
    <2>1. /\ n < m /\ \A q \in (n + 1)..m : parent(q) >= n
      BY <1>1, <1>2 DEF Within, N, parent
    <2>2. n + 1 \in S
      <3>1. n + 1 \in (n + 1)..m /\ n + 1 \in 1..m /\ n + 1 \in 1..N
        BY <1>1, <2>1 DEF N
      <3>2. parent(n + 1) >= n /\ parent(n + 1) < n + 1 /\ parent(n + 1) \in Nat
        BY <1>1, <2>1, <3>1
      <3>3. parent(n + 1) = n
        BY <3>2
      <3> QED BY <3>1, <3>3
    <2>3. Max(S) \in S /\ \A y \in S : Max(S) >= y
      <3>1. S \in SUBSET (1..m) /\ S # {} /\ m \in Nat
        BY <2>2
      <3> HIDE DEF S
      <3> QED BY <3>1, GreatestIndex
    <2>4. PICK c \in S : \A y \in S : c >= y
      BY <2>3
    <2>5. c \in 1..m /\ c \in 1..N /\ parent(c) = n /\ n < c
      BY <1>1, <2>4 DEF N
    <2>6. ASSUME NEW q \in (c + 1)..m PROVE parent(q) >= c
      <3>1. q \in (n + 1)..m /\ q \in 1..N /\ q \in 1..m /\ q > c
        BY <1>1, <2>5 DEF N
      <3>2. parent(q) >= n /\ parent(q) # n /\ parent(q) \in Nat
        BY <1>1, <2>1, <2>4, <2>5, <3>1
      <3>3. ~(parent(q) < c)
        BY <1>1, <2>5, <3>1, <3>2
      <3> QED BY <2>5, <3>2, <3>3
    <2> QED BY <2>5, <2>6 DEF Within, N, parent
  <1>3. ASSUME NEW c \in 1..N, parent(c) = n, Within(nodes, c, m)
        PROVE  Within(nodes, n, m)
    <2>1. c <= m /\ n < c /\ \A q \in (c + 1)..m : parent(q) >= c
      BY <1>1, <1>3 DEF Within, parent
    <2>2. ASSUME NEW q \in (n + 1)..m PROVE parent(q) >= n
      <3>1. q \in 1..N
        BY <1>1 DEF N
      <3>2. CASE q > c
        <4>1. q \in (c + 1)..m /\ parent(q) \in Nat
          BY <1>1, <3>1, <3>2
        <4> QED BY <2>1, <4>1
      <3>3. CASE q = c
        BY <1>3, <3>3
      <3>4. CASE q < c
        BY <1>1, <1>3, <3>1, <3>4
      <3> QED BY <3>2, <3>3, <3>4
    <2> QED BY <2>1, <2>2 DEF Within, N, parent
  <1> QED BY <1>2, <1>3 DEF N, parent

\* The children of a node follow each other with all that is within them.
LEMMA SiblingsFollow ==
  ASSUME NEW nodes, IsTree(nodes), NEW c \in 1..Len(nodes), NEW e \in 1..Len(nodes),
         nodes[c].parent = nodes[e].parent, c < e, NEW m, Within(nodes, c, m)
  PROVE  m < e
  <1>1. m \in 1..Len(nodes) /\ c <= m /\ \A q \in (c + 1)..m : nodes[q].parent >= c
    BY DEF Within
  <1>2. nodes[c].parent \in Nat /\ nodes[c].parent < c
    BY WithinFacts
  <1> SUFFICES ASSUME e <= m PROVE FALSE
    BY <1>1
  <1>3. e \in (c + 1)..m
    BY <1>1
  <1> QED BY <1>1, <1>2, <1>3

LEMMA Downwards ==
  ASSUME NEW n \in Nat, NEW P, \A i \in 1..n : (\A j \in (i + 1)..n : j \in P) => i \in P
  PROVE  \A i \in 1..n : i \in P
  <1> DEFINE Bad == {k \in 0..n : k < n /\ n - k \notin P}
  <1> SUFFICES ASSUME NEW i \in 1..n, i \notin P PROVE FALSE
    OBVIOUS
  <1>1. Bad # {}
    <2>1. n - i \in 0..n /\ n - i < n /\ n - (n - i) = i
      OBVIOUS
    <2> QED BY <2>1
  <1>2. PICK k \in Bad : \A j \in Bad : k <= j
    <2>1. Bad \in SUBSET Nat
      OBVIOUS
    <2> HIDE DEF Bad
    <2> QED BY <1>1, <2>1, LeastNumber
  <1>3. n - k \in 1..n /\ n - k \notin P
    BY <1>2
  <1>4. ASSUME NEW j \in ((n - k) + 1)..n PROVE j \in P
    <2>1. n - j \in 0..n /\ n - j < n /\ n - (n - j) = j /\ n - j < k
      BY <1>3
    <2>2. n - j \notin Bad
      BY <1>2, <2>1
    <2> QED BY <2>1, <2>2
  <1> QED BY <1>3, <1>4

-----------------------------------------------------------------------------
(* extractText                                                             *)

\* What node c adds to the text of node n, w being the texts of all nodes.
Gather(nodes, w, n, b, c) ==
  IF nodes[c].parent # n \/ w[c] = <<>> THEN b ELSE Joined(nodes, b, c) \o w[c]
GatherFurther(nodes, w, n, iter) ==
  [t \in SUBSET DOMAIN NodeIds(nodes) |->
     IF t = {} THEN <<>>
     ELSE Gather(nodes, w, n, iter[t \ {Max(t)}], NodeIds(nodes)[Max(t)])]
Gathered(nodes, w, n) ==
  (CHOOSE iter : iter = GatherFurther(nodes, w, n, iter))[DOMAIN NodeIds(nodes)]
ExtractFurther(nodes, w) ==
  [n \in DOMAIN nodes |-> IF nodes[n].type = "text" THEN nodes[n].text ELSE Gathered(nodes, w, n)]

Gathers(g, nodes, w, n) ==
  g[0] = <<>> /\ \A k \in 1..Len(nodes) : g[k] = Gather(nodes, w, n, g[k - 1], k)

LEMMA GatherSteps ==
  ASSUME NEW nodes \in Seq(NodeRecords), NEW w, NEW n,
         \A c \in 1..Len(nodes) : nodes[c].parent = n => w[c] \in Seq(Nat)
  PROVE  \E g : /\ Gathers(g, nodes, w, n) /\ Gathered(nodes, w, n) = g[Len(nodes)]
                /\ \A k \in 0..Len(nodes) : g[k] \in Seq(Nat)
  <1> DEFINE N == Len(nodes)
             V == Seq(Nat)
             Step(b, k) == Gather(nodes, w, n, b, k)
             step == [p \in V \X (1..N) |-> Step(p[1], p[2])]
             iter == CHOOSE v : v = GatherFurther(nodes, w, n, v)
  <1>0. N \in Nat /\ DOMAIN nodes = 1..N
    OBVIOUS
  <1>00. DOMAIN NodeIds(nodes) = 1..N /\ \A k \in 1..N : NodeIds(nodes)[k] = k
    BY <1>0 DEF NodeIds
  <1>1. <<>> \in V /\ \A b \in V, k \in 1..N : Step(b, k) \in V
    <2>1. ASSUME NEW b \in V, NEW k \in 1..N PROVE Step(b, k) \in V
      <3>1. Space \in Nat
        BY DEF Space
      <3>2. Joined(nodes, b, k) \in V
        BY <3>1, AppendProperties DEF Joined
      <3>3. nodes[k].parent = n => w[k] \in V
        OBVIOUS
      <3>4. nodes[k].parent = n => Joined(nodes, b, k) \o w[k] \in V
        BY <3>2, <3>3, ConcatProperties
      <3> QED BY <3>4 DEF Gather
    <2> QED BY <2>1
  <1>2. step \in [V \X (1..N) -> V]
    <2> HIDE DEF Step, V
    <2> QED BY <1>1
  <1> HIDE DEF N, V
  <1>3. PICK v \in [SUBSET (1..N) -> V] : IsFold(v, N, <<>>, step)
    <2> HIDE DEF step
    <2> QED BY <1>0, <1>1, <1>2, FoldTable
  <1>4. v = GatherFurther(nodes, w, n, v)
    <2>1. \A t \in SUBSET (1..N) :
            v[t] = IF t = {} THEN <<>> ELSE step[<<v[t \ {Max(t)}], Max(t)>>]
      <3> HIDE DEF step
      <3> QED BY <1>3 DEF IsFold
    <2>2. ASSUME NEW t \in SUBSET (1..N), t # {}
          PROVE  v[t] = Step(v[t \ {Max(t)}], NodeIds(nodes)[Max(t)])
      <3>1. Max(t) \in 1..N /\ NodeIds(nodes)[Max(t)] = Max(t)
        BY <1>0, <1>00, <2>2, GreatestIndex
      <3>2. v[t \ {Max(t)}] \in V
        OBVIOUS
      <3>3. step[<<v[t \ {Max(t)}], Max(t)>>] = Step(v[t \ {Max(t)}], Max(t))
        <4> HIDE DEF Step
        <4> QED BY <3>1, <3>2
      <3> HIDE DEF step, Step
      <3> QED BY <2>1, <2>2, <3>1, <3>3
    <2>3. v = [t \in SUBSET (1..N) |-> v[t]]
      OBVIOUS
    <2>4. v[{}] = <<>>
      BY <2>1
    <2>5. \A t \in SUBSET (1..N) :
            v[t] = IF t = {} THEN <<>> ELSE Step(v[t \ {Max(t)}], NodeIds(nodes)[Max(t)])
      <3> HIDE DEF Step, step
      <3> QED BY <2>2, <2>4
    <2> QED BY <1>00, <2>3, <2>5 DEF GatherFurther
  <1>5. iter = GatherFurther(nodes, w, n, iter)
    BY <1>4
  <1>6. Gathered(nodes, w, n) = iter[1..N]
    BY <1>00 DEF Gathered
  <1> HIDE DEF iter
  <1>7. iter[1..0] = <<>>
    BY <1>0, <1>00, <1>5, FoldChain DEF GatherFurther
  <1>8. ASSUME NEW k \in 1..N
        PROVE  iter[1..k] = Step(iter[1..(k - 1)], k)
    <2>1. 1..k \in SUBSET (1..N) /\ 1..k # {} /\ Max(1..k) = k /\ (1..k) \ {Max(1..k)} = 1..(k - 1)
      BY <1>0, FoldChain
    <2>2. GatherFurther(nodes, w, n, iter)[1..k] = Step(iter[1..(k - 1)], k)
      BY <1>00, <2>1 DEF GatherFurther
    <2> QED BY <1>5, <2>2
  <1> DEFINE g == [k \in 0..N |-> iter[1..k]]
  <1>9. g[0] = <<>> /\ Gathered(nodes, w, n) = g[N]
    BY <1>0, <1>6, <1>7
  <1>10. \A k \in 1..N : g[k] = Step(g[k - 1], k)
    <2>1. \A k \in 1..N : k \in 0..N /\ k - 1 \in 0..N
      BY <1>0
    <2> HIDE DEF Step
    <2> QED BY <1>8, <2>1
  <1> HIDE DEF g
  <1> DEFINE P == {k \in 0..N : g[k] \in V}
  <1>11. \A k \in 0..N : k \in P
    <2>1. 0 \in P
      BY <1>0, <1>1, <1>9
    <2>2. ASSUME NEW k \in 1..N, k - 1 \in P PROVE k \in P
      <3>1. k \in 0..N /\ g[k - 1] \in V
        BY <1>0, <2>2
      <3> HIDE DEF Step
      <3> QED BY <1>1, <1>10, <3>1
    <2> HIDE DEF P
    <2> QED BY <1>0, <2>1, <2>2, Upwards
  <1>12. Gathers(g, nodes, w, n)
    BY <1>9, <1>10 DEF Gathers, N
  <1> QED BY <1>9, <1>11, <1>12 DEF N, V

\* Only the texts of the children count.
LEMMA GatherSame ==
  ASSUME NEW nodes \in Seq(NodeRecords), NEW w, NEW v, NEW n,
         \A c \in 1..Len(nodes) : nodes[c].parent = n => w[c] \in Seq(Nat) /\ v[c] = w[c]
  PROVE  Gathered(nodes, v, n) = Gathered(nodes, w, n)
  <1> DEFINE N == Len(nodes)
  <1>1. PICK g : Gathers(g, nodes, w, n) /\ Gathered(nodes, w, n) = g[N]
    BY GatherSteps
  <1>2. PICK h : Gathers(h, nodes, v, n) /\ Gathered(nodes, v, n) = h[N]
    <2>1. \A c \in 1..Len(nodes) : nodes[c].parent = n => v[c] \in Seq(Nat)
      OBVIOUS
    <2> QED BY <2>1, GatherSteps
  <1> DEFINE P == {k \in 0..N : g[k] = h[k]}
  <1>3. N \in Nat /\ 0 \in P
    BY <1>1, <1>2 DEF Gathers
  <1>4. ASSUME NEW k \in 1..N, k - 1 \in P PROVE k \in P
    <2>1. k \in 0..N /\ g[k - 1] = h[k - 1]
      BY <1>3, <1>4
    <2>2. g[k] = Gather(nodes, w, n, g[k - 1], k) /\ h[k] = Gather(nodes, v, n, h[k - 1], k)
      BY <1>1, <1>2 DEF Gathers
    <2>3. Gather(nodes, w, n, g[k - 1], k) = Gather(nodes, v, n, g[k - 1], k)
      BY DEF Gather
    <2> QED BY <2>1, <2>2, <2>3
  <1>5. \A k \in 0..N : k \in P
    <2> HIDE DEF P, N
    <2> QED BY <1>3, <1>4, Upwards
  <1> QED BY <1>1, <1>2, <1>3, <1>5

LEMMA ExtractExists ==
  ASSUME NEW nodes, IsTree(nodes)
  PROVE  /\ extractText(nodes) = ExtractFurther(nodes, extractText(nodes))
         /\ \A n \in 1..Len(nodes) : extractText(nodes)[n] \in Seq(Nat)
  <1> DEFINE N == Len(nodes)
             V == Seq(Nat)
             R(w, n) == IF nodes[n].type = "text" THEN nodes[n].text ELSE Gathered(nodes, w, n)
             Fits(w, k) == \A n \in (N - k + 1)..N : w[n] = R(w, n)
             P == {k \in 0..N : \E w \in [1..N -> V] : Fits(w, k)}
  <1>1. /\ nodes \in Seq(NodeRecords) /\ N \in Nat /\ DOMAIN nodes = 1..N /\ <<>> \in V
        /\ \A n \in 1..N : nodes[n].text \in V /\ nodes[n].parent \in Nat /\ nodes[n].parent < n
    <2>1. nodes \in Seq(NodeRecords) /\ N \in Nat /\ DOMAIN nodes = 1..N /\ <<>> \in V
      BY DEF IsTree
    <2>2. \A n \in 1..N : nodes[n].text \in V
      <3>1. \A n \in 1..N : nodes[n] \in NodeRecords
        BY <2>1
      <3> QED BY <3>1 DEF NodeRecords
    <2>3. \A n \in 1..N : nodes[n].parent \in Nat /\ nodes[n].parent < n
      BY WithinFacts
    <2> QED BY <2>1, <2>2, <2>3
  <1>2. ASSUME NEW n \in 1..N, NEW w, \A c \in (n + 1)..N : w[c] \in V
        PROVE  R(w, n) \in V
    <2>1. \A c \in 1..N : nodes[c].parent = n => w[c] \in V
      BY <1>1, <1>2
    <2>2. Gathered(nodes, w, n) \in V
      <3>1. N \in 0..N
        BY <1>1
      <3> QED BY <1>1, <2>1, <3>1, GatherSteps
    <2> QED BY <1>1, <2>2
  <1>3. ASSUME NEW n \in 1..N, NEW w, NEW v, \A c \in (n + 1)..N : w[c] \in V /\ v[c] = w[c]
        PROVE  R(v, n) = R(w, n)
    <2>1. \A c \in 1..N : nodes[c].parent = n => w[c] \in V /\ v[c] = w[c]
      BY <1>1, <1>3
    <2>2. Gathered(nodes, v, n) = Gathered(nodes, w, n)
      BY <1>1, <2>1, GatherSame
    <2> QED BY <2>2
  <1> HIDE DEF N, V, R
  <1>4. 0 \in P
    <2> DEFINE w == [n \in 1..N |-> <<>>]
    <2>1. w \in [1..N -> V] /\ 0 \in 0..N /\ (N - 0 + 1)..N = {}
      BY <1>1
    <2> QED BY <2>1
  <1>5. ASSUME NEW k \in 1..N, k - 1 \in P PROVE k \in P
    <2> DEFINE m == N - k + 1
    <2>1. PICK w \in [1..N -> V] : Fits(w, k - 1)
      BY <1>5
    <2>2. m \in 1..N /\ N - (k - 1) + 1 = m + 1
      BY <1>1
    <2> HIDE DEF m
    <2> DEFINE v == [w EXCEPT ![m] = R(w, m)]
    <2>3. /\ v[m] = R(w, m) /\ \A n \in 1..N : n # m => v[n] = w[n]
          /\ R(w, m) \in V
      <3>1. \A c \in (m + 1)..N : w[c] \in V
        BY <1>1, <2>2
      <3> QED BY <1>2, <2>2, <3>1
    <2>4. v \in [1..N -> V]
      BY <2>2, <2>3
    <2> HIDE DEF v
    <2>5. ASSUME NEW n \in m..N PROVE v[n] = R(v, n)
      <3>1. n \in 1..N /\ \A c \in (n + 1)..N : c \in 1..N /\ c # m
        BY <1>1, <2>2
      <3>2. R(v, n) = R(w, n)
        <4>1. \A c \in (n + 1)..N : w[c] \in V /\ v[c] = w[c]
          BY <2>3, <3>1
        <4> QED BY <1>3, <3>1, <4>1
      <3>3. v[n] = R(w, n)
        <4>1. CASE n = m
          BY <2>3, <4>1
        <4>2. CASE n # m
          <5>1. n \in (m + 1)..N
            BY <1>1, <2>2, <4>2
          <5> QED BY <2>1, <2>2, <2>3, <3>1, <4>2, <5>1
        <4> QED BY <4>1, <4>2
      <3> QED BY <3>2, <3>3
    <2>6. Fits(v, k)
      BY <2>5 DEF m
    <2>7. k \in 0..N
      BY <1>1
    <2> HIDE DEF Fits
    <2> QED BY <2>4, <2>6, <2>7
  <1>6. PICK w \in [1..N -> V] : \A n \in 1..N : w[n] = R(w, n)
    <2>1. N \in P
      <3> HIDE DEF P
      <3>1. \A k \in 0..N : k \in P
        BY <1>1, <1>4, <1>5, Upwards
      <3> QED BY <1>1, <3>1
    <2>2. N - N + 1 = 1
      BY <1>1
    <2> QED BY <2>1, <2>2
  <1> DEFINE extract == CHOOSE v : v = ExtractFurther(nodes, v)
  <1>7. w = ExtractFurther(nodes, w)
    <2>1. w = [n \in 1..N |-> w[n]]
      OBVIOUS
    <2> QED BY <1>1, <1>6, <2>1 DEF ExtractFurther, R
  <1>8. extract = ExtractFurther(nodes, extract)
    BY <1>7
  <1>9. extractText(nodes) = extract
    BY DEF extractText, ExtractFurther, Gathered, GatherFurther, Gather, FoldLeft, MapThenFoldSet
  <1> HIDE DEF extract
  <1>10. \A n \in 1..N : extract[n] = R(extract, n)
    <2>1. \A n \in 1..N : ExtractFurther(nodes, extract)[n] = R(extract, n)
      BY <1>1 DEF ExtractFurther, R
    <2> QED BY <1>8, <2>1
  <1> DEFINE Q == {n \in 1..N : extract[n] \in V}
  <1>11. \A n \in 1..N : n \in Q
    <2>1. ASSUME NEW n \in 1..N, \A c \in (n + 1)..N : c \in Q PROVE n \in Q
      <3>1. \A c \in (n + 1)..N : extract[c] \in V
        BY <2>1
      <3> QED BY <1>2, <1>10, <3>1
    <2> HIDE DEF Q
    <2> QED BY <1>1, <2>1, Downwards
  <1> QED BY <1>8, <1>9, <1>11 DEF N, V

\* u comes before w in x, and a space lies between v and w.
Precedes(x, u, w) == \E a, b \in 1..Len(x) : a < b /\ x[a] = u /\ x[b] = w
Split(x, v, w) == Parted(x, Len(x), v, w)

LEMMA ConcatFacts ==
  ASSUME NEW x \in Seq(Nat), NEW y \in Seq(Nat)
  PROVE  LET z == x \o y IN
         /\ z \in Seq(Nat)
         /\ \A v : Occurs(v, z) <=> Occurs(v, x) \/ Occurs(v, y)
         /\ \A u, w : Precedes(z, u, w) <=> \/ Precedes(x, u, w) \/ Precedes(y, u, w)
                                            \/ Occurs(u, x) /\ Occurs(w, y)
         /\ \A v, w : Split(z, v, w) <=> \/ Split(x, v, w) \/ Split(y, v, w)
                                         \/ Precedes(x, v, Space) /\ Occurs(w, y)
                                         \/ Occurs(v, x) /\ Precedes(y, Space, w)
         /\ (/\ AscendingIn(x, Word) /\ AscendingIn(y, Word)
             /\ \A v, w \in Word : Occurs(v, x) /\ Occurs(w, y) => v < w)
            => AscendingIn(z, Word)
  <1> DEFINE z == x \o y
             m == Len(x)
             n == Len(y)
  <1>1. /\ z \in Seq(Nat) /\ m \in Nat /\ n \in Nat /\ Len(z) = m + n
        /\ \A i \in 1..(m + n) : z[i] = IF i <= m THEN x[i] ELSE y[i - m]
        /\ DOMAIN x = 1..m /\ DOMAIN y = 1..n /\ DOMAIN z = 1..(m + n)
    BY ConcatProperties, LenProperties
  <1> HIDE DEF z, m, n
  <1>2. /\ \A a \in 1..m : a \in 1..(m + n) /\ a <= m /\ z[a] = x[a]
        /\ \A a \in 1..n : m + a \in 1..(m + n) /\ m + a > m /\ z[m + a] = y[a]
        /\ \A a \in 1..(m + n) : \/ a \in 1..m /\ a <= m /\ z[a] = x[a]
                                 \/ /\ a - m \in 1..n /\ a > m /\ z[a] = y[a - m]
                                    /\ a = m + (a - m)
    BY <1>1
  <1>3. /\ \A a, b \in 1..n : a < b <=> m + a < m + b
        /\ \A a \in 1..m, b \in 1..n : a < m + b
        /\ \A a \in 1..m, b \in 1..n : ~(m + b < a)
    BY <1>1
  <1>4. \A v : Occurs(v, z) <=> Occurs(v, x) \/ Occurs(v, y)
    BY <1>1, <1>2 DEF Occurs, Has, m, n
  <1>5. ASSUME NEW u, NEW w
        PROVE  Precedes(z, u, w) <=> \/ Precedes(x, u, w) \/ Precedes(y, u, w)
                                     \/ Occurs(u, x) /\ Occurs(w, y)
    <2>1. ASSUME Precedes(z, u, w)
          PROVE  Precedes(x, u, w) \/ Precedes(y, u, w) \/ (Occurs(u, x) /\ Occurs(w, y))
      <3>1. PICK a \in 1..(m + n), b \in 1..(m + n) : a < b /\ z[a] = u /\ z[b] = w
        BY <1>1, <2>1 DEF Precedes
      <3>2. CASE a \in 1..m /\ b \in 1..m
        BY <1>2, <3>1, <3>2 DEF Precedes, m
      <3>3. CASE a \in 1..m /\ b - m \in 1..n /\ b > m
        <4>1. z[a] = x[a] /\ z[b] = y[b - m]
          BY <1>1, <3>1, <3>3
        <4> QED BY <3>1, <3>3, <4>1 DEF Occurs, Has, m, n
      <3>4. CASE a - m \in 1..n /\ a > m
        <4>1. b - m \in 1..n /\ a - m < b - m /\ z[a] = y[a - m] /\ z[b] = y[b - m]
          BY <1>1, <3>1, <3>4
        <4> QED BY <3>1, <3>4, <4>1 DEF Precedes, n
      <3>5. /\ a \in 1..m \/ (a - m \in 1..n /\ a > m)
            /\ b \in 1..m \/ (b - m \in 1..n /\ b > m)
        BY <1>2
      <3> QED BY <3>2, <3>3, <3>4, <3>5
    <2>2. ASSUME Precedes(x, u, w) PROVE Precedes(z, u, w)
      <3>1. PICK a \in 1..m, b \in 1..m : a < b /\ x[a] = u /\ x[b] = w
        BY <2>2 DEF Precedes, m
      <3>2. a \in 1..(m + n) /\ b \in 1..(m + n) /\ z[a] = u /\ z[b] = w
        BY <1>1, <1>2, <3>1
      <3> QED BY <1>1, <3>1, <3>2 DEF Precedes
    <2>3. ASSUME Precedes(y, u, w) PROVE Precedes(z, u, w)
      <3>1. PICK a \in 1..n, b \in 1..n : a < b /\ y[a] = u /\ y[b] = w
        BY <2>3 DEF Precedes, n
      <3>2. /\ m + a \in 1..(m + n) /\ z[m + a] = u
            /\ m + b \in 1..(m + n) /\ z[m + b] = w
        BY <1>2, <3>1
      <3>3. m + a < m + b /\ Len(z) = m + n
        BY <1>1, <3>1
      <3> DEFINE c == m + a
                 d == m + b
      <3> HIDE DEF c, d
      <3>4. c \in 1..Len(z) /\ d \in 1..Len(z) /\ c < d /\ z[c] = u /\ z[d] = w
        BY <3>2, <3>3 DEF c, d
      <3> QED BY <3>4 DEF Precedes
    <2>4. ASSUME Occurs(u, x), Occurs(w, y) PROVE Precedes(z, u, w)
      <3>1. PICK a \in 1..m, b \in 1..n : x[a] = u /\ y[b] = w
        BY <2>4 DEF Occurs, Has, m, n
      <3> QED BY <1>1, <1>2, <1>3, <3>1 DEF Precedes
    <2> QED BY <2>1, <2>2, <2>3, <2>4
  <1>6. ASSUME NEW v, NEW w
        PROVE  Split(z, v, w) <=> \/ Split(x, v, w) \/ Split(y, v, w)
                                  \/ Precedes(x, v, Space) /\ Occurs(w, y)
                                  \/ Occurs(v, x) /\ Precedes(y, Space, w)
    <2>1. ASSUME Split(z, v, w)
          PROVE  \/ Split(x, v, w) \/ Split(y, v, w)
                 \/ Precedes(x, v, Space) /\ Occurs(w, y)
                 \/ Occurs(v, x) /\ Precedes(y, Space, w)
      <3>1. PICK a \in 1..(m + n), b \in 1..(m + n), c \in 1..(m + n) :
              a < b /\ b < c /\ z[a] = v /\ z[b] = Space /\ z[c] = w
        BY <1>1, <2>1 DEF Split, Parted
      <3>2. CASE c \in 1..m
        <4>1. a \in 1..m /\ b \in 1..m
          BY <1>1, <3>1, <3>2
        <4> QED BY <1>2, <3>1, <3>2, <4>1 DEF Split, Parted, m
      <3>3. CASE c - m \in 1..n /\ c > m /\ b \in 1..m
        <4>1. a \in 1..m
          BY <1>1, <3>1, <3>3
        <4>2. z[a] = x[a] /\ z[b] = x[b] /\ z[c] = y[c - m]
          BY <1>1, <3>1, <3>3, <4>1
        <4>3. Precedes(x, v, Space)
          BY <3>1, <3>3, <4>1, <4>2 DEF Precedes, m
        <4>4. Occurs(w, y)
          BY <3>1, <3>3, <4>2 DEF Occurs, Has, n
        <4> QED BY <4>3, <4>4
      <3>4. CASE c - m \in 1..n /\ c > m /\ b - m \in 1..n /\ b > m /\ a \in 1..m
        <4>1. b - m < c - m /\ z[a] = x[a] /\ z[b] = y[b - m] /\ z[c] = y[c - m]
          BY <1>1, <3>1, <3>4
        <4> QED BY <3>1, <3>4, <4>1 DEF Precedes, Occurs, Has, m, n
      <3>5. CASE a - m \in 1..n /\ a > m
        <4>1. m \in Nat /\ n \in Nat
          BY <1>1
        <4>2. /\ b - m \in 1..n /\ c - m \in 1..n /\ a - m < b - m /\ b - m < c - m
              /\ b > m /\ c > m
          BY <3>1, <3>5, <4>1
        <4>3. \A i \in 1..(m + n) : i > m => z[i] = y[i - m]
          BY <1>2, <4>1
        <4>4. z[a] = y[a - m] /\ z[b] = y[b - m] /\ z[c] = y[c - m]
          BY <3>1, <3>5, <4>2, <4>3
        <4> QED BY <3>1, <3>5, <4>2, <4>4 DEF Split, Parted, n
      <3>6. /\ a \in 1..m \/ (a - m \in 1..n /\ a > m)
            /\ b \in 1..m \/ (b - m \in 1..n /\ b > m)
            /\ c \in 1..m \/ (c - m \in 1..n /\ c > m)
        BY <1>2
      <3> QED BY <3>2, <3>3, <3>4, <3>5, <3>6
    <2>2. ASSUME Split(x, v, w) PROVE Split(z, v, w)
      BY <1>1, <1>2, <2>2 DEF Split, Parted, m
    <2>3. ASSUME Split(y, v, w) PROVE Split(z, v, w)
      <3>1. PICK a \in 1..n, b \in 1..n, c \in 1..n :
              a < b /\ b < c /\ y[a] = v /\ y[b] = Space /\ y[c] = w
        BY <2>3 DEF Split, Parted, n
      <3> QED BY <1>1, <1>2, <1>3, <3>1 DEF Split, Parted
    <2>4. ASSUME Precedes(x, v, Space), Occurs(w, y) PROVE Split(z, v, w)
      <3>1. PICK a \in 1..m, b \in 1..m, c \in 1..n :
              a < b /\ x[a] = v /\ x[b] = Space /\ y[c] = w
        BY <2>4 DEF Precedes, Occurs, Has, m, n
      <3> QED BY <1>1, <1>2, <1>3, <3>1 DEF Split, Parted
    <2>5. ASSUME Occurs(v, x), Precedes(y, Space, w) PROVE Split(z, v, w)
      <3>1. PICK a \in 1..m, b \in 1..n, c \in 1..n :
              b < c /\ x[a] = v /\ y[b] = Space /\ y[c] = w
        BY <2>5 DEF Precedes, Occurs, Has, m, n
      <3> QED BY <1>1, <1>2, <1>3, <3>1 DEF Split, Parted
    <2> QED BY <2>1, <2>2, <2>3, <2>4, <2>5
  <1>7. ASSUME AscendingIn(x, Word), AscendingIn(y, Word),
               \A v, w \in Word : Occurs(v, x) /\ Occurs(w, y) => v < w
        PROVE  AscendingIn(z, Word)
    <2> SUFFICES ASSUME NEW a \in 1..(m + n), NEW b \in 1..(m + n), a < b,
                        z[a] \in Word, z[b] \in Word
                 PROVE  z[a] < z[b]
      BY <1>1 DEF AscendingIn
    <2>1. CASE a \in 1..m /\ b \in 1..m
      BY <1>1, <1>2, <1>7, <2>1 DEF AscendingIn
    <2>2. CASE a \in 1..m /\ b - m \in 1..n /\ b > m
      <3>1. z[a] = x[a] /\ z[b] = y[b - m]
        BY <1>1, <2>2
      <3>2. Occurs(z[a], x) /\ Occurs(z[b], y)
        BY <2>2, <3>1 DEF Occurs, Has, m, n
      <3> QED BY <1>7, <3>2
    <2>3. CASE a - m \in 1..n /\ a > m
      <3>1. b - m \in 1..n /\ a - m < b - m /\ z[a] = y[a - m] /\ z[b] = y[b - m]
        BY <1>1, <2>3
      <3> QED BY <1>1, <1>7, <2>3, <3>1 DEF AscendingIn
    <2> QED BY <1>2, <2>1, <2>2, <2>3
  <1> QED BY <1>1, <1>4, <1>5, <1>6, <1>7 DEF z

\* The break that Joined makes is a space like any other.
LEMMA JoinedFacts ==
  ASSUME NEW nodes, NEW x \in Seq(Nat), NEW c
  PROVE  LET z == Joined(nodes, x, c) IN
         /\ z \in Seq(Nat)
         /\ \A v \in Word : Occurs(v, z) <=> Occurs(v, x)
         /\ \A u, w : Precedes(z, u, w) <=>
              \/ Precedes(x, u, w)
              \/ x # <<>> /\ nodes[c].type \in BlockTypes /\ Occurs(u, x) /\ w = Space
         /\ Occurs(Space, z) <=> Occurs(Space, x) \/ (x # <<>> /\ nodes[c].type \in BlockTypes)
         /\ \A v, w \in Word : Split(z, v, w) <=> Split(x, v, w)
         /\ AscendingIn(x, Word) => AscendingIn(z, Word)
  <1> DEFINE y == <<Space>>
             z == Joined(nodes, x, c)
  <1>1. /\ y \in Seq(Nat) /\ Len(y) = 1 /\ y[1] = Space /\ 1..1 = {1} /\ DOMAIN y = {1}
        /\ Space \notin Word
    BY DEF Space, Word
  <1>2. Append(x, Space) = x \o y
    OBVIOUS
  <1>3. z = IF x # <<>> /\ nodes[c].type \in BlockTypes THEN x \o y ELSE x
    BY <1>2 DEF Joined
  <1> HIDE DEF y, z
  <1>4. /\ \A v : Occurs(v, y) <=> v = Space
        /\ \A u, w : ~Precedes(y, u, w)
        /\ \A v, w : ~Split(y, v, w)
        /\ AscendingIn(y, Word)
    BY <1>1 DEF Occurs, Has, Precedes, Split, Parted, AscendingIn
  <1>5. CASE x # <<>> /\ nodes[c].type \in BlockTypes
    <2> DEFINE u0 == x \o y
    <2>1. /\ z \in Seq(Nat)
          /\ \A v : Occurs(v, z) <=> Occurs(v, x) \/ Occurs(v, y)
          /\ \A u, w : Precedes(z, u, w) <=> \/ Precedes(x, u, w) \/ Precedes(y, u, w)
                                             \/ Occurs(u, x) /\ Occurs(w, y)
          /\ \A v, w : Split(z, v, w) <=> \/ Split(x, v, w) \/ Split(y, v, w)
                                          \/ Precedes(x, v, Space) /\ Occurs(w, y)
                                          \/ Occurs(v, x) /\ Precedes(y, Space, w)
          /\ (/\ AscendingIn(x, Word) /\ AscendingIn(y, Word)
              /\ \A v, w \in Word : Occurs(v, x) /\ Occurs(w, y) => v < w)
             => AscendingIn(z, Word)
      BY <1>1, <1>3, <1>5, ConcatFacts
    <2>2. \A v \in Word : ~Occurs(v, y)
      BY <1>1, <1>4
    <2> QED BY <1>1, <1>4, <1>5, <2>1, <2>2 DEF z
  <1>6. CASE ~(x # <<>> /\ nodes[c].type \in BlockTypes)
    BY <1>3, <1>6 DEF z
  <1> QED BY <1>5, <1>6

\* The words of the children up to k, where what is within a child comes
\* before what is within a later one.
LEMMA GatherWords ==
  ASSUME NEW nodes \in Seq(NodeRecords), NEW w, NEW n, NEW g, Gathers(g, nodes, w, n),
         \A k \in 0..Len(nodes) : g[k] \in Seq(Nat),
         \A c \in 1..Len(nodes) : nodes[c].parent = n =>
           w[c] \in Seq(Nat) /\ AscendingIn(w[c], Word),
         \A c, e \in 1..Len(nodes) : nodes[c].parent = n /\ nodes[e].parent = n /\ c < e =>
           \A u, v \in Word : Occurs(u, w[c]) /\ Occurs(v, w[e]) => u < v
  PROVE  \A k \in 0..Len(nodes) :
           /\ AscendingIn(g[k], Word)
           /\ \A v \in Word : Occurs(v, g[k]) <=>
                \E c \in 1..k : nodes[c].parent = n /\ Occurs(v, w[c])
  <1> DEFINE N == Len(nodes)
             Good(k) == /\ AscendingIn(g[k], Word)
                        /\ \A v \in Word : Occurs(v, g[k]) <=>
                             \E c \in 1..k : nodes[c].parent = n /\ Occurs(v, w[c])
             P == {k \in 0..N : Good(k)}
  <1>1. N \in Nat /\ 1..0 = {}
    OBVIOUS
  <1>2. 0 \in P
    <2>1. g[0] = <<>> /\ AscendingIn(g[0], Word) /\ \A v : ~Occurs(v, g[0])
      BY DEF Gathers, AscendingIn, Occurs, Has
    <2> QED BY <1>1, <2>1
  <1>3. ASSUME NEW k \in 1..N, k - 1 \in P PROVE k \in P
    <2> DEFINE x == g[k - 1]
    <2>1. /\ x \in Seq(Nat) /\ AscendingIn(x, Word) /\ k \in 0..N
          /\ \A v \in Word : Occurs(v, x) <=>
               \E c \in 1..(k - 1) : nodes[c].parent = n /\ Occurs(v, w[c])
      <3>1. k \in 0..N /\ k - 1 \in 0..N
        BY <1>1
      <3>2. Good(k - 1)
        BY <1>3
      <3> HIDE DEF N, P
      <3> QED BY <3>1, <3>2 DEF N
    <2>2. g[k] = Gather(nodes, w, n, x, k)
      BY DEF Gathers
    <2>3. /\ \A c \in 1..k : c \in 1..(k - 1) \/ c = k
          /\ \A c \in 1..(k - 1) : c \in 1..k /\ c \in 1..N /\ c < k
          /\ k \in 1..k
      BY <1>1
    <2> HIDE DEF N, x
    <2>4. CASE nodes[k].parent # n \/ w[k] = <<>>
      <3>1. g[k] = x
        BY <2>2, <2>4 DEF Gather
      <3>2. \A v : ~Occurs(v, <<>>)
        BY DEF Occurs, Has
      <3>3. \A v \in Word : ~(nodes[k].parent = n /\ Occurs(v, w[k]))
        BY <2>4, <3>2
      <3>4. \A v \in Word : (\E c \in 1..(k - 1) : nodes[c].parent = n /\ Occurs(v, w[c]))
                            <=> \E c \in 1..k : nodes[c].parent = n /\ Occurs(v, w[c])
        BY <2>3, <3>3
      <3>5. Good(k)
        BY <2>1, <3>1, <3>4
      <3> HIDE DEF Good
      <3> QED BY <2>1, <3>5
    <2>5. CASE nodes[k].parent = n /\ w[k] # <<>>
      <3> DEFINE z == Joined(nodes, x, k)
                 y == w[k]
      <3>1. g[k] = z \o y /\ y \in Seq(Nat) /\ AscendingIn(y, Word)
        BY <2>2, <2>5 DEF Gather, N
      <3>2. /\ z \in Seq(Nat) /\ AscendingIn(z, Word)
            /\ \A v \in Word : Occurs(v, z) <=> Occurs(v, x)
        BY <2>1, JoinedFacts
      <3> HIDE DEF z, y
      <3>3. \A u, v \in Word : Occurs(u, z) /\ Occurs(v, y) => u < v
        <4> SUFFICES ASSUME NEW u \in Word, NEW v \in Word, Occurs(u, z), Occurs(v, y)
                     PROVE  u < v
          OBVIOUS
        <4>1. PICK c \in 1..(k - 1) : nodes[c].parent = n /\ Occurs(u, w[c])
          BY <2>1, <3>2
        <4> QED BY <2>3, <2>5, <4>1 DEF y, N
      <3>4. /\ AscendingIn(z \o y, Word)
            /\ \A v : Occurs(v, z \o y) <=> Occurs(v, z) \/ Occurs(v, y)
        BY <3>1, <3>2, <3>3, ConcatFacts
      <3>5. \A v \in Word : Occurs(v, g[k]) <=>
                              \E c \in 1..k : nodes[c].parent = n /\ Occurs(v, w[c])
        <4>1. \A v \in Word : Occurs(v, g[k]) <=> Occurs(v, x) \/ Occurs(v, w[k])
          BY <3>1, <3>2, <3>4 DEF y
        <4> QED BY <2>1, <2>3, <2>5, <4>1
      <3>6. Good(k)
        BY <3>1, <3>4, <3>5
      <3> HIDE DEF Good
      <3> QED BY <2>1, <3>6
    <2> QED BY <2>4, <2>5
  <1>4. \A k \in 0..N : k \in P
    <2> HIDE DEF P, N
    <2> QED BY <1>1, <1>2, <1>3, Upwards
  <1> QED BY <1>4

\* v is a word of n or of what is within n.
WordOf(nodes, n, v) ==
  \E m \in 1..Len(nodes) : Within(nodes, n, m) /\ Occurs(v, nodes[m].text)

LEMMA ChildWords ==
  ASSUME NEW nodes, IsTree(nodes), NEW n \in 1..Len(nodes)
  PROVE  /\ nodes[n].type # "text" =>
              \A v : WordOf(nodes, n, v) <=>
                \E c \in 1..Len(nodes) : nodes[c].parent = n /\ WordOf(nodes, c, v)
         /\ nodes[n].type = "text" => \A v : WordOf(nodes, n, v) <=> Occurs(v, nodes[n].text)
         /\ \A c, e \in 1..Len(nodes) : nodes[c].parent = n /\ nodes[e].parent = n /\ c < e =>
              \A u, v \in Word : WordOf(nodes, c, u) /\ WordOf(nodes, e, v) => u < v
  <1> DEFINE N == Len(nodes)
  <1>1. N \in Nat /\ TextsAscend(nodes)
    BY DEF IsTree
  <1>2. \A v : ~Occurs(v, <<>>)
    BY DEF Occurs, Has
  <1>3. \A m \in 1..N : m # n =>
          (Within(nodes, n, m) <=> \E c \in 1..N : nodes[c].parent = n /\ Within(nodes, c, m))
    BY WithinChild
  <1>4. Within(nodes, n, n) /\ \A c \in 1..N : Within(nodes, c, n) => c <= n
    BY WithinFacts
  <1>5. \A c \in 1..N : nodes[c].parent = n => ~Within(nodes, c, n)
    <2>1. \A c \in 1..N : nodes[c].parent \in Nat /\ nodes[c].parent < c
      BY WithinFacts
    <2> QED BY <1>4, <2>1
  <1>6. ASSUME nodes[n].type # "text", NEW v
        PROVE  WordOf(nodes, n, v) <=> \E c \in 1..N : nodes[c].parent = n /\ WordOf(nodes, c, v)
    <2>1. nodes[n].text = <<>>
      BY <1>1, <1>6 DEF TextsAscend
    <2>2. ASSUME WordOf(nodes, n, v)
          PROVE  \E c \in 1..N : nodes[c].parent = n /\ WordOf(nodes, c, v)
      <3>1. PICK m \in 1..N : Within(nodes, n, m) /\ Occurs(v, nodes[m].text)
        BY <2>2 DEF WordOf
      <3>2. m # n
        BY <1>2, <2>1, <3>1
      <3> QED BY <1>3, <3>1, <3>2 DEF WordOf
    <2>3. ASSUME NEW c \in 1..N, nodes[c].parent = n, WordOf(nodes, c, v)
          PROVE  WordOf(nodes, n, v)
      <3>1. PICK m \in 1..N : Within(nodes, c, m) /\ Occurs(v, nodes[m].text)
        BY <2>3 DEF WordOf
      <3>2. m # n
        BY <1>5, <2>3, <3>1
      <3> QED BY <1>3, <2>3, <3>1, <3>2 DEF WordOf
    <2> QED BY <2>2, <2>3
  <1>7. ASSUME nodes[n].type = "text", NEW v
        PROVE  WordOf(nodes, n, v) <=> Occurs(v, nodes[n].text)
    <2>1. \A c \in 1..N : nodes[c].parent # n
      BY <1>7, WithinFacts DEF Childless
    <2>2. \A m \in 1..N : Within(nodes, n, m) <=> m = n
      BY <1>3, <1>4, <2>1
    <2> QED BY <2>2 DEF WordOf
  <1>8. ASSUME NEW c \in 1..N, NEW e \in 1..N, nodes[c].parent = n, nodes[e].parent = n, c < e,
               NEW u \in Word, NEW v \in Word, WordOf(nodes, c, u), WordOf(nodes, e, v)
        PROVE  u < v
    <2>1. PICK m \in 1..N : Within(nodes, c, m) /\ Occurs(u, nodes[m].text)
      BY <1>8 DEF WordOf
    <2>2. PICK q \in 1..N : Within(nodes, e, q) /\ Occurs(v, nodes[q].text)
      BY <1>8 DEF WordOf
    <2>3. m < e
      BY <1>8, <2>1, SiblingsFollow
    <2>4. e <= q
      BY <2>2 DEF Within
    <2>5. m < q
      BY <2>3, <2>4
    <2> QED BY <1>1, <2>1, <2>2, <2>5 DEF TextsAscend
  <1> QED BY <1>6, <1>7, <1>8

\* extractText: the text of a node has the words within it, in order.
LEMMA ExtractFacts ==
  ASSUME NEW nodes, IsTree(nodes)
  PROVE  \A n \in 1..Len(nodes) :
           LET x == extractText(nodes)[n] IN
           /\ x \in Seq(Nat) /\ AscendingIn(x, Word)
           /\ \A v \in Word : Occurs(v, x) <=> WordOf(nodes, n, v)
  <1> DEFINE N == Len(nodes)
             extract == extractText(nodes)
             Good(n) == /\ AscendingIn(extract[n], Word)
                        /\ \A v \in Word : Occurs(v, extract[n]) <=> WordOf(nodes, n, v)
             P == {n \in 1..N : Good(n)}
  <1>1. nodes \in Seq(NodeRecords) /\ N \in Nat /\ DOMAIN nodes = 1..N /\ TextsAscend(nodes)
    BY DEF IsTree
  <1>2. /\ extract = ExtractFurther(nodes, extract)
        /\ \A n \in 1..N : extract[n] \in Seq(Nat)
    BY ExtractExists
  <1>3. \A n \in 1..N : nodes[n].parent \in Nat /\ nodes[n].parent < n
    BY WithinFacts
  <1> HIDE DEF extract, N
  <1>4. \A n \in 1..N : extract[n] = IF nodes[n].type = "text" THEN nodes[n].text
                                     ELSE Gathered(nodes, extract, n)
    <2>1. \A n \in 1..N : ExtractFurther(nodes, extract)[n] =
                            IF nodes[n].type = "text" THEN nodes[n].text
                            ELSE Gathered(nodes, extract, n)
      BY <1>1 DEF ExtractFurther
    <2> QED BY <1>2, <2>1
  <1>5. ASSUME NEW n \in 1..N, \A c \in (n + 1)..N : c \in P PROVE n \in P
    <2>1. CASE nodes[n].type = "text"
      <3>1. extract[n] = nodes[n].text
        BY <1>4, <2>1
      <3>2. AscendingIn(nodes[n].text, Word)
        BY <1>1 DEF TextsAscend, N
      <3>3. \A v : WordOf(nodes, n, v) <=> Occurs(v, nodes[n].text)
        BY <2>1, ChildWords DEF N
      <3>4. Good(n)
        BY <3>1, <3>2, <3>3
      <3> HIDE DEF Good
      <3> QED BY <3>4
    <2>2. CASE nodes[n].type # "text"
      <3>1. \A c \in 1..N : nodes[c].parent = n => extract[c] \in Seq(Nat) /\ Good(c)
        <4>1. \A c \in 1..N : nodes[c].parent = n => c \in (n + 1)..N
          BY <1>1, <1>3
        <4> HIDE DEF Good
        <4> QED BY <1>2, <1>5, <4>1
      <3>2. PICK g : /\ Gathers(g, nodes, extract, n) /\ Gathered(nodes, extract, n) = g[N]
                     /\ \A k \in 0..N : g[k] \in Seq(Nat)
        BY <1>1, <1>2, GatherSteps DEF N
      <3>3. /\ \A v : WordOf(nodes, n, v) <=>
                        \E c \in 1..N : nodes[c].parent = n /\ WordOf(nodes, c, v)
            /\ \A c, e \in 1..N : nodes[c].parent = n /\ nodes[e].parent = n /\ c < e =>
                 \A u, v \in Word : WordOf(nodes, c, u) /\ WordOf(nodes, e, v) => u < v
        BY <2>2, ChildWords DEF N
      <3>4. \A c, e \in 1..N : nodes[c].parent = n /\ nodes[e].parent = n /\ c < e =>
              \A u, v \in Word : Occurs(u, extract[c]) /\ Occurs(v, extract[e]) => u < v
        BY <3>1, <3>3
      <3>5. \A c \in 1..N : nodes[c].parent = n =>
              extract[c] \in Seq(Nat) /\ AscendingIn(extract[c], Word)
        BY <3>1
      <3>6. /\ AscendingIn(g[N], Word)
            /\ \A v \in Word : Occurs(v, g[N]) <=>
                 \E c \in 1..N : nodes[c].parent = n /\ Occurs(v, extract[c])
        <4>1. \A k \in 0..N : /\ AscendingIn(g[k], Word)
                              /\ \A v \in Word : Occurs(v, g[k]) <=>
                                   \E c \in 1..k : nodes[c].parent = n /\ Occurs(v, extract[c])
          <5>1. /\ \A k \in 0..Len(nodes) : g[k] \in Seq(Nat)
                /\ \A c \in 1..Len(nodes) : nodes[c].parent = n =>
                     extract[c] \in Seq(Nat) /\ AscendingIn(extract[c], Word)
                /\ \A c, e \in 1..Len(nodes) :
                     nodes[c].parent = n /\ nodes[e].parent = n /\ c < e =>
                       \A u, v \in Word : Occurs(u, extract[c]) /\ Occurs(v, extract[e]) => u < v
            BY <3>2, <3>4, <3>5 DEF N
          <5>2. \A k \in 0..Len(nodes) :
                  /\ AscendingIn(g[k], Word)
                  /\ \A v \in Word : Occurs(v, g[k]) <=>
                       \E c \in 1..k : nodes[c].parent = n /\ Occurs(v, extract[c])
            BY <1>1, <3>2, <5>1, GatherWords
          <5> QED BY <5>2 DEF N
        <4>2. N \in 0..N
          BY <1>1
        <4> QED BY <4>1, <4>2
      <3>7. extract[n] = g[N]
        BY <1>4, <2>2, <3>2
      <3>8. Good(n)
        <4>1. \A v \in Word : Occurs(v, extract[n]) <=> WordOf(nodes, n, v)
          BY <3>1, <3>3, <3>6, <3>7
        <4> QED BY <3>6, <3>7, <4>1
      <3> HIDE DEF Good
      <3> QED BY <3>8
    <2> QED BY <2>1, <2>2
  <1>6. \A n \in 1..N : n \in P
    <2> HIDE DEF P
    <2> QED BY <1>1, <1>5, Downwards
  <1> QED BY <1>2, <1>6 DEF N, extract

\* The whole text, before and after normalizeText.
LEMMA TextFacts ==
  ASSUME NEW text \in Bodies
  PROVE  LET x == extractText(Nodes(text))[1]
             y == normalizeText(x) IN
         /\ x \in Seq(Nat) /\ AscendingIn(x, Word)
         /\ \A v \in Word : Occurs(v, x) <=> IsKept(text, v)
         /\ Words(y) \in Seq(Int) /\ Ascending(Words(y))
         /\ ToSet(Words(y)) = {v \in Word : IsKept(text, v)}
  <1> DEFINE nodes == Nodes(text)
             N == Len(nodes)
             x == extractText(nodes)[1]
             y == normalizeText(x)
             S == {v \in Word : IsKept(text, v)}
  <1>1. /\ IsTree(nodes)
        /\ \A v \in Word : (\E n \in 1..N : Occurs(v, nodes[n].text)) <=> IsKept(text, v)
    BY NodesFacts
  <1> HIDE DEF nodes
  <1>2. 1 \in 1..N
    BY <1>1 DEF IsTree
  <1>3. /\ x \in Seq(Nat) /\ AscendingIn(x, Word)
        /\ \A v \in Word : Occurs(v, x) <=> WordOf(nodes, 1, v)
    BY <1>1, <1>2, ExtractFacts
  <1>4. \A v : WordOf(nodes, 1, v) <=> \E n \in 1..N : Occurs(v, nodes[n].text)
    <2>1. \A m \in 1..N : Within(nodes, 1, m)
      BY <1>1, <1>2, WithinFacts
    <2> QED BY <2>1 DEF WordOf
  <1> HIDE DEF x
  <1>5. \A v \in Word : Occurs(v, x) <=> v \in S
    BY <1>1, <1>3, <1>4
  <1>6. /\ y \in Seq(Nat) /\ AscendingIn(y, Word)
        /\ \A v \in Word : Has(y, Len(y), v) <=> v \in S
    BY <1>3, <1>5, NormalizeFacts DEF SameWords, Occurs
  <1>7. y \in Seq(Int)
    BY <1>6
  <1> HIDE DEF y, S
  <1>8. Words(y) \in Seq(Int) /\ Ascending(Words(y)) /\ ToSet(Words(y)) = S \cap Word
    BY <1>6, <1>7, WordsFacts
  <1>9. S \cap Word = S
    BY DEF S
  <1> QED BY <1>3, <1>5, <1>8, <1>9 DEF nodes, x, y, S

-----------------------------------------------------------------------------
(* Conversions                                                             *)

\* The body is one of the storage format, and the result is its conversion.
BodyKnown ==
  /\ body \in Bodies
  /\ letters # <<>> => letters \in [length : Nat, letters : SUBSET Bodies]
  /\ result # <<>> => result = ConvertStorage(body)

LEMMA BodiesJoin ==
  ASSUME NEW x \in Bodies, NEW y \in Bodies
  PROVE  x \o y \in Bodies
  <1> DEFINE z == x \o y
             m == Len(x)
             n == Len(y)
  <1>1. /\ x \in Seq(Tokens) /\ y \in Seq(Tokens)
        /\ \A i \in DOMAIN x : IsContentless(x[i]) => i + 1 \in DOMAIN x /\ x[i + 1].token = "end"
        /\ \A i \in DOMAIN y : IsContentless(y[i]) => i + 1 \in DOMAIN y /\ y[i + 1].token = "end"
    BY DEF Bodies
  <1>2. /\ z \in Seq(Tokens) /\ m \in Nat /\ n \in Nat
        /\ \A i \in 1..(m + n) : z[i] = IF i <= m THEN x[i] ELSE y[i - m]
        /\ DOMAIN x = 1..m /\ DOMAIN y = 1..n /\ DOMAIN z = 1..(m + n)
    BY <1>1, ConcatProperties, LenProperties
  <1> HIDE DEF z, m, n
  <1>3. ASSUME NEW i \in 1..(m + n), IsContentless(z[i])
        PROVE  i + 1 \in 1..(m + n) /\ z[i + 1].token = "end"
    <2>1. CASE i <= m
      <3>1. i \in 1..m /\ z[i] = x[i]
        BY <1>2, <2>1
      <3>2. i + 1 \in 1..m /\ x[i + 1].token = "end"
        BY <1>1, <1>2, <1>3, <3>1
      <3>3. i + 1 \in 1..(m + n) /\ z[i + 1] = x[i + 1]
        BY <1>2, <3>2
      <3> QED BY <3>2, <3>3
    <2>2. CASE i > m
      <3>1. i - m \in 1..n /\ z[i] = y[i - m]
        BY <1>2, <2>2
      <3>2. (i - m) + 1 \in 1..n /\ y[(i - m) + 1].token = "end"
        BY <1>1, <1>2, <1>3, <3>1
      <3>3. i + 1 \in 1..(m + n) /\ z[i + 1] = y[(i - m) + 1]
        <4>1. i + 1 \in 1..(m + n) /\ ~(i + 1 <= m) /\ (i + 1) - m = (i - m) + 1
          BY <1>2, <2>2, <3>2
        <4> QED BY <1>2, <4>1
      <3> QED BY <3>2, <3>3
    <2> QED BY <1>2, <2>1, <2>2
  <1>4. z \in Bodies
    BY <1>2, <1>3 DEF Bodies
  <1> QED BY <1>4 DEF z

LEMMA EndsAreABody ==
  ASSUME NEW n \in Int
  PROVE  [i \in 1..n |-> [token |-> "end"]] \in Bodies
  <1> DEFINE end == [token |-> "end"]
             ends == [i \in 1..n |-> end]
  <1>1. end \in Tokens /\ ~IsContentless(end)
    BY DEF Tokens, IsContentless
  <1> HIDE DEF end
  <1>2. DOMAIN ends = 1..n /\ \A i \in 1..n : ends[i] = end
    OBVIOUS
  <1>3. ends \in Seq(Tokens)
    <2>1. CASE n < 0
      <3>1. 1..n = 1..0
        BY <2>1
      <3> QED BY <1>1, <3>1
    <2>2. CASE n >= 0
      BY <1>1, <2>2
    <2> QED BY <2>1, <2>2
  <1> HIDE DEF ends
  <1>4. ends \in Bodies
    BY <1>1, <1>2, <1>3 DEF Bodies
  <1> QED BY <1>4 DEF ends, end

LEMMA BodyInv == Spec => []BodyKnown
  <1>1. Init => BodyKnown
    <2>1. <<>> \in Bodies
      BY DEF Bodies
    <2> QED BY <2>1, AlphabetsAssumption DEF Init, BodyKnown
  <1>2. ASSUME BodyKnown, [Next]_vars
        PROVE  BodyKnown'
    <2>1. CASE PlanImport \/ UNCHANGED vars
      BY <1>2, <2>1 DEF BodyKnown, PlanImport, vars
    <2>2. CASE Continue
      <3>1. PICK letter \in letters.letters : body' = body \o letter
        BY <2>2 DEF Continue
      <3>2. /\ letters # <<>> /\ letters \in [length : Nat, letters : SUBSET Bodies]
            /\ letters.length > 0 /\ letters' = [letters EXCEPT !.length = @ - 1]
            /\ result = <<>> /\ result' = <<>>
        BY <1>2, <2>2 DEF BodyKnown, Continue
      <3>3. letters' \in [length : Nat, letters : SUBSET Bodies]
        <4>1. letters.length \in Nat /\ letters.length - 1 \in Nat
          BY <3>2
        <4> QED BY <3>2, <4>1
      <3>4. letter \in Bodies /\ body \in Bodies
        BY <1>2, <3>1, <3>2 DEF BodyKnown
      <3>5. body' \in Bodies
        BY <3>1, <3>4, BodiesJoin
      <3> QED BY <3>2, <3>3, <3>5 DEF BodyKnown
    <2>3. CASE Convert
      <3>1. PICK closed \in BOOLEAN :
              body' = IF closed THEN body \o [i \in 1..Depth(body, Len(body) + 1) |->
                                                [token |-> "end"]]
                                ELSE body
        BY <2>3 DEF Convert
      <3>2. body \in Bodies /\ body \in Seq(Tokens) /\ result' = ConvertStorage(body')
            /\ UNCHANGED letters
        BY <1>2, <2>3 DEF BodyKnown, Bodies, Convert
      <3>3. Depth(body, Len(body) + 1) \in Int
        <4>1. PICK d : /\ Deepens(d, body)
                       /\ \A i \in 1..(Len(body) + 1) : Depth(body, i) = d[i - 1]
          BY <3>2, DepthSteps
        <4>2. Len(body) \in Nat /\ Len(body) + 1 \in 1..(Len(body) + 1)
              /\ (Len(body) + 1) - 1 = Len(body)
          BY <3>2
        <4>3. d[Len(body)] \in Int
          BY <4>1, <4>2 DEF Deepens
        <4>4. Depth(body, Len(body) + 1) = d[(Len(body) + 1) - 1]
          BY <4>1, <4>2
        <4> QED BY <4>2, <4>3, <4>4
      <3>4. [i \in 1..Depth(body, Len(body) + 1) |-> [token |-> "end"]] \in Bodies
        BY <3>3, EndsAreABody
      <3>5. body' \in Bodies
        BY <3>1, <3>2, <3>4, BodiesJoin
      <3> QED BY <1>2, <3>2, <3>5 DEF BodyKnown
    <2> QED BY <1>2, <2>1, <2>2, <2>3 DEF Next
  <1> QED BY <1>1, <1>2, PTL DEF Spec

\* The positions of a body that are in S, in their order.
LEMMA PositionsIn ==
  ASSUME body \in Seq(Tokens), NEW S \in SUBSET (1..Len(body))
  PROVE  /\ Selected(Positions, S) \in Seq(Int) /\ Ascending(Selected(Positions, S))
         /\ ToSet(Selected(Positions, S)) = S
  <1>1. Len(body) \in Nat /\ DOMAIN body = 1..Len(body)
    OBVIOUS
  <1>2. Positions = [i \in 1..Len(body) |-> i]
    BY <1>1 DEF Positions
  <1>3. Positions \in Seq(Int) /\ AscendingIn(Positions, S) /\ ToSet(Positions) = 1..Len(body)
    BY <1>1, <1>2 DEF AscendingIn, ToSet
  <1> DEFINE s == Positions
  <1>4. s \in Seq(Int) /\ AscendingIn(s, S) /\ ToSet(s) \cap S = S
    BY <1>3
  <1> HIDE DEF s
  <1>5. /\ Selected(s, S) \in Seq(Int) /\ ToSet(Selected(s, S)) = ToSet(s) \cap S
        /\ AscendingIn(s, S) => Ascending(Selected(s, S))
    BY <1>4, SelectedFacts
  <1>6. Selected(s, S) \in Seq(Int) /\ Ascending(Selected(s, S)) /\ ToSet(Selected(s, S)) = S
    BY <1>4, <1>5
  <1> QED BY <1>6 DEF s

\* ConvertStorage, for bodies of any length and nesting: the text for the
\* search has every word once and in order, also that of a body the decoder
\* rejects, as long as it holds no CDATA section and no raw <.
THEOREM Kept == Spec => []WordsKept
  <1>1. ASSUME BodyKnown, Converted PROVE WordsKept
    <2> DEFINE x == Words(result.text)
               S == {v \in Word : IsKept(body, v)}
    <2>1. body \in Bodies /\ body \in Seq(Tokens) /\ result = ConvertStorage(body)
      BY <1>1 DEF BodyKnown, Converted, Bodies
    <2>2. /\ result.text = normalizeText(extractText(Nodes(body))[1])
          /\ result.warnings = IF WellFormed(body) THEN 0 ELSE 1
      BY <2>1 DEF ConvertStorage
    <2>3. x \in Seq(Int) /\ Ascending(x) /\ ToSet(x) = S
      BY <2>1, <2>2, TextFacts
    <2>4. DOMAIN body = 1..Len(body) /\ Len(body) \in Nat
      BY <2>1
    <2>5. \A v \in 1..Len(body) : v \in Word
      BY <2>4 DEF Word, Space
    <2> HIDE DEF x, S
    <2>6. CASE WellFormed(body)
      <3> DEFINE T == {i \in DOMAIN body : \/ body[i].token \in Text \cup Cdata
                                           \/ IsEmoticon(body[i])}
      <3>1. T \in SUBSET (1..Len(body)) /\ S = T
        BY <2>4, <2>5, <2>6 DEF S, IsKept, IsWordToken, TextTokens
      <3>2. WordTokens = Selected(Positions, T)
        BY DEF WordTokens
      <3> HIDE DEF T
      <3>3. x = WordTokens
        BY <2>1, <2>3, <3>1, <3>2, PositionsIn, SameAscending
      <3> QED BY <2>2, <2>6, <3>3 DEF WordsKept, x
    <2>7. CASE ~WellFormed(body)
      <3>0. SUFFICES ASSUME TokensOf(Cdata \cup {"less"}) = <<>>
                     PROVE  x = TokensOf(Text)
        BY <2>2, <2>7 DEF WordsKept, x
      <3> DEFINE T == {i \in DOMAIN body : body[i].token \in Text}
                 U == {i \in DOMAIN body : body[i].token \in Cdata \cup {"less"}}
      <3>1. T \in SUBSET (1..Len(body)) /\ U \in SUBSET (1..Len(body))
        BY <2>4
      <3>2. TokensOf(Text) = Selected(Positions, T) /\ Selected(Positions, U) = <<>>
        BY <3>0 DEF TokensOf
      <3>3. U = {}
        <4> HIDE DEF U
        <4>1. ToSet(<<>>) = {}
          BY DEF ToSet
        <4> QED BY <2>1, <3>1, <3>2, <4>1, PositionsIn
      <3>4. \A i \in 1..Len(body) : body[i].token # "less" /\ body[i].token # "cdataMore"
        BY <2>4, <3>3 DEF Cdata
      <3>5. \A i \in 1..Len(body) : ~Swallowed(body, i)
        <4> SUFFICES ASSUME NEW i \in 1..Len(body), NEW j \in 1..(i - 1), body[j].token = "less"
                     PROVE  FALSE
          BY DEF Swallowed
        <4>1. j \in 1..Len(body)
          BY <2>4
        <4> QED BY <3>4, <4>1
      <3>6. S = T
        BY <2>4, <2>5, <2>7, <3>4, <3>5 DEF S, IsKept, Survives
      <3> HIDE DEF T
      <3> QED BY <2>1, <2>3, <3>1, <3>2, <3>6, PositionsIn, SameAscending
    <2> QED BY <2>6, <2>7
  <1>2. BodyKnown => WordsKept
    BY <1>1 DEF WordsKept
  <1> QED BY <1>2, BodyInv, PTL

-----------------------------------------------------------------------------
(* Macros and links                                                        *)

\* dedupeMacros, one macro further.
Counted(m, name) ==
  [x \in DOMAIN m \cup {name} |->
     (IF x \in DOMAIN m THEN m[x] ELSE 0) + (IF x = name THEN 1 ELSE 0)]
CountFurther(macros, iter) ==
  [t \in SUBSET DOMAIN macros |->
     IF t = {} THEN <<>> ELSE Counted(iter[t \ {Max(t)}], macros[Max(t)])]
Counts(f, macros) ==
  f[0] = <<>> /\ \A k \in 1..Len(macros) : f[k] = Counted(f[k - 1], macros[k])

LEMMA CountSteps ==
  ASSUME NEW macros \in Seq(Names)
  PROVE  \E f : Counts(f, macros) /\ dedupeMacros(macros) = f[Len(macros)]
  <1> DEFINE n == Len(macros)
             V == UNION {[D -> Nat] : D \in SUBSET Names}
             Step(b, k) == Counted(b, macros[k])
             step == [p \in V \X (1..n) |-> Step(p[1], p[2])]
             iter == CHOOSE w : w = CountFurther(macros, w)
  <1>0. n \in Nat /\ DOMAIN macros = 1..n /\ \A k \in 1..n : macros[k] \in Names
    OBVIOUS
  <1>1. <<>> \in V /\ step \in [V \X (1..n) -> V]
    <2>1. ASSUME NEW b \in V, NEW k \in 1..n PROVE Step(b, k) \in V
      <3>1. PICK D \in SUBSET Names : b \in [D -> Nat]
        OBVIOUS
      <3>2. D \cup {macros[k]} \in SUBSET Names
        BY <1>0
      <3>3. Counted(b, macros[k]) \in [D \cup {macros[k]} -> Nat]
        <4>1. DOMAIN b = D /\ \A x \in D : b[x] \in Nat
          BY <3>1
        <4>2. \A x : (IF x \in D THEN b[x] ELSE 0) \in Nat
          BY <4>1
        <4>3. \A x : (IF x = macros[k] THEN 1 ELSE 0) \in Nat
          OBVIOUS
        <4>4. \A x : (IF x \in D THEN b[x] ELSE 0) + (IF x = macros[k] THEN 1 ELSE 0) \in Nat
          BY <4>2, <4>3
        <4> QED BY <4>1, <4>4 DEF Counted
      <3> QED BY <3>2, <3>3
    <2>2. <<>> \in V
      <3>1. <<>> \in [{} -> Nat] /\ {} \in SUBSET Names
        OBVIOUS
      <3> QED BY <3>1
    <2> HIDE DEF Step, V
    <2>3. step \in [V \X (1..n) -> V]
      BY <2>1
    <2> QED BY <2>2, <2>3
  <1> HIDE DEF n, V
  <1>2. \E w : w = CountFurther(macros, w)
    <2>0. PICK w \in [SUBSET (1..n) -> V] : IsFold(w, n, <<>>, step)
      <3> HIDE DEF step
      <3> QED BY <1>0, <1>1, FoldTable
    <2>1. \A t \in SUBSET (1..n) :
            w[t] = IF t = {} THEN <<>> ELSE step[<<w[t \ {Max(t)}], Max(t)>>]
      <3> HIDE DEF step
      <3> QED BY <2>0 DEF IsFold
    <2>2. ASSUME NEW t \in SUBSET (1..n), t # {}
          PROVE  w[t] = Step(w[t \ {Max(t)}], Max(t))
      <3>1. Max(t) \in 1..n
        BY <1>0, <2>2, GreatestIndex
      <3>2. w[t \ {Max(t)}] \in V
        OBVIOUS
      <3>3. step[<<w[t \ {Max(t)}], Max(t)>>] = Step(w[t \ {Max(t)}], Max(t))
        <4> HIDE DEF Step
        <4> QED BY <3>1, <3>2
      <3> HIDE DEF step, Step
      <3> QED BY <2>1, <2>2, <3>3
    <2>3. w = [t \in SUBSET (1..n) |-> w[t]]
      OBVIOUS
    <2>4. w[{}] = <<>>
      BY <2>1
    <2>5. \A t \in SUBSET (1..n) :
            w[t] = IF t = {} THEN <<>> ELSE Step(w[t \ {Max(t)}], Max(t))
      <3> HIDE DEF Step, step
      <3> QED BY <2>2, <2>4
    <2> QED BY <1>0, <2>3, <2>5 DEF CountFurther
  <1>3. iter = CountFurther(macros, iter)
    BY <1>2
  <1>4. dedupeMacros(macros) = iter[1..n]
    BY <1>0 DEF dedupeMacros, FoldLeft, MapThenFoldSet, CountFurther, Counted
  <1> HIDE DEF iter
  <1>5. iter[1..0] = <<>>
    BY <1>0, <1>3, FoldChain DEF CountFurther
  <1>6. ASSUME NEW k \in 1..n
        PROVE  iter[1..k] = Step(iter[1..(k - 1)], k)
    <2>1. 1..k \in SUBSET (1..n) /\ 1..k # {} /\ Max(1..k) = k /\ (1..k) \ {Max(1..k)} = 1..(k - 1)
      BY <1>0, FoldChain
    <2>2. CountFurther(macros, iter)[1..k] = Step(iter[1..(k - 1)], k)
      BY <1>0, <2>1 DEF CountFurther
    <2> QED BY <1>3, <2>2
  <1> DEFINE f == [k \in 0..n |-> iter[1..k]]
  <1>7. f[0] = <<>> /\ dedupeMacros(macros) = f[n]
    BY <1>0, <1>4, <1>5
  <1>8. \A k \in 1..n : f[k] = Step(f[k - 1], k)
    <2>1. \A k \in 1..n : k \in 0..n /\ k - 1 \in 0..n
      BY <1>0
    <2> HIDE DEF Step
    <2> QED BY <1>6, <2>1
  <1> HIDE DEF f
  <1> QED BY <1>7, <1>8 DEF n, Counts

\* dedupeMacros: each name that occurs, with the number of its occurrences.
LEMMA CountFacts ==
  ASSUME NEW macros \in Seq(Names)
  PROVE  dedupeMacros(macros) =
           [x \in ToSet(macros) |-> Cardinality({i \in 1..Len(macros) : macros[i] = x})]
  <1> DEFINE n == Len(macros)
             At(k, x) == {i \in 1..k : macros[i] = x}
             Upto(k) == {macros[i] : i \in 1..k}
  <1>1. PICK f : Counts(f, macros) /\ dedupeMacros(macros) = f[n]
    BY CountSteps
  <1> DEFINE P == {k \in 0..n : f[k] = [x \in Upto(k) |-> Cardinality(At(k, x))]}
  <1>2. n \in Nat /\ DOMAIN macros = 1..n
    OBVIOUS
  <1>3. 0 \in P
    <2>1. Upto(0) = {}
      BY <1>2
    <2>2. f[0] = [x \in {} |-> Cardinality(At(0, x))]
      BY <1>1 DEF Counts
    <2>3. 0 \in 0..n
      BY <1>2
    <2> HIDE DEF At, Upto, n
    <2> QED BY <2>1, <2>2, <2>3
  <1>4. ASSUME NEW k \in 1..n, k - 1 \in P PROVE k \in P
    <2>1. /\ f[k - 1] = [x \in Upto(k - 1) |-> Cardinality(At(k - 1, x))]
          /\ f[k] = Counted(f[k - 1], macros[k]) /\ k \in 0..n
      BY <1>1, <1>2, <1>4 DEF Counts
    <2>2. 1..k = (1..(k - 1)) \cup {k} /\ k \notin 1..(k - 1)
      BY <1>2
    <2>3. Upto(k) = Upto(k - 1) \cup {macros[k]}
      BY <2>2
    <2>4. ASSUME NEW x
          PROVE  /\ IsFiniteSet(At(k - 1, x)) /\ Cardinality(At(k - 1, x)) \in Nat
                 /\ x = macros[k] => Cardinality(At(k, x)) = Cardinality(At(k - 1, x)) + 1
                 /\ x # macros[k] => At(k, x) = At(k - 1, x)
                 /\ x \notin Upto(k - 1) => Cardinality(At(k - 1, x)) = 0
      <3>1. IsFiniteSet(1..(k - 1)) /\ At(k - 1, x) \subseteq 1..(k - 1)
        BY FS_Interval
      <3>2. IsFiniteSet(At(k - 1, x)) /\ Cardinality(At(k - 1, x)) \in Nat
        BY <3>1, FS_Subset, FS_CardinalityType
      <3>3. x = macros[k] => At(k, x) = At(k - 1, x) \cup {k} /\ k \notin At(k - 1, x)
        BY <2>2
      <3>4. x = macros[k] => Cardinality(At(k, x)) = Cardinality(At(k - 1, x)) + 1
        <4> HIDE DEF At
        <4> QED BY <3>2, <3>3, FS_AddElement
      <3>5. x # macros[k] => At(k, x) = At(k - 1, x)
        BY <2>2
      <3>6. x \notin Upto(k - 1) => At(k - 1, x) = {}
        OBVIOUS
      <3> QED BY <3>2, <3>4, <3>5, <3>6, FS_EmptySet
    <2> HIDE DEF At, Upto
    <2>5. DOMAIN f[k - 1] = Upto(k - 1)
      BY <2>1
    <2>6. ASSUME NEW x \in Upto(k)
          PROVE  (IF x \in Upto(k - 1) THEN f[k - 1][x] ELSE 0) + (IF x = macros[k] THEN 1 ELSE 0)
                   = Cardinality(At(k, x))
      <3>1. x \in Upto(k - 1) => f[k - 1][x] = Cardinality(At(k - 1, x))
        BY <2>1
      <3>2. x \in Upto(k - 1) \/ x = macros[k]
        BY <2>3
      <3>3. CASE x = macros[k]
        BY <2>4, <3>1, <3>3
      <3>4. CASE x # macros[k]
        BY <2>4, <3>1, <3>2, <3>4
      <3> QED BY <3>3, <3>4
    <2>7. f[k] = [x \in Upto(k) |-> Cardinality(At(k, x))]
      BY <2>1, <2>3, <2>5, <2>6 DEF Counted
    <2> QED BY <2>1, <2>7
  <1>5. n \in P
    <2> HIDE DEF P, n
    <2>1. \A k \in 0..n : k \in P
      BY <1>2, <1>3, <1>4, Upwards
    <2> QED BY <1>2, <2>1
  <1>6. Upto(n) = ToSet(macros)
    BY <1>2 DEF ToSet
  <1> QED BY <1>1, <1>5, <1>6

\* A list that holds the value of every start tag of some types among the first
\* k tokens, as often as it is there.
TagsOf(text, types, k) == {i \in 1..k : text[i].token = "start" /\ text[i].type \in types}
Valued(text, types, k, value, x) == {i \in TagsOf(text, types, k) : value[i] = x}
Collected(list, E, text, types, value, k) ==
  /\ list \in Seq(E)
  /\ ToSet(list) = {value[i] : i \in TagsOf(text, types, k)}
  /\ \A x : Cardinality({j \in 1..Len(list) : list[j] = x})
              = Cardinality(Valued(text, types, k, value, x))

LEMMA CollectedNone ==
  ASSUME NEW E, NEW text, NEW types, NEW value
  PROVE  Collected(<<>>, E, text, types, value, 0)
  <1>1. 1..0 = {} /\ Len(<<>>) = 0 /\ <<>> \in Seq(E) /\ ToSet(<<>>) = {}
    BY DEF ToSet
  <1>2. TagsOf(text, types, 0) = {} /\ \A x : Valued(text, types, 0, value, x) = {}
    BY <1>1 DEF TagsOf, Valued
  <1> QED BY <1>1, <1>2 DEF Collected

LEMMA CollectedNext ==
  ASSUME NEW E, NEW text, NEW types, NEW value, NEW k \in Nat, k > 0,
         NEW list, Collected(list, E, text, types, value, k - 1), NEW next,
         text[k].token = "start" /\ text[k].type \in types => value[k] \in E,
         next = IF text[k].token = "start" /\ text[k].type \in types
                THEN Append(list, value[k]) ELSE list
  PROVE  Collected(next, E, text, types, value, k)
  <1>1. /\ list \in Seq(E)
        /\ ToSet(list) = {value[i] : i \in TagsOf(text, types, k - 1)}
        /\ \A x : Cardinality({j \in 1..Len(list) : list[j] = x})
                    = Cardinality(Valued(text, types, k - 1, value, x))
    BY DEF Collected
  <1>2. 1..k = (1..(k - 1)) \cup {k} /\ k \notin 1..(k - 1)
    OBVIOUS
  <1>3. CASE ~(text[k].token = "start" /\ text[k].type \in types)
    <2>1. TagsOf(text, types, k) = TagsOf(text, types, k - 1)
      BY <1>2, <1>3 DEF TagsOf
    <2>2. \A x : Valued(text, types, k, value, x) = Valued(text, types, k - 1, value, x)
      BY <2>1 DEF Valued
    <2> QED BY <1>1, <1>3, <2>1, <2>2 DEF Collected
  <1>4. CASE text[k].token = "start" /\ text[k].type \in types
    <2> DEFINE new == value[k]
               m == Len(list)
               At(s, l, x) == {j \in 1..l : s[j] = x}
    <2>1. /\ TagsOf(text, types, k) = TagsOf(text, types, k - 1) \cup {k}
          /\ k \notin TagsOf(text, types, k - 1)
      BY <1>2, <1>4 DEF TagsOf
    <2>2. /\ next \in Seq(E) /\ m \in Nat /\ Len(next) = m + 1 /\ next[m + 1] = new
          /\ \A j \in 1..m : next[j] = list[j]
          /\ DOMAIN next = 1..(m + 1) /\ DOMAIN list = 1..m
      BY <1>1, <1>4, AppendProperties, LenProperties
    <2>3. 1..(m + 1) = (1..m) \cup {m + 1} /\ m + 1 \notin 1..m
      BY <2>2
    <2>4. ToSet(next) = ToSet(list) \cup {new}
      <3>1. {next[j] : j \in 1..m} = {list[j] : j \in 1..m}
        BY <2>2
      <3>2. {next[j] : j \in 1..(m + 1)} = {next[j] : j \in 1..m} \cup {new}
        BY <2>2, <2>3
      <3> QED BY <2>2, <3>1, <3>2 DEF ToSet
    <2>5. ToSet(next) = {value[i] : i \in TagsOf(text, types, k)}
      BY <1>1, <2>1, <2>4
    <2>6. ASSUME NEW x
          PROVE  Cardinality(At(next, m + 1, x)) = Cardinality(Valued(text, types, k, value, x))
      <3>1. /\ At(next, m + 1, x) = At(list, m, x) \cup (IF x = new THEN {m + 1} ELSE {})
            /\ m + 1 \notin At(list, m, x)
        BY <2>2, <2>3
      <3>2. /\ Valued(text, types, k, value, x) =
                 Valued(text, types, k - 1, value, x) \cup (IF x = new THEN {k} ELSE {})
            /\ k \notin Valued(text, types, k - 1, value, x)
        BY <2>1 DEF Valued
      <3>3. IsFiniteSet(At(list, m, x)) /\ IsFiniteSet(Valued(text, types, k - 1, value, x))
        <4>1. At(list, m, x) \subseteq 1..m /\ Valued(text, types, k - 1, value, x) \subseteq 1..(k - 1)
          BY DEF Valued, TagsOf
        <4>2. IsFiniteSet(1..m) /\ IsFiniteSet(1..(k - 1))
          BY <2>2, FS_Interval
        <4> HIDE DEF At
        <4> QED BY <4>1, <4>2, FS_Subset
      <3>4. Cardinality(At(list, m, x)) = Cardinality(Valued(text, types, k - 1, value, x))
        BY <1>1
      <3> HIDE DEF At
      <3>5. CASE x = new
        <4>1. /\ At(next, m + 1, x) = At(list, m, x) \cup {m + 1}
              /\ Valued(text, types, k, value, x) = Valued(text, types, k - 1, value, x) \cup {k}
          BY <3>1, <3>2, <3>5
        <4>2. Cardinality(At(next, m + 1, x)) = Cardinality(At(list, m, x)) + 1
          BY <3>1, <3>3, <4>1, FS_AddElement
        <4>3. Cardinality(Valued(text, types, k, value, x))
                = Cardinality(Valued(text, types, k - 1, value, x)) + 1
          BY <3>2, <3>3, <4>1, FS_AddElement
        <4> QED BY <3>4, <4>2, <4>3
      <3>6. CASE x # new
        <4>1. /\ At(next, m + 1, x) = At(list, m, x)
              /\ Valued(text, types, k, value, x) = Valued(text, types, k - 1, value, x)
          BY <3>1, <3>2, <3>6
        <4> QED BY <3>4, <4>1
      <3> QED BY <3>5, <3>6
    <2> QED BY <2>2, <2>5, <2>6 DEF Collected
  <1> QED BY <1>3, <1>4

\* What the loop notes down of a macro and of a link.
MacroNames(text) == [i \in 1..Len(text) |-> MacroName(text[i])]
LinkRecords(text) ==
  [i \in 1..Len(text) |-> [type |-> LinkTypes[text[i].type], target |-> text[i].name]]
BothCollected(s, text, k) ==
  /\ Collected(s.macros, Names, text, {"macro"}, MacroNames(text), k)
  /\ Collected(s.links, Links, text, DOMAIN LinkTypes, LinkRecords(text), k)

LEMMA UsesRead ==
  ASSUME NEW text \in Seq(Tokens)
  PROVE  BothCollected(Parsed(text), text, Len(Accepted(text)))
  <1> DEFINE n == Len(Accepted(text))
  <1>1. PICK r : /\ Reads(r, Accepted(text)) /\ Parsed(text) = r[n]
                 /\ \A k \in 0..n : r[k] \in Loose
    BY ReadSteps
  <1>2. n \in 0..Len(text) /\ n \in Nat
    <2>1. PICK d : Reading(text, d, n)
      BY AcceptedFacts
    <2> QED BY <2>1 DEF Reading
  <1>3. r[0] = Start /\ \A k \in 1..n : r[k] = Read(r[k - 1], text[k], k)
    BY <1>1, AcceptedFacts DEF Reads
  <1> DEFINE P == {k \in 0..n : BothCollected(r[k], text, k)}
  <1> HIDE DEF n
  <1>4. 0 \in P
    <2>1. r[0].macros = <<>> /\ r[0].links = <<>>
      BY <1>3 DEF Start
    <2> QED BY <1>2, <2>1, CollectedNone DEF BothCollected
  <1>5. ASSUME NEW k \in 1..n, k - 1 \in P PROVE k \in P
    <2> DEFINE tok == text[k]
               s == r[k - 1]
               macro == MacroNames(text)[k]
               link == LinkRecords(text)[k]
    <2>1. /\ k \in Nat /\ k > 0 /\ k \in 0..n /\ k - 1 \in 0..n /\ tok \in Tokens
          /\ k \in 1..Len(text)
      BY <1>2
    <2>2. s \in Loose /\ r[k] = Read(s, tok, k) /\ BothCollected(s, text, k - 1)
      BY <1>1, <1>3, <1>5, <2>1
    <2>3. /\ macro = MacroName(tok)
          /\ link = [type |-> LinkTypes[tok.type], target |-> tok.name]
          /\ tok.token = "start" => macro \in Names
          /\ tok.token = "start" /\ tok.type \in DOMAIN LinkTypes => link \in Links
      <3>1. macro = MacroName(tok) /\ link = [type |-> LinkTypes[tok.type], target |-> tok.name]
        BY <2>1 DEF MacroNames, LinkRecords
      <3> HIDE DEF tok, macro, link
      <3> QED BY <2>1, <3>1, TokenFacts DEF LinkTypes, Links
    <2> HIDE DEF s, macro, link
    <2>4. /\ Read(s, tok, k).macros = IF tok.token = "start" /\ tok.type \in {"macro"}
                                      THEN Append(s.macros, macro) ELSE s.macros
          /\ Read(s, tok, k).links = IF tok.token = "start" /\ tok.type \in DOMAIN LinkTypes
                                     THEN Append(s.links, link) ELSE s.links
      <3> HIDE DEF tok
      <3>1. tok.token \in {"start", "end"} => CharData(tok, k) = <<>>
        BY DEF CharData
      <3>2. s = [nodes |-> s.nodes, stack |-> s.stack, macros |-> s.macros, links |-> s.links]
        BY <2>2 DEF Loose
      <3>3. CASE tok.token = "start"
        BY <2>3, <3>1, <3>3 DEF Read
      <3>4. CASE tok.token = "end"
        <4>1. Read(s, tok, k) = [s EXCEPT !.stack = Front(s.stack)]
          BY <3>1, <3>4 DEF Read
        <4> QED BY <3>2, <3>4, <4>1
      <3>5. CASE tok.token \notin {"start", "end"} /\ CharData(tok, k) # <<>>
        <4> DEFINE nodes == Append(s.nodes, Node("text", CharData(tok, k), "", Last(s.stack)))
        <4>1. Read(s, tok, k) = [s EXCEPT !.nodes = nodes]
          BY <3>5 DEF Read
        <4> HIDE DEF nodes
        <4> QED BY <3>2, <3>5, <4>1
      <3>6. CASE tok.token \notin {"start", "end"} /\ CharData(tok, k) = <<>>
        BY <3>6 DEF Read
      <3> QED BY <3>3, <3>4, <3>5, <3>6
    <2>5. Collected(r[k].macros, Names, text, {"macro"}, MacroNames(text), k)
      BY <2>1, <2>2, <2>3, <2>4, CollectedNext DEF BothCollected, macro
    <2>6. Collected(r[k].links, Links, text, DOMAIN LinkTypes, LinkRecords(text), k)
      BY <2>1, <2>2, <2>3, <2>4, CollectedNext DEF BothCollected, link
    <2> QED BY <2>1, <2>5, <2>6 DEF BothCollected
  <1>6. n \in P
    <2> HIDE DEF P, n
    <2>1. \A k \in 0..n : k \in P
      BY <1>2, <1>4, <1>5, Upwards
    <2> QED BY <1>2, <2>1
  <1> QED BY <1>1, <1>6 DEF n

LEMMA LinkTarget == ASSUME NEW kind, NEW t PROVE [type |-> kind, target |-> t].target = t
  OBVIOUS

\* The inventory of macros and the list of links hold what the body uses up to
\* the fault: each macro as often as it is there, and the pages and addresses
\* that are referred to.
THEOREM Uses == Spec => []UsesReported
  <1>1. ASSUME BodyKnown, Converted PROVE UsesReported
    <2> DEFINE n == Len(Accepted(body))
               macros == Parsed(body).macros
               links == Parsed(body).links
               name(i) == IF body[i].name = "" THEN "unknown" ELSE body[i].name
               targets(type) == {body[i].name : i \in ReadTags(type)} \ {""}
    <2>1. body \in Seq(Tokens) /\ result = ConvertStorage(body)
      BY <1>1 DEF BodyKnown, Converted, Bodies
    <2>2. /\ Collected(macros, Names, body, {"macro"}, MacroNames(body), n)
          /\ Collected(links, Links, body, DOMAIN LinkTypes, LinkRecords(body), n)
          /\ DOMAIN Accepted(body) = 1..n /\ n \in 0..Len(body) /\ DOMAIN body = 1..Len(body)
      <3>1. PICK d : Reading(body, d, n)
        BY <2>1, AcceptedFacts
      <3>2. Accepted(body) \in Seq(Tokens)
        BY <2>1, AcceptedFacts
      <3> QED BY <2>1, <3>1, <3>2, UsesRead DEF Reading, BothCollected
    <2>3. /\ result.macros = dedupeMacros(macros)
          /\ result.links = {link \in ToSet(links) : link.target # ""}
      BY <2>1 DEF ConvertStorage, dedupeLinks
    <2> HIDE DEF n, macros, links
    <2>4. \A types : TagsOf(body, types, n) = UNION {ReadTags(type) : type \in types}
      BY <2>2 DEF TagsOf, ReadTags
    <2>5. \A i \in 1..n : i \in 1..Len(body)
      BY <2>2
    <2>6. ASSUME NEW i \in ReadTags("macro") PROVE MacroNames(body)[i] = name(i)
      BY <2>2, <2>5 DEF ReadTags, MacroNames, MacroName
    <2>7. /\ TagsOf(body, {"macro"}, n) = ReadTags("macro")
          /\ TagsOf(body, DOMAIN LinkTypes, n) = ReadTags("link") \cup ReadTags("pageReference")
      BY <2>4 DEF LinkTypes
    <2>8. result.macros = [m \in {name(i) : i \in ReadTags("macro")} |->
                             Cardinality({i \in ReadTags("macro") : name(i) = m})]
      <3> DEFINE value == MacroNames(body)
      <3>1. macros \in Seq(Names) /\ ToSet(macros) = {value[i] : i \in ReadTags("macro")}
        BY <2>2, <2>7 DEF Collected
      <3>2. dedupeMacros(macros) =
              [x \in ToSet(macros) |-> Cardinality({i \in 1..Len(macros) : macros[i] = x})]
        BY <3>1, CountFacts
      <3>3. \A x : Cardinality({j \in 1..Len(macros) : macros[j] = x})
                     = Cardinality({i \in ReadTags("macro") : value[i] = x})
        BY <2>2, <2>7 DEF Collected, Valued
      <3> HIDE DEF value
      <3>4. \A i \in ReadTags("macro") : value[i] = name(i)
        BY <2>6 DEF value
      <3> HIDE DEF name
      <3>5. /\ {value[i] : i \in ReadTags("macro")} = {name(i) : i \in ReadTags("macro")}
            /\ \A x : {i \in ReadTags("macro") : value[i] = x}
                        = {i \in ReadTags("macro") : name(i) = x}
        BY <3>4
      <3>6. /\ ToSet(macros) = {name(i) : i \in ReadTags("macro")}
            /\ \A x : Cardinality({j \in 1..Len(macros) : macros[j] = x})
                     = Cardinality({i \in ReadTags("macro") : name(i) = x})
        BY <3>1, <3>3, <3>5
      <3>7. result.macros =
              [x \in ToSet(macros) |-> Cardinality({i \in 1..Len(macros) : macros[i] = x})]
        BY <2>3, <3>2
      <3> QED BY <3>6, <3>7
    <2>9. result.links = [type : {"PAGE"}, target : targets("pageReference")]
                           \cup [type : {"URL"}, target : targets("link")]
      <3> DEFINE value == LinkRecords(body)
                 both == ReadTags("link") \cup ReadTags("pageReference")
      <3>1. result.links = {link \in {value[i] : i \in both} : link.target # ""}
        BY <2>2, <2>3, <2>7 DEF Collected
      <3>2. /\ \A i \in ReadTags("link") : value[i] = [type |-> "URL", target |-> body[i].name]
            /\ \A i \in ReadTags("pageReference") :
                 value[i] = [type |-> "PAGE", target |-> body[i].name]
        BY <2>2, <2>5 DEF ReadTags, LinkRecords, LinkTypes
      <3> HIDE DEF value
      <3> DEFINE pages == targets("pageReference")
                 addresses == targets("link")
      <3>3. /\ \A i \in ReadTags("pageReference") : body[i].name # "" => body[i].name \in pages
            /\ \A t \in pages : \E i \in ReadTags("pageReference") : t = body[i].name /\ t # ""
        OBVIOUS
      <3>4. /\ \A i \in ReadTags("link") : body[i].name # "" => body[i].name \in addresses
            /\ \A t \in addresses : \E i \in ReadTags("link") : t = body[i].name /\ t # ""
        OBVIOUS
      <3> HIDE DEF pages, addresses
      <3>5. ASSUME NEW x \in result.links
            PROVE  x \in [type : {"PAGE"}, target : pages] \cup [type : {"URL"}, target : addresses]
        <4>1. PICK i \in both : x = value[i] /\ x.target # ""
          BY <3>1
        <4>2. CASE i \in ReadTags("link")
          <5> DEFINE t == body[i].name
          <5>1. x = [type |-> "URL", target |-> t]
            BY <3>2, <4>1, <4>2
          <5> HIDE DEF t
          <5>2. x.target = t
            BY <5>1, LinkTarget
          <5>3. t \in addresses
            BY <3>4, <4>1, <4>2, <5>2 DEF t
          <5> QED BY <5>1, <5>3
        <4>3. CASE i \in ReadTags("pageReference")
          <5> DEFINE t == body[i].name
          <5>1. x = [type |-> "PAGE", target |-> t]
            BY <3>2, <4>1, <4>3
          <5> HIDE DEF t
          <5>2. x.target = t
            BY <5>1, LinkTarget
          <5>3. t \in pages
            BY <3>3, <4>1, <4>3, <5>2 DEF t
          <5> QED BY <5>1, <5>3
        <4> QED BY <4>1, <4>2, <4>3
      <3>6. ASSUME NEW i \in both, value[i].target # "" PROVE value[i] \in result.links
        BY <3>1, <3>6
      <3>7. ASSUME NEW t \in pages PROVE [type |-> "PAGE", target |-> t] \in result.links
        <4>1. PICK i \in ReadTags("pageReference") : t = body[i].name /\ t # ""
          BY <3>3
        <4>2. value[i] = [type |-> "PAGE", target |-> t]
          BY <3>2, <4>1
        <4>3. value[i].target = t
          BY <4>2, LinkTarget
        <4> QED BY <3>6, <4>1, <4>2, <4>3
      <3>8. ASSUME NEW t \in addresses PROVE [type |-> "URL", target |-> t] \in result.links
        <4>1. PICK i \in ReadTags("link") : t = body[i].name /\ t # ""
          BY <3>4
        <4>2. value[i] = [type |-> "URL", target |-> t]
          BY <3>2, <4>1
        <4>3. value[i].target = t
          BY <4>2, LinkTarget
        <4> QED BY <3>6, <4>1, <4>2, <4>3
      <3> HIDE DEF both
      <3>9. \A x \in [type : {"PAGE"}, target : pages] \cup [type : {"URL"}, target : addresses] :
              x \in result.links
        <4>1. \A x \in [type : {"PAGE"}, target : pages] :
                x.target \in pages /\ x = [type |-> "PAGE", target |-> x.target]
          OBVIOUS
        <4>2. \A x \in [type : {"URL"}, target : addresses] :
                x.target \in addresses /\ x = [type |-> "URL", target |-> x.target]
          OBVIOUS
        <4> QED BY <3>7, <3>8, <4>1, <4>2
      <3>10. result.links = [type : {"PAGE"}, target : pages] \cup [type : {"URL"}, target : addresses]
        BY <3>5, <3>9
      <3> QED BY <3>10 DEF pages, addresses
    <2> QED BY <2>8, <2>9 DEF UsesReported
  <1>2. BodyKnown => UsesReported
    BY <1>1 DEF UsesReported
  <1> QED BY <1>2, BodyInv, PTL

-----------------------------------------------------------------------------
(* The editor's document                                                   *)

Texts == Seq(Seq(Int))

\* editorChildren: what is shown of node n, w being what is shown of all nodes.
MacroText(nodes, n) ==
  LET content == normalizeText(extractText(nodes)[n])
  IN IF nodes[n].name = "code" THEN content
     ELSE IF content = <<>> THEN <<Label>> ELSE <<Label, Space>> \o content
Below(nodes, w, n) == [c \in DOMAIN nodes |-> IF nodes[c].parent = n THEN w[c] ELSE <<>>]
ShownAt(nodes, w, n) ==
  CASE nodes[n].type = "text" -> IF nodes[n].text = <<>> THEN <<>> ELSE <<nodes[n].text>>
    [] nodes[n].type = "macro" -> <<MacroText(nodes, n)>>
    [] nodes[n].type \in {"pageReference", "userReference"} -> <<<<Reference>>>>
    [] nodes[n].type \in NotShown -> <<>>
    [] OTHER -> FlattenSeq(Below(nodes, w, n))
ShowFurther(nodes, w) == [n \in DOMAIN nodes |-> ShownAt(nodes, w, n)]

\* The label in front of a macro's body has no words of the body.
LEMMA MacroFacts ==
  ASSUME NEW nodes, IsTree(nodes), NEW n \in 1..Len(nodes)
  PROVE  LET x == MacroText(nodes, n) IN
         /\ x \in Seq(Int) /\ AscendingIn(x, Word)
         /\ \A v \in Word : Occurs(v, x) <=> WordOf(nodes, n, v)
         /\ x = <<>> => nodes[n].name = "code" /\ normalizeText(extractText(nodes)[n]) = <<>>
  <1> DEFINE y == normalizeText(extractText(nodes)[n])
             z == <<Label, Space>> \o y
  <1>1. /\ extractText(nodes)[n] \in Seq(Nat) /\ AscendingIn(extractText(nodes)[n], Word)
        /\ \A v \in Word : Occurs(v, extractText(nodes)[n]) <=> WordOf(nodes, n, v)
    BY ExtractFacts
  <1>2. /\ y \in Seq(Nat) /\ AscendingIn(y, Word)
        /\ \A v \in Word : Occurs(v, y) <=> WordOf(nodes, n, v)
    BY <1>1, NormalizeFacts DEF SameWords, Occurs
  <1> HIDE DEF y
  <1>3. /\ z \in Seq(Int) /\ Len(z) = Len(y) + 2 /\ z[1] = Label /\ z[2] = Space
        /\ \A i \in 1..Len(y) : z[i + 2] = y[i]
        /\ DOMAIN z = 1..(Len(y) + 2) /\ DOMAIN y = 1..Len(y) /\ Len(y) \in Nat
        /\ y \in Seq(Int)
    BY <1>2 DEF Label, Space
  <1>4. Label \notin Word /\ Space \notin Word
    BY DEF Label, Word
  <1> HIDE DEF z
  <1>5. \A i \in 1..Len(z) : z[i] \in Word => i - 2 \in 1..Len(y) /\ z[i] = y[i - 2]
    <2>1. ASSUME NEW i \in 1..Len(z), z[i] \in Word PROVE i - 2 \in 1..Len(y) /\ z[i] = y[i - 2]
      <3>1. i # 1 /\ i # 2
        BY <1>3, <1>4, <2>1
      <3>2. i - 2 \in 1..Len(y) /\ (i - 2) + 2 = i
        BY <1>3, <3>1
      <3> QED BY <1>3, <3>2
    <2> QED BY <2>1
  <1>6. AscendingIn(z, Word) /\ \A v \in Word : Occurs(v, z) <=> Occurs(v, y)
    <2>1. AscendingIn(z, Word)
      <3>1. ASSUME NEW i \in 1..Len(z), NEW j \in 1..Len(z), i < j, z[i] \in Word, z[j] \in Word
            PROVE  z[i] < z[j]
        <4>1. /\ i - 2 \in DOMAIN y /\ z[i] = y[i - 2] /\ y[i - 2] \in Word
              /\ j - 2 \in DOMAIN y /\ z[j] = y[j - 2] /\ y[j - 2] \in Word
          BY <1>3, <1>5, <3>1
        <4>2. i - 2 < j - 2
          BY <3>1
        <4> HIDE DEF Word
        <4>3. y[i - 2] < y[j - 2]
          BY <1>2, <4>1, <4>2 DEF AscendingIn
        <4> QED BY <4>1, <4>3
      <3> QED BY <1>3, <3>1 DEF AscendingIn
    <2>2. ASSUME NEW v \in Word PROVE Occurs(v, z) <=> Occurs(v, y)
      <3>1. \A i \in 1..Len(y) : i + 2 \in 1..Len(z)
        BY <1>3
      <3> QED BY <1>3, <1>5, <3>1 DEF Occurs, Has
    <2> QED BY <2>1, <2>2
  <1>7. /\ <<Label>> \in Seq(Int) /\ Len(<<Label>>) = 1 /\ <<Label>>[1] = Label
        /\ DOMAIN <<Label>> = 1..1
    BY DEF Label
  <1>8. AscendingIn(<<Label>>, Word) /\ \A v \in Word : ~Occurs(v, <<Label>>)
    BY <1>4, <1>7 DEF AscendingIn, Occurs, Has
  <1>9. y = <<>> => \A v \in Word : ~Occurs(v, y)
    BY DEF Occurs, Has
  <1>10. z # <<>>
    BY <1>3
  <1>11. MacroText(nodes, n) = IF nodes[n].name = "code" THEN y
                               ELSE IF y = <<>> THEN <<Label>> ELSE z
    BY DEF MacroText, y, z
  <1>12. CASE nodes[n].name = "code"
    BY <1>2, <1>3, <1>11, <1>12 DEF y
  <1>13. CASE nodes[n].name # "code" /\ y = <<>>
    BY <1>2, <1>7, <1>8, <1>9, <1>11, <1>13
  <1>14. CASE nodes[n].name # "code" /\ y # <<>>
    BY <1>2, <1>3, <1>6, <1>10, <1>11, <1>14
  <1> QED BY <1>12, <1>13, <1>14

LEMMA BelowFacts ==
  ASSUME NEW nodes \in Seq(NodeRecords), NEW w, NEW n,
         \A c \in 1..Len(nodes) : nodes[c].parent = n => w[c] \in Texts
  PROVE  /\ Below(nodes, w, n) \in Seq(Texts) /\ Len(Below(nodes, w, n)) = Len(nodes)
         /\ FlattenSeq(Below(nodes, w, n)) \in Texts
         /\ MadeOf(FlattenSeq(Below(nodes, w, n)), Len(nodes), Below(nodes, w, n))
  <1> DEFINE N == Len(nodes)
             seqs == Below(nodes, w, n)
  <1>1. N \in Nat /\ DOMAIN nodes = 1..N
    OBVIOUS
  <1>2. <<>> \in Texts
    BY DEF Texts
  <1> HIDE DEF Texts, N
  <1>3. seqs = [c \in 1..N |-> IF nodes[c].parent = n THEN w[c] ELSE <<>>]
    BY <1>1 DEF Below
  <1>4. \A c \in 1..N : (IF nodes[c].parent = n THEN w[c] ELSE <<>>) \in Texts
    BY <1>2 DEF N
  <1>5. seqs \in [1..N -> Texts]
    BY <1>3, <1>4
  <1> HIDE DEF seqs
  <1>6. seqs \in Seq(Texts) /\ Len(seqs) = N
    BY <1>1, <1>5
  <1>7. FlattenSeq(seqs) \in Texts /\ MadeOf(FlattenSeq(seqs), Len(seqs), seqs)
    BY <1>6, FlattenFacts DEF Texts
  <1> QED BY <1>6, <1>7 DEF seqs, N

LEMMA ShownFurther ==
  ASSUME NEW nodes, IsTree(nodes), NEW n \in 1..Len(nodes), NEW w, NEW v,
         \A c \in (n + 1)..Len(nodes) : w[c] \in Texts /\ v[c] = w[c]
  PROVE  ShownAt(nodes, w, n) \in Texts /\ ShownAt(nodes, v, n) = ShownAt(nodes, w, n)
  <1>1. /\ nodes \in Seq(NodeRecords) /\ Len(nodes) \in Nat /\ DOMAIN nodes = 1..Len(nodes)
        /\ nodes[n] \in NodeRecords
    BY DEF IsTree
  <1>2. \A c \in 1..Len(nodes) : nodes[c].parent = n => c \in (n + 1)..Len(nodes)
    BY <1>1, WithinFacts
  <1>3. \A c \in 1..Len(nodes) : nodes[c].parent = n => w[c] \in Texts /\ v[c] = w[c]
    BY <1>2
  <1>4. Below(nodes, v, n) = Below(nodes, w, n)
    BY <1>1, <1>3 DEF Below
  <1>5. FlattenSeq(Below(nodes, w, n)) \in Texts
    BY <1>1, <1>3, BelowFacts
  <1>6. <<>> \in Texts /\ \A x \in Seq(Int) : <<x>> \in Texts
    BY DEF Texts
  <1>7. nodes[n].text \in Seq(Int) /\ <<Reference>> \in Seq(Int)
    <2>1. nodes[n].text \in Seq(Nat)
      BY <1>1 DEF NodeRecords
    <2>2. <<Reference>> \in Seq(Int)
      BY DEF Reference
    <2> QED BY <2>1, <2>2
  <1>8. MacroText(nodes, n) \in Seq(Int)
    BY MacroFacts
  <1>9. CASE nodes[n].type = "text"
    BY <1>6, <1>7, <1>9 DEF ShownAt
  <1>10. CASE nodes[n].type = "macro"
    BY <1>6, <1>8, <1>10 DEF ShownAt
  <1>11. CASE nodes[n].type \in {"pageReference", "userReference"}
    BY <1>6, <1>7, <1>11 DEF ShownAt, NotShown, VoidTypes
  <1>12. CASE nodes[n].type \in NotShown
    BY <1>6, <1>12 DEF ShownAt, NotShown, VoidTypes
  <1>13. CASE /\ nodes[n].type # "text" /\ nodes[n].type # "macro"
              /\ nodes[n].type \notin {"pageReference", "userReference"}
              /\ nodes[n].type \notin NotShown
    BY <1>4, <1>5, <1>13 DEF ShownAt
  <1> QED BY <1>9, <1>10, <1>11, <1>12, <1>13

LEMMA ShownExists ==
  ASSUME NEW nodes, IsTree(nodes)
  PROVE  \E s : /\ editorChildren(nodes) = s[1]
                /\ \A n \in 1..Len(nodes) : s[n] = ShownAt(nodes, s, n) /\ s[n] \in Texts
  <1> DEFINE N == Len(nodes)
             R(w, n) == ShownAt(nodes, w, n)
             Fits(w, k) == \A n \in (N - k + 1)..N : w[n] = R(w, n)
             P == {k \in 0..N : \E w \in [1..N -> Texts] : Fits(w, k)}
  <1>1. N \in Nat /\ DOMAIN nodes = 1..N /\ 1 \in 1..N /\ <<>> \in Texts
    BY DEF IsTree, Texts
  <1>2. ASSUME NEW n \in 1..N, NEW w, NEW v, \A c \in (n + 1)..N : w[c] \in Texts /\ v[c] = w[c]
        PROVE  R(w, n) \in Texts /\ R(v, n) = R(w, n)
    BY <1>2, ShownFurther
  <1> HIDE DEF N, R
  <1>3. 0 \in P
    <2> DEFINE w == [n \in 1..N |-> <<>>]
    <2>1. w \in [1..N -> Texts] /\ 0 \in 0..N /\ (N - 0 + 1)..N = {}
      BY <1>1
    <2> QED BY <2>1
  <1>4. ASSUME NEW k \in 1..N, k - 1 \in P PROVE k \in P
    <2> DEFINE m == N - k + 1
    <2>1. PICK w \in [1..N -> Texts] : Fits(w, k - 1)
      BY <1>4
    <2>2. m \in 1..N /\ N - (k - 1) + 1 = m + 1
      BY <1>1
    <2> HIDE DEF m
    <2> DEFINE v == [w EXCEPT ![m] = R(w, m)]
    <2>3. /\ v[m] = R(w, m) /\ \A n \in 1..N : n # m => v[n] = w[n]
          /\ R(w, m) \in Texts
      <3>1. \A c \in (m + 1)..N : w[c] \in Texts
        BY <1>1, <2>2
      <3> QED BY <1>2, <2>2, <3>1
    <2>4. v \in [1..N -> Texts]
      BY <2>2, <2>3
    <2> HIDE DEF v
    <2>5. ASSUME NEW n \in m..N PROVE v[n] = R(v, n)
      <3>1. n \in 1..N /\ \A c \in (n + 1)..N : c \in 1..N /\ c # m
        BY <1>1, <2>2
      <3>2. R(v, n) = R(w, n)
        <4>1. \A c \in (n + 1)..N : w[c] \in Texts /\ v[c] = w[c]
          BY <2>3, <3>1
        <4> QED BY <1>2, <3>1, <4>1
      <3>3. v[n] = R(w, n)
        <4>1. CASE n = m
          BY <2>3, <4>1
        <4>2. CASE n # m
          <5>1. n \in (m + 1)..N
            BY <1>1, <2>2, <4>2
          <5> QED BY <2>1, <2>2, <2>3, <3>1, <4>2, <5>1
        <4> QED BY <4>1, <4>2
      <3> QED BY <3>2, <3>3
    <2>6. Fits(v, k)
      BY <2>5 DEF m
    <2>7. k \in 0..N
      BY <1>1
    <2> HIDE DEF Fits
    <2> QED BY <2>4, <2>6, <2>7
  <1>5. PICK w \in [1..N -> Texts] : \A n \in 1..N : w[n] = R(w, n)
    <2>1. N \in P
      <3> HIDE DEF P
      <3>1. \A k \in 0..N : k \in P
        BY <1>1, <1>3, <1>4, Upwards
      <3> QED BY <1>1, <3>1
    <2>2. N - N + 1 = 1
      BY <1>1
    <2> QED BY <2>1, <2>2
  <1> DEFINE shown == CHOOSE v : v = ShowFurther(nodes, v)
  <1>6. w = ShowFurther(nodes, w)
    <2>1. w = [n \in 1..N |-> w[n]]
      OBVIOUS
    <2> QED BY <1>1, <1>5, <2>1 DEF ShowFurther, R
  <1>7. shown = ShowFurther(nodes, shown)
    BY <1>6
  <1>8. editorChildren(nodes) = shown[1]
    BY DEF editorChildren, ShowFurther, ShownAt, MacroText, Below
  <1> HIDE DEF shown
  <1>9. \A n \in 1..N : shown[n] = R(shown, n)
    <2>1. \A n \in 1..N : ShowFurther(nodes, shown)[n] = R(shown, n)
      BY <1>1 DEF ShowFurther, R
    <2> QED BY <1>7, <2>1
  <1> DEFINE Q == {n \in 1..N : shown[n] \in Texts}
  <1>10. \A n \in 1..N : n \in Q
    <2>1. ASSUME NEW n \in 1..N, \A c \in (n + 1)..N : c \in Q PROVE n \in Q
      <3>1. \A c \in (n + 1)..N : shown[c] \in Texts
        BY <2>1
      <3>2. R(shown, n) \in Texts
        BY <1>2, <3>1
      <3> QED BY <1>9, <3>2
    <2> HIDE DEF Q
    <2> QED BY <1>1, <2>1, Downwards
  <1> QED BY <1>8, <1>9, <1>10 DEF N, R

\* x shows the words within node n, each in one text, in their order.
Shows(nodes, x, n) ==
  /\ x \in Texts
  /\ \A v \in Word : (\E a \in 1..Len(x) : Occurs(v, x[a])) <=> WordOf(nodes, n, v)
  /\ \A a \in 1..Len(x) : AscendingIn(x[a], Word)
  /\ \A a, b \in 1..Len(x) : \A v, w \in Word :
       a < b /\ Occurs(v, x[a]) /\ Occurs(w, x[b]) => v < w

\* An empty text is shown only for an empty code macro.
EmptyCode(nodes) ==
  \E m \in 1..Len(nodes) : /\ nodes[m].type = "macro" /\ nodes[m].name = "code"
                           /\ normalizeText(extractText(nodes)[m]) = <<>>
Excused(nodes, x) == \A a \in 1..Len(x) : x[a] = <<>> => EmptyCode(nodes)

LEMMA ShowsNone ==
  ASSUME NEW nodes, NEW n, \A v \in Word : ~WordOf(nodes, n, v)
  PROVE  Shows(nodes, <<>>, n) /\ Excused(nodes, <<>>)
  <1>1. <<>> \in Texts /\ Len(<<>>) = 0 /\ 1..0 = {}
    BY DEF Texts
  <1> QED BY <1>1 DEF Shows, Excused

LEMMA ShowsOne ==
  ASSUME NEW nodes, NEW n, NEW t \in Seq(Int), AscendingIn(t, Word),
         \A v \in Word : Occurs(v, t) <=> WordOf(nodes, n, v),
         t = <<>> => EmptyCode(nodes)
  PROVE  Shows(nodes, <<t>>, n) /\ Excused(nodes, <<t>>)
  <1> DEFINE x == <<t>>
  <1>1. x \in Texts /\ Len(x) = 1 /\ x[1] = t
    BY DEF Texts
  <1>2. 1..1 = {1}
    OBVIOUS
  <1> HIDE DEF x
  <1>3. Shows(nodes, x, n)
    BY <1>1, <1>2 DEF Shows
  <1>4. Excused(nodes, x)
    BY <1>1, <1>2 DEF Excused
  <1> QED BY <1>3, <1>4 DEF x

\* The children of a node, one after the other.
LEMMA ShowsBelow ==
  ASSUME NEW nodes, IsTree(nodes), NEW n \in 1..Len(nodes), nodes[n].type # "text", NEW w,
         \A c \in 1..Len(nodes) : nodes[c].parent = n =>
           Shows(nodes, w[c], c) /\ Excused(nodes, w[c])
  PROVE  /\ Shows(nodes, FlattenSeq(Below(nodes, w, n)), n)
         /\ Excused(nodes, FlattenSeq(Below(nodes, w, n)))
  <1> DEFINE N == Len(nodes)
             seqs == Below(nodes, w, n)
             x == FlattenSeq(seqs)
  <1>1. nodes \in Seq(NodeRecords) /\ N \in Nat /\ DOMAIN nodes = 1..N
    BY DEF IsTree
  <1>2. \A c \in 1..N : nodes[c].parent = n => w[c] \in Texts
    BY DEF Shows
  <1>3. x \in Texts /\ MadeOf(x, N, seqs)
    BY <1>1, <1>2, BelowFacts
  <1>4. \A c \in 1..N : seqs[c] = IF nodes[c].parent = n THEN w[c] ELSE <<>>
    BY <1>1 DEF Below
  <1> HIDE DEF x, seqs
  <1>5. ASSUME NEW a \in 1..Len(x), NEW c \in 1..N, NEW p, From(x, a, seqs, c, p)
        PROVE  nodes[c].parent = n /\ p \in 1..Len(w[c]) /\ x[a] = w[c][p]
    <2>1. p \in 1..Len(seqs[c]) /\ x[a] = seqs[c][p]
      BY <1>5 DEF From
    <2>2. Len(<<>>) = 0 /\ 1..0 = {}
      OBVIOUS
    <2>3. nodes[c].parent = n
      BY <1>4, <2>1, <2>2
    <2> QED BY <1>4, <2>1, <2>3
  <1>6. ASSUME NEW a \in 1..Len(x)
        PROVE  \E c \in 1..N : \E p \in Nat : /\ nodes[c].parent = n /\ p \in 1..Len(w[c])
                                              /\ x[a] = w[c][p]
    <2>1. PICK c \in 1..N, p \in Nat : From(x, a, seqs, c, p)
      BY <1>3 DEF MadeOf
    <2>2. nodes[c].parent = n /\ p \in 1..Len(w[c]) /\ x[a] = w[c][p]
      BY <1>5, <2>1
    <2> QED BY <2>2
  <1>7. ASSUME NEW c \in 1..N, nodes[c].parent = n, NEW p \in 1..Len(w[c])
        PROVE  \E a \in 1..Len(x) : x[a] = w[c][p]
    <2>1. seqs[c] = w[c]
      BY <1>4, <1>7
    <2> QED BY <1>3, <1>7, <2>1 DEF MadeOf
  <1>8. /\ \A v : WordOf(nodes, n, v) <=>
                    \E c \in 1..N : nodes[c].parent = n /\ WordOf(nodes, c, v)
        /\ \A c, e \in 1..N : nodes[c].parent = n /\ nodes[e].parent = n /\ c < e =>
             \A u, v \in Word : WordOf(nodes, c, u) /\ WordOf(nodes, e, v) => u < v
    BY ChildWords
  <1> HIDE DEF N
  <1>9. \A c \in 1..N : nodes[c].parent = n => Shows(nodes, w[c], c) /\ Excused(nodes, w[c])
    BY DEF N
  <1>10. ASSUME NEW v \in Word
         PROVE  (\E a \in 1..Len(x) : Occurs(v, x[a])) <=> WordOf(nodes, n, v)
    <2>1. ASSUME NEW a \in 1..Len(x), Occurs(v, x[a]) PROVE WordOf(nodes, n, v)
      <3>1. PICK c \in 1..N, p \in Nat : /\ nodes[c].parent = n /\ p \in 1..Len(w[c])
                                         /\ x[a] = w[c][p]
        BY <1>6
      <3>2. WordOf(nodes, c, v)
        BY <1>9, <2>1, <3>1 DEF Shows
      <3> QED BY <1>8, <3>1, <3>2
    <2>2. ASSUME WordOf(nodes, n, v) PROVE \E a \in 1..Len(x) : Occurs(v, x[a])
      <3>1. PICK c \in 1..N : nodes[c].parent = n /\ WordOf(nodes, c, v)
        BY <1>8, <2>2
      <3>2. PICK p \in 1..Len(w[c]) : Occurs(v, w[c][p])
        BY <1>9, <3>1 DEF Shows
      <3> QED BY <1>7, <3>1, <3>2
    <2> QED BY <2>1, <2>2
  <1>11. ASSUME NEW a \in 1..Len(x)
         PROVE  AscendingIn(x[a], Word) /\ (x[a] = <<>> => EmptyCode(nodes))
    <2>1. PICK c \in 1..N, p \in Nat : nodes[c].parent = n /\ p \in 1..Len(w[c]) /\ x[a] = w[c][p]
      BY <1>6
    <2> QED BY <1>9, <2>1 DEF Shows, Excused
  <1>12. ASSUME NEW a \in 1..Len(x), NEW b \in 1..Len(x), a < b, NEW u \in Word, NEW v \in Word,
                Occurs(u, x[a]), Occurs(v, x[b])
         PROVE  u < v
    <2>1. PICK c \in 1..N, e \in 1..N, p \in Nat, q \in Nat :
            /\ From(x, a, seqs, c, p) /\ From(x, b, seqs, e, q)
            /\ c < e \/ (c = e /\ p < q)
      BY <1>3, <1>12 DEF MadeOf
    <2>2. /\ nodes[c].parent = n /\ p \in 1..Len(w[c]) /\ x[a] = w[c][p]
          /\ nodes[e].parent = n /\ q \in 1..Len(w[e]) /\ x[b] = w[e][q]
      BY <1>5, <2>1
    <2>3. CASE c < e
      <3>1. WordOf(nodes, c, u) /\ WordOf(nodes, e, v)
        BY <1>9, <1>12, <2>2 DEF Shows
      <3> QED BY <1>8, <2>2, <2>3, <3>1
    <2>4. CASE c = e /\ p < q
      <3>1. Shows(nodes, w[c], c)
        BY <1>9, <2>2
      <3> QED BY <1>12, <2>2, <2>4, <3>1 DEF Shows
    <2> QED BY <2>1, <2>3, <2>4
  <1> QED BY <1>3, <1>10, <1>11, <1>12 DEF Shows, Excused, x, seqs

\* editorChildren: what the editor shows of a node are the words within it.
LEMMA ShownFacts ==
  ASSUME NEW nodes, IsTree(nodes)
  PROVE  Shows(nodes, editorChildren(nodes), 1) /\ Excused(nodes, editorChildren(nodes))
  <1> DEFINE N == Len(nodes)
  <1>1. /\ nodes \in Seq(NodeRecords) /\ N \in Nat /\ DOMAIN nodes = 1..N /\ 1 \in 1..N
        /\ TextsAscend(nodes)
    BY DEF IsTree
  <1>2. PICK s : /\ editorChildren(nodes) = s[1]
                 /\ \A n \in 1..N : s[n] = ShownAt(nodes, s, n) /\ s[n] \in Texts
    BY ShownExists
  <1> DEFINE P == {n \in 1..N : Shows(nodes, s[n], n) /\ Excused(nodes, s[n])}
  <1>3. ASSUME NEW n \in 1..N, nodes[n].type # "text", nodes[n].type \in Childless, NEW v \in Word
        PROVE  ~WordOf(nodes, n, v)
    <2>1. \A c \in 1..N : nodes[c].parent # n
      BY <1>3, WithinFacts
    <2> QED BY <1>3, <2>1, ChildWords
  <1>4. ASSUME NEW n \in 1..N, \A c \in (n + 1)..N : c \in P PROVE n \in P
    <2>1. CASE nodes[n].type = "text"
      <3>1. \A v : WordOf(nodes, n, v) <=> Occurs(v, nodes[n].text)
        BY <2>1, ChildWords
      <3>2. AscendingIn(nodes[n].text, Word)
        BY <1>1 DEF TextsAscend
      <3>3. nodes[n].text \in Seq(Int)
        <4>1. nodes[n] \in NodeRecords
          BY <1>1
        <4>2. nodes[n].text \in Seq(Nat)
          BY <4>1 DEF NodeRecords
        <4> QED BY <4>2
      <3>4. s[n] = IF nodes[n].text = <<>> THEN <<>> ELSE <<nodes[n].text>>
        BY <1>2, <2>1 DEF ShownAt, NotShown, VoidTypes
      <3>5. CASE nodes[n].text = <<>>
        <4>1. \A v \in Word : ~WordOf(nodes, n, v)
          BY <3>1, <3>5 DEF Occurs, Has
        <4> QED BY <3>4, <3>5, <4>1, ShowsNone
      <3>6. CASE nodes[n].text # <<>>
        BY <3>1, <3>2, <3>3, <3>4, <3>6, ShowsOne
      <3> QED BY <3>5, <3>6
    <2>2. CASE nodes[n].type = "macro"
      <3> DEFINE t == MacroText(nodes, n)
      <3>1. s[n] = <<t>>
        BY <1>2, <2>2 DEF ShownAt, NotShown, VoidTypes
      <3>2. /\ t \in Seq(Int) /\ AscendingIn(t, Word)
            /\ \A v \in Word : Occurs(v, t) <=> WordOf(nodes, n, v)
            /\ t = <<>> => nodes[n].name = "code" /\ normalizeText(extractText(nodes)[n]) = <<>>
        BY MacroFacts
      <3> HIDE DEF t
      <3>3. t = <<>> => EmptyCode(nodes)
        BY <2>2, <3>2 DEF EmptyCode
      <3> QED BY <3>1, <3>2, <3>3, ShowsOne
    <2>3. CASE nodes[n].type \in {"pageReference", "userReference"}
      <3>1. s[n] = <<<<Reference>>>>
        BY <1>2, <2>3 DEF ShownAt, NotShown, VoidTypes
      <3>2. \A v \in Word : ~WordOf(nodes, n, v)
        BY <1>3, <2>3 DEF Childless, Contentless
      <3>3. /\ <<Reference>> \in Seq(Int) /\ <<Reference>> # <<>> /\ Len(<<Reference>>) = 1
            /\ <<Reference>>[1] = Reference /\ DOMAIN <<Reference>> = {1} /\ 1..1 = {1}
            /\ Reference \notin Word
        BY DEF Reference, Word
      <3>4. AscendingIn(<<Reference>>, Word) /\ \A v \in Word : ~Occurs(v, <<Reference>>)
        BY <3>3 DEF AscendingIn, Occurs, Has
      <3> QED BY <3>1, <3>2, <3>3, <3>4, ShowsOne
    <2>4. CASE nodes[n].type \in NotShown
      <3>1. s[n] = <<>>
        BY <1>2, <2>4 DEF ShownAt, NotShown, VoidTypes
      <3>2. \A v \in Word : ~WordOf(nodes, n, v)
        BY <1>3, <2>4 DEF Childless, Contentless, NotShown, VoidTypes
      <3> QED BY <3>1, <3>2, ShowsNone
    <2>5. CASE /\ nodes[n].type # "text" /\ nodes[n].type # "macro"
               /\ nodes[n].type \notin {"pageReference", "userReference"}
               /\ nodes[n].type \notin NotShown
      <3>1. s[n] = FlattenSeq(Below(nodes, s, n))
        BY <1>2, <2>5 DEF ShownAt
      <3>2. \A c \in 1..N : nodes[c].parent = n => c \in (n + 1)..N
        BY <1>1, WithinFacts
      <3>3. \A c \in 1..N : nodes[c].parent = n => Shows(nodes, s[c], c) /\ Excused(nodes, s[c])
        BY <1>4, <3>2
      <3> QED BY <2>5, <3>1, <3>3, ShowsBelow
    <2> QED BY <2>1, <2>2, <2>3, <2>4, <2>5
  <1>5. \A n \in 1..N : n \in P
    <2> HIDE DEF P, N
    <2> QED BY <1>1, <1>4, Downwards
  <1> QED BY <1>1, <1>2, <1>5

\* All that is shown, as one text.
LEMMA ShownWords ==
  ASSUME NEW x \in Texts, NEW nodes, Shows(nodes, x, 1)
  PROVE  LET z == FlattenSeq(x) IN
         /\ z \in Seq(Int) /\ AscendingIn(z, Word)
         /\ \A v \in Word : Has(z, Len(z), v) <=> WordOf(nodes, 1, v)
  <1> DEFINE z == FlattenSeq(x)
  <1>1. z \in Seq(Int) /\ MadeOf(z, Len(x), x)
    BY FlattenFacts DEF Texts
  <1>2. Len(x) \in Nat /\ \A a \in 1..Len(x) : x[a] \in Seq(Int)
    BY DEF Texts
  <1> HIDE DEF z
  <1>3. ASSUME NEW i \in 1..Len(z), NEW j \in 1..Len(z), i < j, z[i] \in Word, z[j] \in Word
        PROVE  z[i] < z[j]
    <2>1. PICK a \in 1..Len(x), b \in 1..Len(x), p \in Nat, q \in Nat :
            /\ From(z, i, x, a, p) /\ From(z, j, x, b, q)
            /\ a < b \/ (a = b /\ p < q)
      BY <1>1, <1>3 DEF MadeOf
    <2>2. /\ p \in 1..Len(x[a]) /\ z[i] = x[a][p]
          /\ q \in 1..Len(x[b]) /\ z[j] = x[b][q]
      BY <2>1 DEF From
    <2>3. CASE a < b
      <3>1. Occurs(z[i], x[a]) /\ Occurs(z[j], x[b])
        BY <2>2 DEF Occurs, Has
      <3> QED BY <1>3, <2>3, <3>1 DEF Shows
    <2>4. CASE a = b /\ p < q
      <3>1. AscendingIn(x[a], Word) /\ DOMAIN x[a] = 1..Len(x[a])
        BY <1>2 DEF Shows
      <3> QED BY <1>3, <2>2, <2>4, <3>1 DEF AscendingIn
    <2> QED BY <2>1, <2>3, <2>4
  <1>4. AscendingIn(z, Word)
    <2>1. DOMAIN z = 1..Len(z)
      BY <1>1
    <2> QED BY <1>3, <2>1 DEF AscendingIn
  <1>5. ASSUME NEW v \in Word PROVE Has(z, Len(z), v) <=> WordOf(nodes, 1, v)
    <2>1. WordOf(nodes, 1, v) <=> \E a \in 1..Len(x) : Occurs(v, x[a])
      BY DEF Shows
    <2>2. ASSUME NEW i \in 1..Len(z), z[i] = v PROVE \E a \in 1..Len(x) : Occurs(v, x[a])
      <3>1. PICK a \in 1..Len(x), p \in Nat : From(z, i, x, a, p)
        BY <1>1 DEF MadeOf
      <3> QED BY <2>2, <3>1 DEF From, Occurs, Has
    <2>3. ASSUME NEW a \in 1..Len(x), Occurs(v, x[a]) PROVE \E i \in 1..Len(z) : z[i] = v
      <3>1. PICK p \in 1..Len(x[a]) : x[a][p] = v
        BY <2>3 DEF Occurs, Has
      <3> QED BY <1>1, <3>1 DEF MadeOf
    <2> QED BY <2>1, <2>2, <2>3 DEF Has
  <1> QED BY <1>1, <1>4, <1>5 DEF z

\* The editor's document shows the words of the text for the search, in the
\* same order, and no empty text but that of an empty code macro.
THEOREM EditorShows == Spec => []EditorShowsText
  <1>1. ASSUME BodyKnown, Converted PROVE EditorShowsText
    <2> DEFINE nodes == Nodes(body)
               x == editorChildren(nodes)
               z == FlattenSeq(x)
               S == {v \in Word : IsKept(body, v)}
    <2>1. body \in Bodies /\ body \in Seq(Tokens) /\ result = ConvertStorage(body)
      BY <1>1 DEF BodyKnown, Converted, Bodies
    <2>2. /\ IsTree(nodes)
          /\ \A v \in Word : (\E n \in 1..Len(nodes) : Occurs(v, nodes[n].text)) <=> IsKept(body, v)
          /\ WellFormed(body) => nodes = TreeOf
      BY <2>1, NodesFacts DEF TreeOf
    <2>3. result.text = normalizeText(extractText(nodes)[1]) /\ result.editor = x
      BY <2>1 DEF ConvertStorage
    <2>4. /\ Words(result.text) \in Seq(Int) /\ Ascending(Words(result.text))
          /\ ToSet(Words(result.text)) = S
      BY <2>1, <2>3, TextFacts
    <2> HIDE DEF nodes, x, S
    <2>5. Shows(nodes, x, 1) /\ Excused(nodes, x)
      BY <2>2, ShownFacts DEF x
    <2>6. x \in Texts
      BY <2>5 DEF Shows
    <2>7. /\ z \in Seq(Int) /\ AscendingIn(z, Word)
          /\ \A v \in Word : Has(z, Len(z), v) <=> WordOf(nodes, 1, v)
      BY <2>5, <2>6, ShownWords
    <2>8. 1 \in 1..Len(nodes) /\ DOMAIN nodes = 1..Len(nodes)
      BY <2>2 DEF IsTree
    <2>9. \A v \in Word : WordOf(nodes, 1, v) <=> v \in S
      <3>1. \A m \in 1..Len(nodes) : Within(nodes, 1, m)
        BY <2>2, <2>8, WithinFacts
      <3> QED BY <2>2, <3>1 DEF WordOf, S
    <2> HIDE DEF z
    <2>10. Words(z) \in Seq(Int) /\ Ascending(Words(z)) /\ ToSet(Words(z)) = S
      <3>1. S \cap Word = S
        BY DEF S
      <3> QED BY <2>7, <2>9, <3>1, WordsFacts
    <2>11. Words(z) = Words(result.text)
      BY <2>4, <2>10, SameAscending
    <2>12. ASSUME <<>> \in ToSet(x)
           PROVE  \E n \in DOMAIN TreeOf :
                    /\ TreeOf[n].type = "macro" /\ TreeOf[n].name = "code"
                    /\ normalizeText(extractText(TreeOf)[n]) = <<>>
      <3>1. EmptyCode(nodes)
        <4>1. x \in Seq(Seq(Int))
          BY <2>6 DEF Texts
        <4>2. DOMAIN x = 1..Len(x)
          BY <4>1
        <4> QED BY <2>5, <2>12, <4>2 DEF Excused, ToSet
      <3>2. CASE WellFormed(body)
        BY <2>2, <2>8, <3>1, <3>2 DEF EmptyCode
      <3>3. CASE ~WellFormed(body)
        <4> DEFINE t == Fallback(body)
        <4>1. nodes = <<Document, Node("paragraph", <<>>, "", 1), Node("text", t, "", 2)>>
          BY <3>3 DEF nodes, Nodes
        <4> HIDE DEF t
        <4>2. Len(nodes) = 3
          BY <4>1
        <4>3. nodes[1].type # "macro" /\ nodes[2].type # "macro" /\ nodes[3].type # "macro"
          BY <4>1 DEF Node, Document
        <4>4. \A n \in 1..Len(nodes) : nodes[n].type # "macro"
          BY <4>2, <4>3
        <4> QED BY <3>1, <4>4 DEF EmptyCode
      <3> QED BY <3>2, <3>3
    <2> QED BY <2>3, <2>11, <2>12 DEF EditorShowsText, z
  <1>2. BodyKnown => EditorShowsText
    BY <1>1 DEF EditorShowsText
  <1> QED BY <1>2, BodyInv, PTL

-----------------------------------------------------------------------------
(* What lies between two words                                             *)

\* c is the outermost node that holds b but not a.
IsBranch(nodes, c, a, b) ==
  /\ c \in 1..Len(nodes) /\ Within(nodes, c, b) /\ ~Within(nodes, c, a)
  /\ Within(nodes, nodes[c].parent, a)
Branching(nodes, a, b) ==
  \E c \in 1..Len(nodes) : IsBranch(nodes, c, a, b) /\ nodes[c].type \in BlockTypes

HasSpace(nodes, b) == Occurs(Space, nodes[b].text)

\* x has the words of the nodes Z, and a space before, behind or between words
\* where there is one in a text, or where a block that begins is not the first.
Renders(nodes, x, Z) ==
  /\ x \in Seq(Nat)
  /\ \A v \in Word : Occurs(v, x) <=> \E m \in Z : Occurs(v, nodes[m].text)
  /\ (\A v \in Word : ~Occurs(v, x)) =>
       (Occurs(Space, x) <=> \E b \in Z : HasSpace(nodes, b))
  /\ \A w \in Word : \A m \in Z :
       Occurs(w, nodes[m].text) /\ (\A u \in Word : Occurs(u, x) => w <= u) =>
         (Precedes(x, Space, w) <=> \E b \in Z : b < m /\ HasSpace(nodes, b))
  /\ \A v \in Word : \A m \in Z :
       Occurs(v, nodes[m].text) /\ (\A u \in Word : Occurs(u, x) => u <= v) =>
         (Precedes(x, v, Space) <=> \E b \in Z : m <= b /\ HasSpace(nodes, b))
  /\ \A v, w \in Word : \A k, m \in Z :
       /\ Occurs(v, nodes[k].text) /\ Occurs(w, nodes[m].text)
       /\ v < w /\ \A u \in Word : Occurs(u, x) => u <= v \/ w <= u
       => (Split(x, v, w) <=>
             Branching(nodes, k, m) \/ \E b \in Z : k <= b /\ b < m /\ HasSpace(nodes, b))

LEMMA OccursFacts ==
  ASSUME NEW x \in Seq(Nat)
  PROVE  /\ Space \notin Word
         /\ \A u, w : Precedes(x, u, w) => Occurs(u, x) /\ Occurs(w, x)
         /\ \A v, w : Split(x, v, w) => Occurs(v, x) /\ Occurs(w, x)
         /\ x # <<>> => Occurs(Space, x) \/ \E v \in Word : Occurs(v, x)
         /\ \A v : Occurs(v, x) => x # <<>>
  <1>1. \A u, w : Precedes(x, u, w) => Occurs(u, x) /\ Occurs(w, x)
    BY DEF Precedes, Occurs, Has
  <1>2. \A v, w : Split(x, v, w) => Occurs(v, x) /\ Occurs(w, x)
    BY DEF Split, Parted, Occurs, Has
  <1>3. ASSUME x # <<>> PROVE Occurs(Space, x) \/ \E v \in Word : Occurs(v, x)
    <2>1. 1 \in 1..Len(x) /\ x[1] \in Nat
      BY <1>3
    <2> QED BY <2>1 DEF Word, Occurs, Has
  <1>4. \A v : Occurs(v, x) => x # <<>>
    BY DEF Occurs, Has
  <1> QED BY <1>1, <1>2, <1>3, <1>4 DEF Word

LEMMA BranchUnique ==
  ASSUME NEW nodes, IsTree(nodes), NEW a, NEW b, NEW c, NEW e,
         IsBranch(nodes, c, a, b), IsBranch(nodes, e, a, b)
  PROVE  c = e
  <1> DEFINE N == Len(nodes)
  <1>1. N \in Nat /\ \A m \in 1..N : nodes[m].parent \in Nat /\ nodes[m].parent < m
    BY WithinFacts DEF IsTree
  <1>2. ASSUME NEW f, NEW g, IsBranch(nodes, f, a, b), IsBranch(nodes, g, a, b), f < g PROVE FALSE
    <2>1. /\ f \in 1..N /\ g \in 1..N /\ b \in 1..N /\ a \in 1..N /\ g <= b
          /\ \A q \in (f + 1)..b : nodes[q].parent >= f
      BY <1>2 DEF IsBranch, Within
    <2>2. g \in (f + 1)..b
      BY <1>2, <2>1
    <2>3. nodes[g].parent >= f /\ nodes[g].parent \in Nat /\ nodes[g].parent < g
      BY <1>1, <2>1, <2>2
    <2> DEFINE p == nodes[g].parent
    <2>4. p <= a /\ \A q \in (p + 1)..a : nodes[q].parent >= p
      BY <1>2 DEF IsBranch, Within
    <2>5. ASSUME NEW q \in (f + 1)..a PROVE nodes[q].parent >= f
      <3>1. CASE q <= p
        <4>1. q \in (f + 1)..b
          BY <2>1, <2>3, <3>1
        <4> QED BY <2>1, <4>1
      <3>2. CASE p < q
        <4>1. q \in (p + 1)..a /\ q \in 1..N
          BY <2>1, <2>3, <3>2
        <4>2. nodes[q].parent >= p /\ nodes[q].parent \in Nat
          BY <1>1, <2>4, <4>1
        <4> QED BY <2>1, <2>3, <4>2
      <3> QED BY <2>1, <2>3, <3>1, <3>2
    <2>6. f <= a
      BY <2>1, <2>3, <2>4
    <2>7. Within(nodes, f, a)
      BY <2>1, <2>5, <2>6 DEF Within
    <2> QED BY <1>2, <2>7 DEF IsBranch
  <1>3. c \in Int /\ e \in Int
    BY DEF IsBranch
  <1>4. ~(c < e) /\ ~(e < c)
    BY <1>2
  <1> QED BY <1>3, <1>4

\* One text on its own.
LEMMA RendersText ==
  ASSUME NEW nodes, NEW n \in Nat, nodes[n].text \in Seq(Nat), Shape(nodes[n].text)
  PROVE  Renders(nodes, nodes[n].text, {n})
  <1> DEFINE x == nodes[n].text
  <1>1. x \in Seq(Nat) /\ Shape(x)
    OBVIOUS
  <1>2. HasSpace(nodes, n) <=> Occurs(Space, x)
    BY DEF HasSpace
  <1>3. /\ \A w \in Word : ~Precedes(x, Space, w)
        /\ \A v \in Word : Occurs(v, x) => (Precedes(x, v, Space) <=> Occurs(Space, x))
        /\ \A v, w \in Word : Occurs(v, x) /\ Occurs(w, x) => v = w
    <2>1. 1..0 = {} /\ 1..1 = {1} /\ 1..2 = {1, 2} /\ Space \notin Word
      BY DEF Word
    <2>2. CASE x = <<>>
      BY <2>1, <2>2 DEF Precedes, Occurs, Has
    <2>3. CASE x = <<Space>>
      BY <2>1, <2>3 DEF Precedes, Occurs, Has
    <2>4. ASSUME NEW i \in Word, x = <<i>>
          PROVE  /\ \A w \in Word : ~Precedes(x, Space, w)
                 /\ \A v \in Word : Occurs(v, x) => (Precedes(x, v, Space) <=> Occurs(Space, x))
                 /\ \A v, w \in Word : Occurs(v, x) /\ Occurs(w, x) => v = w
      <3>1. Len(x) = 1 /\ x[1] = i /\ i # Space
        BY <2>1, <2>4
      <3> HIDE DEF x
      <3> QED BY <2>1, <3>1 DEF Precedes, Occurs, Has
    <2>5. ASSUME NEW i \in Word, x = <<i, Space>>
          PROVE  /\ \A w \in Word : ~Precedes(x, Space, w)
                 /\ \A v \in Word : Occurs(v, x) => (Precedes(x, v, Space) <=> Occurs(Space, x))
                 /\ \A v, w \in Word : Occurs(v, x) /\ Occurs(w, x) => v = w
      <3>1. Len(x) = 2 /\ x[1] = i /\ x[2] = Space /\ i # Space
        BY <2>1, <2>5
      <3> HIDE DEF x
      <3>2. \A w \in Word : ~Precedes(x, Space, w)
        BY <2>1, <3>1 DEF Precedes
      <3>3. \A v \in Word : Occurs(v, x) => v = i
        BY <2>1, <3>1 DEF Occurs, Has
      <3>4. Precedes(x, i, Space) /\ Occurs(Space, x)
        <4>1. 1 \in 1..Len(x) /\ 2 \in 1..Len(x) /\ 1 < 2
          BY <3>1
        <4> QED BY <3>1, <4>1 DEF Precedes, Occurs, Has
      <3> QED BY <3>2, <3>3, <3>4
    <2> HIDE DEF x
    <2> QED BY <1>1, <2>2, <2>3, <2>4, <2>5 DEF Shape
  <1>4. /\ \A v, w \in Word : ~(v < w /\ v = w)
        /\ n <= n /\ ~(n < n)
    BY DEF Word
  <1> HIDE DEF x, Word
  <1>5. Renders(nodes, x, {n})
    <2>1. \A v \in Word : Occurs(v, x) <=> \E m \in {n} : Occurs(v, nodes[m].text)
      BY DEF x
    <2>2. Occurs(Space, x) <=> \E b \in {n} : HasSpace(nodes, b)
      BY <1>2
    <2>3. \A w \in Word : Precedes(x, Space, w) <=> \E b \in {n} : b < n /\ HasSpace(nodes, b)
      BY <1>3, <1>4
    <2>4. \A v \in Word : Occurs(v, x) =>
            (Precedes(x, v, Space) <=> \E b \in {n} : n <= b /\ HasSpace(nodes, b))
      BY <1>2, <1>3, <1>4
    <2>5. \A v, w \in Word : ~(Occurs(v, x) /\ Occurs(w, x) /\ v < w)
      BY <1>3, <1>4
    <2>6. nodes[n].text = x
      BY DEF x
    <2> QED BY <1>1, <2>1, <2>2, <2>3, <2>4, <2>5, <2>6 DEF Renders
  <1> QED BY <1>5 DEF x

\* Nodes without text add nothing.
LEMMA RendersMore ==
  ASSUME NEW nodes, NEW x, NEW Y, NEW Z, Renders(nodes, x, Y), Renders(nodes, <<>>, Z)
  PROVE  Renders(nodes, x, Y \cup Z)
  <1> DEFINE U == Y \cup Z
  <1>1. \A v : ~Occurs(v, <<>>)
    BY DEF Occurs, Has
  <1>2. \A v \in Word : \A m \in Z : ~Occurs(v, nodes[m].text)
    BY <1>1 DEF Renders
  <1>3. \A b \in Z : ~HasSpace(nodes, b)
    BY <1>1 DEF Renders
  <1>4. \A v \in Word : \A m \in U : Occurs(v, nodes[m].text) => m \in Y
    BY <1>2
  <1>5. \A v \in Word : Occurs(v, x) <=> \E m \in U : Occurs(v, nodes[m].text)
    BY <1>2 DEF Renders
  <1>6. /\ (\E b \in Y : HasSpace(nodes, b)) <=> \E b \in U : HasSpace(nodes, b)
        /\ \A m : (\E b \in Y : b < m /\ HasSpace(nodes, b)) <=> \E b \in U : b < m /\ HasSpace(nodes, b)
        /\ \A m : (\E b \in Y : m <= b /\ HasSpace(nodes, b)) <=> \E b \in U : m <= b /\ HasSpace(nodes, b)
        /\ \A k, m : (\E b \in Y : k <= b /\ b < m /\ HasSpace(nodes, b))
                       <=> \E b \in U : k <= b /\ b < m /\ HasSpace(nodes, b)
    BY <1>3
  <1> HIDE DEF U
  <1>7. x \in Seq(Nat)
    BY DEF Renders
  <1>8. (\A v \in Word : ~Occurs(v, x)) =>
          (Occurs(Space, x) <=> \E b \in U : HasSpace(nodes, b))
    BY <1>6 DEF Renders
  <1>9. ASSUME NEW w \in Word, NEW m \in U, Occurs(w, nodes[m].text),
               \A u \in Word : Occurs(u, x) => w <= u
        PROVE  Precedes(x, Space, w) <=> \E b \in U : b < m /\ HasSpace(nodes, b)
    <2>1. m \in Y
      BY <1>4, <1>9
    <2>2. Precedes(x, Space, w) <=> \E b \in Y : b < m /\ HasSpace(nodes, b)
      BY <1>9, <2>1 DEF Renders
    <2> QED BY <1>6, <2>2
  <1>10. ASSUME NEW v \in Word, NEW m \in U, Occurs(v, nodes[m].text),
                \A u \in Word : Occurs(u, x) => u <= v
         PROVE  Precedes(x, v, Space) <=> \E b \in U : m <= b /\ HasSpace(nodes, b)
    <2>1. m \in Y
      BY <1>4, <1>10
    <2>2. Precedes(x, v, Space) <=> \E b \in Y : m <= b /\ HasSpace(nodes, b)
      BY <1>10, <2>1 DEF Renders
    <2> QED BY <1>6, <2>2
  <1>11. ASSUME NEW v \in Word, NEW w \in Word, NEW k \in U, NEW m \in U,
                Occurs(v, nodes[k].text), Occurs(w, nodes[m].text),
                v < w, \A u \in Word : Occurs(u, x) => u <= v \/ w <= u
         PROVE  Split(x, v, w) <=>
                  Branching(nodes, k, m) \/ \E b \in U : k <= b /\ b < m /\ HasSpace(nodes, b)
    <2>1. k \in Y /\ m \in Y
      BY <1>4, <1>11
    <2>2. Split(x, v, w) <=>
            Branching(nodes, k, m) \/ \E b \in Y : k <= b /\ b < m /\ HasSpace(nodes, b)
      BY <1>11, <2>1 DEF Renders
    <2> QED BY <1>6, <2>2
  <1>12. Renders(nodes, x, U)
    BY <1>5, <1>7, <1>8, <1>9, <1>10, <1>11 DEF Renders
  <1> QED BY <1>12 DEF U

\* The texts of two neighbouring groups of nodes, the second one being those
\* within node c.
LEMMA RendersJoined ==
  ASSUME NEW nodes, IsTree(nodes), NEW x, NEW t, t # <<>>, NEW c \in 1..Len(nodes),
         NEW Y \in SUBSET (1..Len(nodes)), NEW Z \in SUBSET (1..Len(nodes)),
         Renders(nodes, x, Y), Renders(nodes, t, Z),
         \A a \in Y, b \in Z : a < b /\ IsBranch(nodes, c, a, b)
  PROVE  Renders(nodes, Joined(nodes, x, c) \o t, Y \cup Z)
  <1> DEFINE N == Len(nodes)
             X == Joined(nodes, x, c)
             z == X \o t
             block == nodes[c].type \in BlockTypes
             Sp(b) == HasSpace(nodes, b)
             U == Y \cup Z
             In(v, m) == Occurs(v, nodes[m].text)
  <1>1. x \in Seq(Nat) /\ t \in Seq(Nat)
    BY DEF Renders
  <1>2. /\ Space \notin Word
        /\ \A u, w : Precedes(x, u, w) => Occurs(u, x) /\ Occurs(w, x)
        /\ \A u, w : Precedes(t, u, w) => Occurs(u, t) /\ Occurs(w, t)
        /\ \A u, w : Split(x, u, w) => Occurs(u, x) /\ Occurs(w, x)
        /\ \A u, w : Split(t, u, w) => Occurs(u, t) /\ Occurs(w, t)
        /\ x # <<>> => Occurs(Space, x) \/ \E v \in Word : Occurs(v, x)
        /\ Occurs(Space, t) \/ \E v \in Word : Occurs(v, t)
        /\ \A v : Occurs(v, x) => x # <<>>
    BY <1>1, OccursFacts
  <1>3. /\ X \in Seq(Nat)
        /\ \A v \in Word : Occurs(v, X) <=> Occurs(v, x)
        /\ \A u, w : Precedes(X, u, w) <=>
             Precedes(x, u, w) \/ (x # <<>> /\ block /\ Occurs(u, x) /\ w = Space)
        /\ Occurs(Space, X) <=> Occurs(Space, x) \/ (x # <<>> /\ block)
        /\ \A v, w \in Word : Split(X, v, w) <=> Split(x, v, w)
    BY <1>1, JoinedFacts
  <1> HIDE DEF X, block
  <1>4. /\ z \in Seq(Nat)
        /\ \A v : Occurs(v, z) <=> Occurs(v, X) \/ Occurs(v, t)
        /\ \A u, w : Precedes(z, u, w) <=> \/ Precedes(X, u, w) \/ Precedes(t, u, w)
                                           \/ Occurs(u, X) /\ Occurs(w, t)
        /\ \A v, w : Split(z, v, w) <=> \/ Split(X, v, w) \/ Split(t, v, w)
                                        \/ Precedes(X, v, Space) /\ Occurs(w, t)
                                        \/ Occurs(v, X) /\ Precedes(t, Space, w)
    BY <1>1, <1>3, ConcatFacts
  <1> HIDE DEF z
  <1>5. \A v \in Word : Occurs(v, z) <=> Occurs(v, x) \/ Occurs(v, t)
    BY <1>3, <1>4
  <1>6. Occurs(Space, z) <=> Occurs(Space, x) \/ (x # <<>> /\ block) \/ Occurs(Space, t)
    BY <1>3, <1>4
  <1>7. \A w \in Word : Precedes(z, Space, w) <=>
          \/ Precedes(x, Space, w) \/ Precedes(t, Space, w)
          \/ (Occurs(Space, x) \/ (x # <<>> /\ block)) /\ Occurs(w, t)
    BY <1>2, <1>3, <1>4
  <1>8. \A v \in Word : Precedes(z, v, Space) <=>
          \/ Precedes(x, v, Space) \/ (block /\ Occurs(v, x)) \/ Precedes(t, v, Space)
          \/ Occurs(v, x) /\ Occurs(Space, t)
    BY <1>2, <1>3, <1>4
  <1>9. \A v, w \in Word : Split(z, v, w) <=>
          \/ Split(x, v, w) \/ Split(t, v, w)
          \/ (Precedes(x, v, Space) \/ (block /\ Occurs(v, x))) /\ Occurs(w, t)
          \/ Occurs(v, x) /\ Precedes(t, Space, w)
    BY <1>2, <1>3, <1>4
  <1>10. /\ \A a \in Y, b \in Z : a < b /\ ~(b < a) /\ ~(b <= a) /\ a <= b
         /\ \A a, b, m \in U : (a < b /\ b <= m => a < m) /\ (a <= b /\ b < m => a < m)
         /\ \A a \in U : ~(a < a)
    <2>1. \A a \in U : a \in Int
      OBVIOUS
    <2> QED BY <2>1
  <1>11. /\ \A v \in Word : Occurs(v, x) <=> \E m \in Y : In(v, m)
         /\ \A v \in Word : Occurs(v, t) <=> \E m \in Z : In(v, m)
    BY DEF Renders
  <1>12. \A u, v \in Word : Occurs(u, x) /\ Occurs(v, t) => u < v
    <2>1. ASSUME NEW u \in Word, NEW v \in Word, Occurs(u, x), Occurs(v, t) PROVE u < v
      <3>1. PICK k \in Y : In(u, k)
        BY <1>11, <2>1
      <3>2. PICK m \in Z : In(v, m)
        BY <1>11, <2>1
      <3>3. k < m /\ k \in 1..N /\ m \in 1..N
        BY <1>10
      <3>4. TextsAscend(nodes)
        BY DEF IsTree
      <3> QED BY <3>1, <3>2, <3>3, <3>4 DEF TextsAscend
    <2> QED BY <2>1
  <1>13. \A u, v \in Word : u < v => ~(v <= u) /\ ~(v < u) /\ u # v
    BY DEF Word
  <1>14. \A v \in Word : ~(Occurs(v, x) /\ Occurs(v, t))
    BY <1>12, <1>13
  <1>15. /\ \A v \in Word : \A m \in Y : In(v, m) => Occurs(v, x)
         /\ \A v \in Word : \A m \in Z : In(v, m) => Occurs(v, t)
    BY <1>11
  <1>16. /\ (\A v \in Word : ~Occurs(v, x)) => (Occurs(Space, x) <=> \E b \in Y : Sp(b))
         /\ (\A v \in Word : ~Occurs(v, t)) => (Occurs(Space, t) <=> \E b \in Z : Sp(b))
    BY DEF Renders
  <1> HIDE DEF In, Sp
  <1>17. \A v \in Word : Occurs(v, z) <=> \E m \in U : In(v, m)
    BY <1>5, <1>11
  <1>18. (\A v \in Word : ~Occurs(v, z)) => (Occurs(Space, z) <=> \E b \in U : Sp(b))
    BY <1>2, <1>5, <1>6, <1>16
  <1>19. ASSUME NEW w \in Word, NEW m \in U, In(w, m), \A u \in Word : Occurs(u, z) => w <= u
         PROVE  Precedes(z, Space, w) <=> \E b \in U : b < m /\ Sp(b)
    <2>1. CASE m \in Y
      <3>1. Occurs(w, x) /\ ~Occurs(w, t)
        BY <1>14, <1>15, <1>19, <2>1
      <3>2. Precedes(z, Space, w) <=> Precedes(x, Space, w)
        BY <1>2, <1>7, <3>1
      <3>3. \A u \in Word : Occurs(u, x) => w <= u
        BY <1>5, <1>19
      <3>4. Precedes(x, Space, w) <=> \E b \in Y : b < m /\ Sp(b)
        BY <1>19, <2>1, <3>3 DEF Renders, In, Sp
      <3>5. \A b \in U : b < m => b \in Y
        BY <1>10, <2>1
      <3> QED BY <3>2, <3>4, <3>5
    <2>2. CASE m \in Z
      <3>1. Occurs(w, t) /\ ~Occurs(w, x)
        BY <1>14, <1>15, <1>19, <2>2
      <3>2. \A v \in Word : ~Occurs(v, x)
        BY <1>5, <1>12, <1>13, <1>19, <3>1
      <3>3. Precedes(z, Space, w) <=> Precedes(t, Space, w) \/ Occurs(Space, x)
        BY <1>2, <1>7, <3>1, <3>2
      <3>4. \A u \in Word : Occurs(u, t) => w <= u
        BY <1>5, <1>19
      <3>5. Precedes(t, Space, w) <=> \E b \in Z : b < m /\ Sp(b)
        BY <1>19, <2>2, <3>4 DEF Renders, In, Sp
      <3>6. \A b \in Y : b < m
        BY <1>10, <2>2
      <3>7. Occurs(Space, x) <=> \E b \in Y : Sp(b)
        BY <1>16, <3>2
      <3> QED BY <3>3, <3>5, <3>6, <3>7
    <2> QED BY <2>1, <2>2
  <1>20. ASSUME NEW v \in Word, NEW m \in U, In(v, m), \A u \in Word : Occurs(u, z) => u <= v
         PROVE  Precedes(z, v, Space) <=> \E b \in U : m <= b /\ Sp(b)
    <2>1. CASE m \in Z
      <3>1. Occurs(v, t) /\ ~Occurs(v, x)
        BY <1>14, <1>15, <1>20, <2>1
      <3>2. Precedes(z, v, Space) <=> Precedes(t, v, Space)
        BY <1>2, <1>8, <3>1
      <3>3. \A u \in Word : Occurs(u, t) => u <= v
        BY <1>5, <1>20
      <3>4. Precedes(t, v, Space) <=> \E b \in Z : m <= b /\ Sp(b)
        BY <1>20, <2>1, <3>3 DEF Renders, In, Sp
      <3>5. \A b \in U : m <= b => b \in Z
        BY <1>10, <2>1
      <3> QED BY <3>2, <3>4, <3>5
    <2>2. CASE m \in Y
      <3>1. Occurs(v, x)
        BY <1>15, <1>20, <2>2
      <3>2. \A u \in Word : ~Occurs(u, t)
        BY <1>5, <1>12, <1>13, <1>20, <3>1
      <3>3. Occurs(Space, t) /\ Precedes(z, v, Space)
        BY <1>2, <1>8, <3>1, <3>2
      <3>4. \E b \in Z : Sp(b)
        BY <1>16, <3>2, <3>3
      <3>5. \A b \in Z : m <= b
        BY <1>10, <2>2
      <3> QED BY <3>3, <3>4, <3>5
    <2> QED BY <2>1, <2>2
  <1>21. ASSUME NEW v \in Word, NEW w \in Word, NEW k \in U, NEW m \in U, In(v, k), In(w, m),
                v < w, \A u \in Word : Occurs(u, z) => u <= v \/ w <= u
         PROVE  Split(z, v, w) <=>
                  Branching(nodes, k, m) \/ \E b \in U : k <= b /\ b < m /\ Sp(b)
    <2>1. CASE k \in Y /\ m \in Y
      <3>1. Occurs(v, x) /\ Occurs(w, x) /\ ~Occurs(v, t) /\ ~Occurs(w, t)
        BY <1>14, <1>15, <1>21, <2>1
      <3>2. Split(z, v, w) <=> Split(x, v, w)
        BY <1>2, <1>9, <3>1
      <3>3. \A u \in Word : Occurs(u, x) => u <= v \/ w <= u
        BY <1>5, <1>21
      <3>4. Split(x, v, w) <=>
              Branching(nodes, k, m) \/ \E b \in Y : k <= b /\ b < m /\ Sp(b)
        BY <1>21, <2>1, <3>3 DEF Renders, In, Sp
      <3>5. \A b \in U : b < m => b \in Y
        BY <1>10, <2>1
      <3> QED BY <3>2, <3>4, <3>5
    <2>2. CASE k \in Z /\ m \in Z
      <3>1. Occurs(v, t) /\ Occurs(w, t) /\ ~Occurs(v, x) /\ ~Occurs(w, x)
        BY <1>14, <1>15, <1>21, <2>2
      <3>2. Split(z, v, w) <=> Split(t, v, w)
        BY <1>2, <1>9, <3>1
      <3>3. \A u \in Word : Occurs(u, t) => u <= v \/ w <= u
        BY <1>5, <1>21
      <3>4. Split(t, v, w) <=>
              Branching(nodes, k, m) \/ \E b \in Z : k <= b /\ b < m /\ Sp(b)
        BY <1>21, <2>2, <3>3 DEF Renders, In, Sp
      <3>5. \A b \in U : k <= b => b \in Z
        BY <1>10, <2>2
      <3> QED BY <3>2, <3>4, <3>5
    <2>3. CASE k \in Y /\ m \in Z
      <3>1. Occurs(v, x) /\ Occurs(w, t) /\ ~Occurs(v, t) /\ ~Occurs(w, x)
        BY <1>14, <1>15, <1>21, <2>3
      <3>2. Split(z, v, w) <=> Precedes(x, v, Space) \/ block \/ Precedes(t, Space, w)
        BY <1>2, <1>9, <3>1
      <3>3. Branching(nodes, k, m) <=> block
        <4>1. IsBranch(nodes, c, k, m)
          BY <2>3
        <4>2. \A e : IsBranch(nodes, e, k, m) => e = c
          BY <4>1, BranchUnique
        <4> QED BY <4>1, <4>2 DEF Branching, block
      <3>4. \A u \in Word : Occurs(u, x) => u <= v
        <4>1. ASSUME NEW u \in Word, Occurs(u, x) PROVE u <= v
          <5>1. u < w
            BY <1>12, <3>1, <4>1
          <5>2. ~(w <= u)
            BY <1>13, <5>1
          <5> QED BY <1>5, <1>21, <4>1, <5>2
        <4> QED BY <4>1
      <3>5. \A u \in Word : Occurs(u, t) => w <= u
        <4>1. ASSUME NEW u \in Word, Occurs(u, t) PROVE w <= u
          <5>1. v < u
            BY <1>12, <3>1, <4>1
          <5>2. ~(u <= v)
            BY <1>13, <5>1
          <5> QED BY <1>5, <1>21, <4>1, <5>2
        <4> QED BY <4>1
      <3>6. Precedes(x, v, Space) <=> \E b \in Y : k <= b /\ Sp(b)
        BY <1>21, <2>3, <3>4 DEF Renders, In, Sp
      <3>7. Precedes(t, Space, w) <=> \E b \in Z : b < m /\ Sp(b)
        BY <1>21, <2>3, <3>5 DEF Renders, In, Sp
      <3>8. /\ \A b \in Y : b < m
            /\ \A b \in Z : k <= b
        BY <1>10, <2>3
      <3> QED BY <3>2, <3>3, <3>6, <3>7, <3>8
    <2>4. CASE k \in Z /\ m \in Y
      <3>1. Occurs(v, t) /\ Occurs(w, x)
        BY <1>15, <1>21, <2>4
      <3> QED BY <1>12, <1>13, <1>21, <3>1
    <2> QED BY <2>1, <2>2, <2>3, <2>4
  <1> HIDE DEF U
  <1>22. Renders(nodes, z, U)
    BY <1>4, <1>17, <1>18, <1>19, <1>20, <1>21 DEF Renders, In, Sp
  <1> QED BY <1>22 DEF z, U, X

\* Node n and what is within its children up to k.
Inside(nodes, n) == {m \in 1..Len(nodes) : Within(nodes, n, m)}
Held(nodes, n, k) ==
  {n} \cup {m \in 1..Len(nodes) : \E c \in 1..k : nodes[c].parent = n /\ Within(nodes, c, m)}

LEMMA GatherRenders ==
  ASSUME NEW nodes, IsTree(nodes), NEW n \in 1..Len(nodes), nodes[n].text = <<>>,
         NEW w, NEW g, Gathers(g, nodes, w, n),
         \A c \in 1..Len(nodes) : nodes[c].parent = n => Renders(nodes, w[c], Inside(nodes, c))
  PROVE  \A k \in 0..Len(nodes) : Renders(nodes, g[k], Held(nodes, n, k))
  <1> DEFINE N == Len(nodes)
             P == {k \in 0..N : Renders(nodes, g[k], Held(nodes, n, k))}
  <1>1. N \in Nat /\ \A m \in 1..N : nodes[m].parent \in Nat /\ nodes[m].parent < m
    BY WithinFacts DEF IsTree
  <1>2. 0 \in P
    <2>1. g[0] = <<>> /\ Held(nodes, n, 0) = {n} /\ 0 \in 0..N
      BY <1>1 DEF Gathers, Held
    <2>2. <<>> \in Seq(Nat) /\ Shape(<<>>) /\ n \in Nat
      BY DEF Shape
    <2>3. Renders(nodes, <<>>, {n})
      BY <2>2, RendersText
    <2> HIDE DEF N
    <2> QED BY <2>1, <2>3
  <1>3. ASSUME NEW k \in 1..N, k - 1 \in P PROVE k \in P
    <2> DEFINE Y == Held(nodes, n, k - 1)
               Z == Inside(nodes, k)
    <2>1. /\ k \in 0..N /\ 1..k = (1..(k - 1)) \cup {k} /\ k \in Nat
          /\ g[k] = Gather(nodes, w, n, g[k - 1], k)
          /\ Renders(nodes, g[k - 1], Y)
      BY <1>1, <1>3 DEF Gathers
    <2>2. CASE nodes[k].parent # n
      <3>1. Held(nodes, n, k) = Y
        BY <2>1, <2>2 DEF Held
      <3> QED BY <2>1, <2>2, <3>1 DEF Gather
    <2>3. CASE nodes[k].parent = n
      <3>1. Held(nodes, n, k) = Y \cup Z
        BY <2>1, <2>3 DEF Held, Inside
      <3>2. Renders(nodes, w[k], Z)
        BY <2>3
      <3>3. CASE w[k] = <<>>
        <4>1. g[k] = g[k - 1]
          BY <2>1, <3>3 DEF Gather
        <4>2. Renders(nodes, g[k - 1], Y \cup Z)
          BY <2>1, <3>2, <3>3, RendersMore
        <4> QED BY <2>1, <3>1, <4>1, <4>2
      <3>4. CASE w[k] # <<>>
        <4>1. g[k] = Joined(nodes, g[k - 1], k) \o w[k]
          BY <2>1, <2>3, <3>4 DEF Gather
        <4>2. Y \in SUBSET (1..N) /\ Z \in SUBSET (1..N)
          BY DEF Held, Inside
        <4>3. ASSUME NEW a \in Y PROVE a < k /\ Within(nodes, n, a) /\ a \in 1..N
          <5>1. CASE a = n
            BY <1>1, <2>3, <5>1, WithinFacts
          <5>2. CASE a # n
            <6>1. PICK c \in 1..(k - 1) : nodes[c].parent = n /\ Within(nodes, c, a) /\ a \in 1..N
              BY <4>3, <5>2 DEF Held
            <6>2. c \in 1..N /\ c < k
              BY <1>1, <6>1
            <6>3. a < k
              BY <2>3, <6>1, <6>2, SiblingsFollow
            <6>4. Within(nodes, n, a)
              BY <5>2, <6>1, <6>2, WithinChild
            <6> QED BY <6>1, <6>3, <6>4
          <5> QED BY <5>1, <5>2
        <4>4. ASSUME NEW a \in Y, NEW b \in Z PROVE a < b /\ IsBranch(nodes, k, a, b)
          <5>1. Within(nodes, k, b) /\ k <= b /\ b \in 1..N
            BY DEF Inside, Within
          <5>2. ~Within(nodes, k, a)
            BY <1>1, <4>3 DEF Within
          <5> QED BY <1>1, <2>3, <4>3, <5>1, <5>2 DEF IsBranch
        <4> HIDE DEF Y, Z
        <4>5. Renders(nodes, Joined(nodes, g[k - 1], k) \o w[k], Y \cup Z)
          BY <2>1, <3>2, <3>4, <4>2, <4>4, RendersJoined
        <4> QED BY <2>1, <3>1, <4>1, <4>5
      <3> QED BY <3>3, <3>4
    <2> QED BY <2>2, <2>3
  <1>4. \A k \in 0..N : k \in P
    <2> HIDE DEF P, N
    <2> QED BY <1>1, <1>2, <1>3, Upwards
  <1> QED BY <1>4

\* extractText: the text of a node, with the spaces between its words.
LEMMA ExtractRenders ==
  ASSUME NEW nodes, IsTree(nodes), \A n \in 1..Len(nodes) : Shape(nodes[n].text)
  PROVE  \A n \in 1..Len(nodes) : Renders(nodes, extractText(nodes)[n], Inside(nodes, n))
  <1> DEFINE N == Len(nodes)
             extract == extractText(nodes)
             P == {n \in 1..N : Renders(nodes, extract[n], Inside(nodes, n))}
  <1>1. /\ nodes \in Seq(NodeRecords) /\ N \in Nat /\ DOMAIN nodes = 1..N /\ TextsAscend(nodes)
        /\ \A n \in 1..N : nodes[n].text \in Seq(Nat)
    <2>1. nodes \in Seq(NodeRecords) /\ N \in Nat /\ DOMAIN nodes = 1..N /\ TextsAscend(nodes)
      BY DEF IsTree
    <2>2. \A n \in 1..N : nodes[n] \in NodeRecords
      BY <2>1
    <2> QED BY <2>1, <2>2 DEF NodeRecords
  <1>2. /\ extract = ExtractFurther(nodes, extract)
        /\ \A n \in 1..N : extract[n] \in Seq(Nat)
    BY ExtractExists
  <1>3. \A n \in 1..N : nodes[n].parent \in Nat /\ nodes[n].parent < n
    BY WithinFacts
  <1> HIDE DEF extract
  <1>4. \A n \in 1..N : extract[n] = IF nodes[n].type = "text" THEN nodes[n].text
                                     ELSE Gathered(nodes, extract, n)
    <2>1. \A n \in 1..N : ExtractFurther(nodes, extract)[n] =
                            IF nodes[n].type = "text" THEN nodes[n].text
                            ELSE Gathered(nodes, extract, n)
      BY <1>1 DEF ExtractFurther
    <2> QED BY <1>2, <2>1
  <1>5. ASSUME NEW n \in 1..N PROVE Within(nodes, n, n)
    BY WithinFacts
  <1>6. ASSUME NEW n \in 1..N, \A c \in (n + 1)..N : c \in P PROVE n \in P
    <2>1. CASE nodes[n].type = "text"
      <3>1. \A c \in 1..N : nodes[c].parent # n
        BY <2>1, WithinFacts DEF Childless
      <3>2. Inside(nodes, n) = {n}
        <4>1. \A m \in 1..N : m # n => ~Within(nodes, n, m)
          BY <3>1, WithinChild
        <4> QED BY <1>5, <4>1 DEF Inside
      <3>3. n \in Nat /\ nodes[n].text \in Seq(Nat) /\ Shape(nodes[n].text)
        BY <1>1
      <3>4. Renders(nodes, nodes[n].text, {n})
        BY <3>3, RendersText
      <3> QED BY <1>4, <2>1, <3>2, <3>4
    <2>2. CASE nodes[n].type # "text"
      <3>1. \A c \in 1..N : nodes[c].parent = n => Renders(nodes, extract[c], Inside(nodes, c))
        <4>1. \A c \in 1..N : nodes[c].parent = n => c \in (n + 1)..N
          BY <1>1, <1>3
        <4> QED BY <1>6, <4>1
      <3>2. PICK g : Gathers(g, nodes, extract, n) /\ Gathered(nodes, extract, n) = g[N]
        BY <1>1, <1>2, GatherSteps
      <3>3. nodes[n].text = <<>>
        BY <1>1, <2>2 DEF TextsAscend
      <3>4. N \in 0..N
        BY <1>1
      <3>5. Renders(nodes, g[N], Held(nodes, n, N))
        BY <3>1, <3>2, <3>3, <3>4, GatherRenders
      <3>6. Held(nodes, n, N) = Inside(nodes, n)
        <4>1. \A m \in 1..N : m # n => (Within(nodes, n, m) <=>
                \E c \in 1..N : nodes[c].parent = n /\ Within(nodes, c, m))
          BY WithinChild
        <4>2. ~\E c \in 1..N : nodes[c].parent = n /\ Within(nodes, c, n)
          BY <1>1, <1>3 DEF Within
        <4> QED BY <1>5, <4>1, <4>2 DEF Held, Inside
      <3> QED BY <1>4, <2>2, <3>2, <3>5, <3>6
    <2> QED BY <2>1, <2>2
  <1>7. \A n \in 1..N : n \in P
    <2> HIDE DEF P, N
    <2> QED BY <1>1, <1>6, Downwards
  <1> QED BY <1>7 DEF extract

\* What is around a node, and what holds it.
LEMMA AroundFacts ==
  ASSUME IsTree(TreeOf), NEW n \in 1..Len(TreeOf)
  PROVE  Around(n) = {a \in 1..Len(TreeOf) : Within(TreeOf, a, n)}
  <1> DEFINE nodes == TreeOf
             N == Len(nodes)
             Holding(m) == {a \in 1..N : Within(nodes, a, m)}
             Fits(f) == f = [m \in DOMAIN nodes |->
                              {m} \cup (IF m = 1 THEN {} ELSE f[nodes[m].parent])]
  <1>1. N \in Nat /\ DOMAIN nodes = 1..N /\ 1 \in 1..N
    BY DEF IsTree
  <1>2. ASSUME NEW m \in 2..N
        PROVE  nodes[m].parent \in 1..(m - 1) /\ Holding(m) = {m} \cup Holding(nodes[m].parent)
    <2> DEFINE p == nodes[m].parent
    <2>1. /\ p \in 1..(m - 1)
          /\ \A q \in 1..N : p < q /\ q < m => p <= nodes[q].parent
      BY DEF IsTree, Nested
    <2>2. m \in 1..N /\ Within(nodes, m, m) /\ p \in 1..N
      BY <1>1, <2>1, WithinFacts
    <2>3. ASSUME NEW a \in 1..N, a # m, Within(nodes, a, m) PROVE Within(nodes, a, p)
      <3>1. a < m /\ \A q \in (a + 1)..m : nodes[q].parent >= a
        BY <2>3 DEF Within
      <3>2. p >= a
        BY <1>1, <3>1
      <3>3. \A q \in (a + 1)..p : q \in (a + 1)..m
        BY <2>1
      <3> QED BY <2>2, <3>1, <3>2, <3>3 DEF Within
    <2>4. ASSUME NEW a \in 1..N, Within(nodes, a, p) PROVE Within(nodes, a, m)
      <3>1. a <= p /\ \A q \in (a + 1)..p : nodes[q].parent >= a
        BY <2>4 DEF Within
      <3>2. ASSUME NEW q \in (a + 1)..m PROVE nodes[q].parent >= a
        <4>0. q \in 1..N /\ nodes[q].parent \in Nat
          BY <1>1, WithinFacts
        <4>1. CASE q <= p
          <5>1. q \in (a + 1)..p
            BY <2>1, <4>1
          <5> QED BY <3>1, <5>1
        <4>2. CASE p < q /\ q < m
          BY <2>1, <3>1, <4>0, <4>2
        <4>3. CASE q = m
          BY <3>1, <4>3
        <4> QED BY <2>1, <4>1, <4>2, <4>3
      <3> QED BY <2>1, <2>2, <3>1, <3>2 DEF Within
    <2> QED BY <2>1, <2>2, <2>3, <2>4
  <1>3. Holding(1) = {1}
    <2>1. Within(nodes, 1, 1)
      BY <1>1, WithinFacts
    <2>2. \A a \in 1..N : Within(nodes, a, 1) => a = 1
      BY DEF Within
    <2> QED BY <1>1, <2>1, <2>2
  <1> HIDE DEF nodes, Holding
  <1>4. Fits([m \in 1..N |-> Holding(m)])
    <2> DEFINE h == [m \in 1..N |-> Holding(m)]
    <2>1. ASSUME NEW m \in 1..N
          PROVE  h[m] = {m} \cup (IF m = 1 THEN {} ELSE h[nodes[m].parent])
      <3>1. CASE m = 1
        BY <1>3, <3>1
      <3>2. CASE m # 1
        <4>1. m \in 2..N
          BY <3>2
        <4>2. nodes[m].parent \in 1..N
          BY <1>1, <1>2, <4>1
        <4> QED BY <1>2, <3>2, <4>1, <4>2
      <3> QED BY <3>1, <3>2
    <2>2. h = [m \in 1..N |-> {m} \cup (IF m = 1 THEN {} ELSE h[nodes[m].parent])]
      BY <2>1
    <2> HIDE DEF h
    <2>3. Fits(h)
      BY <1>1, <2>2
    <2> QED BY <2>3 DEF h
  <1> DEFINE around == CHOOSE f : Fits(f)
  <1>5. Fits(around)
    <2> HIDE DEF Fits
    <2> QED BY <1>4
  <1>6. Around(n) = around[n]
    BY DEF Around, nodes
  <1> HIDE DEF around
  <1> DEFINE P == {k \in 0..N : \A m \in 1..k : around[m] = Holding(m)}
  <1>7. 0 \in P
    BY <1>1
  <1>8. ASSUME NEW k \in 1..N, k - 1 \in P PROVE k \in P
    <2>1. around[k] = {k} \cup (IF k = 1 THEN {} ELSE around[nodes[k].parent])
      BY <1>1, <1>5
    <2>2. k \in 0..N /\ \A m \in 1..k : m = k \/ m \in 1..(k - 1)
      BY <1>1
    <2>3. around[k] = Holding(k)
      <3>1. CASE k = 1
        BY <1>3, <2>1, <3>1
      <3>2. CASE k # 1
        <4>1. k \in 2..N
          BY <3>2
        <4>2. nodes[k].parent \in 1..(k - 1) /\ Holding(k) = {k} \cup Holding(nodes[k].parent)
          BY <1>2, <4>1
        <4> QED BY <1>8, <2>1, <3>2, <4>2
      <3> QED BY <3>1, <3>2
    <2> QED BY <1>8, <2>2, <2>3
  <1>9. \A k \in 0..N : k \in P
    <2> HIDE DEF P, N
    <2> QED BY <1>1, <1>7, <1>8, Upwards
  <1>10. N \in P /\ n \in 1..N
    BY <1>1, <1>9 DEF nodes
  <1> QED BY <1>6, <1>10 DEF nodes, Holding

\* The branch of Apart is the one node that begins between the words.
LEMMA ApartFacts ==
  ASSUME IsTree(TreeOf), \A n \in 1..Len(TreeOf) : Shape(TreeOf[n].text),
         NEW v \in Word, NEW w \in Word, NEW k \in 1..Len(TreeOf), NEW m \in 1..Len(TreeOf),
         Occurs(v, TreeOf[k].text), Occurs(w, TreeOf[m].text), k < m
  PROVE  Apart(v, w) <=> \/ Branching(TreeOf, k, m)
                         \/ \E b \in 1..Len(TreeOf) : k <= b /\ b < m /\ HasSpace(TreeOf, b)
  <1> DEFINE nodes == TreeOf
             N == Len(nodes)
             both == Around(k) \cap Around(m)
             shared == Max(both)
  <1>1. /\ nodes \in Seq(NodeRecords) /\ N \in Nat /\ DOMAIN nodes = 1..N /\ 1 \in 1..N
        /\ TextsAscend(nodes)
        /\ \A n \in 1..N : nodes[n].text \in Seq(Nat)
    <2>1. /\ nodes \in Seq(NodeRecords) /\ N \in Nat /\ DOMAIN nodes = 1..N /\ 1 \in 1..N
          /\ TextsAscend(nodes)
      BY DEF IsTree
    <2>2. \A n \in 1..N : nodes[n] \in NodeRecords
      BY <2>1
    <2> QED BY <2>1, <2>2 DEF NodeRecords
  <1>2. /\ \A n \in 1..N : nodes[n].parent \in Nat /\ nodes[n].parent < n
        /\ Within(nodes, 1, k) /\ Within(nodes, 1, m)
    BY <1>1, WithinFacts
  <1>3. /\ Around(k) = {a \in 1..N : Within(nodes, a, k)}
        /\ Around(m) = {a \in 1..N : Within(nodes, a, m)}
    BY AroundFacts
  <1>4. \A n \in 1..N : \A u : u \in ToSet(nodes[n].text) <=> Occurs(u, nodes[n].text)
    <2>1. ASSUME NEW n \in 1..N, NEW u
          PROVE  u \in ToSet(nodes[n].text) <=> Occurs(u, nodes[n].text)
      <3>1. DOMAIN nodes[n].text = 1..Len(nodes[n].text)
        BY <1>1
      <3> QED BY <3>1 DEF ToSet, Occurs, Has
    <2> QED BY <2>1
  <1>5. ASSUME NEW u \in Word, NEW a \in 1..N, NEW b \in 1..N,
               Occurs(u, nodes[a].text), Occurs(u, nodes[b].text)
        PROVE  a = b
    <2>1. ~(u < u)
      BY DEF Word
    <2>2. ~(a < b) /\ ~(b < a)
      BY <1>1, <1>5, <2>1 DEF TextsAscend
    <2> QED BY <2>2
  <1> HIDE DEF nodes
  <1>6. NodeOf(v) = k /\ NodeOf(w) = m
    <2>1. ASSUME NEW u \in Word, NEW a \in 1..N, Occurs(u, nodes[a].text) PROVE NodeOf(u) = a
      <3>1. u \in ToSet(nodes[a].text) /\ \A b \in 1..N : u \in ToSet(nodes[b].text) => b = a
        BY <1>4, <1>5, <2>1
      <3>2. NodeOf(u) = CHOOSE b \in 1..N : u \in ToSet(nodes[b].text)
        BY <1>1 DEF NodeOf, nodes
      <3> QED BY <2>1, <3>1, <3>2
    <2>2. k \in 1..N /\ m \in 1..N /\ Occurs(v, nodes[k].text) /\ Occurs(w, nodes[m].text)
      BY DEF nodes
    <2> QED BY <2>1, <2>2
  <1>7. both = {a \in 1..N : Within(nodes, a, k) /\ Within(nodes, a, m)}
    BY <1>3
  <1>8. /\ shared \in 1..N /\ Within(nodes, shared, k) /\ Within(nodes, shared, m)
        /\ \A a \in 1..N : Within(nodes, a, k) /\ Within(nodes, a, m) => a <= shared
    <2>1. both \in SUBSET (1..N) /\ 1 \in both
      BY <1>1, <1>2, <1>7 DEF nodes
    <2> HIDE DEF both
    <2>2. both # {}
      BY <2>1
    <2>3. Max(both) \in both /\ \A y \in both : Max(both) >= y
      BY <1>1, <2>1, <2>2, GreatestIndex
    <2>4. shared \in both /\ \A y \in both : shared >= y
      BY <2>3
    <2> HIDE DEF shared
    <2> QED BY <1>7, <2>4
  <1> HIDE DEF both, shared
  <1>9. PICK c \in 1..N : nodes[c].parent = shared /\ Within(nodes, c, m)
    <2>1. shared <= k
      BY <1>8 DEF Within
    <2>2. m # shared /\ m \in 1..N
      BY <1>8, <2>1 DEF nodes
    <2> QED BY <1>8, <2>2, WithinChild DEF nodes
  <1>10. ASSUME NEW e \in Around(m), nodes[e].parent = shared PROVE e = c
    <2>1. e \in 1..N /\ Within(nodes, e, m)
      BY <1>3, <1>10
    <2>2. e <= m /\ c <= m
      BY <1>9, <2>1 DEF Within
    <2>3. ~(c < e)
      <3>1. c < e => m < e
        BY <1>9, <1>10, <2>1, SiblingsFollow DEF nodes
      <3> QED BY <2>1, <2>2, <3>1 DEF nodes
    <2>4. ~(e < c)
      <3>1. e < c => m < c
        BY <1>9, <1>10, <2>1, SiblingsFollow DEF nodes
      <3> QED BY <2>2, <3>1 DEF nodes
    <2> QED BY <2>1, <2>3, <2>4
  <1>11. (CHOOSE e \in Around(m) : nodes[e].parent = shared) = c
    <2>1. c \in Around(m)
      BY <1>3, <1>9
    <2> QED BY <1>9, <1>10, <2>1
  <1>12. IsBranch(nodes, c, k, m)
    <2>1. ~Within(nodes, c, k)
      <3>1. Within(nodes, c, k) => c <= shared
        BY <1>8, <1>9
      <3>2. shared < c
        BY <1>2, <1>9 DEF nodes
      <3> QED BY <1>8, <3>1, <3>2
    <2> QED BY <1>8, <1>9, <2>1 DEF IsBranch
  <1>13. Branching(nodes, k, m) <=> nodes[c].type \in BlockTypes
    <2>1. \A e : IsBranch(nodes, e, k, m) => e = c
      BY <1>12, BranchUnique DEF nodes
    <2> QED BY <1>12, <2>1 DEF Branching
  <1>14. (\E b \in k..(m - 1) : Space \in ToSet(nodes[b].text))
           <=> \E b \in 1..N : k <= b /\ b < m /\ HasSpace(nodes, b)
    <2>1. k \in 1..N /\ m \in 1..N
      BY DEF nodes
    <2>2. \A b : b \in k..(m - 1) <=> b \in 1..N /\ k <= b /\ b < m
      BY <1>1, <2>1
    <2>3. \A b \in 1..N : Space \in ToSet(nodes[b].text) <=> HasSpace(nodes, b)
      BY <1>4 DEF HasSpace
    <2> HIDE DEF N
    <2> QED BY <2>2, <2>3
  <1>15. Apart(v, w) <=> \/ nodes[c].type \in BlockTypes
                         \/ \E b \in k..(m - 1) : Space \in ToSet(nodes[b].text)
    <2>1. Apart(v, w) <=>
            \/ nodes[CHOOSE e \in Around(m) : nodes[e].parent = shared].type \in BlockTypes
            \/ \E b \in k..(m - 1) : Space \in ToSet(nodes[b].text)
      BY <1>6 DEF Apart, nodes, shared, both
    <2> QED BY <1>11, <2>1
  <1> QED BY <1>13, <1>14, <1>15 DEF nodes

\* Neighbouring words of the text for the search are separated where the body
\* keeps them apart, and only there.
THEOREM Separated == Spec => []WordsSeparated
  <1>1. ASSUME BodyKnown, Converted, WellFormed(body), NEW i \in 1..(Len(result.text) - 1),
               result.text[i] # Space
        PROVE  IF result.text[i + 1] # Space THEN ~Apart(result.text[i], result.text[i + 1])
               ELSE Apart(result.text[i], result.text[i + 2])
    <2> DEFINE nodes == TreeOf
               N == Len(nodes)
               x == extractText(nodes)[1]
               y == normalizeText(x)
    <2>1. body \in Bodies /\ result = ConvertStorage(body)
      BY <1>1 DEF BodyKnown, Converted
    <2>2. /\ IsTree(nodes) /\ Nodes(body) = nodes
          /\ \A n \in 1..N : Shape(nodes[n].text)
      BY <1>1, <2>1, NodesFacts DEF TreeOf
    <2>3. result.text = y
      BY <2>1, <2>2 DEF ConvertStorage
    <2>4. N \in Nat /\ 1 \in 1..N /\ TextsAscend(nodes)
      BY <2>2 DEF IsTree
    <2>5. Renders(nodes, x, 1..N)
      <3>1. Renders(nodes, x, Inside(nodes, 1))
        BY <2>2, <2>4, ExtractRenders
      <3>2. Inside(nodes, 1) = 1..N
        BY <2>2, <2>4, WithinFacts DEF Inside
      <3> QED BY <3>1, <3>2
    <2>6. x \in Seq(Nat) /\ AscendingIn(x, Word)
      BY <2>2, <2>4, ExtractFacts
    <2> HIDE DEF x
    <2>7. /\ y \in Seq(Nat) /\ Tight(y) /\ (Len(y) > 0 => y[Len(y)] # Space)
          /\ SameWords(x, Len(x), y, Len(y)) /\ AscendingIn(y, Word)
      BY <2>6, NormalizeFacts
    <2> HIDE DEF nodes, y
    <2>8. /\ i \in 1..Len(y) /\ i + 1 \in 1..Len(y) /\ i \in Nat /\ Len(y) \in Nat
          /\ DOMAIN y = 1..Len(y) /\ y[i] \in Word
      <3>1. i \in 1..Len(y) /\ i + 1 \in 1..Len(y) /\ i \in Nat /\ Len(y) \in Nat
        BY <2>3, <2>7
      <3> QED BY <1>1, <2>3, <2>7, <3>1 DEF Word
    <2>9. ASSUME NEW j \in 1..Len(y), y[j] \in Word, i < j, \A l \in (i + 1)..(j - 1) : y[l] = Space
          PROVE  Apart(y[i], y[j]) <=> \E l \in (i + 1)..(j - 1) : y[l] = Space
      <3> DEFINE v == y[i]
                 w == y[j]
      <3>1. Space \notin Word
        BY DEF Word
      <3>2. \A a, b \in 1..Len(y) : a < b /\ y[a] \in Word /\ y[b] \in Word => y[a] < y[b]
        BY <2>7, <2>8 DEF AscendingIn
      <3>3. v < w
        BY <2>8, <2>9, <3>2
      <3>4. \A u \in Word : Occurs(u, x) <=> \E a \in 1..Len(y) : y[a] = u
        BY <2>7 DEF SameWords, Occurs, Has
      <3>5. ASSUME NEW u \in Word, Occurs(u, x) PROVE u <= v \/ w <= u
        <4>1. PICK a \in 1..Len(y) : y[a] = u
          BY <3>4, <3>5
        <4>2. a <= i \/ j <= a
          <5>1. a \notin (i + 1)..(j - 1)
            BY <2>9, <3>1, <3>5, <4>1
          <5> QED BY <2>8, <5>1
        <4>3. u \in Int /\ v \in Int /\ w \in Int
          BY <2>8, <2>9 DEF Word
        <4>4. a = i \/ a = j \/ a < i \/ j < a
          BY <4>2
        <4>5. u = v \/ u = w \/ u < v \/ w < u
          BY <2>8, <2>9, <3>2, <3>5, <4>1, <4>4
        <4> HIDE DEF v, w
        <4> QED BY <4>3, <4>5
      <3>6. Occurs(v, x) /\ Occurs(w, x)
        BY <2>8, <2>9, <3>4
      <3> HIDE DEF v, w, N
      <3>7. v \in Word /\ w \in Word
        BY <2>8, <2>9 DEF v, w
      <3>8. PICK k \in 1..N : Occurs(v, nodes[k].text)
        BY <2>5, <3>6, <3>7 DEF Renders
      <3>9. PICK m \in 1..N : Occurs(w, nodes[m].text)
        BY <2>5, <3>6, <3>7 DEF Renders
      <3>10. k < m
        <4>1. ~(m < k)
          <5>1. m < k => w < v
            BY <2>4, <3>7, <3>8, <3>9 DEF TextsAscend, N
          <5> QED BY <3>3, <3>7, <5>1 DEF Word
        <4>2. k # m
          <5>1. \A u, z \in Word : Occurs(u, nodes[k].text) /\ Occurs(z, nodes[k].text) => u = z
            <6>1. Shape(nodes[k].text)
              BY <2>2 DEF N
            <6>2. \A z \in Word : ~Occurs(z, <<>>)
              BY DEF Occurs, Has
            <6>3. \A z \in Word : ~Occurs(z, <<Space>>)
              BY <3>1 DEF Occurs, Has
            <6>4. \A u \in Word : \A z \in Word : Occurs(z, <<u>>) => z = u
              BY DEF Occurs, Has
            <6>5. \A u \in Word : \A z \in Word : Occurs(z, <<u, Space>>) => z = u
              BY <3>1 DEF Occurs, Has
            <6> QED BY <6>1, <6>2, <6>3, <6>4, <6>5 DEF Shape
          <5>2. v # w
            BY <3>3, <3>7 DEF Word
          <5> QED BY <3>7, <3>8, <3>9, <5>1, <5>2
        <4> QED BY <4>1, <4>2
      <3>11. Split(x, v, w) <=>
               Branching(nodes, k, m) \/ \E b \in 1..N : k <= b /\ b < m /\ HasSpace(nodes, b)
        BY <2>5, <3>3, <3>5, <3>7, <3>8, <3>9 DEF Renders
      <3>12. Apart(v, w) <=>
               Branching(nodes, k, m) \/ \E b \in 1..N : k <= b /\ b < m /\ HasSpace(nodes, b)
        BY <2>2, <3>7, <3>8, <3>9, <3>10, ApartFacts DEF nodes, N
      <3>13. Split(x, v, w) <=> Split(y, v, w)
        BY <2>7, <3>7 DEF SameWords, Split
      <3>14. Split(y, v, w) <=> \E l \in (i + 1)..(j - 1) : y[l] = Space
        <4>1. \A a \in 1..Len(y) : (y[a] = v => a = i) /\ (y[a] = w => a = j)
          <5>1. \A u \in Word : ~(u < u)
            BY DEF Word
          <5>2. \A a, b \in 1..Len(y) : y[a] \in Word /\ y[a] = y[b] => a = b
            <6>1. \A a, b \in 1..Len(y) : y[a] \in Word /\ y[a] = y[b] => ~(a < b)
              BY <3>2, <5>1
            <6> QED BY <6>1
          <5> QED BY <2>8, <2>9, <3>7, <5>2 DEF v, w
        <4>2. \A l : l \in (i + 1)..(j - 1) <=> l \in 1..Len(y) /\ i < l /\ l < j
          BY <2>8
        <4> QED BY <2>8, <4>1, <4>2 DEF Split, Parted, v, w
      <3> QED BY <3>11, <3>12, <3>13, <3>14 DEF v, w
    <2>10. CASE y[i + 1] # Space
      <3>1. y[i + 1] \in Word
        BY <2>7, <2>8, <2>10 DEF Word
      <3>2. (i + 1)..((i + 1) - 1) = {} /\ i < i + 1
        BY <2>8
      <3>3. ~Apart(y[i], y[i + 1])
        BY <2>8, <2>9, <3>1, <3>2
      <3> QED BY <2>3, <2>10, <3>3
    <2>11. CASE y[i + 1] = Space
      <3>1. i + 1 # Len(y)
        <4>1. Len(y) > 0 => y[Len(y)] # Space
          BY <2>7
        <4>2. Len(y) > 0
          BY <2>8
        <4> QED BY <2>11, <4>1, <4>2
      <3>2. i + 2 \in 1..Len(y) /\ (i + 2) - 1 = i + 1
        <4> DEFINE n == Len(y)
        <4>1. i \in Nat /\ n \in Nat /\ i + 1 \in 1..n /\ i + 1 # n
          BY <2>8, <3>1
        <4> HIDE DEF n
        <4>2. i + 2 \in 1..n /\ (i + 2) - 1 = i + 1
          BY <4>1
        <4> QED BY <4>2 DEF n
      <3>3. y[i + 2] # Space
        BY <2>7, <2>11, <3>2 DEF Tight
      <3>4. y[i + 2] \in Word
        BY <2>7, <3>2, <3>3 DEF Word
      <3>5. (i + 1)..((i + 2) - 1) = {i + 1} /\ i < i + 2
        BY <2>8
      <3>6. Apart(y[i], y[i + 2])
        BY <2>9, <2>11, <3>2, <3>4, <3>5
      <3> QED BY <2>3, <2>11, <3>6
    <2> QED BY <2>10, <2>11
  <1>2. BodyKnown => WordsSeparated
    BY <1>1 DEF WordsSeparated
  <1> QED BY <1>2, BodyInv, PTL
=============================================================================
