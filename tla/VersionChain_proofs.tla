-------------------------- MODULE VersionChain_proofs --------------------------
(***************************************************************************)
(* What resolveLogicalPages and importPages compute, for every source: the *)
(* pages and their records, the numbers, and the plan of the import; with  *)
(* the facts about sorts, folds and sequences these rest on.               *)
(***************************************************************************)
EXTENDS VersionChain, FiniteSetTheorems, SequenceTheorems, TLAPS

-----------------------------------------------------------------------------
(* Numbers, orders and sorts                                               *)

\* A set of natural numbers that is not empty has a least element: proofs by
\* induction look at the least counterexample.
Less == {p \in Nat \X Nat : p[1] < p[2]}

LEMMA LeastNumber ==
  ASSUME NEW T \in SUBSET Nat, T # {}
  PROVE  \E n \in T : \A m \in T : n <= m
  <1>1. IsWellFoundedOn(Less, Nat)
    BY NatLessThanWellFounded DEF OpToRel, Less
  <1>2. PICK n \in T : \A m \in T : ~(<<m, n>> \in Less)
    BY <1>1, WFMin
  <1>3. ASSUME NEW m \in T, m < n
        PROVE  FALSE
    <2>1. <<m, n>> \in Nat \X Nat /\ <<m, n>>[1] < <<m, n>>[2]
      BY <1>3
    <2>2. <<m, n>> \in Less
      BY <2>1 DEF Less
    <2> QED BY <1>2, <2>2
  <1>4. ASSUME NEW m \in T
        PROVE  n <= m
    BY <1>3, <1>4
  <1> QED BY <1>4

\* Orders like those of the sorts: of two different elements one comes first.
OrderOf(R, S) ==
  /\ \A x \in S : <<x, x>> \notin R
  /\ \A x, y \in S : x # y => <<x, y>> \in R \/ <<y, x>> \in R
  /\ \A x, y, z \in S : <<x, y>> \in R /\ <<y, z>> \in R => <<x, z>> \in R

LEMMA LastElement ==
  ASSUME NEW S, IsFiniteSet(S), NEW R, OrderOf(R, S), S # {}
  PROVE  \E x \in S : \A y \in S \ {x} : <<y, x>> \in R
  <1> DEFINE HasLast(U) == \E x \in U : \A y \in U \ {x} : <<y, x>> \in R
             Bad == {U \in SUBSET S : U # {} /\ ~HasLast(U)}
             Sizes == {Cardinality(U) : U \in Bad}
  <1> SUFFICES ASSUME Bad # {} PROVE FALSE
    OBVIOUS
  <1>1. \A U \in SUBSET S : IsFiniteSet(U) /\ Cardinality(U) \in Nat
    BY FS_Subset, FS_CardinalityType
  <1>2. Sizes \in SUBSET Nat /\ Sizes # {}
    BY <1>1
  <1> HIDE DEF HasLast
  <1>3. PICK U \in Bad : \A V \in Bad : Cardinality(U) <= Cardinality(V)
    <2> HIDE DEF Bad
    <2>1. PICK n \in Sizes : \A m \in Sizes : n <= m
      BY <1>2, LeastNumber
    <2> QED BY <2>1
  <1>4. PICK x \in U : TRUE
    OBVIOUS
  <1>5. U \in SUBSET S /\ U \ {x} \in SUBSET S /\ x \in S
    OBVIOUS
  <1>6. Cardinality(U \ {x}) = Cardinality(U) - 1
    BY <1>1, <1>4, <1>5, FS_RemoveElement
  <1>7. U \ {x} \notin Bad
    BY <1>1, <1>3, <1>5, <1>6
  <1>8. CASE U \ {x} = {}
    BY <1>4, <1>8 DEF HasLast
  <1>9. CASE U \ {x} # {}
    <2>1. PICK y \in U \ {x} : \A z \in (U \ {x}) \ {y} : <<z, y>> \in R
      BY <1>5, <1>7, <1>9 DEF HasLast
    <2>2. CASE <<y, x>> \in R
      <3>1. \A z \in U \ {x} : <<z, x>> \in R
        BY <1>5, <2>1, <2>2 DEF OrderOf
      <3> QED BY <1>4, <3>1 DEF HasLast
    <2>3. CASE <<x, y>> \in R
      BY <2>1, <2>3 DEF HasLast
    <2> QED BY <1>5, <2>1, <2>2, <2>3 DEF OrderOf
  <1> QED BY <1>8, <1>9

\* s lists the elements of S in the order R.
Lists(s, S, R) ==
  /\ s \in [1..Cardinality(S) -> S]
  /\ \A i \in DOMAIN s : \A j \in 1..(i - 1) : <<s[j], s[i]>> \in R

LEMMA ListExists ==
  ASSUME NEW S, IsFiniteSet(S), NEW R, OrderOf(R, S)
  PROVE  \E s : Lists(s, S, R)
  <1> DEFINE Bad == {U \in SUBSET S : ~\E s : Lists(s, U, R)}
             Sizes == {Cardinality(U) : U \in Bad}
  <1> SUFFICES ASSUME Bad # {} PROVE FALSE
    OBVIOUS
  <1>1. \A U \in SUBSET S : IsFiniteSet(U) /\ Cardinality(U) \in Nat
    BY FS_Subset, FS_CardinalityType
  <1>2. Sizes \in SUBSET Nat /\ Sizes # {}
    BY <1>1
  <1>3. PICK U \in Bad : \A V \in Bad : Cardinality(U) <= Cardinality(V)
    <2> HIDE DEF Bad
    <2>1. PICK n \in Sizes : \A m \in Sizes : n <= m
      BY <1>2, LeastNumber
    <2> QED BY <2>1
  <1>4. U \in SUBSET S /\ ~(\E s : Lists(s, U, R)) /\ IsFiniteSet(U)
    BY <1>1
  <1>5. CASE U = {}
    <2>1. Cardinality(U) = 0
      BY <1>5, FS_EmptySet
    <2>2. Lists([i \in 1..0 |-> i], U, R)
      BY <2>1 DEF Lists
    <2> QED BY <1>4, <2>2
  <1>6. CASE U # {}
    <2>1. OrderOf(R, U)
      BY <1>4 DEF OrderOf
    <2>2. PICK x \in U : \A y \in U \ {x} : <<y, x>> \in R
      BY <1>4, <1>6, <2>1, LastElement
    <2> DEFINE V == U \ {x}
               n == Cardinality(U)
    <2>3. Cardinality(V) = n - 1 /\ n \in Nat /\ V \in SUBSET S
      BY <1>1, <1>4, FS_RemoveElement
    <2>4. n >= 1
      BY <1>1, <2>3
    <2>5. V \notin Bad
      BY <1>3, <2>3
    <2>6. PICK s : Lists(s, V, R)
      BY <2>3, <2>5
    <2> DEFINE t == [i \in 1..n |-> IF i = n THEN x ELSE s[i]]
    <2>7. s \in [1..n - 1 -> V]
      BY <2>3, <2>6 DEF Lists
    <2> HIDE DEF n
    <2>8. t \in [1..n -> U]
      <3> SUFFICES ASSUME NEW i \in 1..n, i # n PROVE s[i] \in U
        OBVIOUS
      <3>1. i \in 1..n - 1
        BY <2>3
      <3> QED BY <2>7, <3>1
    <2>9. ASSUME NEW i \in 1..n, NEW j \in 1..(i - 1)
          PROVE  <<t[j], t[i]>> \in R
      <3>1. j \in 1..n - 1 /\ j \in 1..n /\ j # n /\ j < i
        BY <2>3
      <3>2. t[j] = s[j] /\ s[j] \in V
        BY <2>7, <3>1
      <3>3. CASE i = n
        BY <2>2, <3>2, <3>3
      <3>4. CASE i # n
        <4>1. i \in 1..n - 1 /\ t[i] = s[i]
          BY <2>3, <3>4
        <4>2. <<s[j], s[i]>> \in R
          BY <2>6, <2>7, <4>1 DEF Lists
        <4> QED BY <3>2, <4>1, <4>2
      <3> QED BY <3>3, <3>4
    <2>10. Lists(t, U, R)
      BY <2>8, <2>9 DEF Lists, n
    <2> QED BY <1>4, <2>10
  <1> QED BY <1>5, <1>6

\* What the sorts return: every element once, in order.
LEMMA SortedFacts ==
  ASSUME NEW S, IsFiniteSet(S), NEW R, OrderOf(R, S)
  PROVE  /\ Cardinality(S) \in Nat
         /\ Sorted(S, R) \in [1..Cardinality(S) -> S]
         /\ \A i, j \in 1..Cardinality(S) : j < i => <<Sorted(S, R)[j], Sorted(S, R)[i]>> \in R
         /\ \A i, j \in 1..Cardinality(S) : Sorted(S, R)[i] = Sorted(S, R)[j] => i = j
         /\ \A x \in S : \E i \in 1..Cardinality(S) : Sorted(S, R)[i] = x
  <1> DEFINE s == Sorted(S, R)
             n == Cardinality(S)
  <1>1. Lists(s, S, R)
    BY ListExists DEF Lists, Sorted
  <1>2. n \in Nat
    BY FS_CardinalityType
  <1> HIDE DEF s, n
  <1>3. s \in [1..n -> S]
    BY <1>1 DEF Lists, n
  <1>4. ASSUME NEW i \in 1..n, NEW j \in 1..n, j < i
        PROVE  <<s[j], s[i]>> \in R
    <2>1. j \in 1..(i - 1)
      BY <1>2, <1>4
    <2> QED BY <1>1, <1>3, <2>1 DEF Lists
  <1>5. ASSUME NEW i \in 1..n, NEW j \in 1..n, s[i] = s[j]
        PROVE  i = j
    <2>1. s[i] \in S
      BY <1>3
    <2>2. ~(j < i) /\ ~(i < j)
      BY <1>4, <1>5, <2>1 DEF OrderOf
    <2> QED BY <2>2
  <1>6. s \in Surjection(1..n, S)
    <2>1. s \in Injection(1..n, S)
      BY <1>3, <1>5 DEF Injection, IsInjective
    <2>2. Cardinality(1..n) = Cardinality(S)
      BY <1>2, FS_Interval DEF n
    <2> QED BY <2>1, <2>2, FS_Injection
  <1>7. \A x \in S : \E i \in 1..n : s[i] = x
    BY <1>6 DEF Surjection
  <1> QED BY <1>2, <1>3, <1>4, <1>5, <1>7 DEF s, n

-----------------------------------------------------------------------------
(* resolveLogicalPages                                                     *)

Newer(src) ==
  {r \in Contents \X Contents :
     \/ src[r[1]].version < src[r[2]].version
     \/ src[r[1]].version = src[r[2]].version /\ r[2] < r[1]}

LEMMA VersionTypes ==
  ASSUME NEW src \in [Contents -> Records], NEW c \in Contents
  PROVE  c \in Nat \ {0} /\ src[c].version \in Nat /\ src[c].prev \in Contents \cup {0}
  BY ContentsAssumption DEF Records

LEMMA NewestFacts ==
  ASSUME NEW src \in [Contents -> Records], NEW id, Children(src, id) # {}
  PROVE  NewestChild(src, id) \in Contents /\ src[NewestChild(src, id)].prev = id
  <1> DEFINE S == Children(src, id)
  <1>1. IsFiniteSet(S) /\ S \in SUBSET Contents
    BY ContentsAssumption, FS_Subset DEF Children
  <1> HIDE DEF S
  <1>2. \A x, y \in S : <<x, y>> \in Newer(src) <=>
          \/ src[x].version < src[y].version
          \/ src[x].version = src[y].version /\ y < x
    BY <1>1 DEF Newer
  <1>3. OrderOf(Newer(src), S)
    <2>1. \A x \in S : x \in Nat /\ src[x].version \in Nat
      BY <1>1, VersionTypes
    <2> QED BY <1>2, <2>1 DEF OrderOf
  <1>4. PICK x \in S : \A y \in S \ {x} : <<y, x>> \in Newer(src)
    BY <1>1, <1>3, LastElement DEF S
  <1>5. \A y \in S \ {x} : \/ src[x].version > src[y].version
                           \/ src[x].version = src[y].version /\ x < y
    <2>1. \A y \in S : src[y].version \in Nat
      BY <1>1, VersionTypes
    <2> QED BY <1>2, <1>4, <2>1
  <1>6. NewestChild(src, id) \in S
    BY <1>5 DEF NewestChild, S
  <1> QED BY <1>6 DEF S, Children

\* The walk that LogicalPage makes, one link further.
Stops(src, seen, at) == Children(src, at) = {} \/ at \in seen
Further(src, walk) ==
  [seen \in SUBSET Contents |->
     [at \in Contents |->
        IF Children(src, at) = {} \/ at \in seen
          THEN at
          ELSE walk[seen \cup {at}][NewestChild(src, at)]]]
Walk(src) == CHOOSE walk : walk = Further(src, walk)

Left(seen) == Cardinality(Contents \ seen)

LEMMA LeftFacts ==
  ASSUME NEW seen \in SUBSET Contents
  PROVE  /\ Left(seen) \in Nat /\ Left(seen) <= Cardinality(Contents) /\ Cardinality(Contents) \in Nat
         /\ Left(seen) = 0 => seen = Contents
         /\ \A at \in Contents \ seen : Left(seen \cup {at}) = Left(seen) - 1
  <1>1. IsFiniteSet(Contents \ seen) /\ Left(seen) \in Nat /\ Left(seen) <= Cardinality(Contents)
        /\ Cardinality(Contents) \in Nat
    BY ContentsAssumption, FS_Subset, FS_CardinalityType DEF Left
  <1>2. Left(seen) = 0 => seen = Contents
    BY <1>1, FS_EmptySet DEF Left
  <1>3. ASSUME NEW at \in Contents \ seen
        PROVE  Left(seen \cup {at}) = Left(seen) - 1
    <2>1. Contents \ (seen \cup {at}) = (Contents \ seen) \ {at}
      OBVIOUS
    <2> QED BY <1>1, <2>1, FS_RemoveElement DEF Left
  <1> QED BY <1>1, <1>2, <1>3

Walks == [SUBSET Contents -> [Contents -> Contents]]

LEMMA FurtherAt ==
  ASSUME NEW src \in [Contents -> Records], NEW walk
  PROVE  /\ \A seen \in SUBSET Contents, at \in Contents :
              Further(src, walk)[seen][at] =
                IF Stops(src, seen, at) THEN at ELSE walk[seen \cup {at}][NewestChild(src, at)]
         /\ walk \in Walks => Further(src, walk) \in Walks
  <1>1. \A at \in Contents : Children(src, at) # {} => NewestChild(src, at) \in Contents
    BY NewestFacts
  <1> QED BY <1>1 DEF Further, Stops, Walks

LEMMA WalkExists ==
  ASSUME NEW src \in [Contents -> Records]
  PROVE  \E walk : walk = Further(src, walk)
  <1> DEFINE Fits(walk, n) ==
               \A seen \in SUBSET Contents, at \in Contents :
                 Left(seen) <= n => walk[seen][at] = Further(src, walk)[seen][at]
             Bad == {n \in Nat : ~\E walk \in Walks : Fits(walk, n)}
  <1>1. Bad = {}
    <2> SUFFICES ASSUME Bad # {} PROVE FALSE
      OBVIOUS
    <2>1. PICK n \in Bad : \A m \in Bad : n <= m
      BY LeastNumber
    <2>2. CASE n = 0
      <3> DEFINE stay == [seen \in SUBSET Contents |-> [at \in Contents |-> at]]
      <3>1. stay \in Walks
        BY DEF Walks
      <3>2. ASSUME NEW seen \in SUBSET Contents, NEW at \in Contents, Left(seen) <= 0
            PROVE  stay[seen][at] = Further(src, stay)[seen][at]
        <4>1. Stops(src, seen, at)
          BY <3>2, LeftFacts DEF Stops
        <4> QED BY <4>1, FurtherAt
      <3>3. Fits(stay, n)
        BY <2>2, <3>2
      <3> QED BY <3>1, <3>3
    <2>3. CASE n # 0
      <3>1. n - 1 \in Nat /\ n - 1 \notin Bad
        BY <2>1, <2>3
      <3>2. PICK walk \in Walks : Fits(walk, n - 1)
        BY <3>1
      <3>3. Further(src, walk) \in Walks
        BY FurtherAt
      <3>4. ASSUME NEW seen \in SUBSET Contents, NEW at \in Contents, Left(seen) <= n
            PROVE  Further(src, walk)[seen][at] = Further(src, Further(src, walk))[seen][at]
        <4>1. CASE Stops(src, seen, at)
          BY <4>1, FurtherAt
        <4>2. CASE ~Stops(src, seen, at)
          <5>1. /\ seen \cup {at} \in SUBSET Contents /\ Left(seen \cup {at}) <= n - 1
                /\ NewestChild(src, at) \in Contents
            BY <3>4, <4>2, LeftFacts, NewestFacts DEF Stops
          <5>2. walk[seen \cup {at}][NewestChild(src, at)]
                  = Further(src, walk)[seen \cup {at}][NewestChild(src, at)]
            BY <3>2, <5>1
          <5> QED BY <4>2, <5>2, FurtherAt
        <4> QED BY <4>1, <4>2
      <3>5. Fits(Further(src, walk), n)
        BY <3>4
      <3> QED BY <3>3, <3>5
    <2> QED BY <2>2, <2>3
  <1>2. Cardinality(Contents) \in Nat /\ \A seen \in SUBSET Contents : Left(seen) <= Cardinality(Contents)
    BY LeftFacts
  <1>3. PICK walk \in Walks : Fits(walk, Cardinality(Contents))
    BY <1>1, <1>2
  <1>4. \A seen \in SUBSET Contents, at \in Contents : walk[seen][at] = Further(src, walk)[seen][at]
    BY <1>2, <1>3
  <1>5. walk = Further(src, walk)
    <2>1. Further(src, walk) \in Walks
      BY FurtherAt
    <2> HIDE DEF Fits
    <2> QED BY <1>4, <2>1 DEF Walks
  <1> QED BY <1>5

\* LogicalPage is where the walk ends, if there is one.
LEMMA WalkFacts ==
  ASSUME NEW src \in [Contents -> Records]
  PROVE  /\ \A id : LogicalPage(src, id) = IF src[id].capital THEN Walk(src)[{}][id] ELSE 0
         /\ \A seen \in SUBSET Contents, at \in Contents :
              Walk(src)[seen][at] =
                IF Stops(src, seen, at) THEN at
                ELSE Walk(src)[seen \cup {at}][NewestChild(src, at)]
  <1>1. Walk(src) = Further(src, Walk(src))
    BY WalkExists DEF Walk
  <1>2. \A id : LogicalPage(src, id) = IF src[id].capital THEN Walk(src)[{}][id] ELSE 0
    BY DEF LogicalPage, Walk, Further
  <1> DEFINE walk == Walk(src)
             next == Further(src, walk)
  <1>3. \A seen \in SUBSET Contents, at \in Contents :
          next[seen][at] = IF Stops(src, seen, at) THEN at
                           ELSE walk[seen \cup {at}][NewestChild(src, at)]
    BY FurtherAt
  <1>4. walk = next
    BY <1>1
  <1> HIDE DEF next
  <1>5. \A seen \in SUBSET Contents, at \in Contents : walk[seen][at] = next[seen][at]
    BY <1>4
  <1> HIDE DEF walk
  <1>6. \A seen \in SUBSET Contents, at \in Contents :
          walk[seen][at] = IF Stops(src, seen, at) THEN at
                           ELSE walk[seen \cup {at}][NewestChild(src, at)]
    BY <1>3, <1>5
  <1> QED BY <1>2, <1>6 DEF walk

\* What holds where the walk stops, and is carried back over each link, holds
\* everywhere.
LEMMA WalkInduction ==
  ASSUME NEW src \in [Contents -> Records], NEW P,
         \A seen \in SUBSET Contents, at \in Contents :
           Stops(src, seen, at) \/ NewestChild(src, at) \in P[seen \cup {at}] =>
             at \in P[seen]
  PROVE  \A seen \in SUBSET Contents, at \in Contents : at \in P[seen]
  <1> DEFINE Bad == {n \in Nat : \E seen \in SUBSET Contents, at \in Contents :
                                   Left(seen) = n /\ at \notin P[seen]}
  <1>1. Bad = {}
    <2> SUFFICES ASSUME Bad # {} PROVE FALSE
      OBVIOUS
    <2>1. PICK n \in Bad : n \in Nat /\ \A m \in Bad : n <= m
      BY LeastNumber
    <2>2. PICK seen \in SUBSET Contents, at \in Contents : Left(seen) = n /\ at \notin P[seen]
      OBVIOUS
    <2>3. ~Stops(src, seen, at) /\ NewestChild(src, at) \notin P[seen \cup {at}]
      BY <2>2
    <2>4. /\ seen \cup {at} \in SUBSET Contents /\ NewestChild(src, at) \in Contents
          /\ Left(seen \cup {at}) = n - 1 /\ n - 1 \in Nat
      BY <2>2, <2>3, LeftFacts, NewestFacts DEF Stops
    <2>5. n - 1 \in Bad
      BY <2>3, <2>4
    <2> HIDE DEF Bad
    <2>6. n <= n - 1
      BY <2>1, <2>4, <2>5
    <2> QED BY <2>1, <2>6
  <1> QED BY <1>1, LeftFacts

\* A page is named by a content, but for the records that have none.
LEMMA PageTyping ==
  ASSUME NEW src \in [Contents -> Records], NEW c \in Contents
  PROVE  /\ LogicalPage(src, c) \in Contents \cup {0}
         /\ src[c].capital => LogicalPage(src, c) \in Contents
  <1> DEFINE P == [seen \in SUBSET Contents |-> {at \in Contents : Walk(src)[seen][at] \in Contents}]
  <1>1. ASSUME NEW seen \in SUBSET Contents, NEW at \in Contents,
               Stops(src, seen, at) \/ NewestChild(src, at) \in P[seen \cup {at}]
        PROVE  at \in P[seen]
    <2>1. Walk(src)[seen][at] \in Contents
      BY <1>1, WalkFacts
    <2> QED BY <2>1
  <1>2. \A seen \in SUBSET Contents, at \in Contents : at \in P[seen]
    <2> HIDE DEF P
    <2> QED BY <1>1, WalkInduction
  <1>3. Walk(src)[{}][c] \in Contents
    BY <1>2
  <1> QED BY <1>3, WalkFacts

\* The records a page is made of all lie before it: x is in every set that holds
\* e and, with a record, the one before it.
Before(src, e) ==
  {x \in Contents : \A S \in SUBSET Contents :
     e \in S /\ (\A y \in S : src[y].prev # 0 => src[y].prev \in S) => x \in S}

LEMMA BeforeFacts ==
  ASSUME NEW src \in [Contents -> Records], NEW e \in Contents
  PROVE  /\ e \in Before(src, e)
         /\ \A y \in Before(src, e) : src[y].prev # 0 => src[y].prev \in Before(src, e)
  <1>1. e \in Before(src, e)
    BY DEF Before
  <1>2. ASSUME NEW y \in Before(src, e), src[y].prev # 0
        PROVE  src[y].prev \in Before(src, e)
    <2>1. y \in Contents /\ src[y].prev \in Contents
      BY <1>2, VersionTypes DEF Before
    <2> QED BY <1>2, <2>1 DEF Before
  <1> QED BY <1>1, <1>2

LEMMA BeforeInduction ==
  ASSUME NEW src, NEW e \in Contents, NEW S \in SUBSET Contents, e \in S,
         \A y \in S : src[y].prev # 0 => src[y].prev \in S
  PROVE  Before(src, e) \subseteq S
  BY DEF Before

\* The step of the walk to a newer record can be undone.
LEMMA PagesFollow ==
  ASSUME NEW src \in [Contents -> Records], NEW c \in Contents, src[c].capital
  PROVE  c \in Before(src, LogicalPage(src, c))
  <1> DEFINE P == [seen \in SUBSET Contents |->
                     {at \in Contents : /\ Walk(src)[seen][at] \in Contents
                                        /\ at \in Before(src, Walk(src)[seen][at])}]
  <1>1. ASSUME NEW seen \in SUBSET Contents, NEW at \in Contents,
               Stops(src, seen, at) \/ NewestChild(src, at) \in P[seen \cup {at}]
        PROVE  at \in P[seen]
    <2>1. CASE Stops(src, seen, at)
      <3>1. Walk(src)[seen][at] = at /\ at \in Before(src, at)
        BY <2>1, WalkFacts, BeforeFacts
      <3> QED BY <3>1
    <2>2. CASE ~Stops(src, seen, at)
      <3>1. /\ NewestChild(src, at) \in Contents /\ src[NewestChild(src, at)].prev = at
            /\ at # 0
        BY <2>2, NewestFacts, VersionTypes DEF Stops
      <3> DEFINE e == Walk(src)[seen \cup {at}][NewestChild(src, at)]
      <3>2. e \in Contents /\ NewestChild(src, at) \in Before(src, e)
        BY <1>1, <2>2
      <3>3. at \in Before(src, e)
        BY <3>1, <3>2, BeforeFacts
      <3>4. Walk(src)[seen][at] = e
        BY <2>2, WalkFacts
      <3> QED BY <3>2, <3>3, <3>4
    <2> QED BY <2>1, <2>2
  <1>2. \A seen \in SUBSET Contents, at \in Contents : at \in P[seen]
    <2> HIDE DEF P
    <2> QED BY <1>1, WalkInduction
  <1>3. c \in Before(src, Walk(src)[{}][c])
    BY <1>2
  <1> QED BY <1>3, WalkFacts

\* In a well-versioned source the records before another have lower numbers ...
LEMMA VersionsRise ==
  ASSUME NEW src \in [Contents -> Records], WellVersioned(src), NEW e \in Contents,
         NEW x \in Before(src, e)
  PROVE  x = e \/ src[x].version < src[e].version
  <1> DEFINE S == {y \in Contents : y = e \/ src[y].version < src[e].version}
  <1>1. ASSUME NEW y \in S, src[y].prev # 0
        PROVE  src[y].prev \in S
    <2>1. y \in Contents /\ src[y].prev \in Contents /\ src[y].version > src[src[y].prev].version
      BY <1>1, VersionTypes DEF WellVersioned
    <2>2. src[y].version \in Nat /\ src[src[y].prev].version \in Nat /\ src[e].version \in Nat
      BY <2>1, VersionTypes
    <2> QED BY <2>1, <2>2
  <1>2. Before(src, e) \subseteq S
    <2>1. e \in S /\ S \in SUBSET Contents
      OBVIOUS
    <2> HIDE DEF S
    <2> QED BY <1>1, <2>1, BeforeInduction
  <1> QED BY <1>2

\* ... and no two have the same one.
LEMMA VersionsDiffer ==
  ASSUME NEW src \in [Contents -> Records], WellVersioned(src), NEW e \in Contents,
         NEW x \in Before(src, e), NEW y \in Before(src, e), src[x].version = src[y].version
  PROVE  x = y
  <1>1. ASSUME NEW a \in Before(src, e), NEW b \in Before(src, e)
        PROVE  a \in Before(src, b) \/ src[b].version < src[a].version
    <2> DEFINE S == {z \in Contents : a \in Before(src, z) \/ src[z].version < src[a].version}
    <2>0. a \in Contents /\ b \in Contents
      BY DEF Before
    <2>1. ASSUME NEW z \in S, src[z].prev # 0
          PROVE  src[z].prev \in S
      <3>1. z \in Contents /\ src[z].prev \in Contents /\ src[z].version > src[src[z].prev].version
        BY <2>1, VersionTypes DEF WellVersioned
      <3>2. src[z].version \in Nat /\ src[src[z].prev].version \in Nat /\ src[a].version \in Nat
        BY <2>0, <3>1, VersionTypes
      <3>3. CASE z = a \/ src[z].version < src[a].version
        BY <3>1, <3>2, <3>3
      <3>4. CASE z # a /\ a \in Before(src, z)
        <4> DEFINE Q == {z} \cup Before(src, src[z].prev)
        <4>1. Q \in SUBSET Contents /\ z \in Q
          BY <3>1 DEF Before
        <4>2. \A q \in Q : src[q].prev # 0 => src[q].prev \in Q
          BY <3>1, BeforeFacts
        <4> HIDE DEF Q
        <4>3. a \in Q
          BY <3>1, <3>4, <4>1, <4>2, BeforeInduction
        <4> QED BY <3>1, <3>4, <4>3 DEF Q
      <3> QED BY <2>1, <3>3, <3>4
    <2>2. e \in S /\ S \in SUBSET Contents
      OBVIOUS
    <2> HIDE DEF S
    <2>3. b \in S
      BY <2>1, <2>2, BeforeInduction
    <2> QED BY <2>3 DEF S
  <1>2. x \in Contents /\ y \in Contents
    BY DEF Before
  <1>3. src[x].version \in Nat /\ src[y].version \in Nat
    BY <1>2, VersionTypes
  <1>4. x \in Before(src, y)
    BY <1>1, <1>3
  <1> QED BY <1>2, <1>3, <1>4, VersionsRise

\* There a page is named by the end of its chain.
LEMMA PageEnds ==
  ASSUME NEW src \in [Contents -> Records], WellVersioned(src), NEW c \in Contents
  PROVE  /\ Children(src, LogicalPage(src, c)) = {}
         /\ LogicalPage(src, LogicalPage(src, c)) = LogicalPage(src, c)
         /\ src[LogicalPage(src, c)].current
  <1> DEFINE P == [seen \in SUBSET Contents |->
                     {at \in Contents :
                        (\A x \in seen : src[x].version < src[at].version) =>
                          Children(src, Walk(src)[seen][at]) = {}}]
  <1>1. ASSUME NEW seen \in SUBSET Contents, NEW at \in Contents,
               Stops(src, seen, at) \/ NewestChild(src, at) \in P[seen \cup {at}]
        PROVE  at \in P[seen]
    <2> SUFFICES ASSUME \A x \in seen : src[x].version < src[at].version
                 PROVE  Children(src, Walk(src)[seen][at]) = {}
      OBVIOUS
    <2>1. at \notin seen
      BY VersionTypes
    <2>2. CASE Stops(src, seen, at)
      <3>1. Walk(src)[seen][at] = at
        BY <2>2, WalkFacts
      <3>2. Children(src, at) = {}
        BY <2>1, <2>2 DEF Stops
      <3> QED BY <3>1, <3>2
    <2>3. CASE ~Stops(src, seen, at)
      <3> DEFINE d == NewestChild(src, at)
      <3>1. d \in Contents /\ src[d].prev = at /\ at # 0
        BY <2>3, NewestFacts, VersionTypes DEF Stops
      <3>2. src[d].version > src[at].version
        BY <3>1 DEF WellVersioned
      <3>3. \A x \in seen \cup {at} : src[x].version < src[d].version
        BY <3>1, <3>2, VersionTypes
      <3>4. Walk(src)[seen][at] = Walk(src)[seen \cup {at}][d]
        BY <2>3, WalkFacts
      <3>5. d \in P[seen \cup {at}] /\ seen \cup {at} \in SUBSET Contents
        BY <1>1, <2>3
      <3> HIDE DEF d
      <3>6. Children(src, Walk(src)[seen \cup {at}][d]) = {}
        BY <3>3, <3>5
      <3> QED BY <3>4, <3>6
    <2> QED BY <2>2, <2>3
  <1>2. \A seen \in SUBSET Contents, at \in Contents : at \in P[seen]
    <2> HIDE DEF P
    <2> QED BY <1>1, WalkInduction
  <1>3. Children(src, Walk(src)[{}][c]) = {}
    <2>1. c \in P[{}]
      BY <1>2
    <2> QED BY <2>1
  <1>0. \A d \in Contents : src[d].capital
    BY DEF WellVersioned, Linear
  <1>4. LogicalPage(src, c) \in Contents /\ Children(src, LogicalPage(src, c)) = {}
    BY <1>0, <1>3, WalkFacts, PageTyping
  <1>5. LogicalPage(src, LogicalPage(src, c)) = LogicalPage(src, c)
    <2>1. PICK e \in Contents : e = LogicalPage(src, c) /\ Children(src, e) = {}
      BY <1>4
    <2>2. {} \in SUBSET Contents /\ Stops(src, {}, e)
      BY <2>1 DEF Stops
    <2>3. Walk(src)[{}][e] = e
      BY <2>2, WalkFacts
    <2> QED BY <1>0, <2>1, <2>3, WalkFacts
  <1> QED BY <1>4, <1>5 DEF WellVersioned

-----------------------------------------------------------------------------
(* importPages: groups and numbers                                         *)

LEMMA OlderOrder ==
  ASSUME NEW src \in [Contents -> Records], NEW S \in SUBSET Contents
  PROVE  OrderOf(Older(src), S)
  <1>1. \A x, y \in S : <<x, y>> \in Older(src) <=>
          \/ src[x].version < src[y].version
          \/ src[x].version = src[y].version /\ <<x, y>> \in StringOrder
    BY DEF Older
  <1>2. \A x \in S : x \in Contents /\ src[x].version \in Nat
    BY VersionTypes
  <1>3. /\ \A x \in S : <<x, x>> \notin StringOrder
        /\ \A x, y \in S : x # y => <<x, y>> \in StringOrder \/ <<y, x>> \in StringOrder
        /\ \A x, y, z \in S :
             <<x, y>> \in StringOrder /\ <<y, z>> \in StringOrder => <<x, z>> \in StringOrder
    BY <1>2, StringOrderAssumption
  <1>4. ASSUME NEW x \in S
        PROVE  <<x, x>> \notin Older(src)
    <2>1. ~(src[x].version < src[x].version) /\ <<x, x>> \notin StringOrder
      BY <1>2, <1>3
    <2> QED BY <1>1, <2>1
  <1>5. ASSUME NEW x \in S, NEW y \in S, x # y
        PROVE  <<x, y>> \in Older(src) \/ <<y, x>> \in Older(src)
    <2>1. <<x, y>> \in StringOrder \/ <<y, x>> \in StringOrder
      BY <1>3, <1>5
    <2>2. \/ src[x].version < src[y].version
          \/ src[y].version < src[x].version
          \/ src[x].version = src[y].version
      BY <1>2
    <2> QED BY <1>1, <2>1, <2>2
  <1>6. ASSUME NEW x \in S, NEW y \in S, NEW z \in S,
               <<x, y>> \in Older(src), <<y, z>> \in Older(src)
        PROVE  <<x, z>> \in Older(src)
    <2>1. \/ src[x].version < src[y].version
          \/ src[x].version = src[y].version /\ <<x, y>> \in StringOrder
      BY <1>1, <1>6
    <2>2. \/ src[y].version < src[z].version
          \/ src[y].version = src[z].version /\ <<y, z>> \in StringOrder
      BY <1>1, <1>6
    <2> QED BY <1>1, <1>2, <1>3, <2>1, <2>2
  <1> QED BY <1>4, <1>5, <1>6 DEF OrderOf

\* The records of a page, each once, by version.
LEMMA GroupFacts ==
  ASSUME NEW src \in [Contents -> Records], NEW p \in LogicalPages(src)
  PROVE  /\ Group(src, p) \in [1..Len(Group(src, p)) -> RecordsOf(src, p)]
         /\ Len(Group(src, p)) \in Nat \ {0} /\ RecordsOf(src, p) \subseteq Contents
         /\ \A i, j \in 1..Len(Group(src, p)) :
              j < i => <<Group(src, p)[j], Group(src, p)[i]>> \in Older(src)
         /\ \A i, j \in 1..Len(Group(src, p)) : Group(src, p)[i] = Group(src, p)[j] => i = j
         /\ \A c \in RecordsOf(src, p) : \E i \in 1..Len(Group(src, p)) : Group(src, p)[i] = c
  <1> DEFINE S == RecordsOf(src, p)
             n == Cardinality(S)
  <1>1. S \in SUBSET Contents /\ S # {}
    BY DEF RecordsOf, LogicalPages
  <1>2. IsFiniteSet(S) /\ n \in Nat /\ n # 0
    BY <1>1, ContentsAssumption, FS_Subset, FS_CardinalityType, FS_EmptySet
  <1>3. OrderOf(Older(src), S)
    BY <1>1, OlderOrder
  <1> HIDE DEF S
  <1>4. /\ Sorted(S, Older(src)) \in [1..n -> S]
        /\ \A i, j \in 1..n : j < i => <<Sorted(S, Older(src))[j], Sorted(S, Older(src))[i]>> \in Older(src)
        /\ \A i, j \in 1..n : Sorted(S, Older(src))[i] = Sorted(S, Older(src))[j] => i = j
        /\ \A c \in S : \E i \in 1..n : Sorted(S, Older(src))[i] = c
    BY <1>2, <1>3, SortedFacts
  <1>5. Group(src, p) = Sorted(S, Older(src))
    BY DEF Group, S
  <1> HIDE DEF n
  <1>6. Len(Group(src, p)) = n
    BY <1>2, <1>4, <1>5
  <1> QED BY <1>1, <1>2, <1>4, <1>5, <1>6 DEF S

LEMMA Upwards ==
  ASSUME NEW n \in Nat, NEW P, 0 \in P, \A i \in 1..n : i - 1 \in P => i \in P
  PROVE  \A i \in 0..n : i \in P
  <1> DEFINE Bad == {i \in 0..n : i \notin P}
  <1> SUFFICES ASSUME Bad # {} PROVE FALSE
    OBVIOUS
  <1>1. PICK i \in Bad : \A j \in Bad : i <= j
    <2>1. Bad \in SUBSET Nat
      OBVIOUS
    <2> HIDE DEF Bad
    <2> QED BY <2>1, LeastNumber
  <1>2. i \in 1..n /\ i - 1 \in 0..n /\ i - 1 \notin Bad
    BY <1>1
  <1> QED BY <1>1, <1>2

\* The numbering, one record further.
NextNumber(src, g, numbers, i) ==
  IF src[g[i]].version < 1 \/ src[g[i]].version \in ToSet(numbers) THEN i ELSE src[g[i]].version
Longer(src, g, numbered) ==
  [i \in 0..Len(g) |->
     IF i = 0 THEN <<>>
     ELSE Append(numbered[i - 1], NextNumber(src, g, numbered[i - 1], i))]
Numbered(src, g) == CHOOSE numbered : numbered = Longer(src, g, numbered)

LEMMA LongerAt ==
  ASSUME NEW src, NEW g, Len(g) \in Nat, NEW numbered
  PROVE  /\ Longer(src, g, numbered)[0] = <<>>
         /\ \A i \in 1..Len(g) :
              Longer(src, g, numbered)[i] =
                Append(numbered[i - 1], NextNumber(src, g, numbered[i - 1], i))
  BY DEF Longer

LEMMA NumberedExists ==
  ASSUME NEW src, NEW g, Len(g) \in Nat
  PROVE  \E numbered : numbered = Longer(src, g, numbered)
  <1> DEFINE IsTable(w) == w = [i \in 0..Len(g) |-> w[i]]
             Fits(w, n) == \A i \in 0..Len(g) : i <= n => w[i] = Longer(src, g, w)[i]
             P == {n \in 0..Len(g) : \E w : IsTable(w) /\ Fits(w, n)}
  <1>1. 0 \in P
    <2> DEFINE w == [i \in 0..Len(g) |-> <<>>]
    <2>1. IsTable(w)
      OBVIOUS
    <2>2. w[0] = <<>> /\ Longer(src, g, w)[0] = <<>>
      <3>1. 0 \in 0..Len(g)
        OBVIOUS
      <3>2. w[0] = <<>>
        BY <3>1
      <3>3. Longer(src, g, w)[0] = <<>>
        BY <3>1 DEF Longer
      <3> QED BY <3>2, <3>3
    <2>3. \A i \in 0..Len(g) : i <= 0 => i = 0
      OBVIOUS
    <2> HIDE DEF w
    <2>4. Fits(w, 0)
      BY <2>2, <2>3
    <2> QED BY <2>1, <2>4
  <1>2. ASSUME NEW n \in 1..Len(g), n - 1 \in P
        PROVE  n \in P
    <2>1. PICK w : IsTable(w) /\ Fits(w, n - 1)
      BY <1>2
    <2> DEFINE v == Longer(src, g, w)
    <2>2. IsTable(v)
      BY DEF Longer
    <2>3. ASSUME NEW i \in 0..Len(g), i <= n
          PROVE  v[i] = Longer(src, g, v)[i]
      <3>1. CASE i = 0
        BY <3>1, LongerAt
      <3>2. CASE i # 0
        <4>1. i \in 1..Len(g) /\ i - 1 \in 0..Len(g) /\ i - 1 <= n - 1
          BY <2>3, <3>2
        <4>2. w[i - 1] = v[i - 1]
          BY <2>1, <4>1
        <4>3. v[i] = Append(w[i - 1], NextNumber(src, g, w[i - 1], i))
          BY <4>1, LongerAt
        <4>4. Longer(src, g, v)[i] = Append(v[i - 1], NextNumber(src, g, v[i - 1], i))
          BY <4>1, LongerAt
        <4> QED BY <4>2, <4>3, <4>4
      <3> QED BY <3>1, <3>2
    <2> HIDE DEF v
    <2>4. Fits(v, n)
      BY <2>3
    <2> QED BY <2>2, <2>4
  <1>3. Len(g) \in P
    <2> HIDE DEF P
    <2>1. \A i \in 0..Len(g) : i \in P
      BY <1>1, <1>2, Upwards
    <2> QED BY <2>1
  <1>4. PICK w : IsTable(w) /\ Fits(w, Len(g))
    BY <1>3
  <1>5. \A i \in 0..Len(g) : w[i] = Longer(src, g, w)[i]
    BY <1>4
  <1>6. Longer(src, g, w) = [i \in 0..Len(g) |-> Longer(src, g, w)[i]]
    BY DEF Longer
  <1>7. w = Longer(src, g, w)
    BY <1>4, <1>5, <1>6
  <1> QED BY <1>7

LEMMA NumberedFacts ==
  ASSUME NEW src, NEW g, Len(g) \in Nat
  PROVE  /\ Numbered(src, g)[0] = <<>>
         /\ \A i \in 1..Len(g) :
              Numbered(src, g)[i] =
                Append(Numbered(src, g)[i - 1], NextNumber(src, g, Numbered(src, g)[i - 1], i))
  <1> DEFINE w == Numbered(src, g)
             next == Longer(src, g, w)
  <1>1. w = next
    BY NumberedExists DEF Numbered
  <1> HIDE DEF w
  <1>2. /\ next[0] = <<>>
        /\ \A i \in 1..Len(g) : next[i] = Append(w[i - 1], NextNumber(src, g, w[i - 1], i))
    BY DEF Longer
  <1> HIDE DEF next
  <1>3. w[0] = next[0] /\ \A i \in 1..Len(g) : w[i] = next[i]
    BY <1>1
  <1>4. /\ w[0] = <<>>
        /\ \A i \in 1..Len(g) : w[i] = Append(w[i - 1], NextNumber(src, g, w[i - 1], i))
    BY <1>2, <1>3
  <1> QED BY <1>4 DEF w

LEMMA NumbersAreNumbered ==
  ASSUME NEW src, NEW p
  PROVE  Numbers(src, p) = Numbered(src, Group(src, p))[Len(Group(src, p))]
  BY DEF Numbers, Numbered, Longer, NextNumber

\* Each record gets a number above 0, whatever versions the source has.
LEMMA NumberedTyping ==
  ASSUME NEW src \in [Contents -> Records], NEW p \in LogicalPages(src)
  PROVE  \A i \in 0..Len(Group(src, p)) :
           /\ Numbered(src, Group(src, p))[i] \in Seq(Nat \ {0})
           /\ Len(Numbered(src, Group(src, p))[i]) = i
  <1> DEFINE g == Group(src, p)
             w == Numbered(src, g)
             P == {i \in 0..Len(g) : w[i] \in Seq(Nat \ {0}) /\ Len(w[i]) = i}
  <1>1. Len(g) \in Nat /\ \A i \in 1..Len(g) : g[i] \in Contents
    BY GroupFacts
  <1>2. \A i \in 1..Len(g) : src[g[i]].version \in Nat
    BY <1>1, VersionTypes
  <1> HIDE DEF g
  <1>3. w[0] = <<>> /\ \A i \in 1..Len(g) : w[i] = Append(w[i - 1], NextNumber(src, g, w[i - 1], i))
    BY <1>1, NumberedFacts
  <1> HIDE DEF w
  <1>4. 0 \in P
    <2>1. w[0] \in Seq(Nat \ {0}) /\ Len(w[0]) = 0
      BY <1>3
    <2> QED BY <1>1, <2>1
  <1>5. ASSUME NEW i \in 1..Len(g), i - 1 \in P
        PROVE  i \in P
    <2>1. NextNumber(src, g, w[i - 1], i) \in Nat \ {0}
      BY <1>2 DEF NextNumber
    <2>2. w[i - 1] \in Seq(Nat \ {0}) /\ Len(w[i - 1]) = i - 1
      BY <1>5
    <2>3. PICK n \in Nat \ {0} : n = NextNumber(src, g, w[i - 1], i)
      BY <2>1
    <2>4. Append(w[i - 1], n) \in Seq(Nat \ {0}) /\ Len(Append(w[i - 1], n)) = i - 1 + 1
      BY <2>2, AppendProperties
    <2>5. w[i] = Append(w[i - 1], n)
      BY <1>3, <2>3
    <2>6. w[i] \in Seq(Nat \ {0}) /\ Len(w[i]) = i
      BY <1>1, <2>4, <2>5
    <2> QED BY <1>1, <2>6
  <1>6. \A i \in 0..Len(g) : i \in P
    <2> HIDE DEF P
    <2> QED BY <1>1, <1>4, <1>5, Upwards
  <1> QED BY <1>6 DEF g, w

\* The place of a record in its group.
Position(src, c) ==
  CHOOSE i \in DOMAIN Group(src, LogicalPage(src, c)) : Group(src, LogicalPage(src, c))[i] = c

LEMMA PositionFacts ==
  ASSUME NEW src \in [Contents -> Records], NEW c \in Contents
  PROVE  /\ LogicalPage(src, c) \in LogicalPages(src)
         /\ Position(src, c) \in 1..Len(Group(src, LogicalPage(src, c)))
         /\ Group(src, LogicalPage(src, c))[Position(src, c)] = c
         /\ VersionOf(src, c) = Numbers(src, LogicalPage(src, c))[Position(src, c)]
  <1>1. LogicalPage(src, c) \in LogicalPages(src) /\ c \in RecordsOf(src, LogicalPage(src, c))
    BY DEF LogicalPages, RecordsOf
  <1>2. \E i \in DOMAIN Group(src, LogicalPage(src, c)) : Group(src, LogicalPage(src, c))[i] = c
    BY <1>1, GroupFacts
  <1>3. DOMAIN Group(src, LogicalPage(src, c)) = 1..Len(Group(src, LogicalPage(src, c)))
    BY <1>1, GroupFacts
  <1> QED BY <1>1, <1>2, <1>3 DEF Position, VersionOf

LEMMA NumberTyping ==
  ASSUME NEW src \in [Contents -> Records], NEW c \in Contents
  PROVE  VersionOf(src, c) \in Nat \ {0}
  <1> DEFINE p == LogicalPage(src, c)
  <1>1. /\ p \in LogicalPages(src) /\ Position(src, c) \in 1..Len(Group(src, p))
        /\ VersionOf(src, c) = Numbers(src, p)[Position(src, c)]
    BY PositionFacts
  <1> HIDE DEF p
  <1>2. Len(Group(src, p)) \in 0..Len(Group(src, p))
    BY <1>1, GroupFacts
  <1>3. Numbers(src, p) \in Seq(Nat \ {0}) /\ Len(Numbers(src, p)) = Len(Group(src, p))
    BY <1>1, <1>2, NumbersAreNumbered, NumberedTyping
  <1> QED BY <1>1, <1>3

\* Versions that are above 0 and different are kept.
LEMMA VersionsKept ==
  ASSUME NEW src \in [Contents -> Records], NEW p \in LogicalPages(src),
         \A c \in RecordsOf(src, p) : src[c].version >= 1,
         \A c, d \in RecordsOf(src, p) : src[c].version = src[d].version => c = d
  PROVE  \A k \in 1..Len(Group(src, p)) : Numbers(src, p)[k] = src[Group(src, p)[k]].version
  <1> DEFINE g == Group(src, p)
             w == Numbered(src, g)
             P == {i \in 0..Len(g) : \A k \in 1..i : w[i][k] = src[g[k]].version}
  <1>1. /\ Len(g) \in Nat
        /\ \A i \in 1..Len(g) : g[i] \in RecordsOf(src, p)
        /\ \A i, j \in 1..Len(g) : g[i] = g[j] => i = j
    BY GroupFacts
  <1>2. \A i \in 0..Len(g) : w[i] \in Seq(Nat \ {0}) /\ Len(w[i]) = i
    BY NumberedTyping
  <1> HIDE DEF g
  <1>3. \A i \in 1..Len(g) : w[i] = Append(w[i - 1], NextNumber(src, g, w[i - 1], i))
    BY <1>1, NumberedFacts
  <1> HIDE DEF w
  <1>4. 0 \in P
    BY <1>1
  <1>5. ASSUME NEW i \in 1..Len(g), i - 1 \in P
        PROVE  i \in P
    <2>1. /\ i - 1 \in 0..Len(g) /\ w[i - 1] \in Seq(Nat \ {0}) /\ Len(w[i - 1]) = i - 1
          /\ \A k \in 1..i - 1 : w[i - 1][k] = src[g[k]].version
      BY <1>1, <1>2, <1>5
    <2>2. src[g[i]].version \notin ToSet(w[i - 1])
      <3> SUFFICES ASSUME NEW k \in DOMAIN w[i - 1], w[i - 1][k] = src[g[i]].version
                   PROVE  FALSE
        BY DEF ToSet
      <3>1. k \in 1..i - 1
        BY <2>1
      <3>2. src[g[k]].version = src[g[i]].version /\ k \in 1..Len(g) /\ k # i
        BY <1>1, <2>1, <3>1
      <3> QED BY <1>1, <3>2
    <2>3. ~(src[g[i]].version < 1)
      <3>1. g[i] \in Contents /\ src[g[i]].version >= 1
        BY <1>1 DEF RecordsOf
      <3> QED BY <3>1, VersionTypes
    <2>4. w[i] = Append(w[i - 1], src[g[i]].version)
      BY <1>3, <2>2, <2>3 DEF NextNumber
    <2>5. src[g[i]].version \in Nat \ {0}
      <3>1. g[i] \in Contents
        BY <1>1 DEF RecordsOf
      <3> QED BY <2>3, <3>1, VersionTypes
    <2>6. w[i][i] = src[g[i]].version /\ \A k \in 1..i - 1 : w[i][k] = w[i - 1][k]
      BY <2>1, <2>4, <2>5, AppendProperties
    <2>7. \A k \in 1..i : w[i][k] = src[g[k]].version
      BY <2>1, <2>6
    <2> QED BY <1>1, <2>7
  <1>6. Len(g) \in P
    <2> HIDE DEF P
    <2>1. \A i \in 0..Len(g) : i \in P
      BY <1>1, <1>4, <1>5, Upwards
    <2> QED BY <1>1, <2>1
  <1>7. Numbers(src, p) = w[Len(g)]
    BY NumbersAreNumbered DEF w, g
  <1> QED BY <1>6, <1>7 DEF g

\* The record that becomes the page is one of its records.
LEMMA LatestPlace ==
  ASSUME NEW src \in [Contents -> Records], NEW p \in LogicalPages(src)
  PROVE  /\ \E i \in 1..Len(Group(src, p)) : Latest(src, p) = Group(src, p)[i]
         /\ src[Group(src, p)[Len(Group(src, p))]].current =>
              Latest(src, p) = Group(src, p)[Len(Group(src, p))]
  <1> DEFINE g == Group(src, p)
             current == {i \in DOMAIN g : src[g[i]].current}
  <1>1. Len(g) \in Nat \ {0} /\ DOMAIN g = 1..Len(g)
    BY GroupFacts
  <1>2. Latest(src, p) = IF current = {} THEN g[Len(g)] ELSE g[Max(current)]
    BY DEF Latest, Last
  <1> HIDE DEF g
  <1>3. CASE current = {}
    BY <1>1, <1>2, <1>3 DEF g
  <1>4. CASE current # {}
    <2> DEFINE T == {Len(g) - i : i \in current}
    <2>1. T \in SUBSET Nat /\ T # {}
      BY <1>1, <1>4
    <2> HIDE DEF T
    <2>2. PICK n \in T : \A m \in T : n <= m
      BY <2>1, LeastNumber
    <2>3. PICK i \in current : n = Len(g) - i
      BY <2>2 DEF T
    <2>4. \A j \in current : j \in 1..Len(g)
      BY <1>1
    <2> HIDE DEF current
    <2>5. ASSUME NEW j \in current
          PROVE  i >= j
      <3>1. Len(g) - j \in T
        BY DEF T
      <3>2. Len(g) - i <= Len(g) - j /\ i \in Int /\ j \in Int
        BY <2>2, <2>3, <2>4, <3>1
      <3> QED BY <1>1, <3>2
    <2>6. Max(current) \in current /\ \A j \in current : Max(current) >= j
      BY <2>5 DEF Max
    <2>7. PICK m \in 1..Len(g) : m = Max(current)
      BY <2>4, <2>6
    <2>8. Latest(src, p) = g[m]
      BY <1>2, <1>4, <2>7
    <2>9. ASSUME src[g[Len(g)]].current
          PROVE  m = Len(g)
      <3>1. Len(g) \in current
        BY <1>1, <2>9 DEF current
      <3>2. m >= Len(g)
        BY <2>6, <2>7, <3>1
      <3>3. Len(g) \in Nat
        BY <1>1
      <3>4. m \in Nat /\ m <= Len(g)
        BY <3>3
      <3> QED BY <3>2, <3>3, <3>4
    <2> QED BY <2>8, <2>9 DEF g
  <1> QED BY <1>3, <1>4

LEMMA LatestTyping ==
  ASSUME NEW src \in [Contents -> Records], NEW p \in LogicalPages(src)
  PROVE  Latest(src, p) \in Contents /\ LogicalPage(src, Latest(src, p)) = p
  BY LatestPlace, GroupFacts DEF RecordsOf

\* In a well-versioned source the records of a page have different versions, and
\* are imported under them.
LEMMA VersionsOfPage ==
  ASSUME NEW src \in [Contents -> Records], WellVersioned(src), NEW p \in LogicalPages(src)
  PROVE  \A c, d \in RecordsOf(src, p) : src[c].version = src[d].version => c = d
  <1> SUFFICES ASSUME NEW c \in RecordsOf(src, p), NEW d \in RecordsOf(src, p),
                      src[c].version = src[d].version
               PROVE  c = d
    OBVIOUS
  <1>0. \A x \in Contents : src[x].capital
    BY DEF WellVersioned, Linear
  <1>1. c \in Contents /\ d \in Contents /\ LogicalPage(src, c) = p /\ LogicalPage(src, d) = p
    BY DEF RecordsOf
  <1>2. p \in Contents /\ c \in Before(src, p) /\ d \in Before(src, p)
    BY <1>0, <1>1, PageTyping, PagesFollow
  <1> QED BY <1>2, VersionsDiffer

LEMMA NumberIsVersion ==
  ASSUME NEW src \in [Contents -> Records], WellVersioned(src), NEW c \in Contents
  PROVE  VersionOf(src, c) = src[c].version
  <1> DEFINE p == LogicalPage(src, c)
  <1>1. /\ p \in LogicalPages(src) /\ Position(src, c) \in 1..Len(Group(src, p))
        /\ Group(src, p)[Position(src, c)] = c
        /\ VersionOf(src, c) = Numbers(src, p)[Position(src, c)]
    BY PositionFacts
  <1> HIDE DEF p
  <1>2. \A d \in RecordsOf(src, p) : src[d].version >= 1
    BY DEF RecordsOf, WellVersioned
  <1>3. \A k \in 1..Len(Group(src, p)) : Numbers(src, p)[k] = src[Group(src, p)[k]].version
    BY <1>1, <1>2, VersionsOfPage, VersionsKept
  <1> QED BY <1>1, <1>3

\* The page is then made of the end of the chain.
LEMMA LatestIsEnd ==
  ASSUME NEW src \in [Contents -> Records], WellVersioned(src), NEW p \in LogicalPages(src)
  PROVE  Latest(src, p) = p
  <1>1. PICK c \in Contents : p = LogicalPage(src, c)
    BY DEF LogicalPages
  <1>0. \A x \in Contents : src[x].capital
    BY DEF WellVersioned, Linear
  <1>2. p \in Contents /\ LogicalPage(src, p) = p /\ src[p].current
    BY <1>0, <1>1, PageTyping, PageEnds
  <1> DEFINE g == Group(src, p)
  <1>3. /\ g \in [1..Len(g) -> RecordsOf(src, p)] /\ Len(g) \in Nat \ {0}
        /\ \A i, j \in 1..Len(g) : j < i => <<g[j], g[i]>> \in Older(src)
    BY GroupFacts
  <1>4. PICK i \in 1..Len(g) : g[i] = p
    BY <1>2, GroupFacts DEF RecordsOf
  <1> HIDE DEF g
  <1>5. i = Len(g)
    <2> SUFFICES ASSUME i # Len(g) PROVE FALSE
      OBVIOUS
    <2>1. i < Len(g) /\ Len(g) \in 1..Len(g)
      <3>1. Len(g) \in Nat \ {0}
        BY <1>3
      <3> QED BY <3>1
    <2>2. PICK d \in Contents : d = g[Len(g)] /\ LogicalPage(src, d) = p
      BY <1>3, <2>1 DEF RecordsOf
    <2>3. <<p, d>> \in Older(src)
      BY <1>3, <1>4, <2>1, <2>2
    <2>4. \/ src[p].version < src[d].version
          \/ src[p].version = src[d].version /\ <<p, d>> \in StringOrder
      BY <2>3 DEF Older
    <2>5. d = p \/ src[d].version < src[p].version
      BY <1>0, <1>2, <2>2, PagesFollow, VersionsRise
    <2> QED BY <1>2, <2>2, <2>4, <2>5, VersionTypes, StringOrderAssumption
  <1> QED BY <1>2, <1>4, <1>5, LatestPlace DEF g

LEMMA SoundNumbers ==
  ASSUME NEW src \in [Contents -> Records], WellVersioned(src), NEW c \in Contents
  PROVE  /\ \A d \in Contents :
              c # d /\ LogicalPage(src, c) = LogicalPage(src, d) =>
                VersionOf(src, c) # VersionOf(src, d)
         /\ VersionOf(src, c) <= VersionOf(src, Latest(src, LogicalPage(src, c)))
  <1> DEFINE p == LogicalPage(src, c)
  <1>0. \A x \in Contents : src[x].capital
    BY DEF WellVersioned, Linear
  <1>1. p \in LogicalPages(src) /\ p \in Contents
    BY <1>0, PageTyping DEF LogicalPages
  <1>2. ASSUME NEW d \in Contents, c # d, LogicalPage(src, d) = p
        PROVE  VersionOf(src, c) # VersionOf(src, d)
    <2>1. c \in RecordsOf(src, p) /\ d \in RecordsOf(src, p)
      BY <1>2 DEF RecordsOf
    <2>2. src[c].version # src[d].version
      BY <1>1, <1>2, <2>1, VersionsOfPage
    <2> QED BY <2>2, NumberIsVersion
  <1>3. VersionOf(src, c) <= VersionOf(src, p)
    <2>1. c = p \/ src[c].version < src[p].version
      BY <1>0, <1>1, PagesFollow, VersionsRise
    <2> QED BY <1>1, <2>1, NumberIsVersion, VersionTypes
  <1> QED BY <1>1, <1>2, <1>3, LatestIsEnd

-----------------------------------------------------------------------------
(* Folds                                                                   *)

LEMMA GreatestIndex ==
  ASSUME NEW k \in Nat, NEW s \in SUBSET (1..k), s # {}
  PROVE  Max(s) \in s /\ \A y \in s : Max(s) >= y
  <1> DEFINE Gaps == {k - y : y \in s}
  <1>1. Gaps \in SUBSET Nat /\ Gaps # {}
    <2>1. \A y \in s : y \in 1..k /\ k - y \in Nat
      OBVIOUS
    <2> QED BY <2>1
  <1>2. PICK gap \in Gaps : \A other \in Gaps : gap <= other
    <2> HIDE DEF Gaps
    <2> QED BY <1>1, LeastNumber
  <1>3. PICK x \in s : gap = k - x
    BY <1>2
  <1>4. ASSUME NEW y \in s PROVE x >= y
    <2>1. k - y \in Gaps /\ x \in 1..k /\ y \in 1..k
      OBVIOUS
    <2>2. k - x <= k - y
      BY <1>2, <1>3, <2>1
    <2> QED BY <2>1, <2>2
  <1> QED BY <1>3, <1>4 DEF Max

LEMMA FirstIndices ==
  ASSUME NEW k \in Nat
  PROVE  /\ 1..0 = {}
         /\ k > 0 => 1..k # {} /\ Max(1..k) = k /\ (1..k) \ {k} = 1..(k - 1)
  <1>1. ASSUME k > 0 PROVE 1..k # {} /\ Max(1..k) = k /\ (1..k) \ {k} = 1..(k - 1)
    <2>1. k \in 1..k
      BY <1>1
    <2>2. Max(1..k) \in 1..k /\ \A y \in 1..k : Max(1..k) >= y
      BY <2>1, GreatestIndex
    <2> QED BY <2>1, <2>2
  <1> QED BY <1>1

\* A fold of a sequence of length n is defined by recursion over all sets of
\* indices: there is such a function.
IsFold(w, n, base, step) ==
  \A s \in SUBSET (1..n) :
    w[s] = IF s = {} THEN base ELSE step[<<w[s \ {Max(s)}], Max(s)>>]

LEMMA FoldTable ==
  ASSUME NEW n \in Nat, NEW V, NEW base \in V, NEW step \in [V \X (1..n) -> V]
  PROVE  \E w \in [SUBSET (1..n) -> V] : IsFold(w, n, base, step)
  <1> DEFINE Fits(w, k) ==
               \A s \in SUBSET (1..k) :
                 w[s] = IF s = {} THEN base ELSE step[<<w[s \ {Max(s)}], Max(s)>>]
             P == {k \in 0..n : \E w \in [SUBSET (1..k) -> V] : Fits(w, k)}
  <1>1. 0 \in P
    <2> DEFINE w == [s \in SUBSET (1..0) |-> base]
    <2>1. w \in [SUBSET (1..0) -> V] /\ Fits(w, 0)
      OBVIOUS
    <2>2. 0 \in 0..n
      OBVIOUS
    <2> HIDE DEF w, Fits
    <2> QED BY <2>1, <2>2
  <1>2. ASSUME NEW k \in 1..n, k - 1 \in P
        PROVE  k \in P
    <2>1. PICK w \in [SUBSET (1..(k - 1)) -> V] : Fits(w, k - 1)
      BY <1>2
    <2> DEFINE v == [s \in SUBSET (1..k) |->
                       IF s \in SUBSET (1..(k - 1)) THEN w[s] ELSE step[<<w[s \ {k}], k>>]]
    <2>2. \A s \in SUBSET (1..k) : s \ {k} \in SUBSET (1..(k - 1))
      OBVIOUS
    <2>3. ASSUME NEW s \in SUBSET (1..k), s \notin SUBSET (1..(k - 1))
          PROVE  s # {} /\ Max(s) = k
      <3>1. k \in s /\ s # {}
        BY <2>3
      <3>2. k \in Nat
        OBVIOUS
      <3>3. Max(s) \in s /\ \A y \in s : Max(s) >= y
        BY <3>1, <3>2, GreatestIndex
      <3>4. PICK m \in s : m = Max(s)
        BY <3>3
      <3> QED BY <3>1, <3>3, <3>4
    <2>4. v \in [SUBSET (1..k) -> V]
      <3>1. ASSUME NEW s \in SUBSET (1..k) PROVE v[s] \in V
        <4>1. w[s \ {k}] \in V /\ <<w[s \ {k}], k>> \in V \X (1..n)
          BY <2>2
        <4>2. step[<<w[s \ {k}], k>>] \in V
          BY <4>1
        <4> QED BY <4>2
      <3> QED BY <3>1
    <2>5. ASSUME NEW s \in SUBSET (1..k)
          PROVE  v[s] = IF s = {} THEN base ELSE step[<<v[s \ {Max(s)}], Max(s)>>]
      <3>1. CASE s \in SUBSET (1..(k - 1))
        <4>1. s # {} => s \ {Max(s)} \in SUBSET (1..(k - 1)) /\ s \ {Max(s)} \in SUBSET (1..k)
          BY <3>1
        <4>2. v[s] = w[s] /\ (s # {} => v[s \ {Max(s)}] = w[s \ {Max(s)}])
          BY <3>1, <4>1
        <4>3. w[s] = IF s = {} THEN base ELSE step[<<w[s \ {Max(s)}], Max(s)>>]
          BY <2>1, <3>1
        <4> HIDE DEF v
        <4> QED BY <4>2, <4>3
      <3>2. CASE s \notin SUBSET (1..(k - 1))
        <4>1. s # {} /\ Max(s) = k
          BY <2>3, <3>2
        <4>2. v[s] = step[<<w[s \ {k}], k>>]
          BY <3>2
        <4>3. s \ {k} \in SUBSET (1..(k - 1)) /\ s \ {k} \in SUBSET (1..k)
          BY <2>2
        <4>4. v[s \ {k}] = w[s \ {k}]
          BY <4>3
        <4> HIDE DEF v
        <4> QED BY <4>1, <4>2, <4>4
      <3> QED BY <3>1, <3>2
    <2> HIDE DEF v
    <2>6. Fits(v, k)
      BY <2>5
    <2> HIDE DEF Fits
    <2> QED BY <2>4, <2>6
  <1>3. n \in P
    <2> HIDE DEF P
    <2>1. \A i \in 0..n : i \in P
      BY <1>1, <1>2, Upwards
    <2> QED BY <2>1
  <1> QED BY <1>3 DEF IsFold

\* Of such a function the fold uses the initial segments.
LEMMA FoldChain ==
  ASSUME NEW n \in Nat, NEW w
  PROVE  /\ w[{}] = w[1..0]
         /\ \A k \in 1..n : /\ 1..k \in SUBSET (1..n) /\ 1..k # {}
                            /\ Max(1..k) = k /\ (1..k) \ {Max(1..k)} = 1..(k - 1)
  <1>1. 1..0 = {}
    OBVIOUS
  <1>2. \A k \in 1..n : /\ 1..k \in SUBSET (1..n) /\ 1..k # {}
                        /\ Max(1..k) = k /\ (1..k) \ {Max(1..k)} = 1..(k - 1)
    BY FirstIndices
  <1> QED BY <1>1, <1>2

-----------------------------------------------------------------------------
(* Selections                                                              *)

\* Selected, one set of indices further.
SelectFurther(s, S, iter) ==
  [t \in SUBSET DOMAIN s |->
     IF t = {} THEN <<>>
     ELSE IF s[Max(t)] \in S THEN Append(iter[t \ {Max(t)}], s[Max(t)]) ELSE iter[t \ {Max(t)}]]

Selects(f, s, S) ==
  /\ f[0] = <<>>
  /\ \A k \in 1..Len(s) : f[k] = IF s[k] \in S THEN Append(f[k - 1], s[k]) ELSE f[k - 1]

LEMMA SelectedSteps ==
  ASSUME NEW E, NEW s \in Seq(E), NEW S
  PROVE  \E f : Selects(f, s, S) /\ Selected(s, S) = f[Len(s)]
  <1> DEFINE n == Len(s)
             V == Seq(E)
             Step(b, k) == IF s[k] \in S THEN Append(b, s[k]) ELSE b
             step == [p \in V \X (1..n) |-> Step(p[1], p[2])]
             iter == CHOOSE w : w = SelectFurther(s, S, w)
  <1>0. n \in Nat /\ DOMAIN s = 1..n /\ \A k \in 1..n : s[k] \in E
    OBVIOUS
  <1>1. <<>> \in V /\ step \in [V \X (1..n) -> V]
    <2>1. \A b \in V, k \in 1..n : Step(b, k) \in V
      BY <1>0
    <2> HIDE DEF Step, V
    <2>2. step \in [V \X (1..n) -> V]
      BY <2>1
    <2> QED BY <2>2 DEF V
  <1> HIDE DEF n, V
  <1>2. \E w : w = SelectFurther(s, S, w)
    <2>0. PICK w \in [SUBSET (1..n) -> V] : IsFold(w, n, <<>>, step)
      <3> HIDE DEF step
      <3> QED BY <1>0, <1>1, FoldTable
    <2>1. \A t \in SUBSET (1..n) :
            w[t] = IF t = {} THEN <<>> ELSE step[<<w[t \ {Max(t)}], Max(t)>>]
      <3> HIDE DEF step
      <3> QED BY <2>0 DEF IsFold
    <2>2. ASSUME NEW t \in SUBSET (1..n), t # {}
          PROVE  w[t] = Step(w[t \ {Max(t)}], Max(t))
      <3>1. Max(t) \in 1..n
        BY <1>0, <2>2, GreatestIndex
      <3>2. w[t \ {Max(t)}] \in V
        OBVIOUS
      <3>3. step[<<w[t \ {Max(t)}], Max(t)>>] = Step(w[t \ {Max(t)}], Max(t))
        <4> HIDE DEF Step
        <4> QED BY <3>1, <3>2
      <3> HIDE DEF step, Step
      <3> QED BY <2>1, <2>2, <3>3
    <2>3. w = [t \in SUBSET (1..n) |-> w[t]]
      OBVIOUS
    <2>4. w[{}] = <<>>
      BY <2>1
    <2>5. \A t \in SUBSET (1..n) :
            w[t] = IF t = {} THEN <<>> ELSE Step(w[t \ {Max(t)}], Max(t))
      <3> HIDE DEF Step, step
      <3> QED BY <2>2, <2>4
    <2>6. w = SelectFurther(s, S, w)
      BY <1>0, <2>3, <2>5 DEF SelectFurther
    <2> QED BY <2>6
  <1>3. iter = SelectFurther(s, S, iter)
    BY <1>2
  <1>4. Selected(s, S) = iter[1..n]
    BY <1>0 DEF Selected, FoldLeft, MapThenFoldSet, SelectFurther
  <1> HIDE DEF iter
  <1>5. iter[1..0] = <<>>
    BY <1>0, <1>3, FoldChain DEF SelectFurther
  <1>6. ASSUME NEW k \in 1..n
        PROVE  iter[1..k] = Step(iter[1..(k - 1)], k)
    <2>1. 1..k \in SUBSET (1..n) /\ 1..k # {} /\ Max(1..k) = k /\ (1..k) \ {Max(1..k)} = 1..(k - 1)
      BY <1>0, FoldChain
    <2>2. SelectFurther(s, S, iter)[1..k] = Step(iter[1..(k - 1)], k)
      BY <1>0, <2>1 DEF SelectFurther
    <2> QED BY <1>3, <2>2
  <1> DEFINE f == [k \in 0..n |-> iter[1..k]]
  <1>7. f[0] = <<>> /\ Selected(s, S) = f[n]
    BY <1>0, <1>4, <1>5
  <1>8. \A k \in 1..n : f[k] = Step(f[k - 1], k)
    <2>1. \A k \in 1..n : k \in 0..n /\ k - 1 \in 0..n
      BY <1>0
    <2> HIDE DEF Step
    <2> QED BY <1>6, <2>1
  <1> HIDE DEF f
  <1> QED BY <1>7, <1>8 DEF n, Selects

Ascending(s) == \A i, j \in 1..Len(s) : i < j => s[i] < s[j]
AscendingIn(s, S) == \A i, j \in DOMAIN s : i < j /\ s[i] \in S /\ s[j] \in S => s[i] < s[j]

\* What is selected is what is there, in the order in which it is there.
LEMMA SelectedFacts ==
  ASSUME NEW s \in Seq(Int), NEW S
  PROVE  /\ Selected(s, S) \in Seq(Int)
         /\ ToSet(Selected(s, S)) = ToSet(s) \cap S
         /\ AscendingIn(s, S) => Ascending(Selected(s, S))
  <1>0. PICK f : Selects(f, s, S) /\ Selected(s, S) = f[Len(s)]
    BY SelectedSteps
  <1>1. /\ f[0] = <<>> /\ Selected(s, S) = f[Len(s)]
        /\ \A k \in 1..Len(s) :
             f[k] = IF s[k] \in S THEN Append(f[k - 1], s[k]) ELSE f[k - 1]
    BY <1>0 DEF Selects
  <1> DEFINE n == Len(s)
             Of(k) == {s[i] : i \in 1..k} \cap S
             P == {k \in 0..n : /\ f[k] \in Seq(Int) /\ ToSet(f[k]) = Of(k)
                                /\ AscendingIn(s, S) => Ascending(f[k])}
  <1>2. n \in Nat /\ DOMAIN s = 1..n /\ \A k \in 1..n : s[k] \in Int
    OBVIOUS
  <1>3. 0 \in P
    <2>1. f[0] \in Seq(Int) /\ Len(f[0]) = 0 /\ ToSet(f[0]) = {}
      BY <1>1 DEF ToSet
    <2>2. Of(0) = {} /\ Ascending(f[0])
      BY <2>1 DEF Ascending
    <2> QED BY <1>2, <2>1, <2>2
  <1>4. ASSUME NEW k \in 1..n, k - 1 \in P
        PROVE  k \in P
    <2>1. /\ f[k - 1] \in Seq(Int) /\ ToSet(f[k - 1]) = Of(k - 1)
          /\ AscendingIn(s, S) => Ascending(f[k - 1])
      BY <1>4
    <2>2. 1..k = (1..(k - 1)) \cup {k}
      BY <1>2
    <2>3. CASE s[k] \notin S
      <3>1. f[k] = f[k - 1]
        BY <1>1, <2>3
      <3>2. Of(k) = Of(k - 1)
        BY <2>2, <2>3
      <3> HIDE DEF Of
      <3> QED BY <1>2, <2>1, <3>1, <3>2
    <2>4. CASE s[k] \in S
      <3> DEFINE m == Len(f[k - 1])
      <3>1. f[k] = Append(f[k - 1], s[k])
        BY <1>1, <2>4
      <3>2. /\ m \in Nat /\ f[k] \in Seq(Int) /\ Len(f[k]) = m + 1 /\ f[k][m + 1] = s[k]
            /\ \A i \in 1..m : f[k][i] = f[k - 1][i]
        BY <1>2, <2>1, <3>1, AppendProperties
      <3>3. DOMAIN f[k] = 1..(m + 1) /\ DOMAIN f[k - 1] = 1..m
        BY <2>1, <3>2
      <3>4. ToSet(f[k]) = ToSet(f[k - 1]) \cup {s[k]}
        <4>1. m + 1 \in 1..(m + 1) /\ 1..(m + 1) = (1..m) \cup {m + 1}
          BY <3>2
        <4>2. {f[k][i] : i \in 1..m} = {f[k - 1][i] : i \in 1..m}
          BY <3>2
        <4>3. {f[k][i] : i \in 1..(m + 1)} = {f[k][i] : i \in 1..m} \cup {f[k][m + 1]}
          BY <4>1
        <4> QED BY <3>2, <3>3, <4>2, <4>3 DEF ToSet
      <3>5. Of(k) = Of(k - 1) \cup {s[k]}
        BY <2>2, <2>4
      <3>6. ASSUME AscendingIn(s, S) PROVE Ascending(f[k])
        <4>1. \A i \in 1..m : f[k - 1][i] < s[k]
          <5> SUFFICES ASSUME NEW i \in 1..m PROVE f[k - 1][i] < s[k]
            OBVIOUS
          <5>1. f[k - 1][i] \in Of(k - 1)
            BY <2>1, <3>3 DEF ToSet
          <5>2. PICK j \in 1..(k - 1) : f[k - 1][i] = s[j] /\ s[j] \in S
            BY <5>1
          <5> QED BY <1>2, <2>4, <3>6, <5>2 DEF AscendingIn
        <4>2. \A i, j \in 1..m : i < j => f[k - 1][i] < f[k - 1][j]
          BY <2>1, <3>6 DEF Ascending
        <4> SUFFICES ASSUME NEW i \in 1..(m + 1), NEW j \in 1..(m + 1), i < j
                     PROVE  f[k][i] < f[k][j]
          BY <3>2 DEF Ascending
        <4>3. i \in 1..m
          BY <3>2
        <4>4. CASE j = m + 1
          BY <3>2, <4>1, <4>3, <4>4
        <4>5. CASE j # m + 1
          <5>1. j \in 1..m
            BY <3>2, <4>5
          <5> QED BY <3>2, <4>2, <4>3, <5>1
        <4> QED BY <4>4, <4>5
      <3> HIDE DEF Of, m
      <3>7. ToSet(f[k]) = Of(k)
        BY <2>1, <3>4, <3>5
      <3> QED BY <1>2, <3>2, <3>6, <3>7
    <2> QED BY <2>3, <2>4
  <1>5. n \in P
    <2> HIDE DEF P, n
    <2>1. \A k \in 0..n : k \in P
      BY <1>2, <1>3, <1>4, Upwards
    <2> QED BY <1>2, <2>1
  <1>6. Of(n) = ToSet(s) \cap S
    BY <1>2 DEF ToSet
  <1> QED BY <1>1, <1>5, <1>6

\* An ascending sequence is determined by its elements.
LEMMA SameAscending ==
  ASSUME NEW s \in Seq(Int), NEW t \in Seq(Int), Ascending(s), Ascending(t), ToSet(s) = ToSet(t)
  PROVE  s = t
  <1> DEFINE m == Len(s)
             n == Len(t)
             Differ == {i \in Nat : i \in 1..m /\ i \in 1..n /\ s[i] # t[i]}
  <1>1. /\ m \in Nat /\ n \in Nat /\ DOMAIN s = 1..m /\ DOMAIN t = 1..n
        /\ \A i \in 1..m : s[i] \in Int /\ \E j \in 1..n : t[j] = s[i]
        /\ \A i \in 1..n : t[i] \in Int /\ \E j \in 1..m : s[j] = t[i]
    <2>1. m \in Nat /\ n \in Nat /\ DOMAIN s = 1..m /\ DOMAIN t = 1..n
      OBVIOUS
    <2>2. \A i \in 1..m : s[i] \in ToSet(t)
      BY <2>1 DEF ToSet
    <2>3. \A i \in 1..n : t[i] \in ToSet(s)
      BY <2>1 DEF ToSet
    <2> QED BY <2>1, <2>2, <2>3 DEF ToSet
  <1>2. /\ \A i, j \in 1..m : i < j => s[i] < s[j]
        /\ \A i, j \in 1..n : i < j => t[i] < t[j]
    BY DEF Ascending
  <1> HIDE DEF m, n
  <1>3. Differ = {}
    <2> SUFFICES ASSUME Differ # {} PROVE FALSE
      OBVIOUS
    <2>1. PICK i \in Differ : \A j \in Differ : i <= j
      <3>1. Differ \in SUBSET Nat
        OBVIOUS
      <3> HIDE DEF Differ
      <3> QED BY <3>1, LeastNumber
    <2>2. i \in 1..m /\ i \in 1..n /\ s[i] # t[i]
      BY <2>1
    <2>3. \A j \in 1..(i - 1) : s[j] = t[j]
      BY <1>1, <2>1, <2>2
    <2>4. PICK p \in 1..n : t[p] = s[i]
      BY <1>1, <2>2
    <2>5. PICK q \in 1..m : s[q] = t[i]
      BY <1>1, <2>2
    <2>6. p > i
      <3>1. CASE p < i
        <4>1. s[p] = t[p] /\ p \in 1..m
          BY <1>1, <2>2, <2>3, <2>4, <3>1
        <4>2. s[p] < s[i]
          BY <1>2, <2>2, <3>1, <4>1
        <4> QED BY <1>1, <2>2, <2>4, <4>1, <4>2
      <3> QED BY <1>1, <2>2, <2>4, <3>1
    <2>7. q > i
      <3>1. CASE q < i
        <4>1. s[q] = t[q] /\ q \in 1..n
          BY <1>1, <2>2, <2>3, <2>5, <3>1
        <4>2. t[q] < t[i]
          BY <1>2, <2>2, <3>1, <4>1
        <4> QED BY <1>1, <2>2, <2>5, <4>1, <4>2
      <3> QED BY <1>1, <2>2, <2>5, <3>1
    <2>8. t[i] < t[p] /\ s[i] < s[q]
      BY <1>1, <1>2, <2>2, <2>6, <2>7
    <2> QED BY <1>1, <2>2, <2>4, <2>5, <2>8
  <1>4. ASSUME NEW i \in 1..m, i \in 1..n PROVE s[i] = t[i]
    <2>1. i \in Nat
      BY <1>1
    <2>2. i \notin Differ
      <3> HIDE DEF Differ
      <3> QED BY <1>3
    <2> QED BY <1>4, <2>1, <2>2
  <1>5. m <= n
    <2> SUFFICES ASSUME n < m PROVE FALSE
      BY <1>1
    <2>1. n + 1 \in 1..m
      BY <1>1
    <2>2. PICK j \in 1..n : t[j] = s[n + 1]
      BY <1>1, <2>1
    <2>3. j \in 1..m /\ s[j] = t[j] /\ s[j] < s[n + 1]
      BY <1>1, <1>2, <1>4, <2>1, <2>2
    <2> QED BY <1>1, <2>1, <2>2, <2>3
  <1>6. n <= m
    <2> SUFFICES ASSUME m < n PROVE FALSE
      BY <1>1
    <2>1. m + 1 \in 1..n
      BY <1>1
    <2>2. PICK j \in 1..m : s[j] = t[m + 1]
      BY <1>1, <2>1
    <2>3. j \in 1..n /\ s[j] = t[j] /\ t[j] < t[m + 1]
      BY <1>1, <1>2, <1>4, <2>1, <2>2
    <2> QED BY <1>1, <2>1, <2>2, <2>3
  <1>7. m = n /\ \A i \in 1..m : s[i] = t[i]
    BY <1>1, <1>4, <1>5, <1>6
  <1> QED BY <1>7, SeqEqual DEF m, n

-----------------------------------------------------------------------------
(* Chains and concatenations                                               *)

\* What is computed from one index to the next: there is such a function.
IsChain(w, n, base, step) ==
  w[0] = base /\ \A k \in 1..n : w[k] = step[<<w[k - 1], k>>]

LEMMA ChainTable ==
  ASSUME NEW n \in Nat, NEW V, NEW base \in V, NEW step \in [V \X (1..n) -> V]
  PROVE  \E w \in [0..n -> V] : IsChain(w, n, base, step)
  <1>1. PICK t \in [SUBSET (1..n) -> V] : IsFold(t, n, base, step)
    BY FoldTable
  <1> DEFINE w == [k \in 0..n |-> t[1..k]]
  <1>2. w \in [0..n -> V]
    <2>1. \A k \in 0..n : 1..k \in SUBSET (1..n)
      OBVIOUS
    <2> QED BY <2>1
  <1>3. w[0] = base
    <2>1. {} \in SUBSET (1..n) /\ 0 \in 0..n
      OBVIOUS
    <2>2. t[{}] = base
      BY <1>1, <2>1 DEF IsFold
    <2> QED BY <2>1, <2>2, FoldChain
  <1>4. ASSUME NEW k \in 1..n PROVE w[k] = step[<<w[k - 1], k>>]
    <2>1. /\ 1..k \in SUBSET (1..n) /\ 1..k # {}
          /\ Max(1..k) = k /\ (1..k) \ {Max(1..k)} = 1..(k - 1)
      BY FoldChain
    <2>2. t[1..k] = step[<<t[1..(k - 1)], k>>]
      BY <1>1, <2>1 DEF IsFold
    <2>3. k \in 0..n /\ k - 1 \in 0..n
      OBVIOUS
    <2> QED BY <2>2, <2>3
  <1> HIDE DEF w
  <1> QED BY <1>2, <1>3, <1>4 DEF IsChain

\* FlattenSeq, one sequence further.
FlattenFurther(seqs, w) ==
  [i \in 1..Len(seqs) |-> IF i = 1 THEN seqs[i] ELSE w[i - 1] \o seqs[i]]
Flattens(f, seqs) == f[0] = <<>> /\ \A k \in 1..Len(seqs) : f[k] = f[k - 1] \o seqs[k]

LEMMA FlattenSteps ==
  ASSUME NEW E, NEW seqs \in Seq(Seq(E))
  PROVE  \E f : Flattens(f, seqs) /\ FlattenSeq(seqs) = f[Len(seqs)]
  <1> DEFINE n == Len(seqs)
             V == Seq(E)
             step == [p \in V \X (1..n) |-> p[1] \o seqs[p[2]]]
  <1>1. n \in Nat /\ <<>> \in V /\ \A k \in 1..n : seqs[k] \in V
    BY EmptySeq
  <1>2. step \in [V \X (1..n) -> V]
    <2>1. \A b \in V, k \in 1..n : b \o seqs[k] \in V
      BY <1>1, ConcatProperties
    <2> HIDE DEF V, n
    <2> QED BY <2>1
  <1> HIDE DEF V, n
  <1>3. PICK f \in [0..n -> V] : IsChain(f, n, <<>>, step)
    <2> HIDE DEF step
    <2> QED BY <1>1, <1>2, ChainTable
  <1>4. f[0] = <<>> /\ \A k \in 1..n : f[k] = f[k - 1] \o seqs[k]
    <2>1. f[0] = <<>>
      BY <1>3 DEF IsChain
    <2>2. ASSUME NEW k \in 1..n PROVE f[k] = f[k - 1] \o seqs[k]
      <3>1. f[k - 1] \in V
        BY <1>1
      <3>2. step[<<f[k - 1], k>>] = f[k - 1] \o seqs[k]
        BY <3>1
      <3>3. f[k] = step[<<f[k - 1], k>>]
        <4> HIDE DEF step
        <4> QED BY <1>3 DEF IsChain
      <3> QED BY <3>2, <3>3
    <2> QED BY <2>1, <2>2
  <1>5. CASE n = 0
    <2>1. seqs = <<>> /\ FlattenSeq(seqs) = seqs
      BY <1>5 DEF n, FlattenSeq
    <2> QED BY <1>4, <1>5, <2>1 DEF n, Flattens
  <1>6. CASE n # 0
    <2> DEFINE w == [i \in 1..n |-> f[i]]
               flat == CHOOSE v : v = FlattenFurther(seqs, v)
    <2>1. w = FlattenFurther(seqs, w)
      <3>1. ASSUME NEW i \in 1..n
            PROVE  w[i] = IF i = 1 THEN seqs[i] ELSE w[i - 1] \o seqs[i]
        <4>1. CASE i = 1
          <5>1. i - 1 = 0 /\ seqs[i] \in Seq(E)
            BY <1>1, <4>1 DEF V
          <5>2. f[i] = <<>> \o seqs[i]
            BY <1>4, <5>1
          <5>3. <<>> \o seqs[i] = seqs[i]
            BY <5>1, ConcatEmptySeq
          <5> QED BY <4>1, <5>2, <5>3
        <4>2. CASE i # 1
          <5>1. i - 1 \in 1..n
            BY <1>1, <4>2
          <5> QED BY <1>4, <4>2, <5>1
        <4> QED BY <4>1, <4>2
      <3>2. w = [i \in 1..n |-> w[i]]
        OBVIOUS
      <3> HIDE DEF w
      <3> QED BY <3>1, <3>2 DEF FlattenFurther, n
    <2>2. flat = FlattenFurther(seqs, flat)
      BY <2>1
    <2>3. FlattenSeq(seqs) = flat[n]
      BY <1>6 DEF FlattenSeq, FlattenFurther, n
    <2> HIDE DEF flat
    <2>4. /\ flat[1] = seqs[1]
          /\ \A i \in 1..n : i # 1 => flat[i] = flat[i - 1] \o seqs[i]
      <3>1. \A i \in 1..n : FlattenFurther(seqs, flat)[i] =
                              IF i = 1 THEN seqs[i] ELSE flat[i - 1] \o seqs[i]
        BY DEF FlattenFurther, n
      <3>2. 1 \in 1..n
        BY <1>1, <1>6
      <3> QED BY <2>2, <3>1, <3>2
    <2> DEFINE g == [i \in 0..n |-> IF i = 0 THEN <<>> ELSE flat[i]]
    <2>5. g[0] = <<>> /\ g[n] = flat[n]
      BY <1>1, <1>6
    <2>6. ASSUME NEW k \in 1..n PROVE g[k] = g[k - 1] \o seqs[k]
      <3>1. CASE k = 1
        <4>1. k \in 0..n /\ k # 0 /\ k - 1 = 0 /\ seqs[k] \in Seq(E)
          BY <1>1, <3>1 DEF V
        <4>2. g[k] = seqs[k] /\ g[k - 1] = <<>>
          BY <2>4, <2>5, <3>1, <4>1
        <4> HIDE DEF g
        <4> QED BY <4>1, <4>2, ConcatEmptySeq
      <3>2. CASE k # 1
        <4>1. k - 1 \in 0..n /\ k - 1 # 0 /\ k \in 0..n /\ k # 0
          BY <1>1, <3>2
        <4> QED BY <2>4, <3>2, <4>1
      <3> QED BY <3>1, <3>2
    <2> HIDE DEF g
    <2> QED BY <2>3, <2>5, <2>6 DEF n, Flattens
  <1> QED BY <1>5, <1>6

\* Element a of x is element p of the i-th sequence.
From(x, a, seqs, i, p) == p \in 1..Len(seqs[i]) /\ x[a] = seqs[i][p]

\* x is made of the first k sequences, in their order.
MadeOf(x, k, seqs) ==
  /\ \A i \in 1..k : \A p \in 1..Len(seqs[i]) : \E a \in 1..Len(x) : x[a] = seqs[i][p]
  /\ \A a \in 1..Len(x) : \E i \in 1..k : \E p \in Nat : From(x, a, seqs, i, p)
  /\ \A a, b \in 1..Len(x) : a < b =>
       \E i, j \in 1..k : \E p, q \in Nat :
         /\ From(x, a, seqs, i, p) /\ From(x, b, seqs, j, q)
         /\ i < j \/ (i = j /\ p < q)

LEMMA FlattenFacts ==
  ASSUME NEW E, NEW seqs \in Seq(Seq(E))
  PROVE  /\ FlattenSeq(seqs) \in Seq(E)
         /\ MadeOf(FlattenSeq(seqs), Len(seqs), seqs)
  <1>1. PICK f : Flattens(f, seqs) /\ FlattenSeq(seqs) = f[Len(seqs)]
    BY FlattenSteps
  <1> DEFINE n == Len(seqs)
             P == {k \in 0..n : f[k] \in Seq(E) /\ MadeOf(f[k], k, seqs)}
  <1>2. n \in Nat /\ \A k \in 1..n : seqs[k] \in Seq(E)
    OBVIOUS
  <1>3. 0 \in P
    <2>1. f[0] \in Seq(E) /\ Len(f[0]) = 0
      BY <1>1 DEF Flattens
    <2> QED BY <1>2, <2>1 DEF MadeOf
  <1>4. ASSUME NEW k \in 1..n, k - 1 \in P
        PROVE  k \in P
    <2> DEFINE x == f[k - 1]
               y == f[k]
               m == Len(x)
    <2>1. x \in Seq(E) /\ MadeOf(x, k - 1, seqs) /\ y = x \o seqs[k] /\ seqs[k] \in Seq(E)
      BY <1>1, <1>2, <1>4 DEF Flattens
    <2> HIDE DEF n, x, y
    <2>2. /\ y \in Seq(E) /\ m \in Nat /\ Len(seqs[k]) \in Nat /\ Len(y) = m + Len(seqs[k])
          /\ \A i \in 1..(m + Len(seqs[k])) : y[i] = IF i <= m THEN x[i] ELSE seqs[k][i - m]
      BY <2>1, ConcatProperties, LenProperties
    <2>3. /\ \A a \in 1..m : a \in 1..Len(y) /\ y[a] = x[a]
          /\ \A p \in 1..Len(seqs[k]) : m + p \in 1..Len(y) /\ y[m + p] = seqs[k][p]
      <3>1. \A a \in 1..m : a \in 1..Len(y) /\ y[a] = x[a]
        BY <2>2
      <3>2. ASSUME NEW p \in 1..Len(seqs[k])
            PROVE  m + p \in 1..Len(y) /\ y[m + p] = seqs[k][p]
        <4>1. m + p \in 1..(m + Len(seqs[k])) /\ ~(m + p <= m) /\ (m + p) - m = p
          BY <2>2
        <4> QED BY <2>2, <4>1
      <3> QED BY <3>1, <3>2
    <2>4. k \in 1..k /\ \A i \in 1..(k - 1) : i \in 1..k /\ i < k
      BY <1>2
    <2>5. ASSUME NEW i \in 1..k, NEW p \in 1..Len(seqs[i])
          PROVE  \E a \in 1..Len(y) : y[a] = seqs[i][p]
      <3>1. CASE i = k
        BY <2>3, <3>1
      <3>2. CASE i # k
        <4>1. i \in 1..(k - 1)
          BY <1>2, <3>2
        <4>2. PICK a \in 1..m : x[a] = seqs[i][p]
          BY <2>1, <4>1 DEF MadeOf
        <4> QED BY <2>3, <4>2
      <3> QED BY <3>1, <3>2
    <2>6. ASSUME NEW b \in 1..Len(y), b > m
          PROVE  From(y, b, seqs, k, b - m) /\ b - m \in Nat
      BY <2>2, <2>6 DEF From
    <2>7. ASSUME NEW a \in 1..Len(y), a <= m
          PROVE  a \in 1..m /\ \A i, p : From(x, a, seqs, i, p) => From(y, a, seqs, i, p)
      BY <2>2, <2>7 DEF From
    <2>8. ASSUME NEW a \in 1..Len(y)
          PROVE  \E i \in 1..k : \E p \in Nat : From(y, a, seqs, i, p)
      <3>1. CASE a > m
        BY <2>4, <2>6, <3>1
      <3>2. CASE a <= m
        <4>1. PICK i \in 1..(k - 1), p \in Nat : From(x, a, seqs, i, p)
          BY <2>1, <2>7, <3>2 DEF MadeOf
        <4> QED BY <2>4, <2>7, <3>2, <4>1
      <3> QED BY <2>2, <3>1, <3>2
    <2>9. ASSUME NEW a \in 1..Len(y), NEW b \in 1..Len(y), a < b
          PROVE  \E i, j \in 1..k : \E p, q \in Nat :
                   /\ From(y, a, seqs, i, p) /\ From(y, b, seqs, j, q)
                   /\ i < j \/ (i = j /\ p < q)
      <3>1. CASE a > m
        <4>1. b > m /\ a - m < b - m
          BY <2>2, <2>9, <3>1
        <4> QED BY <2>4, <2>6, <3>1, <4>1
      <3>2. CASE a <= m /\ b > m
        <4>1. PICK i \in 1..(k - 1), p \in Nat : From(x, a, seqs, i, p)
          BY <2>1, <2>7, <3>2 DEF MadeOf
        <4> QED BY <2>4, <2>6, <2>7, <3>2, <4>1
      <3>3. CASE a <= m /\ b <= m
        <4>1. PICK i \in 1..(k - 1), j \in 1..(k - 1), p \in Nat, q \in Nat :
                /\ From(x, a, seqs, i, p) /\ From(x, b, seqs, j, q)
                /\ i < j \/ (i = j /\ p < q)
          BY <2>1, <2>7, <2>9, <3>3 DEF MadeOf
        <4> QED BY <2>4, <2>7, <3>3, <4>1
      <3> QED BY <2>2, <2>9, <3>1, <3>2, <3>3
    <2>10. MadeOf(y, k, seqs)
      BY <2>5, <2>8, <2>9 DEF MadeOf
    <2> QED BY <2>2, <2>10 DEF n, y
  <1>5. n \in P
    <2> HIDE DEF P, n
    <2>1. \A k \in 0..n : k \in P
      BY <1>2, <1>3, <1>4, Upwards
    <2> QED BY <1>2, <2>1
  <1> QED BY <1>1, <1>5

-----------------------------------------------------------------------------
(* The plan                                                                *)

\* What is selected keeps its order.
Places(x, s, k) ==
  /\ \A i \in 1..Len(x) : \E a \in 1..k : x[i] = s[a]
  /\ \A i, j \in 1..Len(x) : i < j =>
       \E a, b \in 1..k : a < b /\ x[i] = s[a] /\ x[j] = s[b]

LEMMA SelectedPlaces ==
  ASSUME NEW E, NEW s \in Seq(E), NEW S
  PROVE  Selected(s, S) \in Seq(E) /\ Places(Selected(s, S), s, Len(s))
  <1>1. PICK f : Selects(f, s, S) /\ Selected(s, S) = f[Len(s)]
    BY SelectedSteps
  <1> DEFINE n == Len(s)
             P == {k \in 0..n : f[k] \in Seq(E) /\ Places(f[k], s, k)}
  <1>2. n \in Nat /\ \A k \in 1..n : s[k] \in E
    OBVIOUS
  <1>3. 0 \in P
    <2>1. f[0] \in Seq(E) /\ Len(f[0]) = 0
      BY <1>1 DEF Selects
    <2> QED BY <1>2, <2>1 DEF Places
  <1>4. ASSUME NEW k \in 1..n, k - 1 \in P
        PROVE  k \in P
    <2> DEFINE x == f[k - 1]
               m == Len(x)
    <2>1. x \in Seq(E) /\ Places(x, s, k - 1) /\ m \in Nat
      BY <1>4
    <2>2. k \in 1..k /\ \A a \in 1..(k - 1) : a \in 1..k /\ a < k
      BY <1>2
    <2>3. CASE s[k] \notin S
      <3>1. f[k] = x
        BY <1>1, <2>3 DEF Selects
      <3>2. Places(x, s, k)
        <4> HIDE DEF x
        <4> QED BY <2>1, <2>2 DEF Places
      <3> QED BY <1>2, <2>1, <3>1, <3>2
    <2>4. CASE s[k] \in S
      <3> DEFINE y == f[k]
      <3>1. y = Append(x, s[k])
        BY <1>1, <2>4 DEF Selects
      <3> HIDE DEF x, y, n
      <3>2. /\ y \in Seq(E) /\ Len(y) = m + 1 /\ y[m + 1] = s[k]
            /\ \A i \in 1..m : y[i] = x[i]
        BY <1>2, <2>1, <3>1, AppendProperties
      <3>3. \A i \in 1..(m + 1) : i = m + 1 \/ i \in 1..m
        BY <2>1
      <3>4. \A i \in 1..Len(y) : \E a \in 1..k : y[i] = s[a]
        BY <2>1, <2>2, <3>2, <3>3 DEF Places
      <3>5. ASSUME NEW i \in 1..Len(y), NEW j \in 1..Len(y), i < j
            PROVE  \E a, b \in 1..k : a < b /\ y[i] = s[a] /\ y[j] = s[b]
        <4>1. i \in 1..m
          BY <2>1, <3>2, <3>5
        <4>2. CASE j = m + 1
          <5>1. PICK a \in 1..(k - 1) : x[i] = s[a]
            BY <2>1, <4>1 DEF Places
          <5> QED BY <2>2, <3>2, <4>1, <4>2, <5>1
        <4>3. CASE j \in 1..m
          <5>1. PICK a \in 1..(k - 1), b \in 1..(k - 1) : a < b /\ x[i] = s[a] /\ x[j] = s[b]
            BY <2>1, <3>5, <4>1, <4>3 DEF Places
          <5> QED BY <2>2, <3>2, <4>1, <4>3, <5>1
        <4> QED BY <3>2, <3>3, <4>2, <4>3
      <3>6. Places(y, s, k)
        BY <3>4, <3>5 DEF Places
      <3> QED BY <1>2, <3>2, <3>6 DEF y, n
    <2> QED BY <2>3, <2>4
  <1>5. n \in P
    <2> HIDE DEF P, n
    <2>1. \A k \in 0..n : k \in P
      BY <1>2, <1>3, <1>4, Upwards
    <2> QED BY <1>2, <2>1
  <1> QED BY <1>1, <1>5

\* The order of the pages: the records that have none come first.
LEMMA PagesInOrder ==
  ASSUME NEW src \in [Contents -> Records]
  PROVE  OrderOf(PageOrder, LogicalPages(src)) /\ IsFiniteSet(LogicalPages(src))
  <1> DEFINE S == LogicalPages(src)
  <1>1. S \in SUBSET (Contents \cup {0}) /\ 0 \notin Contents
    BY PageTyping, ContentsAssumption DEF LogicalPages
  <1>2. IsFiniteSet(Contents \cup {0})
    BY ContentsAssumption, FS_AddElement
  <1>3. IsFiniteSet(S)
    BY <1>1, <1>2, FS_Subset
  <1> HIDE DEF S
  <1>4. /\ \A x, y \in Contents : <<x, y>> \in PageOrder <=> <<x, y>> \in StringOrder
        /\ \A y \in Contents : <<0, y>> \in PageOrder
        /\ \A x \in Contents \cup {0} : <<x, 0>> \notin PageOrder
    BY <1>1, StringOrderAssumption DEF PageOrder
  <1>5. \A x \in S : <<x, x>> \notin PageOrder
    BY <1>1, <1>4, StringOrderAssumption
  <1>6. \A x, y \in S : x # y => <<x, y>> \in PageOrder \/ <<y, x>> \in PageOrder
    BY <1>1, <1>4, StringOrderAssumption
  <1>7. \A x, y, z \in S :
          <<x, y>> \in PageOrder /\ <<y, z>> \in PageOrder => <<x, z>> \in PageOrder
    BY <1>1, <1>4, StringOrderAssumption
  <1> QED BY <1>3, <1>5, <1>6, <1>7 DEF OrderOf, S

\* The records of a page in the order of import: the record it is made of comes
\* first, the others follow by version, and none is there twice.
OfPage(src, p) == <<Latest(src, p)>> \o withoutContent(Group(src, p), Latest(src, p))

LEMMA OfPageFacts ==
  ASSUME NEW src \in [Contents -> Records], NEW p \in LogicalPages(src)
  PROVE  /\ OfPage(src, p) \in Seq(Contents)
         /\ Len(OfPage(src, p)) >= 1 /\ OfPage(src, p)[1] = Latest(src, p)
         /\ \A i \in 1..Len(OfPage(src, p)) : LogicalPage(src, OfPage(src, p)[i]) = p
         /\ \A i, j \in 1..Len(OfPage(src, p)) : OfPage(src, p)[i] = OfPage(src, p)[j] => i = j
         /\ \A i, j \in 2..Len(OfPage(src, p)) :
              i < j => <<OfPage(src, p)[i], OfPage(src, p)[j]>> \in Older(src)
         /\ \A c \in RecordsOf(src, p) : \E i \in 1..Len(OfPage(src, p)) : OfPage(src, p)[i] = c
  <1> DEFINE g == Group(src, p)
             top == Latest(src, p)
             S == Contents \ {top}
             t == Selected(g, S)
             r == OfPage(src, p)
  <1>1. /\ top \in Contents /\ LogicalPage(src, top) = p
        /\ g \in [1..Len(g) -> RecordsOf(src, p)] /\ Len(g) \in Nat
        /\ \A i, j \in 1..Len(g) : j < i => <<g[j], g[i]>> \in Older(src)
        /\ \A i, j \in 1..Len(g) : g[i] = g[j] => i = j
        /\ \A c \in RecordsOf(src, p) : \E i \in 1..Len(g) : g[i] = c
    BY GroupFacts, LatestTyping
  <1>2. RecordsOf(src, p) \subseteq Contents /\ \A c \in RecordsOf(src, p) : LogicalPage(src, c) = p
    BY DEF RecordsOf
  <1>3. r = <<top>> \o t
    BY DEF OfPage, withoutContent
  <1> HIDE DEF g, top, S, r
  <1>4. g \in Seq(Int) /\ g \in Seq(Contents)
    <2>1. ASSUME NEW i \in 1..Len(g)
          PROVE  g[i] \in Contents /\ g[i] \in Int
      <3>1. g[i] \in Contents
        BY <1>1, <1>2
      <3> QED BY <3>1, ContentsAssumption
    <2>2. g \in [1..Len(g) -> Int] /\ g \in [1..Len(g) -> Contents]
      BY <1>1, <2>1
    <2> QED BY <1>1, <2>2
  <1>5. /\ t \in Seq(Contents) /\ Places(t, g, Len(g))
        /\ ToSet(t) = ToSet(g) \cap S
    BY <1>4, SelectedPlaces, SelectedFacts
  <1> HIDE DEF t
  <1> DEFINE m == Len(t)
  <1>6. m \in Nat /\ DOMAIN t = 1..m /\ \A i \in 1..m : t[i] \in Contents
    BY <1>5
  <1>7. \A i \in 1..m : t[i] # top /\ LogicalPage(src, t[i]) = p
    <2>1. ASSUME NEW i \in 1..m
          PROVE  t[i] # top
      <3>1. t[i] \in ToSet(t)
        BY <1>6 DEF ToSet
      <3> QED BY <1>5, <3>1 DEF S
    <2>2. ASSUME NEW i \in 1..m
          PROVE  LogicalPage(src, t[i]) = p
      <3>1. PICK a \in 1..Len(g) : t[i] = g[a]
        BY <1>5 DEF Places
      <3> QED BY <1>1, <1>2, <3>1
    <2> QED BY <2>1, <2>2
  <1>8. \A i, j \in 1..m : i < j => t[i] # t[j] /\ <<t[i], t[j]>> \in Older(src)
    <2> SUFFICES ASSUME NEW i \in 1..m, NEW j \in 1..m, i < j
                 PROVE  t[i] # t[j] /\ <<t[i], t[j]>> \in Older(src)
      OBVIOUS
    <2>1. PICK a \in 1..Len(g), b \in 1..Len(g) : a < b /\ t[i] = g[a] /\ t[j] = g[b]
      BY <1>5 DEF Places
    <2> QED BY <1>1, <2>1
  <1>9. /\ r \in Seq(Contents) /\ Len(r) = m + 1 /\ r[1] = top
        /\ \A i \in 1..m : r[i + 1] = t[i]
    <2>1. <<top>> \in Seq(Contents) /\ Len(<<top>>) = 1 /\ <<top>>[1] = top
      BY <1>1
    <2>2. /\ r \in Seq(Contents) /\ Len(r) = 1 + m
          /\ \A i \in 1..(1 + m) : r[i] = IF i <= 1 THEN <<top>>[i] ELSE t[i - 1]
      BY <1>3, <1>5, <2>1, ConcatProperties
    <2>3. \A i \in 1..m : i + 1 \in 1..(1 + m) /\ ~(i + 1 <= 1) /\ (i + 1) - 1 = i
      BY <1>6
    <2>4. 1 \in 1..(1 + m) /\ 1 + m = m + 1
      BY <1>6
    <2> QED BY <2>1, <2>2, <2>3, <2>4
  <1>10. \A i \in 1..Len(r) : i = 1 \/ (i - 1 \in 1..m /\ r[i] = t[i - 1])
    <2> SUFFICES ASSUME NEW i \in 1..(m + 1), i # 1
                 PROVE  i - 1 \in 1..m /\ r[i] = t[i - 1]
      BY <1>9
    <2>1. i - 1 \in 1..m /\ (i - 1) + 1 = i
      BY <1>6
    <2> QED BY <1>9, <2>1
  <1>11. ASSUME NEW i \in 1..Len(r)
         PROVE  LogicalPage(src, r[i]) = p
    <2>1. CASE i = 1
      BY <1>1, <1>9, <2>1
    <2>2. CASE i # 1
      BY <1>7, <1>10, <2>2
    <2> QED BY <2>1, <2>2
  <1>12. ASSUME NEW i \in 1..Len(r), NEW j \in 1..Len(r), i < j
         PROVE  r[i] # r[j] /\ (i >= 2 => <<r[i], r[j]>> \in Older(src))
    <2>1. j - 1 \in 1..m /\ r[j] = t[j - 1]
      BY <1>10, <1>12
    <2>2. CASE i = 1
      BY <1>7, <1>9, <2>1, <2>2
    <2>3. CASE i # 1
      <3>1. i - 1 \in 1..m /\ r[i] = t[i - 1] /\ i - 1 < j - 1
        BY <1>10, <1>12, <2>3
      <3> QED BY <1>8, <2>1, <3>1
    <2> QED BY <2>2, <2>3
  <1>13. ASSUME NEW c \in RecordsOf(src, p)
         PROVE  \E i \in 1..Len(r) : r[i] = c
    <2>1. CASE c = top
      <3>1. 1 \in 1..Len(r)
        BY <1>6, <1>9
      <3> QED BY <1>9, <2>1, <3>1
    <2>2. CASE c # top
      <3>1. PICK a \in 1..Len(g) : g[a] = c
        BY <1>1
      <3>2. c \in ToSet(g) /\ c \in S
        BY <1>1, <1>2, <2>2, <3>1 DEF ToSet, S
      <3>3. PICK i \in 1..m : t[i] = c
        BY <1>5, <1>6, <3>2 DEF ToSet
      <3>4. i + 1 \in 1..Len(r)
        BY <1>6, <1>9
      <3> QED BY <1>9, <3>3, <3>4
    <2> QED BY <2>1, <2>2
  <1>14. Len(r) \in Nat /\ Len(r) >= 1
    BY <1>6, <1>9
  <1>15. \A i, j \in 1..Len(r) : r[i] = r[j] => i = j
    <2> SUFFICES ASSUME NEW i \in 1..Len(r), NEW j \in 1..Len(r), r[i] = r[j], i # j
                 PROVE  FALSE
      OBVIOUS
    <2>1. i < j \/ j < i
      BY <1>14
    <2> QED BY <1>12, <2>1
  <1>16. \A i, j \in 2..Len(r) : i < j => <<r[i], r[j]>> \in Older(src)
    <2>1. \A i \in 2..Len(r) : i \in 1..Len(r) /\ i >= 2
      BY <1>14
    <2> QED BY <1>12, <2>1
  <1> QED BY <1>9, <1>11, <1>13, <1>14, <1>15, <1>16 DEF r, top

\* Every record is imported once, and of a page the record it is made of first.
LEMMA PlanTyping ==
  ASSUME NEW src \in [Contents -> Records]
  PROVE  /\ ImportPlan(src) \in [1..Cardinality(Contents) -> Contents]
         /\ Cardinality(Contents) \in Nat
         /\ \A i, j \in 1..Cardinality(Contents) :
              ImportPlan(src)[i] = ImportPlan(src)[j] => i = j
         /\ \A c \in Contents : \E i \in 1..Cardinality(Contents) : ImportPlan(src)[i] = c
         /\ \A i, j \in 1..Cardinality(Contents) :
              ImportPlan(src)[i] = Latest(src, LogicalPage(src, ImportPlan(src)[j])) => i <= j
  <1> DEFINE S == LogicalPages(src)
             N == Cardinality(S)
             pages == Sorted(S, PageOrder)
             seqs == [i \in DOMAIN pages |-> OfPage(src, pages[i])]
             x == ImportPlan(src)
  <1>1. /\ N \in Nat /\ pages \in [1..N -> S]
        /\ \A i, j \in 1..N : pages[i] = pages[j] => i = j
        /\ \A p \in S : \E i \in 1..N : pages[i] = p
    BY PagesInOrder, SortedFacts
  <1>2. x = FlattenSeq(seqs)
    BY DEF ImportPlan, OfPage
  <1> HIDE DEF S, N, pages, x
  <1>3. \A i \in 1..N :
          /\ pages[i] \in S /\ seqs[i] = OfPage(src, pages[i])
          /\ seqs[i] \in Seq(Contents)
          /\ Len(seqs[i]) >= 1 /\ seqs[i][1] = Latest(src, pages[i])
          /\ \A p \in 1..Len(seqs[i]) : LogicalPage(src, seqs[i][p]) = pages[i]
          /\ \A p, q \in 1..Len(seqs[i]) : seqs[i][p] = seqs[i][q] => p = q
          /\ \A c \in RecordsOf(src, pages[i]) : \E p \in 1..Len(seqs[i]) : seqs[i][p] = c
    BY <1>1, OfPageFacts DEF S
  <1>4. seqs \in Seq(Seq(Contents)) /\ Len(seqs) = N
    <2>1. seqs \in [1..N -> Seq(Contents)]
      <3>1. seqs = [i \in 1..N |-> seqs[i]]
        BY <1>1
      <3> HIDE DEF seqs
      <3> QED BY <1>3, <3>1
    <2> HIDE DEF seqs
    <2> QED BY <1>1, <2>1
  <1> HIDE DEF seqs
  <1>5. x \in Seq(Contents) /\ MadeOf(x, N, seqs)
    BY <1>2, <1>4, FlattenFacts
  <1> DEFINE m == Len(x)
  <1>6. m \in Nat /\ x \in [1..m -> Contents]
    BY <1>5
  <1>7. ASSUME NEW a \in 1..m, NEW b \in 1..m, a < b
        PROVE  x[a] # x[b] /\ x[b] # Latest(src, LogicalPage(src, x[a]))
    <2>1. PICK i \in 1..N, j \in 1..N, p \in Nat, q \in Nat :
            /\ From(x, a, seqs, i, p) /\ From(x, b, seqs, j, q)
            /\ i < j \/ (i = j /\ p < q)
      BY <1>5, <1>7 DEF MadeOf
    <2>2. /\ p \in 1..Len(seqs[i]) /\ x[a] = seqs[i][p] /\ LogicalPage(src, x[a]) = pages[i]
          /\ q \in 1..Len(seqs[j]) /\ x[b] = seqs[j][q] /\ LogicalPage(src, x[b]) = pages[j]
      BY <1>3, <2>1 DEF From
    <2>3. CASE i < j
      <3>1. pages[i] # pages[j]
        BY <1>1, <2>3
      <3>2. LogicalPage(src, Latest(src, pages[i])) = pages[i]
        BY <1>3, LatestTyping DEF S
      <3> QED BY <2>2, <3>1, <3>2
    <2>4. CASE i = j /\ p < q
      <3>1. seqs[i] \in Seq(Contents) /\ Len(seqs[i]) >= 1 /\ 1 \in 1..Len(seqs[i])
        <4>1. seqs[i] \in Seq(Contents) /\ Len(seqs[i]) >= 1 /\ Len(seqs[i]) \in Nat
          BY <1>3
        <4> QED BY <4>1
      <3>2. p >= 1 /\ q # 1 /\ p # q
        BY <2>2, <2>4, <3>1
      <3>3. seqs[i][q] # seqs[i][1] /\ seqs[i][p] # seqs[i][q]
        BY <1>3, <2>2, <2>4, <3>1, <3>2
      <3> QED BY <1>3, <2>2, <2>4, <3>3
    <2> QED BY <2>1, <2>3, <2>4
  <1>8. \A i, j \in 1..m : x[i] = x[j] => i = j
    <2> SUFFICES ASSUME NEW i \in 1..m, NEW j \in 1..m, x[i] = x[j], i # j
                 PROVE  FALSE
      OBVIOUS
    <2>1. i < j \/ j < i
      BY <1>6
    <2> QED BY <1>7, <2>1
  <1>9. ASSUME NEW c \in Contents
        PROVE  \E a \in 1..m : x[a] = c
    <2>1. LogicalPage(src, c) \in S /\ c \in RecordsOf(src, LogicalPage(src, c))
      BY DEF S, LogicalPages, RecordsOf
    <2>2. PICK i \in 1..N : pages[i] = LogicalPage(src, c)
      BY <1>1, <2>1
    <2>3. PICK p \in 1..Len(seqs[i]) : seqs[i][p] = c
      BY <1>3, <2>1, <2>2
    <2> QED BY <1>5, <2>3 DEF MadeOf
  <1>10. \A i, j \in 1..m : x[i] = Latest(src, LogicalPage(src, x[j])) => i <= j
    <2> SUFFICES ASSUME NEW i \in 1..m, NEW j \in 1..m,
                        x[i] = Latest(src, LogicalPage(src, x[j])), ~(i <= j)
                 PROVE  FALSE
      OBVIOUS
    <2>1. j < i
      BY <1>6
    <2> QED BY <1>7, <2>1
  <1>11. m = Cardinality(Contents)
    <2>1. IsFiniteSet(1..m) /\ Cardinality(1..m) = m
      BY <1>6, FS_Interval
    <2>2. x \in Bijection(1..m, Contents)
      BY <1>6, <1>8, <1>9 DEF Bijection, Injection, Surjection, IsInjective
    <2>3. ExistsBijection(1..m, Contents)
      BY <2>2 DEF ExistsBijection
    <2> QED BY <2>1, <2>3, FS_Bijection
  <1> QED BY <1>6, <1>8, <1>9, <1>10, <1>11 DEF x
=============================================================================
