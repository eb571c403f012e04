------------------------- MODULE SnapshotImport_proofs -------------------------
(***************************************************************************)
(* SnapshotImport for any sources, sets of entities and names.             *)
(***************************************************************************)
EXTENDS SnapshotImport, FiniteSetTheorems, WellFoundedInduction, TLAPS

-----------------------------------------------------------------------------
(* The inductive invariant                                                 *)

\* The ids of users, groups and spaces, without the space of orphans.
Targets == Ids \cup {-i : i \in Ids}

Applying == run.pc \in {"work", "map", "finish", "count"}

Closed == {"COMPLETE", "FAILED"}

RunRecords ==
  [pc : Pcs, at : Nat, target : Int, space : Int, previous : {"NONE"} \cup AnyItem,
   ok : BOOLEAN, known : [Ids -> Targets \cup {NoId}] \cup {<<>>}]

RunShape ==
  /\ run \in RunRecords
  /\ ~At("idle") => run.known \in [Ids -> Targets \cup {NoId}]
  /\ At("begin") \/ Applying => run.at \in Of(included)
  /\ Applying => run.target \in Targets
  /\ pages \in [Ids -> Int]
  /\ grants = [i \in Ids |-> grants[i]]

\* An item is RUNNING while its record is imported, and one that was COMPLETE
\* is not begun again.
OneItemOpen ==
  /\ Applying => run.previous # "COMPLETE"
  /\ run.pc \in {"work", "map", "finish"} => item[run.at] = "RUNNING"
  /\ At("count") => item[run.at] = IF run.ok THEN "COMPLETE" ELSE "FAILED"

\* What the counters still lack of an item whose outcome is known, and have too
\* much for an item that had failed.
Redone == IF Applying /\ run.previous = "FAILED" THEN 1 ELSE 0

Counted ==
  status # "COMPLETE" /\ ~torn =>
    /\ processed = Items(Entities, Closed) + Redone - (IF At("count") THEN 1 ELSE 0)
    /\ failed = Items(Entities, {"FAILED"}) + Redone
                - (IF At("count") /\ ~run.ok THEN 1 ELSE 0)

\* The records before the current one are done with, at the end of a job all of
\* them are, and of one that ends COMPLETE they are so without error.
InOrder ==
  /\ At("begin") \/ Applying =>
       \A j \in Of(included) : j < run.at => item[j] \in Closed
  /\ run.pc \in {"reconcile", "end"} => \A j \in Of(included) : item[j] \in Closed
  /\ status \in {"COMPLETE", "COMPLETED_WITH_ERRORS"} =>
       \A j \in Of(included) : item[j] \in Closed
  /\ status = "COMPLETE" /\ ~blind => \A j \in Of(included) : item[j] = "COMPLETE"

\* An id that the row of record i may have.
Names(i, id) ==
  /\ id \in DOMAIN origin /\ id # 0
  /\ Is(Abs(id), source[i].entity) /\ source[Abs(id)].name = source[i].name

\* Names are unique, and every id that is kept for a user, a group or a space is
\* one its row may have.
NamesUnique ==
  \A i \in Of(Named) : \A a, b \in Rows(source[i].entity, source[i].name) : a = b

TargetsNamed ==
  /\ \A i \in Of(Named) : mapping[i] # NoId => Names(i, mapping[i])
  /\ ~At("idle") => \A i \in Of(Named) : run.known[i] # NoId => Names(i, run.known[i])
  /\ Applying => /\ This.entity \in Named => Names(run.at, run.target)
                 /\ This.entity = "PAGE" /\ run.space # 0 =>
                      This.of # 0 /\ Names(This.of, run.space)

\* The row of a record is there, and what it needs of other rows.
Arrived(i) ==
  LET r == source[i] IN
  /\ r.entity \in Named => \E id \in Rows(r.entity, r.name) : origin[id] = "CONFLUENCE"
  /\ r.entity = "GROUP_MEMBER" =>
       /\ r.of # 0 /\ r.member # 0
       /\ \E g \in Rows("GROUP", source[r.of].name), u \in Rows("USER", source[r.member].name) :
            <<g, u>> \in members
  /\ r.entity = "PAGE" =>
       /\ pages[i] # NoId
       /\ r.of # 0 => pages[i] \in Rows("SPACE", source[r.of].name) \cup {0}
  /\ r.entity \in {"COMMENT", "ATTACHMENT"} => i \in notes
  /\ r.entity \in Permissions => grants[i] # NoGrant

Mapped(i) ==
  source[i].entity \in Named => mapping[i] \in Rows(source[i].entity, source[i].name)

ItemsArrived ==
  /\ \A i \in Ids : item[i] = "COMPLETE" => Arrived(i) /\ Mapped(i)
  /\ At("map") => /\ Arrived(run.at)
                  /\ This.entity \in Named => run.target \in Rows(This.entity, This.name)
  /\ At("finish") /\ run.ok => Arrived(run.at) /\ Mapped(run.at)

ImportInv ==
  /\ TypeOK /\ RunShape /\ OneItemOpen /\ Counted /\ InOrder
  /\ NamesUnique /\ TargetsNamed /\ ItemsArrived

-----------------------------------------------------------------------------
(* The records and their order                                             *)

LEMMA SourceFacts ==
  ASSUME TypeOK
  PROVE  /\ Len(source) \in Nat /\ Ids = 1..Len(source) /\ IsFiniteSet(Ids)
         /\ NoId \in Nat /\ NoId \notin Targets /\ 0 \notin Targets /\ Targets \subseteq Int
         /\ \A i \in Ids : source[i] \in Fields
         /\ \A i \in Ids : source[i].of # 0 =>
              /\ source[i].of \in Ids /\ source[i].entity \in DOMAIN Owner
              /\ source[source[i].of].entity = Owner[source[i].entity]
         /\ \A i \in Ids : source[i].member # 0 =>
              source[i].member \in Ids /\ source[source[i].member].entity = "USER"
  <1>1. source \in Seq(Fields)
    BY SourcesAssumption DEF TypeOK
  <1>2. Len(source) \in Nat /\ Ids = 1..Len(source)
    BY <1>1 DEF Ids
  <1>3. IsFiniteSet(Ids)
    BY <1>2, FS_Interval
  <1>4. \A i \in Ids : source[i] \in Fields
    BY <1>1 DEF Ids
  <1>5. ASSUME NEW i \in Ids
        PROVE  /\ source[i].of # 0 =>
                    /\ source[i].of \in Ids /\ source[i].entity \in DOMAIN Owner
                    /\ source[source[i].of].entity = Owner[source[i].entity]
               /\ source[i].member # 0 =>
                    source[i].member \in Ids /\ source[source[i].member].entity = "USER"
    <2>1. /\ source[i].of # 0 =>
               /\ source[i].of < i /\ source[i].entity \in DOMAIN Owner
               /\ source[source[i].of].entity = Owner[source[i].entity]
          /\ source[i].member # 0 =>
               source[i].member < i /\ source[source[i].member].entity = "USER"
      BY SourcesAssumption DEF TypeOK, Ids
    <2>2. source[i].of \in Nat /\ source[i].member \in Nat
      BY <1>4 DEF Fields
    <2> QED BY <1>2, <2>1, <2>2
  <1> QED BY <1>2, <1>3, <1>4, <1>5 DEF NoId, Targets

\* Every nonempty set of records has a first one.
Less == {p \in Nat \X Nat : p[1] < p[2]}

LEMMA First ==
  ASSUME TypeOK, NEW T \in SUBSET Ids, T # {}
  PROVE  /\ (CHOOSE j \in T : \A k \in T : j <= k) \in T
         /\ \A k \in T : (CHOOSE j \in T : \A l \in T : j <= l) <= k
  <1>1. IsWellFoundedOn(Less, Nat)
    BY NatLessThanWellFounded DEF OpToRel, Less
  <1>2. T \subseteq Nat
    BY SourceFacts
  <1>3. PICK n \in T : \A m \in T : ~(<<m, n>> \in Less)
    BY <1>1, <1>2, WFMin
  <1>4. ASSUME NEW m \in T, m < n
        PROVE  FALSE
    <2>1. <<m, n>> \in Nat \X Nat /\ <<m, n>>[1] < <<m, n>>[2]
      BY <1>2, <1>4
    <2> QED BY <1>3, <2>1 DEF Less
  <1>5. \A m \in T : n <= m
    BY <1>2, <1>4
  <1> QED BY <1>5

LEMMA FollowingFacts ==
  ASSUME TypeOK, NEW i \in Nat
  PROVE  \/ /\ Following(i) = NoId
            /\ \A j \in Of(included) : j <= i
         \/ /\ Following(i) \in Of(included) /\ Following(i) > i
            /\ \A j \in Of(included) : j < Following(i) => j <= i
  <1> DEFINE T == {j \in Ids : j > i /\ source[j].entity \in included}
  <1>0. Ids \subseteq Nat
    BY SourceFacts
  <1>1. CASE T = {}
    <2>1. Following(i) = NoId
      BY <1>1 DEF Following
    <2> QED BY <1>0, <1>1, <2>1 DEF Of
  <1>2. CASE T # {}
    <2>1. T \in SUBSET Ids
      OBVIOUS
    <2> DEFINE f == CHOOSE j \in T : \A k \in T : j <= k
    <2>2. Following(i) = f
      BY <1>2 DEF Following
    <2>3. f \in T /\ \A k \in T : f <= k
      <3> HIDE DEF T
      <3> QED BY <1>2, <2>1, First
    <2> HIDE DEF f
    <2> QED BY <1>0, <2>2, <2>3 DEF Of
  <1> QED BY <1>1, <1>2

\* The ids of a run's start: at the first record or past all of them.
LEMMA NewRunFacts ==
  ASSUME TypeOK, NEW i \in Nat, i = NoId \/ i \in Ids
  PROVE  /\ NewRun(i).pc = IF i = NoId THEN "reconcile" ELSE "begin"
         /\ NewRun(i).at = i /\ NewRun(i) \in RunRecords
         /\ NewRun(i).previous = "NONE"
         /\ NewRun(i).known = [j \in Ids |-> NoId]
  <1> DEFINE k == [j \in Ids |-> NoId]
             p == IF i = NoId THEN "reconcile" ELSE "begin"
  <1>1. k \in [Ids -> Targets \cup {NoId}] /\ p \in Pcs
    BY DEF Pcs
  <1>2. NoRun \in RunRecords /\ NoRun.previous = "NONE"
    BY DEF NoRun, RunRecords, Pcs
  <1>3. NewRun(i) = [NoRun EXCEPT !.pc = p, !.at = i, !.known = k]
    BY Zenon DEF NewRun
  <1> HIDE DEF k, p
  <1>4. NewRun(i) \in RunRecords
    BY <1>1, <1>2, <1>3 DEF RunRecords
  <1>5. /\ NewRun(i).pc = p /\ NewRun(i).at = i /\ NewRun(i).known = k
        /\ NewRun(i).previous = "NONE"
    BY <1>2, <1>3 DEF RunRecords
  <1> QED BY <1>4, <1>5 DEF k, p

LEMMA NoRunFacts ==
  /\ NoRun \in RunRecords /\ NoRun.pc = "idle" /\ NoRun.previous = "NONE"
  /\ NoRun.known = <<>>
  BY DEF NoRun, RunRecords, Pcs

\* A new run begins at the first record asked for, and knows no targets.
Starting(options) == StartSnapshot(options) \/ (options = included /\ ResumeSnapshot)

LEMMA StartFacts ==
  ASSUME TypeOK, NEW options, Starting(options)
  PROVE  /\ included' = options /\ source' = source
         /\ run' \in RunRecords /\ run'.previous = "NONE"
         /\ run'.known = [j \in Ids |-> NoId]
         /\ \/ run'.pc = "reconcile" /\ run'.at = NoId /\ Of(options) = {}
            \/ /\ run'.pc = "begin" /\ run'.at \in Of(options)
               /\ \A j \in Of(options) : run'.at <= j
  <1> DEFINE T == {j \in Ids : source[j].entity \in options}
             f == CHOOSE j \in T : \A k \in T : j <= k
             i == IF T = {} THEN NoId ELSE f
  <1>1. Ids \subseteq Nat /\ NoId \in Nat \ Ids
    BY SourceFacts DEF Targets
  <1>2. T # {} => f \in T /\ \A k \in T : f <= k
    <2>1. T \in SUBSET Ids
      OBVIOUS
    <2> HIDE DEF T
    <2> QED BY <2>1, First
  <1> HIDE DEF f
  <1>3. run' = NewRun(i)
    <2>1. CASE StartSnapshot(options)
      BY <2>1, Zenon DEF StartSnapshot, f
    <2>2. CASE options = included /\ ResumeSnapshot
      <3>1. Following(0) = i
        <4> DEFINE left == {j \in Ids : j > 0 /\ source[j].entity \in included}
        <4>1. left = T
          BY <2>2, SourceFacts
        <4>2. Following(0) = IF left = {} THEN NoId
                             ELSE CHOOSE j \in left : \A k \in left : j <= k
          BY Zenon DEF Following
        <4> HIDE DEF T, left
        <4> QED BY <4>1, <4>2 DEF f
      <3> QED BY <2>2, <3>1 DEF ResumeSnapshot
    <2> QED BY <2>1, <2>2 DEF Starting
  <1>4. i \in Nat /\ (i = NoId \/ i \in Ids) /\ (i = NoId <=> T = {})
    BY <1>1, <1>2
  <1>5. included' = options /\ source' = source
    BY DEF Starting, StartSnapshot, ResumeSnapshot
  <1>6. T = Of(options)
    BY DEF Of
  <1> HIDE DEF T
  <1> QED BY <1>2, <1>3, <1>4, <1>5, <1>6, NewRunFacts

\* After a record comes the next one asked for, or the end.
LEMMA AdvanceFacts ==
  ASSUME TypeOK, RunShape, At("begin") \/ Applying, NEW t \in Targets, Advance(t)
  PROVE  /\ run' \in RunRecords /\ run'.previous = "NONE"
         /\ run'.known = [run.known EXCEPT ![run.at] = t]
         /\ run'.known \in [Ids -> Targets \cup {NoId}]
         /\ \/ /\ run'.pc = "reconcile" /\ run'.at = NoId
               /\ \A j \in Of(included) : j <= run.at
            \/ /\ run'.pc = "begin" /\ run'.at \in Of(included)
               /\ \A j \in Of(included) : j < run'.at => j <= run.at
  <1>1. run.at \in Ids /\ run.at \in Nat /\ run.known \in [Ids -> Targets \cup {NoId}]
    BY DEF RunShape, RunRecords, Of, At, Applying
  <1> DEFINE i == Following(run.at)
             k == [run.known EXCEPT ![run.at] = t]
  <1>2. k \in [Ids -> Targets \cup {NoId}]
    BY <1>1
  <1>3. i \in Nat /\ (i = NoId \/ i \in Ids) /\ NoId \notin Ids
    BY <1>1, FollowingFacts, SourceFacts DEF Of, Targets
  <1>4. run' = [NewRun(i) EXCEPT !.known = k]
    BY DEF Advance
  <1>5. /\ NewRun(i).pc = (IF i = NoId THEN "reconcile" ELSE "begin")
        /\ NewRun(i).at = i /\ NewRun(i) \in RunRecords /\ NewRun(i).previous = "NONE"
    BY <1>3, NewRunFacts
  <1>6. \/ i = NoId /\ \A j \in Of(included) : j <= run.at
        \/ /\ i # NoId /\ i \in Of(included)
           /\ \A j \in Of(included) : j < i => j <= run.at
    BY <1>1, <1>3, FollowingFacts DEF Of
  <1> HIDE DEF i, k
  <1>7. run' \in RunRecords
    BY <1>2, <1>4, <1>5 DEF RunRecords
  <1>8. /\ run'.pc = NewRun(i).pc /\ run'.at = i /\ run'.previous = "NONE"
        /\ run'.known = k
    BY <1>4, <1>5 DEF RunRecords
  <1> QED BY <1>2, <1>5, <1>6, <1>7, <1>8 DEF k

\* The names that lead to rows: of a record, TargetOf gives one that it may have.
LEMMA TargetFacts ==
  ASSUME TypeOK, NEW i \in Ids
  PROVE  /\ TargetOf(i) \in Targets
         /\ source[i].entity \in Named => Names(i, TargetOf(i))
  <1> DEFINE same == Rows(source[i].entity, source[i].name)
  <1>1. /\ DOMAIN origin = -Len(source)..Len(source) /\ Ids = 1..Len(source)
        /\ Len(source) \in Nat
    BY SourceFacts DEF TypeOK
  <1>2. ASSUME NEW id \in same
        PROVE  id \in Targets /\ Names(i, id)
    BY <1>1, <1>2 DEF Rows, Names, Targets, Abs, Is
  <1>3. i \in Targets /\ Names(i, i)
    BY <1>1 DEF Targets, Names, Abs, Is
  <1> HIDE DEF same
  <1>4. TargetOf(i) = IF source[i].entity \in Named /\ same # {}
                      THEN CHOOSE id \in same : TRUE ELSE i
    BY DEF TargetOf, same
  <1> QED BY <1>2, <1>3, <1>4

-----------------------------------------------------------------------------
(* Types                                                                   *)

Places == {"NONE", "LOCAL", "CONFLUENCE", "ORPHAN"}

\* A row that takes a value keeps the others, and what refers to them.
LEMMA OriginTyping ==
  ASSUME TypeOK, NEW id \in DOMAIN origin, NEW v \in Places \ {"NONE"}, source' = source,
         origin' = [origin EXCEPT ![id] = v]
  PROVE  /\ origin' \in [-Len(source')..Len(source') -> Places]
         /\ \A k : Exists(k) => Exists(k)'
  BY DEF TypeOK, Exists, Places

\* A statement of apply leaves the run's record and target as they are.
LEMMA GotoFacts ==
  ASSUME run \in RunRecords, NEW pc \in Pcs, NEW ok \in BOOLEAN,
         \/ run' = [run EXCEPT !.pc = pc] /\ ok = run.ok
         \/ run' = [run EXCEPT !.pc = pc, !.ok = ok]
  PROVE  /\ run' \in RunRecords /\ run'.pc = pc /\ run'.ok = ok
         /\ run'.at = run.at /\ run'.target = run.target /\ run'.space = run.space
         /\ run'.previous = run.previous /\ run'.known = run.known
  BY DEF RunRecords

LEMMA SpaceFacts ==
  ASSUME TypeOK, RunShape, ~At("idle"), NEW i \in Ids
  PROVE  /\ resolveSpace(source[i]) \in Targets \cup {0}
         /\ source[i].of = 0 => resolveSpace(source[i]) = 0
  BY SourceFacts DEF resolveSpace, TypeOK, RunShape, Targets

LEMMA BeginFacts ==
  ASSUME TypeOK, RunShape, BeginItem
  PROVE  /\ run' \in RunRecords /\ run'.pc = "work" /\ run'.at = run.at
         /\ run'.target = TargetOf(run.at) /\ run'.known = run.known
         /\ run'.previous = item[run.at]
         /\ This.entity = "PAGE" => run'.space = resolveSpace(This)
         /\ \/ origin' = origin
            \/ /\ origin' = [origin EXCEPT ![0] = "ORPHAN"]
               /\ run'.space = 0
  <1> DEFINE space == IF This.entity = "PAGE" THEN resolveSpace(This) ELSE NoId
             target == TargetOf(run.at)
             previous == item[run.at]
  <1>1. At("begin") /\ run.at \in Ids /\ run \in RunRecords
    BY DEF RunShape, Of, BeginItem
  <1>2. run' = [run EXCEPT !.pc = "work", !.target = target, !.space = space,
                           !.previous = previous]
    BY DEF BeginItem
  <1>3. space \in Int
    BY <1>1, SpaceFacts, SourceFacts DEF This, At
  <1>4. target \in Int
    BY <1>1, TargetFacts, SourceFacts
  <1>5. previous \in {"NONE"} \cup AnyItem
    BY <1>1 DEF TypeOK
  <1>6. space = 0 \/ origin' = origin
    BY DEF BeginItem
  <1>7. space = 0 => origin' = [origin EXCEPT ![0] = "ORPHAN"]
    BY DEF BeginItem
  <1> HIDE DEF space, target, previous
  <1>8. run' \in RunRecords
    BY <1>1, <1>2, <1>3, <1>4, <1>5 DEF RunRecords, Pcs
  <1>9. /\ run'.pc = "work" /\ run'.at = run.at /\ run'.target = target
        /\ run'.known = run.known /\ run'.previous = previous /\ run'.space = space
    BY <1>1, <1>2 DEF RunRecords
  <1> QED BY <1>6, <1>7, <1>8, <1>9 DEF space, target, previous

LEMMA TypingInit == Init => TypeOK /\ RunShape
  <1> SUFFICES ASSUME Init PROVE TypeOK /\ RunShape
    OBVIOUS
  <1>1. source \in Seq(Fields)
    BY SourcesAssumption DEF Init
  <1>2. Len(source) \in Nat /\ Ids = 1..Len(source)
    BY <1>1 DEF Ids
  <1>3. TypeOK
    <2>1. /\ source \in Sources /\ included \in Included /\ status = "NONE"
          /\ {processed, failed} \subseteq Nat /\ runs \in 0..MaxRuns /\ faults \in 0..MaxFaults
      BY BoundsAssumption DEF Init
    <2>2. /\ item \in [Ids -> {"NONE"} \cup AnyItem]
          /\ mapping \in [Ids -> Ids \cup {-i : i \in Ids} \cup {NoId}]
          /\ origin \in [-Len(source)..Len(source) -> {"NONE", "LOCAL", "CONFLUENCE", "ORPHAN"}]
          /\ checks \in [Entities -> {"NONE", "PASS", "FAIL"}]
      BY DEF Init, NoItems
    <2>3. members = {} /\ notes = {} /\ \A i \in Ids : pages[i] = NoId
      BY DEF Init
    <2> QED BY <2>1, <2>2, <2>3, NoRunFacts DEF Init, TypeOK, Pcs
  <1>4. RunShape
    BY <1>2, NoRunFacts DEF Init, RunShape, At, Applying, NoId
  <1> QED BY <1>3, <1>4

\* A check says of its entities whether they count up, unless a query has failed,
\* and leaves the other checks as they are.
LEMMA CheckFacts ==
  ASSUME TypeOK, NEW k, Check(k)
  PROVE  /\ checks' \in [Entities -> {"NONE", "PASS", "FAIL"}]
         /\ faults' \in 0..MaxFaults /\ blind' \in BOOLEAN
         /\ ~blind' =>
              /\ ~blind
              /\ \A e \in included :
                   checks'[e] = IF Rank[e] # k THEN checks[e]
                                ELSE IF CountCheck(e) THEN "PASS" ELSE "FAIL"
  <1> DEFINE these == {e \in included : Rank[e] = k}
             Passes(e, read) == IF read THEN CountCheck(e) ELSE targetEntityCount(e) = 0
  <1>1. PICK read \in BOOLEAN :
          /\ checks' = [e \in Entities |->
               IF e \in these THEN (IF Passes(e, read) THEN "PASS" ELSE "FAIL") ELSE checks[e]]
          /\ IF read THEN UNCHANGED <<faults, blind>>
                     ELSE these # {} /\ Fault /\ blind' = TRUE
    BY Zenon DEF Check
  <1>2. included \subseteq Entities /\ checks \in [Entities -> {"NONE", "PASS", "FAIL"}]
    BY IncludedAssumption DEF TypeOK
  <1>3. checks' \in [Entities -> {"NONE", "PASS", "FAIL"}]
    <2> HIDE DEF these, Passes
    <2> QED BY <1>1, <1>2
  <1>4. faults' \in 0..MaxFaults /\ blind' \in BOOLEAN
    <2>1. faults' = faults \/ (faults < MaxFaults /\ faults' = faults + 1)
      BY <1>1 DEF Fault
    <2>2. blind' = blind \/ blind' = TRUE
      BY <1>1
    <2>3. MaxFaults \in Nat /\ faults \in 0..MaxFaults /\ blind \in BOOLEAN
      BY BoundsAssumption DEF TypeOK
    <2>4. faults' \in 0..MaxFaults
      BY <2>1, <2>3
    <2> QED BY <2>2, <2>3, <2>4
  <1>5. ASSUME ~blind'
        PROVE  /\ ~blind
               /\ \A e \in included :
                    checks'[e] = IF Rank[e] # k THEN checks[e]
                                 ELSE IF CountCheck(e) THEN "PASS" ELSE "FAIL"
    <2>1. read /\ ~blind
      BY <1>1, <1>5
    <2>2. ASSUME NEW e \in included
          PROVE  checks'[e] = IF Rank[e] # k THEN checks[e]
                              ELSE IF CountCheck(e) THEN "PASS" ELSE "FAIL"
      <3>1. checks'[e] = IF e \in these THEN (IF Passes(e, read) THEN "PASS" ELSE "FAIL")
                         ELSE checks[e]
        <4> HIDE DEF these, Passes
        <4> QED BY <1>1, <1>2
      <3>2. e \in these <=> Rank[e] = k
        OBVIOUS
      <3>3. Passes(e, read) <=> CountCheck(e)
        BY <2>1
      <3> HIDE DEF these, Passes
      <3> QED BY <3>1, <3>2, <3>3
    <2> QED BY <2>1, <2>2
  <1> QED BY <1>3, <1>4, <1>5

\* The checks are counted on from the first to the last.
LEMMA ChecksCounted ==
  ASSUME TypeOK, run \in RunRecords, reconcile
  PROVE  /\ run' \in RunRecords /\ run.pc = "reconcile"
         /\ run'.target = run.target /\ run'.space = run.space
         /\ run'.previous = run.previous /\ run'.known = run.known
         /\ \/ run'.pc = "reconcile" /\ run'.at = run.at + 1
            \/ /\ run'.pc = "end" /\ run'.at = run.at
               /\ ~(run.at < Len(source) + LastCheck)
  <1>1. /\ run.pc = "reconcile" /\ run.at \in Nat
        /\ \/ run' = [run EXCEPT !.at = run.at + 1]
           \/ run' = [run EXCEPT !.pc = "end"] /\ ~(run.at < Len(source) + LastCheck)
    BY DEF reconcile, At, RunRecords
  <1>2. CASE run' = [run EXCEPT !.at = run.at + 1]
    <2>1. run.at + 1 \in Nat
      BY <1>1
    <2> QED BY <1>1, <1>2, <2>1 DEF RunRecords
  <1>3. CASE run' = [run EXCEPT !.pc = "end"] /\ ~(run.at < Len(source) + LastCheck)
    BY <1>1, <1>3 DEF RunRecords, Pcs
  <1> QED BY <1>1, <1>2, <1>3

LEMMA TypingStep ==
  ASSUME TypeOK, RunShape, [Next]_vars
  PROVE  TypeOK' /\ RunShape'
  <1>0. /\ Len(source) \in Nat /\ Ids = 1..Len(source) /\ NoId \in Nat
        /\ DOMAIN origin = -Len(source)..Len(source) /\ Targets \cup {0} \subseteq DOMAIN origin
    BY SourceFacts DEF TypeOK, Targets
  <1>1. ASSUME UNCHANGED vars
        PROVE  TypeOK' /\ RunShape'
    BY <1>1 DEF vars, database, TypeOK, RunShape, RunRecords, Targets, Ids, NoId, Exists, At,
               Applying, Of
  <1>2. ASSUME NEW options \in Included, Starting(options)
        PROVE  TypeOK' /\ RunShape'
    <2>0. /\ included' = options /\ source' = source
          /\ run' \in RunRecords /\ run'.pc \in {"begin", "reconcile"}
          /\ run'.known \in [Ids -> Targets \cup {NoId}]
          /\ run'.pc = "begin" => run'.at \in Of(options)
      BY <1>2, StartFacts
    <2>1. /\ {processed', failed'} \subseteq Nat /\ item' \in [Ids -> {"NONE"} \cup AnyItem]
          /\ status' = "RUNNING" /\ runs' \in 0..MaxRuns
          /\ UNCHANGED <<mapping, content, checks, faults>>
          /\ torn' \in BOOLEAN /\ blind' \in BOOLEAN
      <3>1. NoItems \in [Ids -> {"NONE"} \cup AnyItem]
        BY DEF NoItems
      <3>2. CASE StartSnapshot(options)
        <4>1. runs' \in 0..MaxRuns /\ {processed', failed'} \subseteq Nat
          BY <3>2, BoundsAssumption DEF StartSnapshot, TypeOK
        <4>2. status' = "RUNNING" /\ UNCHANGED <<mapping, content, checks, faults>>
          BY <3>2 DEF StartSnapshot
        <4>3. torn' \in BOOLEAN /\ blind' \in BOOLEAN /\ item' = NoItems
          BY <3>2 DEF StartSnapshot
        <4> QED BY <3>1, <4>1, <4>2, <4>3
      <3>3. CASE ResumeSnapshot
        <4>1. runs' \in 0..MaxRuns
          BY <3>3, BoundsAssumption DEF ResumeSnapshot, TypeOK
        <4>2. /\ status' = "RUNNING" /\ blind' = FALSE
              /\ UNCHANGED <<processed, failed, item, mapping, content, checks, faults, torn>>
          BY <3>3 DEF ResumeSnapshot
        <4> QED BY <4>1, <4>2 DEF TypeOK
      <3> QED BY <1>2, <3>2, <3>3 DEF Starting
    <2>2. TypeOK'
      BY <1>2, <2>0, <2>1 DEF TypeOK, content, Ids, NoId, Exists, At, Pcs
    <2>3. RunShape'
      BY <1>2, <2>0, <2>1 DEF RunShape, RunRecords, Targets, Ids, NoId, At, Applying, Of, content
    <2> QED BY <2>2, <2>3
  <1>3. CASE Stop
    <2>1. TypeOK'
      BY <1>3, NoRunFacts, BoundsAssumption
         DEF Stop, Stopped, TypeOK, content, Ids, NoId, Exists, At, Pcs
    <2>2. RunShape'
      BY <1>3, NoRunFacts
         DEF Stop, RunShape, RunRecords, Targets, Ids, NoId, At, Applying, Of, content
    <2> QED BY <2>1, <2>2
  <1>4. ASSUME NEW i \in Ids, CreateLocal(i)
        PROVE  TypeOK' /\ RunShape'
    <2>1. -i \in DOMAIN origin
      BY <1>0
    <2>2. /\ origin' \in [-Len(source')..Len(source') -> Places]
          /\ \A k : Exists(k) => Exists(k)'
      BY <1>4, <2>1, OriginTyping DEF CreateLocal, Places
    <2>3. TypeOK'
      BY <1>4, <2>2 DEF CreateLocal, TypeOK, Ids, NoId, At, Places
    <2>4. RunShape'
      BY <1>4 DEF CreateLocal, RunShape, RunRecords, Targets, Ids, NoId, At, Applying, Of
    <2> QED BY <2>3, <2>4
  <1>5. CASE SkipItem
    <2>1. run.at \in Ids /\ TargetOf(run.at) \in Targets
      BY <1>5, TargetFacts DEF SkipItem, RunShape, Of
    <2>2. /\ run' \in RunRecords /\ run'.pc \in {"begin", "reconcile"}
          /\ run'.known \in [Ids -> Targets \cup {NoId}]
          /\ run'.pc = "begin" => run'.at \in Of(included)
      BY <1>5, <2>1, AdvanceFacts DEF SkipItem
    <2>3. TypeOK'
      BY <1>5, <2>2 DEF SkipItem, database, TypeOK, Ids, NoId, Exists, At, Pcs
    <2>4. RunShape'
      BY <1>5, <2>2
         DEF SkipItem, database, RunShape, RunRecords, Targets, Ids, NoId, At, Applying, Of
    <2> QED BY <2>3, <2>4
  <1>6. CASE BeginItem
    <2>1. run.at \in Ids /\ TargetOf(run.at) \in Targets
      BY <1>6, TargetFacts DEF BeginItem, RunShape, Of
    <2>2. /\ origin' \in [-Len(source')..Len(source') -> Places]
          /\ \A k : Exists(k) => Exists(k)'
      <3>1. CASE origin' = [origin EXCEPT ![0] = "ORPHAN"]
        BY <1>0, <1>6, <3>1, OriginTyping DEF BeginItem, Places
      <3>2. CASE origin' = origin
        BY <1>6, <3>2 DEF BeginItem, TypeOK, Exists, Places
      <3> QED BY <1>6, <3>1, <3>2, BeginFacts
    <2>3. item' \in [Ids' -> {"NONE"} \cup AnyItem]
      BY <1>6 DEF BeginItem, TypeOK, AnyItem, Ids
    <2>4. TypeOK'
      BY <1>6, <2>2, <2>3, BeginFacts DEF BeginItem, TypeOK, Ids, NoId, At, Pcs, Places
    <2>5. RunShape'
      BY <1>6, <2>1, BeginFacts
         DEF BeginItem, RunShape, RunRecords, Targets, Ids, NoId, At, Applying, Of
    <2> QED BY <2>4, <2>5
  <1>7. ASSUME Succeed
        PROVE  /\ run.at \in Ids /\ run.target \in Targets /\ run.known \in [Ids -> Int]
               /\ run' \in RunRecords /\ run'.pc = "map" /\ run'.ok = TRUE
               /\ run'.at = run.at /\ run'.target = run.target /\ run'.known = run.known
    <2>1. run' = [run EXCEPT !.pc = "map", !.ok = TRUE] /\ run \in RunRecords
      BY <1>7 DEF Succeed, RunShape
    <2>2. /\ run' \in RunRecords /\ run'.pc = "map" /\ run'.ok = TRUE
          /\ run'.at = run.at /\ run'.target = run.target /\ run'.known = run.known
      BY <2>1, GotoFacts DEF Pcs
    <2> QED BY <1>0, <1>7, <2>2 DEF Succeed, RunShape, Applying, Of, At, Targets
  <1>8. ASSUME Succeed, Kept' = Kept,
               \/ origin' = origin
               \/ origin' = [origin EXCEPT ![run.target] = Origin],
               (\A m \in members : Exists(m[1]) /\ Exists(m[2]))',
               (\A i \in Ids : pages[i] # NoId => Exists(pages[i]))',
               pages' \in [Ids -> Int], grants' = [i \in Ids |-> grants'[i]], notes' \subseteq Ids
        PROVE  TypeOK' /\ RunShape'
    <2>1. origin' \in [-Len(source')..Len(source') -> Places]
      <3>1. CASE origin' = [origin EXCEPT ![run.target] = Origin]
        BY <1>0, <1>7, <1>8, <3>1, OriginTyping DEF Origin, Places, Kept
      <3>2. CASE origin' = origin
        BY <1>8, <3>2 DEF TypeOK, Places, Kept
      <3> QED BY <1>8, <3>1, <3>2
    <2>2. UNCHANGED <<source, included, status, processed, failed, item, mapping, checks,
                      runs, faults, torn, blind>>
      BY <1>8 DEF Kept
    <2>3. Ids' = Ids /\ NoId' = NoId
      BY <2>2 DEF Ids, NoId
    <2>4. (\A m \in members : Exists(m[1]) /\ Exists(m[2]))'
      BY <1>8
    <2>5. (\A i \in Ids : pages[i] # NoId => Exists(pages[i]))'
      BY <1>8
    <2>6. (run.pc \in Pcs /\ (run.pc = "idle" <=> status # "RUNNING"))'
      BY <1>7, <1>8, <2>2 DEF Succeed, At, Pcs, TypeOK
    <2>7. TypeOK'
      BY <1>8, <2>1, <2>2, <2>3, <2>4, <2>5, <2>6 DEF TypeOK, Places
    <2>8. RunShape'
      BY <1>7, <1>8 DEF Succeed, Kept, RunShape, RunRecords, Targets, Ids, NoId, At, Applying, Of
    <2> QED BY <2>7, <2>8
  <1>9. CASE importUser \/ importGroup \/ importSpace
    <2>1. PICK entity : ImportNamed(entity)
      BY <1>9 DEF importUser, importGroup, importSpace
    <2>2. \A k : Exists(k) => Exists(k)'
      BY <1>0, <1>7, <2>1, OriginTyping DEF ImportNamed, Origin, Places, Kept
    <2> QED BY <1>8, <2>1, <2>2 DEF ImportNamed, Kept, TypeOK, RunShape, Exists, Ids, NoId
  <1>10. CASE importMembership
    <2>1. /\ Exists(run.known[This.of]) /\ Exists(run.known[This.member])
          /\ \A k : Exists(k)' <=> Exists(k)
      BY <1>10 DEF importMembership, Succeed, Fits, Exists
    <2>2. \A m \in members' : Exists(m[1])' /\ Exists(m[2])'
      BY <1>10, <2>1 DEF importMembership, TypeOK
    <2> QED BY <1>8, <1>10, <2>1, <2>2 DEF importMembership, Kept, TypeOK, RunShape, Exists, Ids, NoId
  <1>11. CASE importPage
    <2>1. Exists(run.space) /\ run.space \in Int /\ \A k : Exists(k)' <=> Exists(k)
      BY <1>11 DEF importPage, Succeed, Fits, Exists, RunShape, RunRecords
    <2> QED BY <1>7, <1>8, <1>11, <2>1 DEF importPage, Kept, TypeOK, RunShape, Exists, Ids, NoId
  <1>12. CASE importNote
    <2>1. \A k : Exists(k)' <=> Exists(k)
      BY <1>12 DEF importNote, Exists
    <2> QED BY <1>7, <1>8, <1>12, <2>1 DEF importNote, Kept, TypeOK, RunShape, Exists, Ids, NoId
  <1>13. CASE importPermission
    <2>1. \A k : Exists(k)' <=> Exists(k)
      BY <1>13 DEF importPermission, Exists
    <2>2. grants' = [i \in Ids |-> grants'[i]]
      BY <1>7, <1>13 DEF importPermission, RunShape
    <2> QED BY <1>7, <1>8, <1>13, <2>1, <2>2 DEF importPermission, Kept, TypeOK, RunShape, Exists, Ids, NoId
  <1>14. CASE FailRecord
    <2>1. /\ run' \in RunRecords /\ run'.pc = "finish"
          /\ run'.at = run.at /\ run'.target = run.target /\ run'.known = run.known
      BY <1>14, GotoFacts DEF FailRecord, RunShape, Pcs
    <2>2. faults' \in 0..MaxFaults
      BY <1>14, BoundsAssumption DEF FailRecord, Fault, TypeOK
    <2>3. TypeOK'
      BY <1>14, <2>1, <2>2 DEF FailRecord, database, TypeOK, Ids, NoId, Exists, At, Pcs
    <2>4. RunShape'
      BY <1>14, <2>1
         DEF FailRecord, database, RunShape, RunRecords, Targets, Ids, NoId, At, Applying, Of
    <2> QED BY <2>3, <2>4
  <1>15. CASE UpsertMapping
    <2>1. /\ run' \in RunRecords /\ run'.pc = "finish"
          /\ run'.at = run.at /\ run'.target = run.target /\ run'.known = run.known
      BY <1>15, GotoFacts DEF UpsertMapping, Goto, RunShape, RunRecords, Pcs
    <2>2. faults' \in 0..MaxFaults
      BY <1>15, BoundsAssumption DEF UpsertMapping, Fault, TypeOK
    <2>3. mapping' \in [Ids -> Ids \cup {-i : i \in Ids} \cup {NoId}]
      BY <1>15 DEF UpsertMapping, MappedTarget, TypeOK, RunShape, Applying, At, Targets
    <2>4. TypeOK'
      BY <1>15, <2>1, <2>2, <2>3
         DEF UpsertMapping, content, TypeOK, Ids, NoId, Exists, At, Pcs
    <2>5. RunShape'
      BY <1>15, <2>1
         DEF UpsertMapping, content, RunShape, RunRecords, Targets, Ids, NoId, At, Applying, Of
    <2> QED BY <2>4, <2>5
  <1>16. CASE FinishItem
    <2>1. /\ run' \in RunRecords /\ run'.pc = "count"
          /\ run'.at = run.at /\ run'.target = run.target /\ run'.known = run.known
      BY <1>16, GotoFacts DEF FinishItem, Goto, RunShape, RunRecords, Pcs
    <2>2. item' \in [Ids -> {"NONE"} \cup AnyItem]
      BY <1>16 DEF FinishItem, TypeOK, AnyItem
    <2>3. TypeOK'
      BY <1>16, <2>1, <2>2 DEF FinishItem, content, TypeOK, Ids, NoId, Exists, At, Pcs
    <2>4. RunShape'
      BY <1>16, <2>1
         DEF FinishItem, content, RunShape, RunRecords, Targets, Ids, NoId, At, Applying, Of
    <2> QED BY <2>3, <2>4
  <1>17. CASE CountItem
    <2>1. run.target \in Targets /\ Applying
      BY <1>17 DEF CountItem, RunShape, At, Applying
    <2>2. /\ run' \in RunRecords /\ run'.pc \in {"begin", "reconcile"}
          /\ run'.known \in [Ids -> Targets \cup {NoId}]
          /\ run'.pc = "begin" => run'.at \in Of(included)
      BY <1>17, <2>1, AdvanceFacts DEF CountItem
    <2>3. processed' \in Nat /\ failed' \in Nat
      BY <1>17 DEF CountItem, ProcessedDelta, FailedDelta, TypeOK
    <2>4. TypeOK'
      BY <1>17, <2>2, <2>3 DEF CountItem, content, TypeOK, Ids, NoId, Exists, At, Pcs
    <2>5. RunShape'
      BY <1>17, <2>2
         DEF CountItem, content, RunShape, RunRecords, Targets, Ids, NoId, At, Applying, Of
    <2> QED BY <2>4, <2>5
  <1>18. CASE reconcile
    <2>1. /\ run' \in RunRecords /\ run'.pc \in {"reconcile", "end"}
          /\ run.pc = "reconcile" /\ run'.known = run.known
      BY <1>18, ChecksCounted DEF RunShape
    <2>2. /\ faults' \in 0..MaxFaults /\ blind' \in BOOLEAN
          /\ checks' \in [Entities -> {"NONE", "PASS", "FAIL"}]
      BY <1>18, CheckFacts DEF reconcile
    <2>3. TypeOK'
      BY <1>18, <2>1, <2>2 DEF reconcile, content, TypeOK, Ids, NoId, Exists, At, Pcs
    <2>4. RunShape'
      BY <1>18, <2>1
         DEF reconcile, content, RunShape, RunRecords, Targets, Ids, NoId, At, Applying, Of
    <2> QED BY <2>3, <2>4
  <1>19. CASE EndJob
    <2>1. \A statuses : Items(Entities, statuses) \in Nat
      <3> SUFFICES ASSUME NEW statuses
                   PROVE  Cardinality({i \in Of(Entities) : item[i] \in statuses}) \in Nat
        BY DEF Items
      <3> QED BY SourceFacts, FS_Subset, FS_CardinalityType DEF Of
    <2>2. processed' \in Nat /\ failed' \in Nat /\ faults' \in 0..MaxFaults
      BY <1>19, <2>1, BoundsAssumption DEF EndJob, Fault, Errors, TypeOK
    <2>3. /\ status' \in {"COMPLETED_WITH_ERRORS", "COMPLETE"}
          /\ torn' \in BOOLEAN /\ blind' \in BOOLEAN
      BY <1>19 DEF EndJob, TypeOK
    <2>4. TypeOK'
      BY <1>19, <2>2, <2>3, NoRunFacts DEF EndJob, content, TypeOK, Ids, NoId, Exists, At, Pcs
    <2>5. RunShape'
      BY <1>19, NoRunFacts
         DEF EndJob, content, RunShape, RunRecords, Targets, Ids, NoId, At, Applying, Of
    <2> QED BY <2>4, <2>5
  <1>20. ASSUME NEW k \in 1..LastCheck, Reconciliation(k)
        PROVE  TypeOK' /\ RunShape'
    <2>1. /\ faults' \in 0..MaxFaults /\ blind' \in BOOLEAN
          /\ checks' \in [Entities -> {"NONE", "PASS", "FAIL"}]
      BY <1>20, CheckFacts DEF Reconciliation
    <2>2. TypeOK'
      BY <1>20, <2>1 DEF Reconciliation, content, TypeOK, Ids, NoId, Exists, At, Pcs
    <2>3. RunShape'
      BY <1>20 DEF Reconciliation, content, RunShape, RunRecords, Targets, Ids, NoId, At,
                   Applying, Of
    <2> QED BY <2>2, <2>3
  <1> QED BY <1>1, <1>2, <1>3, <1>4, <1>5, <1>6, <1>9, <1>10, <1>11, <1>12, <1>13, <1>14,
             <1>15, <1>16, <1>17, <1>18, <1>19, <1>20
          DEF Next, Starting, TypeOK, ResumeSnapshot

-----------------------------------------------------------------------------
(* What the steps do to a run                                              *)

SameRecord ==
  /\ run'.at = run.at /\ run'.target = run.target /\ run'.space = run.space
  /\ run'.previous = run.previous /\ run'.known = run.known

ImportStep ==
  \/ importUser \/ importGroup \/ importSpace \/ importMembership
  \/ importPage \/ importNote \/ importPermission

\* The next record, or the end of the job's records.
NextRecord(target) ==
  /\ run'.previous = "NONE" /\ run'.known = [run.known EXCEPT ![run.at] = target]
  /\ \/ /\ run'.pc = "reconcile" /\ run'.at = NoId
        /\ \A j \in Of(included) : j <= run.at
     \/ /\ run'.pc = "begin" /\ run'.at \in Of(included)
        /\ \A j \in Of(included) : j < run'.at => j <= run.at

LEMMA RunSteps ==
  ASSUME TypeOK, RunShape
  PROVE  /\ SkipItem => NextRecord(TargetOf(run.at))
         /\ BeginItem =>
              /\ run'.pc = "work" /\ run'.at = run.at /\ run'.target = TargetOf(run.at)
              /\ run'.known = run.known /\ run'.previous = item[run.at]
              /\ This.entity = "PAGE" => run'.space = resolveSpace(This)
         /\ ImportStep => run'.pc = "map" /\ run'.ok = TRUE /\ SameRecord
         /\ FailRecord => run'.pc = "finish" /\ run'.ok = FALSE /\ SameRecord
         /\ UpsertMapping => /\ run'.pc = "finish" /\ SameRecord
                             /\ \/ /\ mapping' = [mapping EXCEPT ![run.at] = run.target]
                                   /\ run'.ok = run.ok
                                \/ mapping' = mapping /\ run'.ok = FALSE
         /\ FinishItem => run'.pc = "count" /\ run'.ok = run.ok /\ SameRecord
         /\ CountItem => NextRecord(run.target)
         /\ reconcile => /\ run.pc = "reconcile" /\ run'.pc \in {"reconcile", "end"}
                         /\ run'.previous = run.previous /\ run'.known = run.known
  <1>0. run \in RunRecords
    BY DEF RunShape
  <1>1. ASSUME SkipItem PROVE NextRecord(TargetOf(run.at))
    <2>1. run.at \in Ids /\ TargetOf(run.at) \in Targets
      BY <1>1, TargetFacts DEF SkipItem, RunShape, Of
    <2> QED BY <1>1, <2>1, AdvanceFacts DEF SkipItem, NextRecord
  <1>2. ASSUME ImportStep PROVE run'.pc = "map" /\ run'.ok = TRUE /\ SameRecord
    <2>1. run' = [run EXCEPT !.pc = "map", !.ok = TRUE]
      BY <1>2 DEF ImportStep, Succeed, importUser, importGroup, importSpace, ImportNamed,
                  importMembership, importPage, importNote, importPermission
    <2> QED BY <1>0, <2>1, GotoFacts DEF Pcs, SameRecord
  <1>3. ASSUME FailRecord PROVE run'.pc = "finish" /\ run'.ok = FALSE /\ SameRecord
    <2>1. run' = [run EXCEPT !.pc = "finish", !.ok = FALSE]
      BY <1>3 DEF FailRecord
    <2> QED BY <1>0, <2>1, GotoFacts DEF Pcs, SameRecord
  <1>4. ASSUME UpsertMapping
        PROVE  /\ run'.pc = "finish" /\ SameRecord
               /\ \/ mapping' = [mapping EXCEPT ![run.at] = run.target] /\ run'.ok = run.ok
                  \/ mapping' = mapping /\ run'.ok = FALSE
    <2>1. CASE /\ mapping' = [mapping EXCEPT ![run.at] = MappedTarget] /\ Goto("finish")
      BY <1>0, <2>1, GotoFacts DEF Goto, MappedTarget, Pcs, SameRecord, RunRecords
    <2>2. CASE run' = [run EXCEPT !.pc = "finish", !.ok = FALSE] /\ mapping' = mapping
      BY <1>0, <2>2, GotoFacts DEF Pcs, SameRecord
    <2> QED BY <1>4, <2>1, <2>2 DEF UpsertMapping
  <1>5. ASSUME FinishItem PROVE run'.pc = "count" /\ run'.ok = run.ok /\ SameRecord
    BY <1>0, <1>5, GotoFacts DEF FinishItem, Goto, Pcs, SameRecord, RunRecords
  <1>6. ASSUME CountItem PROVE NextRecord(run.target)
    BY <1>6, AdvanceFacts DEF CountItem, NextRecord, RunShape, At, Applying
  <1>7. ASSUME reconcile
        PROVE  /\ run.pc = "reconcile" /\ run'.pc \in {"reconcile", "end"}
               /\ run'.previous = run.previous /\ run'.known = run.known
    BY <1>0, <1>7, ChecksCounted
  <1> QED BY <1>1, <1>2, <1>3, <1>4, <1>5, <1>6, <1>7, BeginFacts

\* What a statement of an importer leaves alone, besides its own table.
LEMMA ImportFrame ==
  ASSUME ImportStep
  PROVE  /\ At("work") /\ Fits(This)
         /\ UNCHANGED <<source, included, status, processed, failed, item, mapping, checks,
                        runs, faults, torn, blind>>
  BY DEF ImportStep, Succeed, importUser, importGroup, importSpace, ImportNamed, Kept,
         importMembership, importPage, importNote, importPermission

\* A reconciliation of its own, and what it leaves alone.
Recheck == \E k \in 1..LastCheck : Reconciliation(k)

LEMMA RecheckFrame ==
  ASSUME Recheck
  PROVE  /\ status \in {"COMPLETE", "COMPLETED_WITH_ERRORS"}
         /\ UNCHANGED <<source, included, status, processed, failed, item, mapping, content,
                        origin, members, pages, notes, grants, run, runs, torn>>
  BY DEF Recheck, Reconciliation, content

\* The steps, by what they are to the invariant.
LEMMA StepKinds ==
  ASSUME TypeOK, [Next]_vars
  PROVE  \/ UNCHANGED vars
         \/ \E options \in Included : Starting(options)
         \/ Stop \/ \E i \in Ids : CreateLocal(i)
         \/ SkipItem \/ BeginItem \/ ImportStep
         \/ FailRecord \/ UpsertMapping \/ FinishItem \/ CountItem \/ reconcile \/ EndJob
         \/ Recheck
  BY DEF Next, Starting, ImportStep, ResumeSnapshot, TypeOK, Recheck

-----------------------------------------------------------------------------
(* The item of the current record                                          *)

LEMMA OpenStep ==
  ASSUME TypeOK, RunShape, OneItemOpen, [Next]_vars
  PROVE  OneItemOpen'
  <1> USE DEF OneItemOpen, Applying, At
  <1>1. CASE UNCHANGED vars
    BY <1>1 DEF vars, database
  <1>2. CASE \E options \in Included : Starting(options)
    BY <1>2, StartFacts
  <1>3. CASE Stop
    BY <1>3, NoRunFacts DEF Stop
  <1>4. CASE (\E i \in Ids : CreateLocal(i)) \/ Recheck
    BY <1>4, RecheckFrame DEF CreateLocal
  <1>5. CASE SkipItem \/ CountItem
    BY <1>5, RunSteps DEF NextRecord
  <1>6. CASE BeginItem
    BY <1>6, RunSteps DEF BeginItem, TypeOK, RunShape, Of
  <1>7. CASE ImportStep
    BY <1>7, RunSteps, ImportFrame DEF SameRecord
  <1>8. CASE FailRecord
    BY <1>8, RunSteps DEF SameRecord, FailRecord, database
  <1>9. CASE UpsertMapping
    BY <1>9, RunSteps DEF SameRecord, UpsertMapping
  <1>10. CASE FinishItem
    BY <1>10, RunSteps DEF SameRecord, FinishItem, TypeOK, RunShape, Of
  <1>11. CASE reconcile
    BY <1>11, RunSteps
  <1>12. CASE EndJob
    BY <1>12, NoRunFacts DEF EndJob
  <1> QED BY <1>1, <1>2, <1>3, <1>4, <1>5, <1>6, <1>7, <1>8, <1>9, <1>10, <1>11, <1>12, StepKinds

-----------------------------------------------------------------------------
(* Records in order, and their counts                                      *)

LEMMA ItemsFacts ==
  ASSUME TypeOK, NEW S
  PROVE  /\ Items(Entities, S) = Cardinality({j \in Ids : item[j] \in S})
         /\ IsFiniteSet({j \in Ids : item[j] \in S}) /\ Items(Entities, S) \in Nat
         /\ Items(Entities, S) = 0 => \A j \in Ids : item[j] \notin S
  <1>1. Of(Entities) = Ids
    BY SourceFacts DEF Of, Fields
  <1>2. IsFiniteSet({j \in Ids : item[j] \in S})
    BY SourceFacts, FS_Subset
  <1>3. Items(Entities, S) = Cardinality({j \in Ids : item[j] \in S})
    BY <1>1 DEF Items
  <1> QED BY <1>2, <1>3, FS_CardinalityType, FS_EmptySet

\* One item that changes changes a count by what it was and what it becomes.
LEMMA ItemChange ==
  ASSUME TypeOK, NEW i \in Ids, NEW v \in AnyItem, NEW S, TypeOK', source' = source,
         item' = [item EXCEPT ![i] = v]
  PROVE  Items(Entities, S)' = Items(Entities, S) - (IF item[i] \in S THEN 1 ELSE 0)
                                                  + (IF v \in S THEN 1 ELSE 0)
  <1> DEFINE T == {j \in Ids : item[j] \in S}
             U == {j \in Ids : item'[j] \in S}
             V == T \ {i}
  <1>1. /\ Items(Entities, S) = Cardinality(T) /\ IsFiniteSet(T)
        /\ Cardinality(T) \in Nat
    BY ItemsFacts
  <1>2. Items(Entities, S)' = Cardinality(U)
    <2>1. Of(Entities)' = Ids
      BY SourceFacts DEF Of, Fields, Ids
    <2> QED BY <2>1 DEF Items
  <1>3. item' \in [Ids -> {"NONE"} \cup AnyItem] /\ item'[i] = v
        /\ \A j \in Ids : j # i => item'[j] = item[j]
    BY DEF TypeOK
  <1>4. U = IF v \in S THEN V \cup {i} ELSE V
    BY <1>3
  <1>5. i \in T <=> item[i] \in S
    OBVIOUS
  <1> HIDE DEF T, U
  <1>6. /\ IsFiniteSet(V)
        /\ Cardinality(V) = IF i \in T THEN Cardinality(T) - 1 ELSE Cardinality(T)
    BY <1>1, FS_RemoveElement
  <1>7. i \notin V
    OBVIOUS
  <1> HIDE DEF V
  <1>8. Cardinality(V \cup {i}) = Cardinality(V) + 1
    BY <1>6, <1>7, FS_AddElement
  <1> QED BY <1>1, <1>2, <1>4, <1>5, <1>6, <1>8

LEMMA OrderStep ==
  ASSUME TypeOK, RunShape, OneItemOpen, InOrder, [Next]_vars
  PROVE  InOrder'
  <1> USE DEF InOrder, Applying, At
  <1>0. Ids \subseteq Nat
    BY SourceFacts
  <1>1. CASE UNCHANGED vars
    BY <1>1 DEF vars, database, Of, Ids
  <1>2. CASE \E options \in Included : Starting(options)
    <2>1. PICK options \in Included : Starting(options)
      BY <1>2
    <2>2. /\ source' = source /\ included' = options /\ status' = "RUNNING"
      BY <2>1, StartFacts DEF Starting, StartSnapshot, ResumeSnapshot
    <2>3. Of(included)' = Of(options)
      BY <2>2 DEF Of, Ids
    <2>4. \/ run'.pc = "reconcile" /\ Of(options) = {}
          \/ /\ run'.pc = "begin" /\ run'.at \in Of(options)
             /\ \A j \in Of(options) : run'.at <= j
      BY <2>1, StartFacts
    <2>5. ASSUME NEW j \in Of(options), run'.pc = "begin", j < run'.at
          PROVE  FALSE
      <3>1. j \in Nat /\ run'.at \in Nat /\ run'.at <= j
        BY <1>0, <2>4, <2>5 DEF Of
      <3> QED BY <2>5, <3>1
    <2> QED BY <2>2, <2>3, <2>4, <2>5
  <1>3. CASE Stop
    BY <1>3, NoRunFacts DEF Stop, Stopped
  <1>4. CASE \E i \in Ids : CreateLocal(i)
    <2>1. UNCHANGED <<source, included, status, item, run, blind>>
      BY <1>4 DEF CreateLocal
    <2>2. Of(included)' = Of(included)
      BY <2>1 DEF Of, Ids
    <2> QED BY <2>1, <2>2
  <1>5. CASE SkipItem \/ CountItem
    <2>1. /\ source' = source /\ included' = included /\ item' = item
          /\ status' = status /\ status = "RUNNING" /\ item[run.at] \in Closed
          /\ \A j \in Of(included) : j < run.at => item[j] \in Closed
          /\ run.at \in Ids
      BY <1>5 DEF SkipItem, CountItem, database, TypeOK, OneItemOpen, Closed, RunShape, Of
    <2>2. ASSUME NEW j \in Of(included), j <= run.at
          PROVE  item[j] \in Closed
      <3>1. j \in Nat /\ run.at \in Nat
        BY <1>0, <2>1 DEF Of
      <3>2. j = run.at \/ j < run.at
        BY <2>2, <3>1
      <3> QED BY <2>1, <3>2
    <2>3. Of(included)' = Of(included)
      BY <2>1 DEF Of, Ids
    <2> QED BY <1>5, <2>1, <2>2, <2>3, RunSteps DEF NextRecord
  <1>6. CASE BeginItem
    <2>1. /\ source' = source /\ included' = included /\ status' = "RUNNING"
          /\ run.at \in Ids /\ \A j \in Ids : j # run.at => item'[j] = item[j]
          /\ run'.pc = "work" /\ run'.at = run.at
      BY <1>6, RunSteps DEF BeginItem, TypeOK, RunShape, Of
    <2>2. Of(included)' = Of(included)
      BY <2>1 DEF Of, Ids
    <2> QED BY <1>0, <1>6, <2>1, <2>2 DEF BeginItem, Of
  <1>7. CASE ImportStep \/ FailRecord \/ UpsertMapping
    <2>1. /\ source' = source /\ included' = included /\ status' = "RUNNING" /\ item' = item
          /\ run'.pc \in {"map", "finish"} /\ run'.at = run.at /\ Applying
      BY <1>7, RunSteps, ImportFrame
         DEF FailRecord, UpsertMapping, database, TypeOK, SameRecord
    <2>2. Of(included)' = Of(included)
      BY <2>1 DEF Of, Ids
    <2> QED BY <2>1, <2>2
  <1>8. CASE FinishItem
    <2>1. /\ source' = source /\ included' = included /\ status' = "RUNNING"
          /\ run.at \in Ids /\ \A j \in Ids : j # run.at => item'[j] = item[j]
          /\ run'.pc = "count" /\ run'.at = run.at /\ Applying
      BY <1>8, RunSteps DEF FinishItem, TypeOK, RunShape, Of, SameRecord
    <2>2. Of(included)' = Of(included)
      BY <2>1 DEF Of, Ids
    <2>3. ASSUME NEW j \in Of(included), j < run.at
          PROVE  item'[j] \in Closed
      <3>1. j \in Ids /\ j # run.at
        BY <1>0, <2>1, <2>3 DEF Of
      <3> QED BY <2>1, <2>3, <3>1
    <2> QED BY <2>1, <2>2, <2>3
  <1>9. CASE reconcile
    <2>1. /\ source' = source /\ included' = included /\ status' = "RUNNING" /\ item' = item
          /\ run'.pc \in {"reconcile", "end"} /\ run.pc = "reconcile"
      BY <1>9, RunSteps DEF reconcile, TypeOK
    <2>2. Of(included)' = Of(included)
      BY <2>1 DEF Of, Ids
    <2> QED BY <2>1, <2>2
  <1>10. CASE EndJob
    <2>1. /\ source' = source /\ included' = included /\ item' = item
          /\ run'.pc = "idle" /\ \A j \in Of(included) : item[j] \in Closed
      BY <1>10, NoRunFacts DEF EndJob
    <2>2. Of(included)' = Of(included)
      BY <2>1 DEF Of, Ids
    <2>3. status' = "COMPLETE" /\ ~blind' => ~(Errors > 0)
      BY <1>10 DEF EndJob
    <2>4. ~(Errors > 0) => \A j \in Ids : item[j] # "FAILED"
      <3>1. Errors \in Nat /\ (Errors = 0 => \A j \in Ids : item[j] \notin {"FAILED"})
        BY ItemsFacts DEF Errors
      <3> QED BY <3>1
    <2> QED BY <2>1, <2>2, <2>3, <2>4 DEF Of, Closed
  <1>11. CASE Recheck
    <2>1. UNCHANGED <<source, included, status, item, run>>
      BY <1>11, RecheckFrame
    <2>3. ~blind' => ~blind
      BY <1>11, CheckFacts DEF Recheck, Reconciliation
    <2>2. Of(included)' = Of(included)
      BY <2>1 DEF Of, Ids
    <2> QED BY <2>1, <2>2, <2>3
  <1> QED BY <1>1, <1>2, <1>3, <1>4, <1>5, <1>6, <1>7, <1>8, <1>9, <1>10, <1>11, StepKinds

LEMMA CountStep ==
  ASSUME TypeOK, RunShape, OneItemOpen, Counted, [Next]_vars, TypeOK'
  PROVE  Counted'
  <1> USE DEF Counted, Applying, At
  <1>0. /\ Items(Entities, Closed) \in Nat /\ Items(Entities, {"FAILED"}) \in Nat
        /\ processed \in Nat /\ failed \in Nat
    BY ItemsFacts DEF TypeOK
  <1>1. ASSUME source' = source, item' = item
        PROVE  /\ Items(Entities, Closed)' = Items(Entities, Closed)
               /\ Items(Entities, {"FAILED"})' = Items(Entities, {"FAILED"})
    BY <1>1 DEF Items, Of, Ids, Closed
  <1>2. ASSUME NEW v \in AnyItem, source' = source, item' = [item EXCEPT ![run.at] = v],
               run.at \in Ids
        PROVE  /\ Items(Entities, Closed)'
                    = Items(Entities, Closed) - (IF item[run.at] \in Closed THEN 1 ELSE 0)
                                              + (IF v \in Closed THEN 1 ELSE 0)
               /\ Items(Entities, {"FAILED"})'
                    = Items(Entities, {"FAILED"}) - (IF item[run.at] = "FAILED" THEN 1 ELSE 0)
                                                  + (IF v = "FAILED" THEN 1 ELSE 0)
    <2>1. \A S : Items(Entities, S)' = Items(Entities, S) - (IF item[run.at] \in S THEN 1 ELSE 0)
                                                          + (IF v \in S THEN 1 ELSE 0)
      BY <1>2, ItemChange
    <2>2. Closed' = Closed
      BY DEF Closed
    <2> QED BY <2>1, <2>2
  <1>3. CASE UNCHANGED vars
    BY <1>1, <1>3 DEF vars, database, Redone
  <1>4. CASE \E options \in Included : Starting(options)
    <2>1. PICK options \in Included : Starting(options)
      BY <1>4
    <2>2. /\ source' = source /\ run'.pc \in {"begin", "reconcile"} /\ run'.previous = "NONE"
      BY <2>1, StartFacts
    <2>3. CASE StartSnapshot(options)
      <3>1. /\ item' = NoItems /\ processed' = 0 /\ failed' = 0
        BY <2>3 DEF StartSnapshot
      <3>2. \A j \in Ids' : item'[j] = "NONE"
        BY <2>2, <3>1 DEF NoItems, Ids
      <3>3. Items(Entities, Closed)' = 0 /\ Items(Entities, {"FAILED"})' = 0
        <4>1. {i \in Of(Entities)' : item'[i] \in Closed} = {}
          BY <3>2 DEF Of, Closed
        <4>2. {i \in Of(Entities)' : item'[i] \in {"FAILED"}} = {}
          BY <3>2 DEF Of
        <4>3. Closed' = Closed
          BY DEF Closed
        <4> QED BY <4>1, <4>2, <4>3, FS_EmptySet DEF Items
      <3>4. Redone' = 0 /\ ~(run'.pc = "count")
        BY <2>2 DEF Redone
      <3>5. /\ processed' = Items(Entities, Closed)' + Redone' - 0
            /\ failed' = Items(Entities, {"FAILED"})' + Redone' - 0
        BY <3>1, <3>3, <3>4
      <3> QED BY <3>4, <3>5
    <2>4. CASE ResumeSnapshot
      <3>1. /\ item' = item /\ processed' = processed /\ failed' = failed /\ torn' = torn
            /\ status # "COMPLETE" /\ run.pc = "idle"
        BY <2>4 DEF ResumeSnapshot, TypeOK
      <3> QED BY <1>0, <1>1, <2>2, <3>1 DEF Redone
    <2> QED BY <2>1, <2>3, <2>4 DEF Starting
  <1>5. CASE Stop
    <2>1. /\ source' = source /\ item' = item /\ processed' = processed /\ failed' = failed
          /\ torn' = (torn \/ run.pc = "count"
                        \/ (run.pc \in {"work", "map", "finish"} /\ run.previous = "FAILED"))
          /\ run'.pc = "idle" /\ status = "RUNNING"
      BY <1>5, NoRunFacts DEF Stop
    <2>2. ~torn' => Redone = 0 /\ run.pc # "count" /\ ~torn
      BY <2>1 DEF Redone
    <2> QED BY <1>0, <1>1, <2>1, <2>2 DEF Redone
  <1>6. CASE (\E i \in Ids : CreateLocal(i)) \/ Recheck
    <2>1. UNCHANGED <<source, item, status, processed, failed, run, torn>>
      BY <1>6, RecheckFrame DEF CreateLocal
    <2> QED BY <1>1, <2>1 DEF Redone
  <1>7. CASE SkipItem
    <2>1. /\ UNCHANGED <<source, item, status, processed, failed, torn>>
          /\ run.pc = "begin"
      BY <1>7 DEF SkipItem, database
    <2>2. run'.pc \in {"begin", "reconcile"} /\ run'.previous = "NONE"
      BY <1>7, RunSteps DEF NextRecord
    <2>3. run.previous = "FAILED" => Redone = 0
      BY <2>1 DEF Redone
    <2> QED BY <1>0, <1>1, <2>1, <2>2 DEF Redone
  <1>8. CASE BeginItem
    <2>1. /\ UNCHANGED <<source, status, processed, failed, torn>> /\ run.pc = "begin"
          /\ item' = [item EXCEPT ![run.at] = "RUNNING"] /\ item[run.at] # "COMPLETE"
          /\ run.at \in Ids
      BY <1>8 DEF BeginItem, RunShape, Of
    <2>2. run'.pc = "work" /\ run'.previous = item[run.at]
      BY <1>8, RunSteps
    <2> QED BY <1>0, <1>2, <2>1, <2>2 DEF Redone, AnyItem, Closed
  <1>9. CASE ImportStep \/ FailRecord \/ UpsertMapping
    <2>1. /\ UNCHANGED <<source, item, status, processed, failed, torn>>
          /\ run.pc \in {"work", "map"}
      BY <1>9, ImportFrame DEF FailRecord, UpsertMapping, database
    <2>2. run'.pc \in {"map", "finish"} /\ run'.previous = run.previous
      BY <1>9, RunSteps DEF SameRecord
    <2> QED BY <1>0, <1>1, <2>1, <2>2 DEF Redone
  <1>10. CASE FinishItem
    <2>1. /\ UNCHANGED <<source, status, processed, failed, torn>> /\ run.pc = "finish"
          /\ item' = [item EXCEPT ![run.at] = IF run.ok THEN "COMPLETE" ELSE "FAILED"]
          /\ item[run.at] = "RUNNING" /\ run.at \in Ids
      BY <1>10 DEF FinishItem, RunShape, Of, OneItemOpen
    <2>2. run'.pc = "count" /\ run'.previous = run.previous /\ run'.ok = run.ok
      BY <1>10, RunSteps DEF SameRecord
    <2>3. Redone' = Redone /\ Redone \in {0, 1}
      BY <2>1, <2>2 DEF Redone
    <2>4. CASE run.ok
      <3>1. item' = [item EXCEPT ![run.at] = "COMPLETE"] /\ "COMPLETE" \in AnyItem
        BY <2>1, <2>4 DEF AnyItem
      <3>2. /\ Items(Entities, Closed)' = Items(Entities, Closed) + 1
            /\ Items(Entities, {"FAILED"})' = Items(Entities, {"FAILED"})
        <4>1. /\ Items(Entities, Closed)'
                   = Items(Entities, Closed) - (IF item[run.at] \in Closed THEN 1 ELSE 0)
                                             + (IF "COMPLETE" \in Closed THEN 1 ELSE 0)
              /\ Items(Entities, {"FAILED"})'
                   = Items(Entities, {"FAILED"}) - (IF item[run.at] = "FAILED" THEN 1 ELSE 0)
                                                 + (IF "COMPLETE" = "FAILED" THEN 1 ELSE 0)
          BY <1>2, <2>1, <3>1
        <4> QED BY <1>0, <2>1, <4>1 DEF Closed
      <3> QED BY <1>0, <2>1, <2>2, <2>3, <2>4, <3>2
    <2>5. CASE ~run.ok
      <3>1. item' = [item EXCEPT ![run.at] = "FAILED"] /\ "FAILED" \in AnyItem
        BY <2>1, <2>5 DEF AnyItem
      <3>2. /\ Items(Entities, Closed)' = Items(Entities, Closed) + 1
            /\ Items(Entities, {"FAILED"})' = Items(Entities, {"FAILED"}) + 1
        <4>1. /\ Items(Entities, Closed)'
                   = Items(Entities, Closed) - (IF item[run.at] \in Closed THEN 1 ELSE 0)
                                             + (IF "FAILED" \in Closed THEN 1 ELSE 0)
              /\ Items(Entities, {"FAILED"})'
                   = Items(Entities, {"FAILED"}) - (IF item[run.at] = "FAILED" THEN 1 ELSE 0)
                                                 + (IF "FAILED" = "FAILED" THEN 1 ELSE 0)
          BY <1>2, <2>1, <3>1
        <4> QED BY <1>0, <2>1, <4>1 DEF Closed
      <3> QED BY <1>0, <2>1, <2>2, <2>3, <2>5, <3>2
    <2> QED BY <2>4, <2>5
  <1>11. CASE CountItem
    <2>1. /\ UNCHANGED <<source, item, status, torn>> /\ run.pc = "count"
          /\ processed' = processed + ProcessedDelta
          /\ failed' = LET n == failed + FailedDelta IN IF n < 0 THEN 0 ELSE n
      BY <1>11 DEF CountItem
    <2>2. run'.pc \in {"begin", "reconcile"} /\ run'.previous = "NONE"
      BY <1>11, RunSteps DEF NextRecord
    <2>3. /\ ProcessedDelta = 1 - Redone
          /\ FailedDelta = (IF run.ok THEN 0 ELSE 1) - Redone
      BY <2>1 DEF ProcessedDelta, FailedDelta, Redone, OneItemOpen
    <2>4. Redone \in {0, 1}
      BY DEF Redone
    <2> QED BY <1>0, <1>1, <2>1, <2>2, <2>3, <2>4 DEF Redone
  <1>12. CASE reconcile
    <2>1. /\ UNCHANGED <<source, item, status, processed, failed, torn>>
          /\ run.pc = "reconcile"
      BY <1>12 DEF reconcile
    <2>2. run'.pc \in {"reconcile", "end"} /\ run'.previous = run.previous
      BY <1>12, RunSteps
    <2> QED BY <1>0, <1>1, <2>1, <2>2 DEF Redone
  <1>13. CASE EndJob
    <2>1. /\ UNCHANGED <<source, item>> /\ run'.pc = "idle"
          /\ \/ status' = "COMPLETE"
             \/ processed' = Items(Entities, {"COMPLETE", "FAILED"}) /\ failed' = Errors
      BY <1>13, NoRunFacts DEF EndJob
    <2> QED BY <1>0, <1>1, <2>1 DEF Redone, Errors, Closed
  <1> QED BY <1>3, <1>4, <1>5, <1>6, <1>7, <1>8, <1>9, <1>10, <1>11, <1>12, <1>13, StepKinds

-----------------------------------------------------------------------------
(* Names and rows                                                          *)

\* No step removes a row or takes it away from the import, and only the
\* importers of the current record overwrite its page or its permission.
Growing ==
  /\ source' = source /\ DOMAIN origin' = DOMAIN origin
  /\ \A id \in DOMAIN origin : origin[id] # "NONE" => origin'[id] # "NONE"
  /\ \A id \in DOMAIN origin \ {0} : origin[id] = "CONFLUENCE" => origin'[id] = "CONFLUENCE"
  /\ members \subseteq members' /\ notes \subseteq notes'
  /\ \A i \in Ids : i # run.at \/ ~At("work") => pages'[i] = pages[i] /\ grants'[i] = grants[i]

LEMMA GrowStep ==
  ASSUME TypeOK, RunShape, [Next]_vars
  PROVE  Growing
  <1> USE DEF Growing, At
  <1>0. Ids = 1..Len(source) /\ Len(source) \in Nat /\ DOMAIN origin = -Len(source)..Len(source)
    BY SourceFacts DEF TypeOK
  <1>1. ASSUME UNCHANGED <<source, content>>
        PROVE  Growing
    BY <1>1 DEF content
  <1>2. CASE \/ UNCHANGED vars \/ Stop \/ SkipItem \/ FailRecord \/ UpsertMapping
             \/ FinishItem \/ CountItem \/ reconcile \/ EndJob \/ Recheck
             \/ \E options \in Included : Starting(options)
    BY <1>1, <1>2, RecheckFrame
       DEF vars, database, content, Stop, SkipItem, FailRecord, UpsertMapping, FinishItem,
           CountItem, reconcile, EndJob, Starting, StartSnapshot, ResumeSnapshot
  <1>3. CASE \E i \in Ids : CreateLocal(i)
    <2>1. PICK i \in Ids : CreateLocal(i)
      BY <1>3
    <2>2. -i \in DOMAIN origin /\ -i # 0 /\ Is(Abs(-i), source[i].entity) /\ Abs(-i) = i
      BY <1>0 DEF Abs, Is
    <2>3. origin[-i] = "NONE"
      BY <2>1, <2>2 DEF CreateLocal, Rows
    <2>4. /\ source' = source /\ origin' = [origin EXCEPT ![-i] = "LOCAL"]
          /\ UNCHANGED <<members, pages, notes, grants>>
      BY <2>1 DEF CreateLocal
    <2> QED BY <2>2, <2>3, <2>4
  <1>4. CASE BeginItem
    <2>1. /\ source' = source /\ UNCHANGED <<members, pages, notes, grants>>
          /\ origin' = origin \/ origin' = [origin EXCEPT ![0] = "ORPHAN"]
      BY <1>4 DEF BeginItem
    <2> QED BY <1>0, <2>1
  <1>5. CASE ImportStep
    <2>1. source' = source
      BY <1>5, ImportFrame
    <2>2. CASE importUser \/ importGroup \/ importSpace
      <3>1. /\ origin' = [origin EXCEPT ![run.target] = "CONFLUENCE"]
            /\ UNCHANGED <<members, pages, notes, grants>>
        BY <2>2 DEF importUser, importGroup, importSpace, ImportNamed, Origin
      <3> QED BY <2>1, <3>1
    <2>3. CASE importMembership
      BY <2>1, <2>3 DEF importMembership
    <2>4. CASE importPage
      BY <2>1, <2>4 DEF importPage, Succeed, RunShape
    <2>5. CASE importNote
      BY <2>1, <2>5 DEF importNote
    <2>6. CASE importPermission
      BY <2>1, <2>6 DEF importPermission, Succeed, RunShape
    <2> QED BY <1>5, <2>2, <2>3, <2>4, <2>5, <2>6 DEF ImportStep
  <1> QED BY <1>2, <1>3, <1>4, <1>5, StepKinds

LEMMA RowsGrow ==
  ASSUME Growing
  PROVE  /\ Ids' = Ids /\ NoId' = NoId /\ This' = source[run'.at]
         /\ \A e, n : Rows(e, n) \subseteq Rows(e, n)'
         /\ \A i, id : Names(i, id)' <=> Names(i, id)
  BY DEF Growing, Rows, Names, Is, Ids, NoId, This

\* A row that appears where no row has its name keeps names unique.
LEMMA UniqueRow ==
  ASSUME TypeOK, NamesUnique, source' = source, NEW id \in DOMAIN origin, NEW v,
         origin' = [origin EXCEPT ![id] = v], v # "NONE",
         \/ id = 0 \/ Exists(id)
         \/ Rows(source[Abs(id)].entity, source[Abs(id)].name) = {}
  PROVE  NamesUnique'
  <1> SUFFICES ASSUME NEW i \in Of(Named)',
                      NEW a \in Rows(source[i].entity, source[i].name)',
                      NEW b \in Rows(source[i].entity, source[i].name)'
               PROVE  a = b
    BY DEF NamesUnique
  <1>1. i \in Of(Named) /\ Ids' = Ids
    BY DEF Of, Ids
  <1>2. ASSUME NEW c \in Rows(source[i].entity, source[i].name)', c # id \/ Exists(id)
        PROVE  c \in Rows(source[i].entity, source[i].name)
    BY <1>1, <1>2 DEF Rows, Is, Exists
  <1>3. ASSUME NEW c \in Rows(source[i].entity, source[i].name)', c = id
        PROVE  /\ id # 0 /\ source[Abs(id)].entity = source[i].entity
               /\ source[Abs(id)].name = source[i].name
    BY <1>1, <1>3 DEF Rows, Is
  <1>4. CASE (a # id /\ b # id) \/ Exists(id)
    BY <1>1, <1>2, <1>4 DEF NamesUnique
  <1>5. CASE ~Exists(id) /\ a = id /\ b # id
    BY <1>1, <1>2, <1>3, <1>5
  <1>6. CASE ~Exists(id) /\ b = id /\ a # id
    BY <1>1, <1>2, <1>3, <1>6
  <1> QED BY <1>4, <1>5, <1>6

LEMMA UniqueStep ==
  ASSUME TypeOK, RunShape, NamesUnique, TargetsNamed, [Next]_vars
  PROVE  NamesUnique'
  <1>0. /\ Ids = 1..Len(source) /\ Len(source) \in Nat
        /\ DOMAIN origin = -Len(source)..Len(source) /\ Targets \cup {0} \subseteq DOMAIN origin
    BY SourceFacts DEF TypeOK, Targets
  <1>1. source' = source
    BY GrowStep DEF Growing
  <1>2. ASSUME origin' = origin
        PROVE  NamesUnique'
    <2>1. Of(Named)' = Of(Named) /\ \A e, n : Rows(e, n)' = Rows(e, n)
      BY <1>1, <1>2 DEF Rows, Is, Ids, Of
    <2> QED BY <1>1, <2>1 DEF NamesUnique
  <1>3. CASE \/ UNCHANGED vars \/ Stop \/ SkipItem \/ FailRecord \/ UpsertMapping
             \/ FinishItem \/ CountItem \/ reconcile \/ EndJob \/ Recheck
             \/ \E options \in Included : Starting(options)
    BY <1>2, <1>3, RecheckFrame
       DEF vars, database, content, Stop, SkipItem, FailRecord, UpsertMapping, FinishItem,
           CountItem, reconcile, EndJob, Starting, StartSnapshot, ResumeSnapshot
  <1>4. CASE \E i \in Ids : CreateLocal(i)
    <2>1. PICK i \in Ids : CreateLocal(i)
      BY <1>4
    <2>2. -i \in DOMAIN origin /\ Abs(-i) = i
      BY <1>0 DEF Abs
    <2>3. /\ origin' = [origin EXCEPT ![-i] = "LOCAL"]
          /\ Rows(source[i].entity, source[i].name) = {}
      BY <2>1 DEF CreateLocal
    <2> QED BY <1>1, <2>2, <2>3, UniqueRow
  <1>5. CASE BeginItem
    <2>1. CASE origin' = [origin EXCEPT ![0] = "ORPHAN"]
      BY <1>0, <1>1, <2>1, UniqueRow
    <2> QED BY <1>2, <1>5, <2>1 DEF BeginItem
  <1>6. CASE ImportStep
    <2>1. CASE importUser \/ importGroup \/ importSpace
      <3>1. /\ origin' = [origin EXCEPT ![run.target] = "CONFLUENCE"]
            /\ This.entity \in Named
        BY <2>1 DEF importUser, importGroup, importSpace, ImportNamed, Origin, Named
      <3>2. run.target \in DOMAIN origin /\ At("work")
        BY <1>0, <1>6, ImportFrame DEF RunShape, Applying, At
      <3>3. Names(run.at, run.target)
        BY <3>1, <3>2 DEF TargetsNamed, Applying, At
      <3>4. Exists(run.target) \/ Rows(This.entity, This.name) = {}
        BY <1>6, <3>1, ImportFrame DEF Fits, Named, Content, Permissions
      <3>5. Rows(source[Abs(run.target)].entity, source[Abs(run.target)].name)
            = Rows(This.entity, This.name)
        BY <3>3 DEF Names, Is, This
      <3> QED BY <1>1, <3>1, <3>2, <3>4, <3>5, UniqueRow
    <2>2. CASE ~(importUser \/ importGroup \/ importSpace)
      BY <1>2, <1>6, <2>2
         DEF ImportStep, importMembership, importPage, importNote, importPermission
    <2> QED BY <2>1, <2>2
  <1> QED BY <1>3, <1>4, <1>5, <1>6, StepKinds

LEMMA NamedFits ==
  ASSUME TypeOK, NEW i \in Ids, NEW id, Names(i, id)
  PROVE  /\ id # NoId /\ id \in DOMAIN origin /\ id # 0
         /\ Exists(id) => id \in Rows(source[i].entity, source[i].name)
  BY SourceFacts DEF Names, TypeOK, NoId, Exists, Rows

\* What a record belongs to is of the kind that Owner says.
LEMMA OwnerFacts ==
  ASSUME TypeOK, NEW i \in Ids
  PROVE  /\ source[i].entity = "GROUP_MEMBER" /\ source[i].of # 0 =>
              source[i].of \in Of(Named) /\ source[source[i].of].entity = "GROUP"
         /\ source[i].entity = "PAGE" /\ source[i].of # 0 =>
              source[i].of \in Of(Named) /\ source[source[i].of].entity = "SPACE"
         /\ source[i].member # 0 =>
              source[i].member \in Of(Named) /\ source[source[i].member].entity = "USER"
  BY SourceFacts DEF Of, Owner, Named

LEMMA TargetsStep ==
  ASSUME TypeOK, RunShape, TargetsNamed, [Next]_vars
  PROVE  TargetsNamed'
  <1> USE DEF TargetsNamed, Applying, At
  <1>0. /\ source' = source /\ NoId' = NoId /\ Of(Named)' = Of(Named) /\ NoId \notin Ids
        /\ \A i, id : Names(i, id)' <=> Names(i, id)
        /\ This' = source[run'.at] /\ Of(Named) \subseteq Ids
    BY GrowStep, RowsGrow, SourceFacts DEF Growing, Of, Ids, Targets
  <1>1. ASSUME UNCHANGED <<mapping, run>>
        PROVE  TargetsNamed'
    <2>1. This' = This
      BY <1>0, <1>1 DEF This
    <2> QED BY <1>0, <1>1, <2>1
  <1>2. CASE UNCHANGED vars \/ (\E i \in Ids : CreateLocal(i)) \/ Recheck
    BY <1>1, <1>2, RecheckFrame DEF vars, database, CreateLocal
  <1>3. CASE \E options \in Included : Starting(options)
    <2>1. PICK options \in Included : Starting(options)
      BY <1>3
    <2>2. mapping' = mapping
      BY <2>1 DEF Starting, StartSnapshot, ResumeSnapshot
    <2>3. run'.pc \in {"begin", "reconcile"} /\ \A i \in Ids : run'.known[i] = NoId
      BY <2>1, StartFacts
    <2> QED BY <1>0, <2>2, <2>3
  <1>4. CASE Stop \/ EndJob
    BY <1>0, <1>4, NoRunFacts DEF Stop, EndJob
  <1>5. CASE SkipItem \/ CountItem
    <2>1. PICK t : NextRecord(t) /\ (This.entity \in Named => Names(run.at, t))
      <3>1. CASE SkipItem
        <4>1. run.at \in Ids
          BY <3>1 DEF SkipItem, RunShape, Of
        <4> QED BY <3>1, <4>1, RunSteps, TargetFacts DEF This
      <3>2. CASE CountItem
        BY <3>2, RunSteps DEF CountItem
      <3> QED BY <1>5, <3>1, <3>2
    <2>2. mapping' = mapping
      BY <1>5 DEF SkipItem, CountItem, database
    <2>3. run.known \in [Ids -> Targets \cup {NoId}] /\ ~At("idle")
      BY <1>5 DEF RunShape, SkipItem, CountItem
    <2>4. ASSUME NEW i \in Of(Named), run'.known[i] # NoId
          PROVE  Names(i, run'.known[i])
      <3>1. CASE i = run.at
        <4>1. This.entity \in Named
          BY <3>1 DEF This, Of
        <4> QED BY <1>0, <2>1, <2>3, <3>1, <4>1 DEF NextRecord
      <3>2. CASE i # run.at
        BY <1>0, <2>1, <2>3, <2>4, <3>2 DEF NextRecord
      <3> QED BY <3>1, <3>2
    <2>5. run'.pc \in {"begin", "reconcile"}
      BY <2>1 DEF NextRecord
    <2> QED BY <1>0, <2>2, <2>4, <2>5
  <1>6. CASE BeginItem
    <2>1. /\ run'.pc = "work" /\ run'.at = run.at /\ run'.target = TargetOf(run.at)
          /\ run'.known = run.known
          /\ This.entity = "PAGE" => run'.space = resolveSpace(This)
      BY <1>6, RunSteps
    <2>2. mapping' = mapping /\ run.pc = "begin" /\ run.at \in Ids
      BY <1>6 DEF BeginItem, RunShape, Of
    <2>3. This.entity \in Named => Names(run.at, TargetOf(run.at))
      BY <2>2, TargetFacts DEF This
    <2>4. ASSUME This.entity = "PAGE", resolveSpace(This) # 0
          PROVE  This.of # 0 /\ Names(This.of, resolveSpace(This))
      <3>1. This.of # 0 /\ This.of \in Of(Named)
        BY <2>2, <2>4, OwnerFacts DEF This, resolveSpace
      <3> QED BY <2>2, <2>4, <3>1 DEF resolveSpace
    <2>5. This' = This
      BY <1>0, <2>1 DEF This
    <2> QED BY <1>0, <2>1, <2>2, <2>3, <2>4, <2>5
  <1>7. CASE ImportStep \/ FailRecord \/ FinishItem
    <2>1. /\ mapping' = mapping /\ SameRecord /\ run'.pc # "idle"
          /\ run.pc \in {"work", "finish"}
      BY <1>7, RunSteps, ImportFrame DEF FailRecord, FinishItem, database
    <2>2. This' = This
      BY <1>0, <2>1 DEF This, SameRecord
    <2> QED BY <1>0, <2>1, <2>2 DEF SameRecord
  <1>8. CASE UpsertMapping
    <2>1. /\ SameRecord /\ run'.pc = "finish" /\ run.pc = "map"
          /\ mapping' = mapping \/ mapping' = [mapping EXCEPT ![run.at] = run.target]
      BY <1>8, RunSteps DEF UpsertMapping
    <2>2. This' = This
      BY <1>0, <2>1 DEF This, SameRecord
    <2>3. ASSUME NEW i \in Of(Named), mapping'[i] # NoId
          PROVE  Names(i, mapping'[i])
      <3>1. CASE i = run.at /\ mapping' = [mapping EXCEPT ![run.at] = run.target]
        <4>1. This.entity \in Named
          BY <3>1 DEF This, Of
        <4> QED BY <1>0, <2>1, <3>1, <4>1 DEF TypeOK
      <3>2. CASE mapping'[i] = mapping[i]
        BY <2>3, <3>2
      <3> QED BY <1>0, <2>1, <3>1, <3>2 DEF TypeOK
    <2> QED BY <1>0, <2>1, <2>2, <2>3 DEF SameRecord
  <1>9. CASE reconcile
    <2>1. /\ mapping' = mapping /\ run'.known = run.known
          /\ run'.pc \in {"reconcile", "end"} /\ run.pc = "reconcile"
      BY <1>9, RunSteps DEF reconcile
    <2> QED BY <1>0, <2>1
  <1> QED BY <1>2, <1>3, <1>4, <1>5, <1>6, <1>7, <1>8, <1>9, StepKinds

-----------------------------------------------------------------------------
(* What a finished item stands for                                         *)

LEMMA ArrivedGrows ==
  ASSUME TypeOK, Growing, NEW i \in Ids, i # run.at \/ ~At("work"), Arrived(i)
  PROVE  Arrived(i)'
  <1>1. /\ source' = source /\ NoId' = NoId /\ NoGrant' = NoGrant
        /\ \A e, n : Rows(e, n) \subseteq Rows(e, n)'
        /\ members \subseteq members' /\ notes \subseteq notes'
        /\ pages'[i] = pages[i] /\ grants'[i] = grants[i]
    BY RowsGrow DEF Growing, NoGrant
  <1>2. ASSUME NEW e, NEW n, NEW id \in Rows(e, n), origin[id] = "CONFLUENCE"
        PROVE  origin'[id] = "CONFLUENCE"
    BY <1>2 DEF Growing, Rows
  <1> QED BY <1>1, <1>2 DEF Arrived, Named, Permissions

LEMMA MappedGrows ==
  ASSUME TypeOK, Growing, NEW i \in Ids, mapping'[i] = mapping[i], Mapped(i)
  PROVE  Mapped(i)'
  BY RowsGrow DEF Growing, Mapped

\* An importer that succeeds leaves the row of its record behind.
LEMMA ImportArrives ==
  ASSUME TypeOK, RunShape, TargetsNamed, ImportStep, Growing, NEW i \in Ids, i = run.at
  PROVE  /\ Arrived(i)'
         /\ source[i].entity \in Named =>
              run.target \in Rows(source[i].entity, source[i].name)'
  <1>0. /\ At("work") /\ Applying /\ Fits(source[i]) /\ This = source[i]
        /\ source' = source /\ NoId' = NoId /\ NoGrant' = NoGrant /\ Ids' = Ids
    BY ImportFrame, RowsGrow DEF RunShape, Applying, At, Of, This, Growing, NoGrant
  <1>1. ASSUME NEW e \in Named, ImportNamed(e)
        PROVE  /\ Arrived(i)' /\ run.target \in Rows(source[i].entity, source[i].name)'
    <2>1. source[i].entity = e /\ Names(i, run.target)
      BY <1>0, <1>1 DEF ImportNamed, TargetsNamed
    <2>2. origin'[run.target] = "CONFLUENCE" /\ run.target \in DOMAIN origin'
      BY <1>1, <2>1 DEF ImportNamed, Names, Origin
    <2>3. run.target \in Rows(source[i].entity, source[i].name)'
      BY <1>0, <2>1, <2>2 DEF Names, Rows, Is, Growing
    <2> QED BY <1>0, <2>1, <2>2, <2>3 DEF Arrived, Named, Permissions
  <1>2. CASE importMembership
    <2> DEFINE g == run.known[source[i].of]
               u == run.known[source[i].member]
    <2>1. /\ source[i].entity = "GROUP_MEMBER" /\ source[i].of # 0 /\ source[i].member # 0
          /\ Exists(g) /\ Exists(u) /\ members' = members \cup {<<g, u>>}
      BY <1>0, <1>2 DEF importMembership, Fits, Named, Content, Permissions
    <2>2. /\ source[i].of \in Of(Named) /\ source[source[i].of].entity = "GROUP"
          /\ source[i].member \in Of(Named) /\ source[source[i].member].entity = "USER"
      BY <2>1, OwnerFacts
    <2>3. g # NoId /\ u # NoId
      BY <2>1, SourceFacts DEF Exists, TypeOK, NoId
    <2>4. Names(source[i].of, g) /\ Names(source[i].member, u)
      BY <1>0, <2>2, <2>3 DEF TargetsNamed, At
    <2>5. /\ g \in Rows("GROUP", source[source[i].of].name)
          /\ u \in Rows("USER", source[source[i].member].name)
      BY <2>1, <2>2, <2>4, NamedFits DEF Of
    <2>6. /\ g \in Rows("GROUP", source[source[i].of].name)'
          /\ u \in Rows("USER", source[source[i].member].name)'
      BY <1>0, <2>5, RowsGrow
    <2> HIDE DEF g, u
    <2>7. <<g, u>> \in members'
      BY <2>1
    <2> QED BY <1>0, <2>1, <2>6, <2>7 DEF Arrived, Named, Permissions
  <1>3. CASE importPage
    <2>1. /\ source[i].entity = "PAGE" /\ Exists(run.space)
          /\ pages' = [pages EXCEPT ![i] = run.space]
      BY <1>0, <1>3 DEF importPage, Fits, Named, Content, Permissions
    <2>2. pages'[i] = run.space /\ run.space # NoId
      BY <2>1, SourceFacts DEF RunShape, Exists, TypeOK, NoId
    <2>3. ASSUME source[i].of # 0, run.space # 0
          PROVE  run.space \in Rows("SPACE", source[source[i].of].name)'
      <3>1. source[i].of \in Of(Named) /\ source[source[i].of].entity = "SPACE"
        BY <2>1, <2>3, OwnerFacts
      <3>2. Names(source[i].of, run.space)
        BY <1>0, <2>1, <2>3 DEF TargetsNamed
      <3>3. run.space \in Rows("SPACE", source[source[i].of].name)
        BY <2>1, <3>1, <3>2, NamedFits DEF Of
      <3> QED BY <1>0, <3>3, RowsGrow
    <2> QED BY <1>0, <2>1, <2>2, <2>3 DEF Arrived, Named, Permissions
  <1>4. CASE importNote
    <2>1. source[i].entity \in {"COMMENT", "ATTACHMENT"} /\ i \in notes'
      BY <1>0, <1>4 DEF importNote
    <2> QED BY <1>0, <2>1 DEF Arrived, Named, Permissions
  <1>5. CASE importPermission
    <2>1. source[i].entity \in Permissions /\ canonicalPermission(source[i]) # "NONE"
      BY <1>0, <1>5 DEF importPermission, Fits, Named, Content, Permissions
    <2>2. grants'[i] = Grant(i)
      BY <1>0, <1>5 DEF importPermission, RunShape
    <2>3. grants'[i] # NoGrant
      BY <2>1, <2>2 DEF Grant, NoGrant
    <2> QED BY <1>0, <2>1, <2>3 DEF Arrived, Named, Permissions
  <1> QED BY <1>1, <1>2, <1>3, <1>4, <1>5
          DEF ImportStep, importUser, importGroup, importSpace, Named, ImportNamed,
              importMembership, importPage, importNote, importPermission, Permissions

LEMMA ArrivedStep ==
  ASSUME TypeOK, RunShape, OneItemOpen, TargetsNamed, ItemsArrived, [Next]_vars
  PROVE  ItemsArrived'
  <1> USE DEF ItemsArrived, At
  <1>0. Growing /\ source' = source /\ Ids' = Ids /\ This' = source[run'.at]
    BY GrowStep, RowsGrow DEF Growing
  <1>1. ASSUME item' = item, mapping' = mapping, ~At("work")
        PROVE  \A i \in Ids : item'[i] = "COMPLETE" => Arrived(i)' /\ Mapped(i)'
    BY <1>0, <1>1, ArrivedGrows, MappedGrows
  <1>2. CASE UNCHANGED vars
    <2>1. /\ \A i \in Ids : Arrived(i)' <=> Arrived(i)
          /\ \A i \in Ids : Mapped(i)' <=> Mapped(i)
          /\ UNCHANGED <<item, run>>
      BY <1>2 DEF vars, database, Arrived, Mapped, Rows, Is, Ids, NoId, NoGrant
    <2>2. At("map") \/ At("finish") => run.at \in Ids
      BY DEF RunShape, Applying, Of
    <2>3. At("map") => /\ This.entity \in Named => run.target \in Rows(This.entity, This.name)'
                       /\ This' = This /\ run.target = run'.target
      BY <1>0, <2>1, RowsGrow DEF This
    <2> QED BY <1>0, <2>1, <2>2, <2>3 DEF This
  <1>3. CASE \E options \in Included : Starting(options)
    <2>1. PICK options \in Included : Starting(options)
      BY <1>3
    <2>2. run'.pc \in {"begin", "reconcile"}
      BY <2>1, StartFacts
    <2>3. CASE StartSnapshot(options)
      <3>1. \A i \in Ids : item'[i] # "COMPLETE"
        BY <2>3 DEF StartSnapshot, NoItems
      <3> QED BY <1>0, <2>2, <3>1
    <2>4. CASE ResumeSnapshot
      <3>1. item' = item /\ mapping' = mapping /\ ~At("work")
        BY <2>4 DEF ResumeSnapshot, TypeOK
      <3> QED BY <1>0, <1>1, <2>2, <3>1
    <2> QED BY <2>1, <2>3, <2>4 DEF Starting
  <1>4. ASSUME item' = item, mapping' = mapping, run'.pc \notin {"map", "finish"},
               At("work") => run.at \in Ids /\ item[run.at] = "RUNNING"
        PROVE  ItemsArrived'
    <2>1. ASSUME NEW i \in Ids, item'[i] = "COMPLETE"
          PROVE  Arrived(i)' /\ Mapped(i)'
      BY <1>0, <1>4, <2>1, ArrivedGrows, MappedGrows
    <2> QED BY <1>0, <1>4, <2>1
  <1>5. At("work") => run.at \in Ids /\ item[run.at] = "RUNNING"
    BY DEF RunShape, OneItemOpen, Applying, Of
  <1>6. CASE Stop \/ EndJob \/ reconcile
    <2>1. item' = item /\ mapping' = mapping /\ run'.pc \notin {"map", "finish"}
      BY <1>6, NoRunFacts, RunSteps DEF Stop, EndJob, reconcile
    <2> QED BY <1>4, <1>5, <2>1
  <1>7. CASE SkipItem \/ CountItem
    <2>1. item' = item /\ mapping' = mapping /\ run'.pc \notin {"map", "finish"}
      BY <1>7, RunSteps DEF SkipItem, CountItem, database, NextRecord
    <2> QED BY <1>4, <1>5, <2>1
  <1>8. CASE (\E i \in Ids : CreateLocal(i)) \/ Recheck
    <2>1. /\ UNCHANGED <<item, mapping, run, pages, notes, grants, members>>
      BY <1>8, RecheckFrame DEF CreateLocal
    <2>2. \A i \in Ids : Arrived(i) => Arrived(i)'
      <3> SUFFICES ASSUME NEW i \in Ids, Arrived(i) PROVE Arrived(i)'
        OBVIOUS
      <3>1. NoId' = NoId /\ NoGrant' = NoGrant /\ \A e, n : Rows(e, n) \subseteq Rows(e, n)'
        BY <1>0, RowsGrow DEF NoGrant
      <3>2. ASSUME NEW e, NEW n, NEW id \in Rows(e, n), origin[id] = "CONFLUENCE"
            PROVE  origin'[id] = "CONFLUENCE"
        BY <1>0, <3>2 DEF Growing, Rows
      <3> QED BY <1>0, <2>1, <3>1, <3>2 DEF Arrived, Named, Permissions
    <2>3. \A i \in Ids : Mapped(i) => Mapped(i)'
      BY <1>0, <2>1, MappedGrows
    <2>4. At("map") \/ At("finish") => run.at \in Ids
      BY DEF RunShape, Applying, Of
    <2>5. This' = This /\ \A e, n : Rows(e, n) \subseteq Rows(e, n)'
      BY <1>0, <2>1, RowsGrow DEF This
    <2>6. At("map") /\ This.entity \in Named => run.target \in Rows(This.entity, This.name)'
      BY <2>5
    <2> QED BY <1>0, <2>1, <2>2, <2>3, <2>4, <2>5, <2>6
  <1>9. CASE BeginItem
    <2>1. /\ item' = [item EXCEPT ![run.at] = "RUNNING"] /\ mapping' = mapping
          /\ run.at \in Ids /\ ~At("work") /\ run'.pc = "work"
      BY <1>9, RunSteps DEF BeginItem, RunShape, Of
    <2>2. ASSUME NEW i \in Ids, item'[i] = "COMPLETE"
          PROVE  Arrived(i)' /\ Mapped(i)'
      <3>1. item[i] = "COMPLETE"
        BY <2>1, <2>2 DEF TypeOK
      <3> QED BY <1>0, <2>1, <3>1, ArrivedGrows, MappedGrows
    <2> QED BY <1>0, <2>1, <2>2
  <1>10. CASE ImportStep
    <2>1. /\ item' = item /\ mapping' = mapping /\ run'.pc = "map"
          /\ run'.at = run.at /\ run'.target = run.target /\ At("work")
      BY <1>10, ImportFrame, RunSteps DEF SameRecord
    <2>2. \A i \in Ids : item'[i] = "COMPLETE" => Arrived(i)' /\ Mapped(i)'
      BY <1>0, <1>5, <2>1, ArrivedGrows, MappedGrows
    <2>3. (/\ Arrived(run.at)
           /\ This.entity \in Named => run.target \in Rows(This.entity, This.name))'
      <3>1. PICK i \in Ids : i = run.at
        BY <1>5, <2>1
      <3>2. /\ Arrived(i)'
            /\ source[i].entity \in Named =>
                 run.target \in Rows(source[i].entity, source[i].name)'
        BY <1>0, <1>10, <3>1, ImportArrives
      <3>3. i = run'.at /\ This' = source[i] /\ run'.target = run.target
        BY <1>0, <2>1, <3>1
      <3>4. source[i].entity = source'[i].entity /\ source[i].name = source'[i].name
        BY <1>0
      <3> QED BY <3>2, <3>3, <3>4
    <2> QED BY <1>0, <2>1, <2>2, <2>3

  <1>11. CASE FailRecord
    <2>1. /\ item' = item /\ mapping' = mapping /\ run'.pc = "finish" /\ run'.ok = FALSE
      BY <1>11, RunSteps DEF FailRecord, database
    <2>2. ASSUME NEW i \in Ids, item'[i] = "COMPLETE"
          PROVE  Arrived(i)' /\ Mapped(i)'
      BY <1>0, <1>5, <2>1, <2>2, ArrivedGrows, MappedGrows
    <2> QED BY <1>0, <2>1, <2>2
  <1>12. CASE UpsertMapping
    <2>1. /\ item' = item /\ run'.pc = "finish" /\ run'.at = run.at /\ run.pc = "map"
          /\ run.at \in Ids /\ item[run.at] = "RUNNING"
          /\ \/ mapping' = [mapping EXCEPT ![run.at] = run.target] /\ run'.ok = run.ok
             \/ mapping' = mapping /\ run'.ok = FALSE
      BY <1>12, RunSteps DEF UpsertMapping, SameRecord, RunShape, OneItemOpen, Applying, Of
    <2>2. ASSUME NEW i \in Ids, item'[i] = "COMPLETE"
          PROVE  Arrived(i)' /\ Mapped(i)'
      <3>1. mapping'[i] = mapping[i]
        BY <2>1, <2>2 DEF TypeOK
      <3> QED BY <1>0, <2>1, <2>2, <3>1, ArrivedGrows, MappedGrows
    <2>3. PICK i \in Ids : i = run.at
      BY <2>1
    <2>4. Arrived(i)'
      BY <1>0, <2>1, <2>3, ArrivedGrows
    <2>5. run'.ok => Mapped(i)'
      <3>1. SUFFICES ASSUME run'.ok, source[i].entity \in Named PROVE Mapped(i)'
        BY <1>0 DEF Mapped
      <3>2. mapping'[i] = run.target
        BY <2>1, <2>3, <3>1 DEF TypeOK
      <3>3. run.target \in Rows(source[i].entity, source[i].name)
        BY <2>1, <2>3, <3>1 DEF This
      <3> QED BY <1>0, <3>2, <3>3, RowsGrow DEF Mapped
    <2>6. i = run'.at
      BY <2>1, <2>3
    <2> QED BY <1>0, <2>1, <2>2, <2>4, <2>5, <2>6
  <1>13. CASE FinishItem
    <2>1. /\ item' = [item EXCEPT ![run.at] = IF run.ok THEN "COMPLETE" ELSE "FAILED"]
          /\ mapping' = mapping /\ run'.pc = "count" /\ run.pc = "finish"
      BY <1>13, RunSteps DEF FinishItem
    <2>2. ASSUME NEW i \in Ids, item'[i] = "COMPLETE"
          PROVE  Arrived(i)' /\ Mapped(i)'
      <3>1. item[i] = "COMPLETE" \/ (i = run.at /\ run.ok)
        BY <2>1, <2>2 DEF TypeOK
      <3>2. Arrived(i) /\ Mapped(i)
        BY <2>1, <3>1
      <3> QED BY <1>0, <2>1, <3>2, ArrivedGrows, MappedGrows
    <2> QED BY <1>0, <2>1, <2>2
  <1> QED BY <1>2, <1>3, <1>6, <1>7, <1>8, <1>9, <1>10, <1>11, <1>12, <1>13, StepKinds

-----------------------------------------------------------------------------
(* The theorems                                                            *)

LEMMA Invariant == Spec => []ImportInv
  <1>1. Init => ImportInv
    <2> SUFFICES ASSUME Init PROVE ImportInv
      OBVIOUS
    <2>1. TypeOK /\ RunShape
      BY TypingInit
    <2>2. /\ ~At("begin") /\ ~Applying /\ run.pc = "idle" /\ run.previous = "NONE"
          /\ status = "NONE" /\ item = NoItems /\ processed = 0 /\ failed = 0
          /\ \A i \in Ids : item[i] = "NONE" /\ mapping[i] = NoId
          /\ \A id \in DOMAIN origin : origin[id] = "NONE"
      BY NoRunFacts DEF Init, At, Applying, NoItems
    <2>3. OneItemOpen /\ InOrder /\ ItemsArrived
      BY <2>2 DEF OneItemOpen, InOrder, ItemsArrived, At, Applying
    <2>4. Counted
      <3>1. \A S : (\A i \in Ids : item[i] \notin S) => Items(Entities, S) = 0
        <4> SUFFICES ASSUME NEW S, \A i \in Ids : item[i] \notin S
                     PROVE  Items(Entities, S) = 0
          OBVIOUS
        <4>1. {j \in Ids : item[j] \in S} = {}
          OBVIOUS
        <4> QED BY <2>1, <4>1, ItemsFacts, FS_EmptySet
      <3>2. Items(Entities, Closed) = 0 /\ Items(Entities, {"FAILED"}) = 0
        BY <2>2, <3>1 DEF Closed
      <3>3. Redone = 0
        BY <2>2 DEF Redone
      <3> QED BY <2>2, <3>2, <3>3 DEF Counted, At
    <2>5. NamesUnique /\ TargetsNamed
      BY <2>2 DEF NamesUnique, TargetsNamed, Rows, Of, At
    <2> QED BY <2>1, <2>3, <2>4, <2>5 DEF ImportInv
  <1>2. ImportInv /\ [Next]_vars => ImportInv'
    <2> SUFFICES ASSUME ImportInv, [Next]_vars PROVE ImportInv'
      OBVIOUS
    <2>1. TypeOK' /\ RunShape'
      BY TypingStep DEF ImportInv
    <2> QED BY <2>1, OpenStep, CountStep, OrderStep, UniqueStep, TargetsStep, ArrivedStep
            DEF ImportInv
  <1> QED BY <1>1, <1>2, PTL DEF Spec

\* Every variable of a job, its run and the database keeps its type, and members
\* and pages refer to rows that exist.
THEOREM Typing == Spec => []TypeOK
  <1>1. ImportInv => TypeOK
    BY DEF ImportInv
  <1> QED BY <1>1, Invariant, PTL

\* Between two records the counters of the job say how many items are finished
\* and how many failed, after any stops and repetitions that lost no counting
\* (upsertItem, finishItem and the deltas of apply).
THEOREM Counters == Spec => []CountersExact
  <1>1. ImportInv => CountersExact
    <2> SUFFICES ASSUME ImportInv, status = "STOPPED" \/ At("begin") \/ At("reconcile"), ~torn
                 PROVE  /\ processed = Items(Entities, Closed)
                        /\ failed = Items(Entities, {"FAILED"})
      BY DEF CountersExact, Closed
    <2>1. status # "COMPLETE" /\ ~At("count") /\ Redone = 0
      BY DEF ImportInv, TypeOK, At, Redone, Applying
    <2>2. Items(Entities, Closed) \in Nat /\ Items(Entities, {"FAILED"}) \in Nat
      BY ItemsFacts DEF ImportInv
    <2> QED BY <2>1, <2>2 DEF ImportInv, Counted
  <1> QED BY <1>1, Invariant, PTL

\* The mapping of a finished user, group or space leads to a row of that name,
\* whoever created it and whenever (importUsers, importGroups, importSpaces).
THEOREM MappedRows == Spec => []MappingNamesRow
  <1>1. ImportInv => MappingNamesRow
    BY DEF ImportInv, ItemsArrived, Mapped, MappingNamesRow, Of
  <1> QED BY <1>1, Invariant, PTL

-----------------------------------------------------------------------------
(* The inductive invariant of access                                       *)

\* An id that the row of a user, group or space with this name may have.
Called(entity, name, id) ==
  /\ id \in DOMAIN origin /\ id # 0
  /\ Is(Abs(id), entity) /\ source[Abs(id)].name = name

\* A permission in the database is the source's: about the space or page that it
\* was given for, which is there, and for a subject of its name.
GrantMeans(i) ==
  LET r == source[i]
      g == grants[i]
  IN /\ r.entity \in Permissions /\ r.of # 0
     /\ g.permission = canonicalPermission(r) /\ g.permission # "NONE"
     /\ IF r.entity = "SPACE_PERMISSION" THEN Names(r.of, g.target) /\ Exists(g.target)
                                         ELSE g.target = r.of /\ pages[r.of] # NoId
     /\ \E id \in DOMAIN origin :
          \/ /\ r.user # "" /\ g.subject = Subject("USER", id)
             /\ Called("USER", r.user, id)
          \/ /\ r.group # "" /\ g.subject = Subject("GROUP", id)
             /\ Called("GROUP", r.group, id)

GrantsMeant == \A i \in Ids : grants[i] # NoGrant => GrantMeans(i)

\* Nobody is in a group without a membership of the source.
MemberMeans(m, j) ==
  /\ source[j].of # 0 /\ source[j].member # 0
  /\ Names(source[j].of, m[1]) /\ Names(source[j].member, m[2])

MembersMeant == \A m \in members : \E j \in Of({"GROUP_MEMBER"}) : MemberMeans(m, j)

\* The id of a page is the derived one.
PageIds ==
  /\ \A i \in Of({"PAGE"}) : mapping[i] \in {NoId, i}
  /\ Applying /\ This.entity = "PAGE" => run.target = run.at

\* What a run knows are the targets of the records asked for, up to the current.
KnownInOrder ==
  /\ ~At("idle") => \A j \in Ids : run.known[j] # NoId => j \in Of(included)
  /\ At("begin") \/ Applying => \A j \in Of(included) : j < run.at => run.known[j] # NoId

\* A target is the id of a row or the one derived from the record.
OwnOrRow(i, id) == id = i \/ Exists(id)

TargetsOwn ==
  /\ ~At("idle") => \A j \in Ids : run.known[j] # NoId => OwnOrRow(j, run.known[j])
  /\ Applying => OwnOrRow(run.at, run.target)

\* A membership is imported for records that are asked for as well.  A page lands
\* in the space of orphans where its space is neither asked for nor was imported
\* before; a permission of such a space is not imported.  The subject of a permission
\* has a row or is a record that is asked for.
Unmapped(s) == "SPACE" \notin included /\ mapping[s] = NoId

Sited(i) ==
  /\ source[i].entity = "GROUP_MEMBER" => {source[i].of, source[i].member} \subseteq Of(included)
  /\ source[i].of # 0 =>
       /\ source[i].entity = "PAGE" /\ pages[i] = 0 => Unmapped(source[i].of)
       /\ source[i].entity = "SPACE_PERMISSION" => ~Unmapped(source[i].of)
  /\ source[i].entity \in Permissions =>
       Exists(grants[i].subject.id) \/ grants[i].subject.id \in Of(included)

PagesSited ==
  /\ \A i \in Ids : item[i] = "COMPLETE" => Sited(i)
  /\ At("work") /\ This.entity = "PAGE" /\ This.of # 0 /\ run.space = 0 => Unmapped(This.of)
  /\ At("map") \/ (At("finish") /\ run.ok) => Sited(run.at)

\* The entities whose check is one of this run, or of a job that has ended.
Verified ==
  {e \in included : \/ At("reconcile") /\ Rank[e] < run.at - Len(source)
                    \/ At("end") \/ status \in {"COMPLETE", "COMPLETED_WITH_ERRORS"}}

\* A check that passes has seen all its items complete.
ChecksMeant ==
  ~blind => \A e \in Verified :
              checks[e] = "PASS" => \A i \in Of({e}) : item[i] = "COMPLETE"

AccessInv ==
  /\ GrantsMeant /\ MembersMeant /\ PageIds /\ KnownInOrder /\ TargetsOwn /\ PagesSited
  /\ ChecksMeant

-----------------------------------------------------------------------------
(* Permissions and memberships mean what the source says                   *)

\* Each table is written by its importer alone, the mapping by UpsertMapping and
\* the checks by reconcile and the reconciliations.
LEMMA Tables ==
  ASSUME TypeOK, [Next]_vars
  PROVE  /\ members' = members \/ importMembership
         /\ grants' = grants \/ importPermission
         /\ pages' = pages \/ importPage
         /\ mapping' = mapping \/ UpsertMapping
         /\ checks' = checks \/ reconcile \/ Recheck
  <1>1. CASE \/ UNCHANGED vars \/ Stop \/ SkipItem \/ BeginItem \/ FailRecord \/ UpsertMapping
             \/ FinishItem \/ CountItem \/ reconcile \/ EndJob \/ Recheck
             \/ \E options \in Included : Starting(options)
             \/ \E i \in Ids : CreateLocal(i)
    BY <1>1, RecheckFrame
       DEF vars, database, content, Stop, SkipItem, BeginItem, FailRecord, UpsertMapping,
           FinishItem, CountItem, reconcile, EndJob, Starting, StartSnapshot,
           ResumeSnapshot, CreateLocal
  <1>2. CASE ImportStep
    BY <1>2 DEF ImportStep, importUser, importGroup, importSpace, ImportNamed, Kept,
       importMembership, importPage, importNote, importPermission
  <1> QED BY <1>1, <1>2, StepKinds

\* A page that is there stays.
LEMMA PagesStay ==
  ASSUME TypeOK, RunShape, [Next]_vars, NEW i, i \in Ids, pages[i] # NoId
  PROVE  pages'[i] # NoId'
  <1>1. NoId' = NoId
    BY GrowStep, RowsGrow
  <1>2. CASE importPage
    <2>1. Exists(run.space) /\ pages' = [pages EXCEPT ![run.at] = run.space]
      BY <1>2 DEF importPage, Succeed, Fits, Named, Content, Permissions
    <2>2. run.space # NoId
      BY <2>1, SourceFacts DEF Exists, TypeOK, NoId
    <2> QED BY <1>1, <2>1, <2>2 DEF RunShape
  <1> QED BY <1>1, <1>2, Tables

LEMMA CalledFacts ==
  /\ \A i, id : Names(i, id) <=> Called(source[i].entity, source[i].name, id)
  /\ \A e, n : \A id \in Rows(e, n) : Called(e, n, id)
  BY DEF Names, Called, Rows

\* What a name or a record stands for does not change while the job runs.
LEMMA CalledStays ==
  ASSUME Growing
  PROVE  /\ \A e, n, id : Called(e, n, id)' <=> Called(e, n, id)
         /\ \A i, id : Names(i, id)' <=> Names(i, id)
         /\ \A id : Exists(id) => Exists(id)'
         /\ Ids' = Ids /\ NoId' = NoId /\ NoGrant' = NoGrant
  BY DEF Growing, Called, Names, Exists, Is, Ids, NoId, NoGrant

\* Every nonempty set of records has a last one.
LEMMA Last ==
  ASSUME TypeOK, NEW T \in SUBSET Ids, T # {}
  PROVE  (CHOOSE j \in T : \A k \in T : k <= j) \in T
  <1> DEFINE M == {Len(source) + 1 - j : j \in T}
             m == CHOOSE j \in M : \A k \in M : j <= k
  <1>1. Len(source) \in Nat /\ Ids = 1..Len(source)
    BY SourceFacts
  <1>2. M \in SUBSET Ids /\ M # {}
    <2>1. ASSUME NEW j \in T
          PROVE  Len(source) + 1 - j \in Ids
      <3>1. j \in 1..Len(source)
        BY <1>1
      <3> QED BY <1>1, <3>1
    <2> QED BY <2>1
  <1> HIDE DEF M
  <1>3. m \in M /\ \A k \in M : m <= k
    BY <1>2, First
  <1> HIDE DEF m
  <1>4. PICK j \in T : m = Len(source) + 1 - j
    BY <1>3 DEF M
  <1>5. ASSUME NEW k \in T
        PROVE  k <= j
    <2>1. m <= Len(source) + 1 - k
      BY <1>3 DEF M
    <2> QED BY <1>1, <1>4, <2>1
  <1> QED BY <1>5

\* A name that permissionSubject resolves belongs to the id it gives.
LEMMA SubjectCalled ==
  ASSUME TypeOK, RunShape, TargetsNamed, ~At("idle"), NEW e \in {"USER", "GROUP"}, NEW n,
         SubjectId(e, n) # NoId
  PROVE  Called(e, n, SubjectId(e, n))
  <1> DEFINE seen == {i \in Of({e}) : source[i].name = n /\ run.known[i] # NoId}
             last == CHOOSE i \in seen : \A j \in seen : j <= i
             same == Rows(e, n)
  <1>1. CASE KnownByName(e, n) # NoId
    <2>1. seen # {} /\ KnownByName(e, n) = run.known[last]
      BY <1>1 DEF KnownByName
    <2>2. last \in seen
      <3>1. seen \in SUBSET Ids
        BY DEF Of
      <3> HIDE DEF seen
      <3> QED BY <2>1, <3>1, Last
    <2> HIDE DEF last
    <2>3. /\ last \in Of(Named) /\ source[last].entity = e /\ source[last].name = n
          /\ run.known[last] # NoId
      BY <2>2 DEF Of, Named
    <2>4. Names(last, run.known[last])
      BY <2>3 DEF TargetsNamed
    <2>5. SubjectId(e, n) = run.known[last]
      BY <1>1, <2>1 DEF SubjectId
    <2> QED BY <2>3, <2>4, <2>5, CalledFacts
  <1>2. CASE KnownByName(e, n) = NoId
    <2>1. same # {} /\ SubjectId(e, n) = CHOOSE id \in same : TRUE
      BY <1>2 DEF SubjectId
    <2>2. SubjectId(e, n) \in same
      BY <2>1
    <2> QED BY <2>2, CalledFacts
  <1> QED BY <1>1, <1>2

LEMMA GrantsStep ==
  ASSUME TypeOK, RunShape, TargetsNamed, PageIds, GrantsMeant, [Next]_vars
  PROVE  GrantsMeant'
  <1>0. Growing /\ source' = source /\ DOMAIN origin' = DOMAIN origin
    BY GrowStep DEF Growing
  <1>1. ASSUME NEW i \in Ids, grants'[i] = grants[i], GrantMeans(i)
        PROVE  GrantMeans(i)'
    <2>1. source[i].of \in Ids
      BY <1>1, SourceFacts DEF GrantMeans
    <2>2. pages[source[i].of] # NoId => pages'[source[i].of] # NoId'
      BY <2>1, PagesStay
    <2> QED BY <1>0, <1>1, <2>2, CalledStays DEF GrantMeans
  <1>2. CASE grants' = grants
    BY <1>0, <1>1, <1>2, CalledStays DEF GrantsMeant
  <1>3. CASE importPermission
    <2>1. PICK i \in Ids : i = run.at
      BY <1>3 DEF importPermission, Succeed, RunShape, Applying, At, Of
    <2>2. /\ At("work") /\ This = source[i] /\ Fits(source[i])
          /\ source[i].entity \in Permissions
          /\ grants' = [grants EXCEPT ![i] = Grant(i)] /\ origin' = origin
      BY <1>3, <2>1 DEF importPermission, Succeed, This
    <2>3. /\ grants'[i] = Grant(i) /\ \A j \in Ids : j # i => grants'[j] = grants[j]
      BY <2>2 DEF RunShape
    <2>4. permissionSubject(source[i]).id # NoId
      <3>1. HasSubject(source[i])
        BY <2>2 DEF Fits, Named, Content, Permissions
      <3> QED BY <3>1, Zenon DEF HasSubject
    <2>5. \E id \in DOMAIN origin :
             \/ /\ source[i].user # "" /\ Grant(i).subject = Subject("USER", id)
                /\ Called("USER", source[i].user, id)
             \/ /\ source[i].group # "" /\ Grant(i).subject = Subject("GROUP", id)
                /\ Called("GROUP", source[i].group, id)
      <3>1. Grant(i).subject = permissionSubject(source[i])
        BY DEF Grant
      <3>2. CASE source[i].user # ""
        <4> DEFINE id == SubjectId("USER", source[i].user)
        <4>1. permissionSubject(source[i]) = Subject("USER", id)
          BY <3>2 DEF permissionSubject
        <4> HIDE DEF id
        <4>2. id # NoId
          BY <2>4, <4>1 DEF Subject
        <4>3. Called("USER", source[i].user, id)
          BY <2>2, <4>2, SubjectCalled DEF At, id
        <4> QED BY <3>1, <3>2, <4>1, <4>3 DEF Called
      <3>3. CASE source[i].user = ""
        <4> DEFINE id == SubjectId("GROUP", source[i].group)
        <4>1. permissionSubject(source[i]) = Subject("GROUP", id)
          BY <3>3 DEF permissionSubject
        <4> HIDE DEF id
        <4>2. id # NoId
          BY <2>4, <4>1 DEF Subject
        <4>3. Called("GROUP", source[i].group, id)
          BY <2>2, <4>2, SubjectCalled DEF At, id
        <4>4. source[i].group # ""
          BY <2>2, <3>3 DEF Fits, Named, Content, Permissions, HasSubject
        <4> QED BY <3>1, <4>1, <4>3, <4>4 DEF Called
      <3> QED BY <3>2, <3>3
    <2>6. /\ source[i].of # 0
          /\ IF source[i].entity = "SPACE_PERMISSION"
             THEN Names(source[i].of, Grant(i).target) /\ Exists(Grant(i).target)
             ELSE Grant(i).target = source[i].of /\ pages[source[i].of] # NoId
      <3>0. Grant(i).target = permissionTarget(source[i]) /\ ~Exists(NoId)
        BY SourceFacts DEF Grant, Exists, TypeOK, NoId
      <3>1. CASE source[i].entity = "SPACE_PERMISSION"
        <4>1. Exists(permissionTarget(source[i]))
          BY <2>2, <3>1 DEF Fits, Named, Content, Permissions
        <4>2. source[i].of # 0
          BY <3>0, <4>1 DEF permissionTarget
        <4>3. source[i].of \in Of(Named)
          BY <3>1, <4>2, SourceFacts DEF Of, Owner, Named
        <4>4. Names(source[i].of, permissionTarget(source[i]))
          BY <2>2, <3>0, <3>1, <4>1, <4>2, <4>3 DEF permissionTarget, TargetsNamed, At
        <4> QED BY <3>0, <3>1, <4>1, <4>2, <4>4
      <3>2. CASE source[i].entity = "PAGE_PERMISSION"
        <4>1. permissionTarget(source[i]) # NoId /\ pages[permissionTarget(source[i])] # NoId
          BY <2>2, <3>2 DEF Fits, Named, Content, Permissions
        <4>2. source[i].of # 0
          BY <4>1 DEF permissionTarget
        <4>3. source[i].of \in Of({"PAGE"})
          BY <3>2, <4>2, SourceFacts DEF Of, Owner
        <4>4. permissionTarget(source[i]) = source[i].of
          BY <3>2, <4>1, <4>2, <4>3 DEF permissionTarget, PageIds
        <4> QED BY <3>0, <3>2, <4>1, <4>2, <4>4
      <3> QED BY <2>2, <3>1, <3>2 DEF Permissions
    <2>7. /\ Grant(i).permission = canonicalPermission(source[i])
          /\ Grant(i).permission # "NONE"
      BY <2>2 DEF Grant, Fits, Named, Content, Permissions
    <2>8. GrantMeans(i)'
      <3> DEFINE g == Grant(i)
      <3> HIDE DEF g
      <3>1. /\ grants'[i] = g /\ g.permission = canonicalPermission(source[i])
            /\ g.permission # "NONE" /\ source[i].of # 0
            /\ IF source[i].entity = "SPACE_PERMISSION"
               THEN Names(source[i].of, g.target) /\ Exists(g.target)
               ELSE g.target = source[i].of /\ pages[source[i].of] # NoId
            /\ \E id \in DOMAIN origin :
                 \/ /\ source[i].user # "" /\ g.subject = Subject("USER", id)
                    /\ Called("USER", source[i].user, id)
                 \/ /\ source[i].group # "" /\ g.subject = Subject("GROUP", id)
                    /\ Called("GROUP", source[i].group, id)
        BY <2>3, <2>5, <2>6, <2>7 DEF g
      <3>2. pages' = pages
        BY <1>3 DEF importPermission
      <3> QED BY <1>0, <2>2, <3>1, <3>2, CalledStays DEF GrantMeans
    <2> QED BY <1>0, <1>1, <2>3, <2>8, CalledStays DEF GrantsMeant
  <1> QED BY <1>2, <1>3, Tables

LEMMA MembersStep ==
  ASSUME TypeOK, RunShape, TargetsNamed, MembersMeant, [Next]_vars
  PROVE  MembersMeant'
  <1>0. /\ Growing /\ source' = source /\ Of({"GROUP_MEMBER"})' = Of({"GROUP_MEMBER"})
        /\ \A m, j : MemberMeans(m, j) => MemberMeans(m, j)'
    <2>1. Growing
      BY GrowStep
    <2> QED BY <2>1, CalledStays DEF Growing, Of, MemberMeans
  <1>1. CASE members' = members
    BY <1>0, <1>1 DEF MembersMeant
  <1>2. CASE importMembership
    <2>1. PICK i \in Of({"GROUP_MEMBER"}) : i = run.at
      BY <1>2 DEF importMembership, Succeed, RunShape, Applying, At, Of, This
    <2> DEFINE g == run.known[source[i].of]
               u == run.known[source[i].member]
    <2>2. /\ At("work") /\ source[i].entity = "GROUP_MEMBER" /\ i \in Ids
          /\ source[i].of # 0 /\ source[i].member # 0 /\ Exists(g) /\ Exists(u)
          /\ members' = members \cup {<<g, u>>}
      BY <1>2, <2>1 DEF importMembership, Succeed, This, Fits, Named, Content, Permissions, Of
    <2>3. source[i].of \in Of(Named) /\ source[i].member \in Of(Named)
      BY <2>2, OwnerFacts
    <2>4. g # NoId /\ u # NoId
      BY <2>2, SourceFacts DEF Exists, TypeOK, NoId
    <2>5. Names(source[i].of, g) /\ Names(source[i].member, u)
      BY <2>2, <2>3, <2>4 DEF TargetsNamed, At
    <2> HIDE DEF g, u
    <2>6. MemberMeans(<<g, u>>, i)
      BY <2>2, <2>5 DEF MemberMeans
    <2> QED BY <1>0, <2>1, <2>2, <2>6 DEF MembersMeant
  <1> QED BY <1>1, <1>2, Tables


-----------------------------------------------------------------------------
(* What a run knows, and where pages land                                  *)

\* What a step does to the current record: nothing, a statement of its own, a
\* new record or none, or its beginning.
LEMMA Kinds ==
  ASSUME TypeOK, RunShape, [Next]_vars
  PROVE  \/ run' = run
         \/ SameRecord /\ run.pc \in {"work", "map", "finish"}
         \/ run'.pc \in {"idle", "begin", "reconcile", "end"}
         \/ BeginItem
  BY StepKinds, RunSteps, ImportFrame, RecheckFrame, StartFacts, NoRunFacts
     DEF vars, CreateLocal, Stop, EndJob, NextRecord, At, FailRecord, UpsertMapping, FinishItem

LEMMA PageIdsStep ==
  ASSUME TypeOK, RunShape, PageIds, [Next]_vars
  PROVE  PageIds'
  <1> USE DEF PageIds, Applying, At
  <1>0. /\ source' = source /\ NoId' = NoId /\ Of({"PAGE"})' = Of({"PAGE"})
        /\ This' = source[run'.at] /\ Of({"PAGE"}) \subseteq Ids
    BY GrowStep, RowsGrow DEF Growing, Of
  <1>1. \A i \in Of({"PAGE"}) : mapping'[i] \in {NoId, i}
    <2>1. CASE mapping' = mapping
      BY <2>1
    <2>2. CASE UpsertMapping /\ mapping' = [mapping EXCEPT ![run.at] = run.target]
      <3>1. run.pc = "map"
        BY <2>2 DEF UpsertMapping
      <3>2. ASSUME NEW i \in Of({"PAGE"})
            PROVE  mapping'[i] \in {NoId, i}
        <4>1. CASE i = run.at
          <5>1. run.target = i
            BY <3>1, <4>1 DEF This, Of
          <5> QED BY <1>0, <2>2, <4>1, <5>1 DEF TypeOK
        <4>2. CASE i # run.at
          BY <1>0, <2>2, <4>2 DEF TypeOK
        <4> QED BY <4>1, <4>2
      <3> QED BY <3>2
    <2> QED BY <2>1, <2>2, Tables, RunSteps
  <1>2. (Applying /\ This.entity = "PAGE" => run.target = run.at)'
    <2>1. CASE UNCHANGED run
      BY <1>0, <2>1 DEF This
    <2>2. CASE SameRecord /\ Applying
      BY <1>0, <2>2 DEF This, SameRecord
    <2>3. CASE run'.pc \in {"idle", "begin", "reconcile", "end"}
      BY <2>3
    <2>4. CASE BeginItem
      <3>1. run'.at = run.at /\ run'.target = TargetOf(run.at)
        BY <2>4, RunSteps
      <3>2. This.entity = "PAGE" => TargetOf(run.at) = run.at
        BY DEF TargetOf, This, Named
      <3> QED BY <1>0, <3>1, <3>2 DEF This
    <2> QED BY <2>1, <2>2, <2>3, <2>4, Kinds
  <1> QED BY <1>0, <1>1, <1>2

LEMMA KnownStep ==
  ASSUME TypeOK, RunShape, KnownInOrder, [Next]_vars
  PROVE  KnownInOrder'
  <1> USE DEF KnownInOrder, Applying, At
  <1>0. source' = source /\ Ids' = Ids /\ NoId' = NoId /\ NoId \notin Targets /\ Ids \subseteq Nat
    BY GrowStep, RowsGrow, SourceFacts DEF Growing
  <1>1. ASSUME included' = included
        PROVE  Of(included)' = Of(included)
    BY <1>0, <1>1 DEF Of
  <1>2. CASE \E options \in Included : Starting(options)
    <2>1. PICK options \in Included : Starting(options)
      BY <1>2
    <2>2. /\ included' = options /\ \A j \in Ids : run'.known[j] = NoId
          /\ \/ run'.pc = "reconcile"
             \/ /\ run'.pc = "begin" /\ run'.at \in Of(options)
                /\ \A j \in Of(options) : run'.at <= j
      BY <2>1, StartFacts
    <2>3. Of(included)' = Of(options)
      BY <1>0, <2>2 DEF Of
    <2>4. ASSUME NEW j \in Of(options), run'.pc = "begin", j < run'.at
          PROVE  FALSE
      <3>1. j \in Nat /\ run'.at \in Nat /\ run'.at <= j
        BY <1>0, <2>2, <2>4 DEF Of
      <3> QED BY <2>4, <3>1
    <2> QED BY <1>0, <2>2, <2>3, <2>4
  <1>3. CASE SkipItem \/ CountItem
    <2>1. PICK t \in Targets : NextRecord(t)
      <3>1. run.at \in Ids
        BY <1>3 DEF SkipItem, CountItem, RunShape, Of
      <3>2. TargetOf(run.at) \in Targets
        BY <3>1, TargetFacts
      <3>3. CountItem => run.target \in Targets
        BY DEF CountItem, RunShape
      <3> QED BY <1>3, <3>2, <3>3, RunSteps
    <2>2. /\ included' = included /\ run.pc \in {"begin", "count"}
          /\ run.at \in Of(included) /\ run.known \in [Ids -> Targets \cup {NoId}]
      BY <1>3 DEF SkipItem, CountItem, database, RunShape
    <2>3. /\ run'.known[run.at] = t
          /\ \A j \in Ids : j # run.at => run'.known[j] = run.known[j]
      BY <2>1, <2>2 DEF NextRecord, Of
    <2>4. ASSUME NEW j \in Ids, run'.known[j] # NoId
          PROVE  j \in Of(included)
      BY <2>2, <2>3, <2>4
    <2>5. ASSUME NEW j \in Of(included), j <= run.at
          PROVE  run'.known[j] # NoId
      <3>1. j \in Ids /\ j \in Nat /\ run.at \in Nat
        BY <1>0, <2>2 DEF Of
      <3>2. CASE j = run.at
        BY <1>0, <2>1, <2>3, <3>2
      <3>3. CASE j < run.at
        BY <2>2, <2>3, <2>5, <3>1, <3>3
      <3> QED BY <2>5, <3>1, <3>2, <3>3
    <2>6. \/ run'.pc = "reconcile"
          \/ run'.pc = "begin" /\ \A j \in Of(included) : j < run'.at => j <= run.at
      BY <2>1 DEF NextRecord
    <2>7. Of(included)' = Of(included)
      BY <1>1, <2>2
    <2> QED BY <1>0, <2>4, <2>5, <2>6, <2>7
  <1>4. CASE run'.pc = "idle"
    BY <1>4
  <1>5. CASE /\ included' = included /\ run'.known = run.known /\ run.pc # "idle"
             /\ run'.at = run.at /\ (Applying' => At("begin") \/ Applying) /\ run'.pc # "begin"
    BY <1>0, <1>1, <1>5
  <1>6. CASE included' = included /\ run' = run
    BY <1>0, <1>1, <1>6
  <1>7. CASE BeginItem
    BY <1>5, <1>7, RunSteps DEF BeginItem
  <1>8. CASE ImportStep \/ FailRecord \/ UpsertMapping \/ FinishItem
    BY <1>5, <1>8, RunSteps, ImportFrame
       DEF FailRecord, UpsertMapping, FinishItem, database, SameRecord
  <1>9. CASE reconcile
    <2>1. /\ included' = included /\ run'.known = run.known /\ run.pc = "reconcile"
          /\ run'.pc \in {"reconcile", "end"}
      BY <1>9, RunSteps DEF reconcile
    <2> QED BY <1>0, <1>1, <2>1
  <1> QED BY <1>2, <1>3, <1>4, <1>6, <1>7, <1>8, <1>9, StepKinds, NoRunFacts, RecheckFrame
          DEF vars, CreateLocal, Stop, EndJob

LEMMA OwnStep ==
  ASSUME TypeOK, RunShape, TargetsOwn, [Next]_vars
  PROVE  TargetsOwn'
  <1> USE DEF TargetsOwn, Applying, At
  <1>0. /\ Ids' = Ids /\ NoId' = NoId
        /\ \A i, id : OwnOrRow(i, id) => OwnOrRow(i, id)'
    BY GrowStep, CalledStays DEF OwnOrRow
  <1>1. ASSUME NEW i \in Ids
        PROVE  OwnOrRow(i, TargetOf(i))
    BY DEF OwnOrRow, TargetOf, Rows, Exists
  <1>2. CASE run' = run
    BY <1>0, <1>2
  <1>3. CASE \E options \in Included : Starting(options)
    <2>1. run'.pc \in {"begin", "reconcile"} /\ \A j \in Ids : run'.known[j] = NoId
      BY <1>3, StartFacts
    <2> QED BY <1>0, <2>1
  <1>4. CASE run'.pc = "idle"
    BY <1>4
  <1>5. CASE SkipItem \/ CountItem
    <2>1. PICK t : NextRecord(t) /\ OwnOrRow(run.at, t)
      <3>1. SkipItem => run.at \in Ids
        BY DEF SkipItem, RunShape, Of
      <3> QED BY <1>1, <1>5, <3>1, RunSteps DEF CountItem
    <2>2. run.known \in [Ids -> Targets \cup {NoId}] /\ run.pc # "idle"
      BY <1>5 DEF SkipItem, CountItem, RunShape
    <2>3. run'.pc \in {"begin", "reconcile"} /\ run'.known = [run.known EXCEPT ![run.at] = t]
      BY <2>1 DEF NextRecord
    <2>4. ASSUME NEW j \in Ids, run'.known[j] # NoId
          PROVE  OwnOrRow(j, run'.known[j])
      <3>1. CASE j = run.at
        BY <2>1, <2>2, <2>3, <3>1
      <3>2. CASE j # run.at
        BY <2>2, <2>3, <2>4, <3>2
      <3> QED BY <3>1, <3>2
    <2> QED BY <1>0, <2>3, <2>4
  <1>6. CASE BeginItem
    <2>1. /\ run'.known = run.known /\ run'.at = run.at /\ run'.target = TargetOf(run.at)
          /\ run.pc = "begin" /\ run.at \in Ids
      BY <1>6, RunSteps DEF BeginItem, RunShape, Of
    <2> QED BY <1>0, <1>1, <2>1
  <1>7. CASE ImportStep \/ FailRecord \/ UpsertMapping \/ FinishItem
    <2>1. SameRecord /\ run.pc \in {"work", "map", "finish"}
      BY <1>7, RunSteps, ImportFrame DEF FailRecord, UpsertMapping, FinishItem
    <2> QED BY <1>0, <2>1 DEF SameRecord
  <1>8. CASE reconcile
    <2>1. /\ run'.known = run.known /\ run.pc = "reconcile"
          /\ run'.pc \in {"reconcile", "end"}
      BY <1>8, RunSteps
    <2> QED BY <1>0, <2>1
  <1> QED BY <1>2, <1>3, <1>4, <1>5, <1>6, <1>7, <1>8, StepKinds, NoRunFacts, RecheckFrame
          DEF vars, CreateLocal, Stop, EndJob

\* Whether the space of a page is unknown to a job does not change with its steps.
LEMMA UnmappedStays ==
  ASSUME TypeOK, RunShape, [Next]_vars, included' = included,
         NEW s \in Ids, source[s].entity = "SPACE"
  PROVE  Unmapped(s)' <=> Unmapped(s)
  <1>1. source' = source /\ NoId' = NoId /\ NoId \notin Targets
    BY GrowStep, RowsGrow, SourceFacts DEF Growing
  <1>2. CASE mapping'[s] = mapping[s]
    BY <1>1, <1>2 DEF Unmapped
  <1>3. CASE mapping'[s] # mapping[s]
    <2>1. /\ UpsertMapping /\ s = run.at /\ mapping'[s] = run.target
      BY <1>3, Tables, RunSteps DEF TypeOK
    <2>2. s \in Of(included) /\ run.target \in Targets
      BY <2>1 DEF UpsertMapping, RunShape, Applying, At
    <2>3. "SPACE" \in included
      BY <2>2 DEF Of
    <2> QED BY <2>3 DEF Unmapped
  <1> QED BY <1>2, <1>3

LEMMA UnmappedOwner ==
  ASSUME TypeOK, RunShape, [Next]_vars, included' = included, NEW i \in Ids,
         source[i].of # 0, source[i].entity \in {"PAGE", "SPACE_PERMISSION"}
  PROVE  Unmapped(source[i].of)' <=> Unmapped(source[i].of)
  <1>1. source' = source
    BY GrowStep DEF Growing
  <1>2. PICK s \in Ids : s = source[i].of /\ source[s].entity = "SPACE"
    BY SourceFacts DEF Owner
  <1>3. Unmapped(s)' <=> Unmapped(s)
    BY <1>2, UnmappedStays
  <1> QED BY <1>1, <1>2, <1>3 DEF Unmapped

LEMMA SitedStays ==
  ASSUME TypeOK, RunShape, [Next]_vars, included' = included, NEW i \in Ids,
         i # run.at \/ ~At("work"), Sited(i)
  PROVE  Sited(i)'
  <1>1. source' = source /\ pages'[i] = pages[i] /\ Of(included)' = Of(included)
    BY GrowStep DEF Growing, Of, Ids
  <1>4. /\ grants'[i] = grants[i]
        /\ Exists(grants[i].subject.id) => Exists(grants[i].subject.id)'
    BY GrowStep, CalledStays DEF Growing
  <1>2. CASE source[i].of = 0 \/ source[i].entity \notin {"PAGE", "SPACE_PERMISSION"}
    BY <1>1, <1>2, <1>4 DEF Sited
  <1>3. CASE source[i].of # 0 /\ source[i].entity \in {"PAGE", "SPACE_PERMISSION"}
    <2>1. Unmapped(source[i].of)' <=> Unmapped(source[i].of)
      BY <1>3, UnmappedOwner
    <2> QED BY <1>1, <1>4, <2>1 DEF Sited
  <1> QED BY <1>2, <1>3

\* A page that is begun without a space belongs to none that its job knows.
LEMMA BegunUnmapped ==
  ASSUME TypeOK, RunShape, KnownInOrder, BeginItem, This.entity = "PAGE", This.of # 0,
         resolveSpace(This) = 0
  PROVE  Unmapped(This.of)
  <1>1. /\ At("begin") /\ run.at \in Of(included) /\ run.at \in Ids
        /\ run.known \in [Ids -> Targets \cup {NoId}] /\ 0 \notin Targets
    BY SourceFacts DEF BeginItem, RunShape, At, Of
  <1>2. This.of \in Ids /\ source[This.of].entity = "SPACE" /\ This.of < run.at
    <2>1. This.of \in Ids /\ source[This.of].entity = "SPACE"
      BY <1>1, SourceFacts DEF This, Owner
    <2>2. This.of < run.at
      BY <1>1, SourcesAssumption DEF TypeOK, This, Ids
    <2> QED BY <2>1, <2>2
  <1>3. run.known[This.of] = NoId
    <2>1. run.known[This.of] = NoId \/ run.known[This.of] \in Targets
      BY <1>1, <1>2
    <2> QED BY <1>1, <2>1 DEF resolveSpace
  <1>4. mapping[This.of] = NoId
    <2>1. mapping[This.of] = NoId \/ mapping[This.of] \in Targets
      BY <1>2 DEF TypeOK, Targets
    <2> QED BY <1>1, <1>3, <2>1 DEF resolveSpace
  <1>5. "SPACE" \notin included
    BY <1>1, <1>2, <1>3 DEF KnownInOrder, Of
  <1> QED BY <1>4, <1>5 DEF Unmapped

\* The subject that permissionSubject gives has a row, or is a record asked for.
LEMMA SubjectSited ==
  ASSUME TypeOK, RunShape, KnownInOrder, TargetsOwn, ~At("idle"), NEW e, NEW n,
         SubjectId(e, n) # NoId
  PROVE  Exists(SubjectId(e, n)) \/ SubjectId(e, n) \in Of(included)
  <1> DEFINE seen == {i \in Of({e}) : source[i].name = n /\ run.known[i] # NoId}
             last == CHOOSE i \in seen : \A j \in seen : j <= i
  <1>1. CASE KnownByName(e, n) # NoId
    <2>1. seen # {} /\ KnownByName(e, n) = run.known[last]
      BY <1>1 DEF KnownByName
    <2>2. last \in seen
      <3>1. seen \in SUBSET Ids
        BY DEF Of
      <3> HIDE DEF seen
      <3> QED BY <2>1, <3>1, Last
    <2> HIDE DEF last
    <2>3. last \in Ids /\ run.known[last] # NoId
      BY <2>2 DEF Of
    <2>4. last \in Of(included) /\ OwnOrRow(last, run.known[last])
      BY <2>3 DEF KnownInOrder, TargetsOwn
    <2>5. SubjectId(e, n) = run.known[last]
      BY <1>1, <2>1 DEF SubjectId
    <2> QED BY <2>4, <2>5 DEF OwnOrRow
  <1>2. CASE KnownByName(e, n) = NoId
    <2>1. Rows(e, n) # {} /\ SubjectId(e, n) = CHOOSE id \in Rows(e, n) : TRUE
      BY <1>2 DEF SubjectId
    <2>2. SubjectId(e, n) \in Rows(e, n)
      BY <2>1
    <2> QED BY <2>2 DEF Rows, Exists
  <1> QED BY <1>1, <1>2

LEMMA GrantSited ==
  ASSUME TypeOK, RunShape, KnownInOrder, TargetsOwn, ImportStep, NEW i \in Ids, i = run.at,
         source[i].entity \in Permissions
  PROVE  (Exists(grants[i].subject.id) \/ grants[i].subject.id \in Of(included))'
  <1>1. /\ At("work") /\ ~At("idle") /\ Fits(source[i]) /\ This = source[i]
        /\ source' = source /\ included' = included
    BY ImportFrame DEF This, At
  <1>2. /\ importPermission /\ grants' = [grants EXCEPT ![i] = Grant(i)] /\ origin' = origin
    BY <1>1 DEF ImportStep, importUser, importGroup, importSpace, ImportNamed, importPage,
       importMembership, importNote, importPermission, Permissions
  <1>3. grants'[i].subject = permissionSubject(source[i])
    <2>1. grants'[i] = Grant(i)
      BY <1>2 DEF RunShape
    <2> QED BY <2>1 DEF Grant
  <1>4. permissionSubject(source[i]).id # NoId
    <2>1. HasSubject(source[i])
      BY <1>1 DEF Fits, Named, Content, Permissions
    <2> QED BY <2>1, Zenon DEF HasSubject
  <1> DEFINE e == IF source[i].user # "" THEN "USER" ELSE "GROUP"
             n == IF source[i].user # "" THEN source[i].user ELSE source[i].group
  <1>5. permissionSubject(source[i]).id = SubjectId(e, n)
    BY DEF permissionSubject, Subject
  <1> HIDE DEF e, n
  <1>6. Exists(SubjectId(e, n)) \/ SubjectId(e, n) \in Of(included)
    BY <1>1, <1>4, <1>5, SubjectSited
  <1>7. /\ \A id : Exists(id) => Exists(id)'
        /\ Of(included)' = Of(included)
    BY <1>1, <1>2 DEF Exists, Of, Ids
  <1> QED BY <1>3, <1>5, <1>6, <1>7

\* What an importer has just written is where it belongs.
LEMMA ImportSites ==
  ASSUME TypeOK, RunShape, KnownInOrder, TargetsOwn, PagesSited, ImportStep, [Next]_vars,
         NEW i \in Ids, i = run.at
  PROVE  Sited(i)'
  <1>0. /\ At("work") /\ Fits(source[i]) /\ This = source[i] /\ source' = source
        /\ included' = included
    BY ImportFrame DEF This
  <1>5. CASE source[i].entity = "GROUP_MEMBER"
    <2>1. /\ source[i].of # 0 /\ source[i].member # 0
          /\ Exists(run.known[source[i].of]) /\ Exists(run.known[source[i].member])
          /\ ~Exists(NoId)
      BY <1>0, <1>5, SourceFacts DEF Fits, Named, Content, Permissions, Exists, TypeOK, NoId
    <2>2. source[i].of \in Ids /\ source[i].member \in Ids
      BY <2>1, SourceFacts
    <2>3. {source[i].of, source[i].member} \subseteq Of(included)
      BY <1>0, <2>1, <2>2 DEF KnownInOrder, At
    <2>4. Of(included)' = Of(included)
      BY <1>0 DEF Of, Ids
    <2> QED BY <1>0, <1>5, <2>3, <2>4 DEF Sited, Permissions
  <1>7. source[i].entity \in Permissions =>
          (Exists(grants[i].subject.id) \/ grants[i].subject.id \in Of(included))'
    BY GrantSited
  <1>6. CASE \/ source[i].entity \notin {"GROUP_MEMBER", "PAGE", "SPACE_PERMISSION"}
             \/ source[i].entity # "GROUP_MEMBER" /\ source[i].of = 0
    BY <1>0, <1>6, <1>7 DEF Sited
  <1> SUFFICES ASSUME source[i].of # 0, source[i].entity \in {"PAGE", "SPACE_PERMISSION"}
               PROVE  Sited(i)'
    BY <1>5, <1>6
  <1>1. source[i].of \in Ids /\ source[source[i].of].entity = "SPACE"
    BY SourceFacts DEF Owner
  <1>2. Unmapped(source[i].of)' <=> Unmapped(source[i].of)
    <2>1. included' = included
      BY <1>0
    <2> QED BY <2>1, UnmappedOwner
  <1>3. CASE source[i].entity = "PAGE"
    <2>1. importPage
      BY <1>0, <1>3 DEF ImportStep, importUser, importGroup, importSpace, ImportNamed,
         importMembership, importNote, importPermission, Permissions
    <2>2. pages'[i] = run.space
      BY <2>1 DEF importPage, RunShape
    <2> QED BY <1>0, <1>2, <1>3, <2>2 DEF Sited, PagesSited, Permissions
  <1>4. CASE source[i].entity = "SPACE_PERMISSION"
    <2>1. Exists(permissionTarget(source[i])) /\ ~Exists(NoId)
      BY <1>0, <1>4, SourceFacts
         DEF Fits, Named, Content, Permissions, Exists, TypeOK, NoId
    <2>2. run.known[source[i].of] # NoId \/ mapping[source[i].of] # NoId
      BY <1>4, <2>1 DEF permissionTarget
    <2>3. run.known[source[i].of] # NoId => "SPACE" \in included
      BY <1>0, <1>1 DEF KnownInOrder, At, Of
    <2>4. ~Unmapped(source[i].of)
      BY <2>2, <2>3 DEF Unmapped
    <2> QED BY <1>0, <1>2, <1>4, <1>7, <2>4 DEF Sited
  <1> QED BY <1>3, <1>4

LEMMA SitedStep ==
  ASSUME TypeOK, RunShape, OneItemOpen, KnownInOrder, TargetsOwn, PagesSited, [Next]_vars
  PROVE  PagesSited'
  <1> USE DEF PagesSited, At
  <1>0. source' = source /\ Ids' = Ids /\ This' = source[run'.at]
    BY GrowStep, RowsGrow DEF Growing
  <1>1. At("work") => run.at \in Ids /\ item[run.at] = "RUNNING"
    BY DEF RunShape, OneItemOpen, Applying, Of
  <1>2. ASSUME included' = included, NEW i \in Ids, item[i] = "COMPLETE"
        PROVE  Sited(i)'
    BY <1>1, <1>2, SitedStays
  <1>3. ASSUME included' = included, item' = item,
               run'.pc \notin {"work", "map"}, run'.pc = "finish" => ~run'.ok
        PROVE  PagesSited'
    BY <1>0, <1>2, <1>3
  <1>4. CASE \E options \in Included : Starting(options)
    <2>1. PICK options \in Included : Starting(options)
      BY <1>4
    <2>2. run'.pc \in {"begin", "reconcile"}
      BY <2>1, StartFacts
    <2>3. CASE StartSnapshot(options)
      <3>1. \A i \in Ids : item'[i] # "COMPLETE"
        BY <2>3 DEF StartSnapshot, NoItems
      <3> QED BY <1>0, <2>2, <3>1
    <2>4. CASE ResumeSnapshot
      BY <1>3, <2>2, <2>4 DEF ResumeSnapshot
    <2> QED BY <2>1, <2>3, <2>4 DEF Starting
  <1>5. CASE Stop \/ EndJob \/ reconcile
    <2>1. included' = included /\ item' = item /\ run'.pc \in {"idle", "reconcile", "end"}
      BY <1>5, NoRunFacts, RunSteps DEF Stop, EndJob, reconcile
    <2> QED BY <1>3, <2>1
  <1>6. CASE SkipItem \/ CountItem
    <2>1. included' = included /\ item' = item /\ run'.pc \in {"begin", "reconcile"}
      BY <1>6, RunSteps DEF SkipItem, CountItem, database, NextRecord
    <2> QED BY <1>3, <2>1
  <1>7. CASE FailRecord
    <2>1. included' = included /\ item' = item /\ run'.pc = "finish" /\ ~run'.ok
      BY <1>7, RunSteps DEF FailRecord, database
    <2> QED BY <1>3, <2>1
  <1>8. CASE UNCHANGED vars \/ (\E i \in Ids : CreateLocal(i)) \/ Recheck
    <2>1. UNCHANGED <<included, item, mapping, pages, grants, run>>
      BY <1>8, RecheckFrame DEF vars, database, CreateLocal
    <2>2. /\ This' = This /\ (\A s : Unmapped(s)' <=> Unmapped(s))
          /\ \A id : Exists(id) => Exists(id)'
      BY <1>0, <2>1, RowsGrow, CalledStays, GrowStep DEF This, Unmapped
    <2>3. \A i : Sited(i) => Sited(i)'
      BY <1>0, <2>1, <2>2 DEF Sited, Of
    <2>4. At("map") \/ At("finish") => run.at \in Ids
      BY DEF RunShape, Applying, Of
    <2> QED BY <1>0, <2>1, <2>2, <2>3, <2>4
  <1>9. CASE BeginItem
    <2>1. /\ included' = included /\ item' = [item EXCEPT ![run.at] = "RUNNING"]
          /\ mapping' = mapping /\ run'.pc = "work" /\ run'.at = run.at
          /\ This.entity = "PAGE" => run'.space = resolveSpace(This)
          /\ run.at \in Ids
      BY <1>9, RunSteps DEF BeginItem, RunShape, Of
    <2>2. ASSUME NEW i \in Ids, item'[i] = "COMPLETE"
          PROVE  Sited(i)'
      <3>1. item[i] = "COMPLETE"
        BY <2>1, <2>2 DEF TypeOK
      <3> QED BY <1>2, <2>1, <3>1
    <2>3. This' = This /\ NoId' = NoId
      BY <1>0, <2>1, RowsGrow, GrowStep DEF This
    <2>4. This.entity = "PAGE" /\ This.of # 0 /\ run'.space = 0 => Unmapped(This.of)'
      <3>1. ASSUME This.entity = "PAGE", This.of # 0, run'.space = 0
            PROVE  Unmapped(This.of)
        BY <1>9, <2>1, <3>1, BegunUnmapped
      <3> QED BY <2>1, <2>3, <3>1 DEF Unmapped
    <2> QED BY <1>0, <2>1, <2>2, <2>3, <2>4
  <1>10. CASE ImportStep
    <2>1. /\ included' = included /\ item' = item /\ run'.pc = "map" /\ run'.at = run.at
          /\ run.at \in Ids
      BY <1>1, <1>10, RunSteps, ImportFrame DEF SameRecord
    <2>2. PICK i \in Ids : i = run.at
      BY <2>1
    <2>3. Sited(i)'
      BY <1>10, <2>2, ImportSites
    <2>4. (run.at = i)'
      BY <2>1, <2>2
    <2> QED BY <1>0, <1>2, <2>1, <2>3, <2>4
  <1>11. CASE UpsertMapping
    <2>1. /\ included' = included /\ item' = item /\ run'.pc = "finish" /\ run'.at = run.at
          /\ run.pc = "map" /\ run.at \in Ids
      BY <1>11, RunSteps DEF UpsertMapping, SameRecord, RunShape, Applying, Of
    <2>2. PICK i \in Ids : i = run.at
      BY <2>1
    <2>3. Sited(i)'
      BY <2>1, <2>2, SitedStays
    <2>4. (run.at = i)'
      BY <2>1, <2>2
    <2> QED BY <1>0, <1>2, <2>1, <2>3, <2>4
  <1>12. CASE FinishItem
    <2>1. /\ included' = included /\ run'.pc = "count" /\ run.pc = "finish"
          /\ item' = [item EXCEPT ![run.at] = IF run.ok THEN "COMPLETE" ELSE "FAILED"]
      BY <1>12, RunSteps DEF FinishItem
    <2>2. ASSUME NEW i \in Ids, item'[i] = "COMPLETE"
          PROVE  Sited(i)'
      <3>1. item[i] = "COMPLETE" \/ (i = run.at /\ run.ok)
        BY <2>1, <2>2 DEF TypeOK
      <3> QED BY <2>1, <3>1, SitedStays
    <2> QED BY <1>0, <2>1, <2>2
  <1> QED BY <1>4, <1>5, <1>6, <1>7, <1>8, <1>9, <1>10, <1>11, <1>12, StepKinds


\* A count of no items is of no items.
LEMMA NoItemOf ==
  ASSUME TypeOK, NEW E, NEW S, Items(E, S) = 0
  PROVE  \A i \in Of(E) : item[i] \notin S
  <1>1. IsFiniteSet({i \in Of(E) : item[i] \in S})
    BY SourceFacts, FS_Subset DEF Of
  <1>2. {i \in Of(E) : item[i] \in S} = {}
    BY <1>1, FS_EmptySet DEF Items
  <1> QED BY <1>2

\* Before its first check a run has verified nothing.
LEMMA NoneVerified ==
  ASSUME TypeOK', source' = source, run'.pc = "reconcile" => run'.at = NoId,
         run'.pc # "end", status' \notin {"COMPLETE", "COMPLETED_WITH_ERRORS"}
  PROVE  Verified' = {}
  <1> SUFFICES ASSUME NEW e \in Verified' PROVE FALSE
    OBVIOUS
  <1>1. e \in Entities
    BY IncludedAssumption DEF Verified, TypeOK
  <1>2. run'.pc = "reconcile" /\ Rank[e] < run'.at - Len(source)
    BY DEF Verified, At
  <1>3. Rank[e] \in 1..8
    BY <1>1 DEF Rank, Entities, Named, Content, Permissions
  <1>4. Len(source) \in Nat
    BY SourcesAssumption DEF TypeOK
  <1> QED BY <1>2, <1>3, <1>4 DEF NoId

\* A check is one that was counted before, or counts now.
LEMMA VerifiedStep ==
  ASSUME TypeOK, RunShape, reconcile \/ Recheck, ~blind', NEW e \in Verified'
  PROVE  /\ ~blind /\ e \in included /\ UNCHANGED <<source, included, item>>
         /\ At("reconcile") \/ status \in {"COMPLETE", "COMPLETED_WITH_ERRORS"}
         /\ \/ e \in Verified /\ checks'[e] = checks[e]
            \/ checks'[e] = IF CountCheck(e) THEN "PASS" ELSE "FAIL"
  <1>1. e \in included /\ UNCHANGED <<source, included, item, status>>
    BY RecheckFrame DEF reconcile, Verified
  <1>2. e \in Entities /\ Len(source) \in Nat
    BY <1>1, IncludedAssumption, SourceFacts DEF TypeOK
  <1>3. Rank[e] \in 1..8
    BY <1>2 DEF Rank, Entities, Named, Content, Permissions
  <1>4. CASE reconcile
    <2> DEFINE k == run.at - Len(source)
    <2>1. /\ run \in RunRecords /\ run.at \in Nat /\ status = "RUNNING" /\ At("reconcile")
          /\ Check(k)
      BY <1>4 DEF RunShape, RunRecords, reconcile, TypeOK, At
    <2>2. /\ ~blind
          /\ checks'[e] = IF Rank[e] # k THEN checks[e]
                          ELSE IF CountCheck(e) THEN "PASS" ELSE "FAIL"
      BY <1>1, <2>1, CheckFacts
    <2>3. Rank[e] = k \/ Rank[e] < k
      <3>1. CASE run'.pc = "reconcile" /\ run'.at = run.at + 1
        <4>1. Rank[e] < run.at + 1 - Len(source)
          BY <1>1, <2>1, <3>1 DEF Verified, At
        <4> QED BY <1>2, <1>3, <2>1, <4>1
      <3>2. CASE ~(run.at < Len(source) + LastCheck)
        BY <1>2, <1>3, <2>1, <3>2 DEF LastCheck
      <3> QED BY <1>4, <2>1, <3>1, <3>2, ChecksCounted
    <2>4. Rank[e] < k => Rank[e] # k /\ e \in Verified
      BY <1>1, <1>2, <1>3, <2>1 DEF Verified
    <2> QED BY <1>1, <2>1, <2>2, <2>3, <2>4
  <1>5. CASE Recheck
    <2>1. PICK k \in 1..LastCheck : Check(k)
      BY <1>5 DEF Recheck, Reconciliation
    <2>2. /\ ~blind
          /\ checks'[e] = IF Rank[e] # k THEN checks[e]
                          ELSE IF CountCheck(e) THEN "PASS" ELSE "FAIL"
      BY <1>1, <2>1, CheckFacts
    <2>3. status \in {"COMPLETE", "COMPLETED_WITH_ERRORS"} /\ e \in Verified
      BY <1>1, <1>5, RecheckFrame DEF Verified
    <2> QED BY <1>1, <2>2, <2>3
  <1> QED BY <1>4, <1>5

\* The other steps leave the verified checks as they are, or forget them.
LEMMA VerifiedElse ==
  ASSUME TypeOK, RunShape, TypeOK', [Next]_vars, ~reconcile, ~Recheck
  PROVE  \/ Verified' = {}
         \/ /\ Verified' \subseteq Verified /\ UNCHANGED <<included, item, checks>>
            /\ ~blind' => ~blind
  <1> USE DEF At
  <1>0. source' = source
    BY GrowStep DEF Growing
  <1>1. ASSUME run'.pc = "reconcile" => run'.at = NoId, run'.pc # "end",
               status' \in {"RUNNING", "STOPPED"}
        PROVE  Verified' = {}
    BY <1>0, <1>1, NoneVerified
  <1>2. CASE EndJob
    <2>1. /\ UNCHANGED <<included, item, checks>> /\ run.pc = "end"
          /\ ~blind' => ~blind
      BY <1>2 DEF EndJob
    <2>2. Verified' \subseteq Verified
      <3>1. Verified = included /\ Verified' \subseteq included'
        BY <2>1 DEF Verified
      <3> QED BY <2>1, <3>1
    <2> QED BY <2>1, <2>2
  <1>3. CASE SkipItem \/ CountItem
    <2>1. /\ run'.pc = "reconcile" => run'.at = NoId
          /\ run'.pc # "end" /\ status' = "RUNNING"
      BY <1>3, RunSteps DEF SkipItem, CountItem, database, NextRecord, TypeOK
    <2> QED BY <1>1, <2>1
  <1>4. CASE BeginItem \/ FailRecord \/ UpsertMapping \/ FinishItem
    <2>1. run'.pc \notin {"reconcile", "end"} /\ status' = "RUNNING"
      BY <1>4, RunSteps DEF BeginItem, FailRecord, UpsertMapping, FinishItem, database, TypeOK
    <2> QED BY <1>1, <2>1
  <1>5. CASE ImportStep
    <2>1. run'.pc \notin {"reconcile", "end"} /\ status' = "RUNNING"
      BY <1>5, RunSteps, ImportFrame DEF TypeOK
    <2> QED BY <1>1, <2>1
  <1>6. CASE Stop
    <2>1. run'.pc \notin {"reconcile", "end"} /\ status' = "STOPPED"
      BY <1>6, NoRunFacts DEF Stop, Stopped
    <2> QED BY <1>1, <2>1
  <1>7. CASE \E options \in Included : Starting(options)
    <2>1. /\ run'.pc = "reconcile" => run'.at = NoId
          /\ run'.pc # "end" /\ status' = "RUNNING"
      BY <1>7, StartFacts DEF Starting, StartSnapshot, ResumeSnapshot
    <2> QED BY <1>1, <2>1
  <1>8. CASE UNCHANGED vars \/ \E i \in Ids : CreateLocal(i)
    <2>1. UNCHANGED <<included, item, checks, status, run, blind>>
      BY <1>8 DEF vars, database, CreateLocal
    <2>2. Verified' = Verified
      BY <1>0, <2>1 DEF Verified
    <2> QED BY <2>1, <2>2
  <1> QED BY <1>2, <1>3, <1>4, <1>5, <1>6, <1>7, <1>8, StepKinds

LEMMA ChecksStep ==
  ASSUME TypeOK, RunShape, InOrder, ChecksMeant, TypeOK', [Next]_vars
  PROVE  ChecksMeant'
  <1>0. source' = source /\ (\A e : Of({e})' = Of({e}))
    BY GrowStep DEF Growing, Of, Ids
  <1>1. CASE reconcile \/ Recheck
    <2> SUFFICES ASSUME ~blind', NEW e \in Verified', checks'[e] = "PASS", NEW i \in Of({e})
                 PROVE  item'[i] = "COMPLETE"
      BY <1>0 DEF ChecksMeant
    <2>1. /\ ~blind /\ e \in included /\ item' = item
          /\ At("reconcile") \/ status \in {"COMPLETE", "COMPLETED_WITH_ERRORS"}
          /\ \/ e \in Verified /\ checks'[e] = checks[e]
             \/ checks'[e] = IF CountCheck(e) THEN "PASS" ELSE "FAIL"
      BY <1>1, VerifiedStep
    <2>2. CASE e \in Verified /\ checks'[e] = checks[e]
      BY <2>1, <2>2 DEF ChecksMeant
    <2>3. CASE CountCheck(e)
      <3>1. item[i] # "FAILED"
        <4>1. Items(Checked(e), {"FAILED"}) = 0
          BY <2>3 DEF CountCheck
        <4>2. i \in Of(Checked(e))
          BY <2>1, IncludedAssumption DEF Of, Checked, TypeOK
        <4> QED BY <4>1, <4>2, NoItemOf
      <3>2. item[i] \in Closed
        BY <2>1 DEF InOrder, At, Of
      <3> QED BY <2>1, <3>1, <3>2 DEF Closed
    <2> QED BY <2>1, <2>2, <2>3
  <1>2. CASE ~reconcile /\ ~Recheck
    <2>1. CASE Verified' = {}
      BY <2>1 DEF ChecksMeant
    <2>2. CASE /\ Verified' \subseteq Verified /\ UNCHANGED <<included, item, checks>>
               /\ ~blind' => ~blind
      BY <1>0, <2>2 DEF ChecksMeant
    <2> QED BY <1>2, <2>1, <2>2, VerifiedElse
  <1> QED BY <1>1, <1>2

LEMMA AccessInvariant == Spec => []AccessInv
  <1>1. Init => AccessInv
    <2> SUFFICES ASSUME Init PROVE AccessInv
      OBVIOUS
    <2>1. /\ run.pc = "idle" /\ status = "NONE" /\ members = {}
          /\ \A i \in Ids : /\ item[i] = "NONE" /\ mapping[i] = NoId
                            /\ grants[i] = NoGrant
      BY NoRunFacts DEF Init, NoItems
    <2> QED BY <2>1 DEF AccessInv, GrantsMeant, MembersMeant, PageIds, KnownInOrder,
               TargetsOwn, PagesSited, ChecksMeant, Verified, At, Applying, Of
  <1>2. ImportInv /\ AccessInv /\ [Next]_vars => AccessInv'
    <2> SUFFICES ASSUME ImportInv, AccessInv, [Next]_vars PROVE AccessInv'
      OBVIOUS
    <2>1. TypeOK'
      BY TypingStep DEF ImportInv
    <2> QED BY <2>1, GrantsStep, MembersStep, PageIdsStep, KnownStep, OwnStep, SitedStep,
               ChecksStep
            DEF ImportInv, AccessInv
  <1> QED BY <1>1, <1>2, Invariant, PTL DEF Spec

-----------------------------------------------------------------------------
(* What a job has imported when it ends COMPLETE                           *)

\* The subject of a permission has the row of its name, or was given the id of a
\* record whose row is another by now.
LEMMA SubjectLanded ==
  ASSUME TypeOK, ItemsArrived, \A j \in Of(included) : item[j] = "COMPLETE",
         NEW e \in Named, NEW n, NEW x, Called(e, n, x), Exists(x) \/ x \in Of(included)
  PROVE  x \in Rows(e, n) \cup GivenAway(e, n)
  <1>1. CASE Exists(x)
    BY <1>1 DEF Called, Rows, Exists
  <1>2. CASE ~Exists(x)
    <2>1. x \in Of(included) /\ x \in Ids /\ Abs(x) = x
      BY <1>2, SourceFacts DEF Of, Abs
    <2>2. source[x].entity = e /\ source[x].name = n
      BY <2>1 DEF Called, Is
    <2>3. mapping[x] \in Rows(e, n)
      BY <2>1, <2>2 DEF ItemsArrived, Mapped
    <2>4. x \notin Rows(e, n)
      BY <1>2 DEF Rows, Exists
    <2>5. x \in Of({e})
      BY <2>1, <2>2 DEF Of
    <2> QED BY <2>2, <2>3, <2>4, <2>5 DEF GivenAway
  <1> QED BY <1>1, <1>2

\* A permission of a complete job says what its record says.
LEMMA PermissionLanded ==
  ASSUME ImportInv, AccessInv, \A j \in Of(included) : item[j] = "COMPLETE",
         NEW i \in Of(included), source[i].entity \in Permissions
  PROVE  Landed(i)
  <1> DEFINE r == source[i]
             g == grants[i]
  <1>1. /\ i \in Ids /\ Arrived(i) /\ Sited(i) /\ TypeOK /\ ItemsArrived
    BY DEF ImportInv, ItemsArrived, AccessInv, PagesSited, Of
  <1>2. GrantMeans(i)
    <2>1. g # NoGrant
      BY <1>1 DEF Arrived
    <2> QED BY <1>1, <2>1 DEF AccessInv, GrantsMeant
  <1>3. PICK x \in DOMAIN origin :
          \/ r.user # "" /\ g.subject = Subject("USER", x) /\ Called("USER", r.user, x)
          \/ r.group # "" /\ g.subject = Subject("GROUP", x) /\ Called("GROUP", r.group, x)
    BY <1>2 DEF GrantMeans
  <1>4. Exists(x) \/ x \in Of(included)
    <2>1. \A t : Subject(t, x).id = x
      BY DEF Subject
    <2>2. g.subject.id = x
      BY <1>3, <2>1
    <2> QED BY <1>1, <2>2 DEF Sited
  <1>5. GrantLanded(i)
    <2>1. g.permission = canonicalPermission(r) /\ g.permission # "NONE"
      BY <1>2 DEF GrantMeans
    <2>2. CASE r.user # "" /\ g.subject = Subject("USER", x) /\ Called("USER", r.user, x)
      <3>1. x \in Rows("USER", r.user) \cup GivenAway("USER", r.user)
        BY <1>1, <1>4, <2>2, SubjectLanded DEF Named
      <3> QED BY <2>1, <2>2, <3>1 DEF GrantLanded
    <2>3. CASE r.group # "" /\ g.subject = Subject("GROUP", x) /\ Called("GROUP", r.group, x)
      <3>1. x \in Rows("GROUP", r.group) \cup GivenAway("GROUP", r.group)
        BY <1>1, <1>4, <2>3, SubjectLanded DEF Named
      <3> QED BY <2>1, <2>3, <3>1 DEF GrantLanded
    <2> QED BY <1>3, <2>2, <2>3
  <1>6. CASE r.entity = "SPACE_PERMISSION"
    <2>1. r.of # 0 /\ Names(r.of, g.target) /\ Exists(g.target)
      BY <1>2, <1>6 DEF GrantMeans
    <2>2. r.of \in Ids /\ source[r.of].entity = "SPACE"
      BY <1>1, <1>6, <2>1, SourceFacts DEF Owner
    <2>3. g.target \in Rows("SPACE", source[r.of].name)
      BY <1>1, <2>1, <2>2, NamedFits
    <2> QED BY <1>5, <1>6, <2>3 DEF Landed, Named
  <1>7. CASE r.entity = "PAGE_PERMISSION"
    <2>1. g.target = r.of /\ pages[r.of] # NoId
      BY <1>2, <1>7 DEF GrantMeans
    <2> QED BY <1>5, <1>7, <2>1 DEF Landed, Named
  <1> QED BY <1>6, <1>7 DEF Permissions

\* A job that ends COMPLETE, after whatever stops, repetitions and sign-ins, has
\* every record it was asked for in the database, in rows that carry its name; a
\* permission is on the space or page, and for the user or group, that its record
\* names (importUsers to importPermissions).
THEOREM Completes == Spec => []CompleteJobLanded
  <1>1. ImportInv /\ AccessInv => CompleteJobLanded
    <2> SUFFICES ASSUME ImportInv, AccessInv, status = "COMPLETE", ~blind,
                        NEW i \in Of(included)
                 PROVE  item[i] = "COMPLETE" /\ Landed(i)
      BY DEF CompleteJobLanded
    <2>1. i \in Ids /\ item[i] = "COMPLETE" /\ Arrived(i)
      BY DEF ImportInv, InOrder, ItemsArrived, Of
    <2>2. source[i].entity \in Entities
      BY <2>1, SourceFacts DEF ImportInv, Fields
    <2>3. CASE source[i].entity = "GROUP_MEMBER"
      <3>1. /\ source[i].of # 0 /\ source[i].member # 0
            /\ \E g \in Rows("GROUP", source[source[i].of].name),
                  u \in Rows("USER", source[source[i].member].name) : <<g, u>> \in members
        BY <2>1, <2>3 DEF Arrived
      <3>2. /\ source[i].of \in Of(Named) /\ source[source[i].of].entity = "GROUP"
            /\ source[i].member \in Of(Named) /\ source[source[i].member].entity = "USER"
        BY <2>1, <2>3, <3>1, OwnerFacts DEF ImportInv
      <3>3. PICK g \in Rows("GROUP", source[source[i].of].name),
                 u \in Rows("USER", source[source[i].member].name) : <<g, u>> \in members
        BY <3>1
      <3>4. /\ \A a, b \in Rows("GROUP", source[source[i].of].name) : a = b
            /\ \A a, b \in Rows("USER", source[source[i].member].name) : a = b
        BY <3>2 DEF ImportInv, NamesUnique
      <3>5. Rows("GROUP", source[source[i].of].name) \X Rows("USER", source[source[i].member].name)
            \subseteq members
        BY <3>3, <3>4
      <3> QED BY <2>1, <2>3, <3>5 DEF Landed, Named, Content, Permissions
    <2>4. CASE source[i].entity \in Named \cup Content
      BY <2>1, <2>2, <2>4 DEF Arrived, Landed, Entities, Named, Content, Permissions
    <2>5. CASE source[i].entity \in Permissions
      <3>1. \A j \in Of(included) : item[j] = "COMPLETE"
        BY DEF ImportInv, InOrder
      <3> QED BY <2>1, <2>5, <3>1, PermissionLanded
    <2> QED BY <2>1, <2>2, <2>3, <2>4, <2>5 DEF Entities
  <1> QED BY <1>1, Invariant, AccessInvariant, PTL

-----------------------------------------------------------------------------
(* Access                                                                  *)

\* Only the names for VIEW have that meaning.
LEMMA ViewNames ==
  ASSUME NEW r, r.entity \in Permissions, canonicalPermission(r) # "NONE"
  PROVE  /\ canonicalPermission(r) = "VIEW" => r.permission \in {"VIEWSPACE", "VIEW"}
         /\ r.permission \in {"VIEWSPACE", "VIEW"} => canonicalPermission(r) = "VIEW"
  <1>1. CASE r.entity = "SPACE_PERMISSION"
    <2> DEFINE meant == {c \in DOMAIN Meanings : r.permission \in Meanings[c]}
    <2>1. meant # {} /\ canonicalPermission(r) = CHOOSE c \in meant : TRUE
      BY <1>1 DEF canonicalPermission
    <2>2. "VIEW" \in DOMAIN Meanings /\ Meanings["VIEW"] = {"VIEWSPACE", "VIEW"}
      BY DEF Meanings
    <2>3. \A c \in DOMAIN Meanings : c # "VIEW" => Meanings[c] \cap {"VIEWSPACE", "VIEW"} = {}
      BY DEF Meanings
    <2>4. canonicalPermission(r) \in meant
      BY <2>1
    <2>5. r.permission \in {"VIEWSPACE", "VIEW"} <=> canonicalPermission(r) = "VIEW"
      BY <2>2, <2>3, <2>4
    <2> QED BY <2>5
  <1>2. CASE r.entity = "PAGE_PERMISSION"
    <2> DEFINE meant == {"VIEW", "EDIT"} \cap {r.permission}
    <2>1. meant # {} /\ canonicalPermission(r) = CHOOSE c \in meant : TRUE
      BY <1>2 DEF canonicalPermission
    <2>2. canonicalPermission(r) \in meant
      BY <2>1
    <2>3. r.permission \in {"VIEW", "EDIT"} /\ canonicalPermission(r) = r.permission
      BY <2>2
    <2> QED BY <2>3
  <1> QED BY <1>1, <1>2 DEF Permissions

LEMMA SubjectsFacts ==
  ASSUME NEW id, NEW x
  PROVE  /\ Subject("USER", x) \in Subjects(id, members) => x = id
         /\ Subject("GROUP", x) \in Subjects(id, members)
              => \E m \in members : m[1] = x /\ m[2] = id
  <1>1. \A a, b, y, z : Subject(a, y) = Subject(b, z) => a = b /\ y = z
    <2> SUFFICES ASSUME NEW a, NEW b, NEW y, NEW z, Subject(a, y) = Subject(b, z)
                 PROVE  a = b /\ y = z
      OBVIOUS
    <2>1. Subject(a, y).type = a /\ Subject(a, y).id = y
      BY DEF Subject
    <2>2. Subject(b, z).type = b /\ Subject(b, z).id = z
      BY DEF Subject
    <2> QED BY <2>1, <2>2
  <1>2. "USER" # "GROUP"
    OBVIOUS
  <1>3. \A s : s \in Subjects(id, members) =>
          \/ s = Subject("USER", id)
          \/ \E m \in members : m[2] = id /\ s = Subject("GROUP", m[1])
    BY Zenon DEF Subjects
  <1> QED BY <1>1, <1>2, <1>3

\* A subject of a user's row is what the source calls that user, or a group that
\* the source has the user in.
LEMMA SubjectMeans ==
  ASSUME NamesOnce, TypeOK, MembersMeant, NEW u \in Of({"USER"}),
         NEW id \in Rows("USER", source[u].name), NEW k \in Ids, GrantMeans(k),
         grants[k].subject \in Subjects(id, members)
  PROVE  \/ source[k].user = source[u].name
         \/ source[k].group \in {source[source[m].of].name :
                                   m \in {m \in Of({"GROUP_MEMBER"}) : source[m].member = u}}
  <1>1. Called("USER", source[u].name, id)
    BY CalledFacts
  <1>2. PICK x \in DOMAIN origin :
          \/ grants[k].subject = Subject("USER", x) /\ Called("USER", source[k].user, x)
          \/ grants[k].subject = Subject("GROUP", x) /\ Called("GROUP", source[k].group, x)
    BY DEF GrantMeans
  <1>3. CASE grants[k].subject = Subject("USER", x) /\ Called("USER", source[k].user, x)
    <2>1. x = id
      BY <1>3, SubjectsFacts
    <2> QED BY <1>1, <1>3, <2>1 DEF Called
  <1>4. CASE grants[k].subject = Subject("GROUP", x) /\ Called("GROUP", source[k].group, x)
    <2>1. PICK m \in members : m[1] = x /\ m[2] = id
      BY <1>4, SubjectsFacts
    <2>2. PICK j \in Of({"GROUP_MEMBER"}) : MemberMeans(m, j)
      BY DEF MembersMeant
    <2>3. /\ j \in Ids /\ source[j].of # 0 /\ source[j].member # 0
          /\ Called(source[source[j].of].entity, source[source[j].of].name, x)
          /\ Called(source[source[j].member].entity, source[source[j].member].name, id)
      BY <2>1, <2>2, CalledFacts DEF MemberMeans, Of
    <2>4. source[source[j].of].name = source[k].group
      BY <1>4, <2>3 DEF Called
    <2>5. source[j].member = u
      <3>1. source[source[j].member].name = source[u].name
        BY <1>1, <2>3 DEF Called
      <3>2. source[j].member \in Ids /\ source[source[j].member].entity = "USER"
        BY <2>3, SourceFacts
      <3> QED BY <3>1, <3>2 DEF NamesOnce, TypeOK, Of, Ids
    <2> QED BY <2>4, <2>5
  <1> QED BY <1>2, <1>3, <1>4

\* The row that the permissions of a page or a space are about.
RowOf(entity, t, row) ==
  IF entity = "SPACE_PERMISSION"
  THEN source[t].entity = "SPACE" /\ row \in Rows("SPACE", source[t].name)
  ELSE row = t

LEMMA TargetMeans ==
  ASSUME NamesOnce, TypeOK, NamesUnique, NEW k \in Ids, GrantMeans(k), NEW t \in Ids, NEW row,
         RowOf(source[k].entity, t, row)
  PROVE  grants[k].target = row <=> source[k].of = t
  <1>1. CASE source[k].entity = "SPACE_PERMISSION"
    <2> DEFINE s == source[k].of
               target == grants[k].target
    <2>1. /\ source[t].entity = "SPACE" /\ row \in Rows("SPACE", source[t].name)
          /\ s # 0 /\ Names(s, target) /\ Exists(target)
      BY <1>1 DEF RowOf, GrantMeans
    <2>2. s \in Ids /\ source[s].entity = "SPACE"
      BY <1>1, <2>1, SourceFacts DEF Owner
    <2>3. target \in Rows("SPACE", source[s].name)
      BY <2>1, <2>2, NamedFits
    <2>4. ASSUME s = t
          PROVE  target = row
      <3>1. t \in Of(Named)
        BY <2>1 DEF Of, Named
      <3> QED BY <2>1, <2>3, <2>4, <3>1 DEF NamesUnique
    <2>5. ASSUME target = row
          PROVE  s = t
      <3>1. source[s].name = source[t].name
        BY <2>1, <2>3, <2>5 DEF Rows
      <3> QED BY <2>1, <2>2, <3>1 DEF NamesOnce, TypeOK, Ids
    <2> QED BY <2>4, <2>5
  <1>2. CASE source[k].entity # "SPACE_PERMISSION"
    BY <1>2 DEF RowOf, GrantMeans
  <1> QED BY <1>1, <1>2

\* Who may view a row, once all permissions of its kind have been imported, may
\* view in the source what the row stands for.
LEMMA ViewAllowed ==
  ASSUME NamesOnce, TypeOK, NamesUnique, GrantsMeant, MembersMeant,
         NEW u \in Of({"USER"}), NEW id \in Rows("USER", source[u].name),
         NEW e \in Permissions, \A i \in Of({e}) : grants[i] # NoGrant,
         NEW t \in Ids, NEW row, RowOf(e, t, row),
         OpenOrGranted(GrantRows(e), row, "VIEW", Subjects(id, members))
  PROVE  SourceAllows(u, e, t)
  <1> DEFINE views == {i \in Of({e}) : source[i].of = t
                                        /\ source[i].permission \in {"VIEWSPACE", "VIEW"}}
  <1>1. CASE views = {}
    BY <1>1 DEF SourceAllows
  <1>2. CASE views # {}
    <2>1. ASSUME NEW i \in Of({e})
          PROVE  /\ i \in Ids /\ source[i].entity = e /\ GrantMeans(i)
                 /\ grants[i] \in GrantRows(e)
                 /\ grants[i].permission = "VIEW"
                      <=> source[i].permission \in {"VIEWSPACE", "VIEW"}
                 /\ grants[i].target = row <=> source[i].of = t
      <3>1. i \in Ids /\ source[i].entity = e /\ grants[i] # NoGrant
        BY DEF Of
      <3>2. GrantMeans(i)
        BY <3>1 DEF GrantsMeant
      <3>3. /\ grants[i].permission = canonicalPermission(source[i])
            /\ canonicalPermission(source[i]) # "NONE"
        BY <3>2 DEF GrantMeans
      <3>4. /\ canonicalPermission(source[i]) = "VIEW"
                 => source[i].permission \in {"VIEWSPACE", "VIEW"}
            /\ source[i].permission \in {"VIEWSPACE", "VIEW"}
                 => canonicalPermission(source[i]) = "VIEW"
        BY <3>1, <3>3, ViewNames
      <3>5. grants[i].target = row <=> source[i].of = t
        BY <3>1, <3>2, TargetMeans
      <3>6. grants[i] \in GrantRows(e)
        BY <3>1 DEF GrantRows
      <3> QED BY <3>1, <3>2, <3>3, <3>4, <3>5, <3>6
    <2>2. Restricted(GrantRows(e), row, "VIEW")
      <3>1. PICK i \in views : TRUE
        BY <1>2
      <3> QED BY <2>1, <3>1 DEF Restricted
    <2>3. PICK k \in Of({e}) :
            /\ grants[k].target = row /\ grants[k].permission = "VIEW"
            /\ grants[k].subject \in Subjects(id, members)
      BY <2>2 DEF OpenOrGranted, Granted, GrantRows
    <2>4. k \in views
      BY <2>1, <2>3
    <2>5. \/ source[k].user = source[u].name
          \/ source[k].group \in {source[source[m].of].name :
                                    m \in {m \in Of({"GROUP_MEMBER"}) : source[m].member = u}}
      BY <2>1, <2>3, SubjectMeans
    <2> QED BY <2>4, <2>5 DEF SourceAllows
  <1> QED BY <1>1, <1>2

\* When a job has ended and its checks of pages and permissions pass, CanPage,
\* CanSpace and ListSpaces show a user of the source nothing that the source's
\* permissions keep from that user: for any source that names users and spaces
\* once, whatever runs, stops, repetitions and sign-ins came before
\* (importPermissions, resolveSpace, reconcile).
THEOREM Access ==
  ASSUME NamesOnce
  PROVE  Spec => []AccessNotWidened
  <1>1. ImportInv /\ AccessInv => AccessNotWidened
    <2> SUFFICES ASSUME ImportInv, AccessInv, Finished, Passed({"PAGE"} \cup Permissions),
                        NEW u \in Of({"USER"}), NEW id \in Rows("USER", source[u].name)
                 PROVE  LET mine == Subjects(id, members)
                            spaceRows == GrantRows("SPACE_PERMISSION")
                        IN /\ \A p \in Of({"PAGE"}) :
                                CanPage(GrantRows("PAGE_PERMISSION"), spaceRows, p, pages[p],
                                        "VIEW", mine)
                                => /\ SourceAllows(u, "PAGE_PERMISSION", p)
                                   /\ SourceAllows(u, "SPACE_PERMISSION", source[p].of)
                           /\ \A s \in Of({"SPACE"}) : \A row \in Rows("SPACE", source[s].name) :
                                (\/ row \in ListSpaces(spaceRows, Imported("SPACE"), mine)
                                 \/ CanSpace(spaceRows, row, "VIEW", mine))
                                => SourceAllows(u, "SPACE_PERMISSION", s)
      BY DEF AccessNotWidened
    <2> DEFINE mine == Subjects(id, members)
               spaceRows == GrantRows("SPACE_PERMISSION")
    <2>0. /\ TypeOK /\ NamesUnique /\ GrantsMeant /\ MembersMeant
          /\ {"PAGE_PERMISSION", "SPACE_PERMISSION"} = Permissions
      BY DEF ImportInv, AccessInv, Permissions
    <2>1. \A e \in {"PAGE"} \cup Permissions : \A i \in Of({e}) :
             i \in Ids /\ source[i].entity = e /\ item[i] = "COMPLETE" /\ Arrived(i) /\ Sited(i)
      <3>1. /\ {"PAGE"} \cup Permissions \subseteq Verified /\ ~blind
            /\ \A e \in {"PAGE"} \cup Permissions : checks[e] = "PASS"
        BY DEF Finished, Passed, Verified
      <3> QED BY <3>1 DEF ImportInv, ItemsArrived, AccessInv, ChecksMeant, PagesSited, Of
    <2>2. ASSUME NEW e \in Permissions, NEW i \in Of({e})
          PROVE  grants[i] # NoGrant
      <3>1. source[i].entity \in Permissions /\ Arrived(i)
        BY <2>1
      <3> QED BY <3>1 DEF Arrived
    <2>3. ASSUME NEW s \in Of({"SPACE"}), NEW row \in Rows("SPACE", source[s].name),
                 OpenOrGranted(spaceRows, row, "VIEW", mine)
          PROVE  SourceAllows(u, "SPACE_PERMISSION", s)
      <3>1. s \in Ids /\ RowOf("SPACE_PERMISSION", s, row)
        BY <2>3 DEF Of, RowOf
      <3> QED BY <2>0, <2>2, <2>3, <3>1, ViewAllowed
    <2>4. ASSUME NEW p \in Of({"PAGE"}),
                 CanPage(GrantRows("PAGE_PERMISSION"), spaceRows, p, pages[p], "VIEW", mine)
          PROVE  /\ SourceAllows(u, "PAGE_PERMISSION", p)
                 /\ SourceAllows(u, "SPACE_PERMISSION", source[p].of)
      <3>1. SourceAllows(u, "PAGE_PERMISSION", p)
        <4>1. p \in Ids /\ RowOf("PAGE_PERMISSION", p, p)
          BY DEF Of, RowOf
        <4>2. OpenOrGranted(GrantRows("PAGE_PERMISSION"), p, "VIEW", mine)
          BY <2>4 DEF CanPage
        <4> QED BY <2>0, <2>2, <4>1, <4>2, ViewAllowed
      <3>2. ASSUME NEW i \in Of({"SPACE_PERMISSION"}), source[i].of = source[p].of
            PROVE  SourceAllows(u, "SPACE_PERMISSION", source[p].of)
        <4>1. i \in Ids /\ source[i].entity = "SPACE_PERMISSION" /\ GrantMeans(i) /\ Sited(i)
          BY <2>0, <2>1, <2>2 DEF GrantsMeant
        <4>2. source[p].of # 0
          BY <3>2, <4>1 DEF GrantMeans
        <4>3. source[p].of \in Of({"SPACE"})
          BY <2>0, <4>2, OwnerFacts DEF Of
        <4>4. pages[p] # 0
          BY <2>1, <3>2, <4>1, <4>2 DEF Sited
        <4>5. pages[p] \in Rows("SPACE", source[source[p].of].name)
          BY <2>1, <4>2, <4>4 DEF Arrived
        <4>6. OpenOrGranted(spaceRows, pages[p], "VIEW", mine)
          BY <2>4 DEF CanPage
        <4> QED BY <2>3, <4>3, <4>5, <4>6
      <3>3. (\A i \in Of({"SPACE_PERMISSION"}) : source[i].of # source[p].of)
               => SourceAllows(u, "SPACE_PERMISSION", source[p].of)
        BY DEF SourceAllows
      <3> QED BY <3>1, <3>2, <3>3
    <2>5. ASSUME NEW s \in Of({"SPACE"}), NEW row \in Rows("SPACE", source[s].name),
                 \/ row \in ListSpaces(spaceRows, Imported("SPACE"), mine)
                 \/ CanSpace(spaceRows, row, "VIEW", mine)
          PROVE  SourceAllows(u, "SPACE_PERMISSION", s)
      <3>1. OpenOrGranted(spaceRows, row, "VIEW", mine)
        BY <2>5 DEF ListSpaces, CanSpace, OpenOrGranted, Restricted, Granted
      <3> QED BY <2>3, <3>1
    <2> QED BY <2>4, <2>5
  <1> QED BY <1>1, Invariant, AccessInvariant, PTL


-----------------------------------------------------------------------------
(* The counts of the checks                                                *)

\* Only pages are in a space, and a run whose items are all complete finds its
\* counts right.
PagesOnly == \A i \in Ids : pages[i] # NoId => source[i].entity = "PAGE"

AllComplete == \A j \in Of(included) : item[j] = "COMPLETE"

PassesMeant ==
  ~blind /\ AllComplete => \A e \in Verified : checks[e] = "PASS"

CountsInv == PagesOnly /\ PassesMeant

LEMMA PagesOnlyStep ==
  ASSUME TypeOK, RunShape, PagesOnly, [Next]_vars
  PROVE  PagesOnly'
  <1>0. source' = source /\ Ids' = Ids /\ NoId' = NoId
    BY GrowStep, RowsGrow DEF Growing
  <1>1. CASE pages' = pages
    BY <1>0, <1>1 DEF PagesOnly
  <1>2. CASE importPage
    <2>1. source[run.at].entity = "PAGE" /\ pages' = [pages EXCEPT ![run.at] = run.space]
      BY <1>2 DEF importPage, This
    <2>2. \A i \in Ids : i # run.at => pages'[i] = pages[i]
      BY <2>1 DEF RunShape
    <2> QED BY <1>0, <2>1, <2>2 DEF PagesOnly
  <1> QED BY <1>1, <1>2, Tables

\* Two sets have as many members when a relation matches them one to one.
LEMMA Matched ==
  ASSUME NEW S, NEW T, IsFiniteSet(S), NEW R,
         \A s \in S : \E t \in T : <<s, t>> \in R,
         \A t \in T : \E s \in S : <<s, t>> \in R,
         \A s \in S : \A t, u \in T : <<s, t>> \in R /\ <<s, u>> \in R => t = u,
         \A t \in T : \A s, r \in S : <<s, t>> \in R /\ <<r, t>> \in R => s = r
  PROVE  Cardinality(T) = Cardinality(S)
  <1> DEFINE f == [s \in S |-> CHOOSE t \in T : <<s, t>> \in R]
  <1>1. \A s \in S : f[s] \in T /\ <<s, f[s]>> \in R
    OBVIOUS
  <1>2. f \in [S -> T]
    BY <1>1
  <1> HIDE DEF f
  <1>3. \A s, r \in S : f[s] = f[r] => s = r
    BY <1>1
  <1>4. \A t \in T : \E s \in S : f[s] = t
    BY <1>1
  <1>5. f \in Injection(S, T)
    BY <1>2, <1>3 DEF Injection, IsInjective
  <1>6. f \in Surjection(S, T)
    BY <1>2, <1>4 DEF Surjection
  <1>7. ExistsBijection(S, T)
    BY <1>5, <1>6 DEF ExistsBijection, Bijection
  <1> QED BY <1>7, FS_Bijection

\* Of complete items of users, groups or spaces, each has the row of its name.
LEMMA NamedCount ==
  ASSUME RecordsOnce, TypeOK, NamesUnique, NEW e \in Named, \A i \in Of({e}) : Arrived(i)
  PROVE  Cardinality(Imported(e)) = Cardinality(Of({e}))
  <1> DEFINE S == Of({e})
             T == Imported(e)
             R == {p \in S \X T : source[Abs(p[2])].name = source[p[1]].name}
  <1>1. IsFiniteSet(S)
    BY SourceFacts, FS_Subset DEF Of
  <1>2. \A s \in S : s \in Ids /\ s \in Of(Named) /\ source[s].entity = e
    BY DEF Of
  <1>3. ASSUME NEW t \in T
        PROVE  /\ Abs(t) \in S /\ \A s \in S : source[Abs(t)].name = source[s].name
                                                  <=> t \in Rows(e, source[s].name)
    <2>1. /\ t \in DOMAIN origin /\ origin[t] = "CONFLUENCE" /\ Is(Abs(t), e)
      BY DEF Imported
    <2>2. t # 0
      BY <2>1, SourceFacts DEF Is, Abs, Targets
    <2> QED BY <2>1, <2>2 DEF Rows, Of, Is
  <1>4. ASSUME NEW s \in S
        PROVE  \E t \in T : <<s, t>> \in R
    <2>1. PICK t \in Rows(e, source[s].name) : origin[t] = "CONFLUENCE"
      BY <1>2 DEF Arrived
    <2>2. t \in T
      BY <2>1 DEF Rows, Imported
    <2>3. source[Abs(t)].name = source[s].name
      BY <2>1 DEF Rows
    <2> QED BY <2>2, <2>3
  <1>5. ASSUME NEW t \in T
        PROVE  \E s \in S : <<s, t>> \in R
    BY <1>3
  <1>6. ASSUME NEW s \in S, NEW t \in T, NEW u \in T, <<s, t>> \in R, <<s, u>> \in R
        PROVE  t = u
    <2>1. t \in Rows(e, source[s].name) /\ u \in Rows(e, source[s].name)
      BY <1>3, <1>6
    <2> QED BY <1>2, <2>1 DEF NamesUnique
  <1>7. ASSUME NEW t \in T, NEW s \in S, NEW r \in S, <<s, t>> \in R, <<r, t>> \in R
        PROVE  s = r
    <2>1. source[s].name = source[r].name
      BY <1>7
    <2> QED BY <1>2, <2>1 DEF RecordsOnce, TypeOK, Ids
  <1> HIDE DEF S, T, R
  <1>8. Cardinality(T) = Cardinality(S)
    BY <1>1, <1>4, <1>5, <1>6, <1>7, Matched
  <1> QED BY <1>8 DEF S, T

LEMMA Once ==
  ASSUME RecordsOnce, TypeOK, NEW i \in Ids, NEW j \in Ids,
         source[i].entity = source[j].entity,
         \/ source[i].entity \in Named /\ source[i].name = source[j].name
         \/ /\ source[i].entity = "GROUP_MEMBER"
            /\ source[i].of = source[j].of /\ source[i].member = source[j].member
  PROVE  i = j
  BY DEF RecordsOnce, TypeOK, Ids

\* Of complete items of memberships, each has the row of its group and its user.
LEMMA MemberCount ==
  ASSUME RecordsOnce, TypeOK, NamesUnique, MembersMeant,
         \A i \in Of({"GROUP_MEMBER"}) :
            Arrived(i) /\ Arrived(source[i].of) /\ Arrived(source[i].member)
  PROVE  Cardinality(members \cap (Imported("GROUP") \X Imported("USER")))
         = Cardinality(Of({"GROUP_MEMBER"}))
  <1> DEFINE S == Of({"GROUP_MEMBER"})
             T == members \cap (Imported("GROUP") \X Imported("USER"))
             R == {p \in S \X T : MemberMeans(p[2], p[1])}
  <1>1. IsFiniteSet(S)
    BY SourceFacts, FS_Subset DEF Of
  <1>2. ASSUME NEW s \in S
        PROVE  /\ s \in Ids /\ source[s].entity = "GROUP_MEMBER"
               /\ source[s].of # 0 /\ source[s].of \in Of(Named)
               /\ source[source[s].of].entity = "GROUP"
               /\ source[s].member # 0 /\ source[s].member \in Of(Named)
               /\ source[source[s].member].entity = "USER"
    <2>1. s \in Ids /\ source[s].entity = "GROUP_MEMBER" /\ Arrived(s)
      BY DEF Of
    <2>2. source[s].of # 0 /\ source[s].member # 0
      BY <2>1 DEF Arrived
    <2> QED BY <2>1, <2>2, OwnerFacts
  <1>3. ASSUME NEW i \in Of(Named), NEW id, id \in Rows(source[i].entity, source[i].name)
        PROVE  Names(i, id)
    BY <1>3, CalledFacts
  <1>4. ASSUME NEW i \in Of(Named), Arrived(i), NEW id \in Rows(source[i].entity, source[i].name)
        PROVE  id \in Imported(source[i].entity)
    <2>1. PICK t \in Rows(source[i].entity, source[i].name) : origin[t] = "CONFLUENCE"
      BY <1>4 DEF Arrived, Of
    <2>2. t = id
      BY <1>4, <2>1 DEF NamesUnique
    <2> QED BY <2>1, <2>2 DEF Rows, Imported
  <1>5. ASSUME NEW s \in S
        PROVE  \E t \in T : <<s, t>> \in R
    <2>1. PICK g \in Rows("GROUP", source[source[s].of].name),
               u \in Rows("USER", source[source[s].member].name) : <<g, u>> \in members
      BY <1>2 DEF Arrived
    <2>2. g \in Imported("GROUP") /\ u \in Imported("USER")
      BY <1>2, <1>4, <2>1
    <2>3. Names(source[s].of, g) /\ Names(source[s].member, u)
      BY <1>2, <1>3, <2>1
    <2>4. MemberMeans(<<g, u>>, s)
      BY <1>2, <2>3 DEF MemberMeans
    <2>5. <<g, u>> \in T
      BY <2>1, <2>2
    <2> QED BY <2>4, <2>5
  <1>6. ASSUME NEW t \in T
        PROVE  \E s \in S : <<s, t>> \in R
    BY DEF MembersMeant
  <1>7. ASSUME NEW s \in S, NEW t \in T, MemberMeans(t, s)
        PROVE  /\ t = <<t[1], t[2]>>
               /\ t[1] \in Rows("GROUP", source[source[s].of].name)
               /\ t[2] \in Rows("USER", source[source[s].member].name)
    <2>1. t = <<t[1], t[2]>> /\ t[1] \in Imported("GROUP") /\ t[2] \in Imported("USER")
      OBVIOUS
    <2>2. Exists(t[1]) /\ Exists(t[2])
      BY <2>1 DEF Imported, Exists
    <2>3. Names(source[s].of, t[1]) /\ Names(source[s].member, t[2])
      BY <1>7 DEF MemberMeans
    <2>4. source[s].of \in Ids /\ source[s].member \in Ids
      BY <1>2 DEF Of
    <2> QED BY <1>2, <2>1, <2>2, <2>3, <2>4, NamedFits
  <1>8. ASSUME NEW s \in S, NEW t \in T, NEW u \in T, <<s, t>> \in R, <<s, u>> \in R
        PROVE  t = u
    <2>1. MemberMeans(t, s) /\ MemberMeans(u, s)
      BY <1>8
    <2>2. t[1] = u[1] /\ t[2] = u[2] /\ t = <<t[1], t[2]>> /\ u = <<u[1], u[2]>>
      BY <1>2, <1>7, <2>1 DEF NamesUnique
    <2> QED BY <2>2
  <1>9. ASSUME NEW t \in T, NEW s \in S, NEW r \in S, <<s, t>> \in R, <<r, t>> \in R
        PROVE  s = r
    <2>1. MemberMeans(t, s) /\ MemberMeans(t, r)
      BY <1>9
    <2>2. /\ source[source[s].of].name = source[source[r].of].name
          /\ source[source[s].member].name = source[source[r].member].name
      BY <2>1 DEF MemberMeans, Names
    <2>3. \A i, j \in Of(Named) :
            source[i].entity = source[j].entity /\ source[i].name = source[j].name => i = j
      BY Once DEF Of
    <2>4. source[s].of = source[r].of
      BY <1>2, <2>2, <2>3
    <2>5. source[s].member = source[r].member
      BY <1>2, <2>2, <2>3
    <2>6. s \in Ids /\ r \in Ids /\ source[s].entity = "GROUP_MEMBER"
          /\ source[r].entity = "GROUP_MEMBER"
      BY <1>2
    <2> QED BY <2>4, <2>5, <2>6, Once
  <1> HIDE DEF S, T, R
  <1>10. Cardinality(T) = Cardinality(S)
    BY <1>1, <1>5, <1>6, <1>8, <1>9, Matched
  <1> QED BY <1>10 DEF S, T


\* The rows of the database are as many as the records of a kind that is asked for,
\* once all its items are complete.
LEMMA RowCount ==
  ASSUME RecordsOnce, ImportInv, AccessInv, PagesOnly, AllComplete, NEW e \in included
  PROVE  targetEntityCount(e) = Cardinality(Of(Checked(e)))
  <1>0. /\ TypeOK /\ NamesUnique /\ MembersMeant /\ GrantsMeant
        /\ e \in Entities
        /\ "GROUP" \in included <=> "GROUP_MEMBER" \in included
        /\ Permissions \subseteq included \/ Permissions \cap included = {}
    BY IncludedAssumption DEF ImportInv, AccessInv, TypeOK
  <1>1. \A i \in Of(included) : i \in Ids /\ item[i] = "COMPLETE" /\ Arrived(i) /\ Sited(i)
    BY DEF AllComplete, ImportInv, ItemsArrived, AccessInv, PagesSited, Of
  <1>2. \A i \in Of({e}) : i \in Ids /\ source[i].entity = e /\ i \in Of(included)
    BY DEF Of
  <1>3. CASE e \in Named
    <2>1. Checked(e) = {e}
      BY <1>3 DEF Checked, Rank, Entities, Named, Content, Permissions
    <2>2. targetEntityCount(e) = Cardinality(Imported(e))
      BY <1>3 DEF targetEntityCount, Named, Permissions
    <2> QED BY <1>0, <1>1, <1>2, <1>3, <2>1, <2>2, NamedCount
  <1>4. CASE e = "GROUP_MEMBER"
    <2>1. Checked(e) = {e}
      BY <1>4 DEF Checked, Rank, Entities, Named, Content, Permissions
    <2>2. targetEntityCount(e)
            = Cardinality(members \cap (Imported("GROUP") \X Imported("USER")))
      BY <1>4 DEF targetEntityCount, Named, Permissions
    <2>3. \A i \in Of({e}) :
             Arrived(i) /\ Arrived(source[i].of) /\ Arrived(source[i].member)
      BY <1>1, <1>2, <1>4 DEF Sited
    <2> QED BY <1>0, <1>4, <2>1, <2>2, <2>3, MemberCount
  <1>5. CASE e = "PAGE"
    <2>1. Checked(e) = {e}
      BY <1>5 DEF Checked, Rank, Entities, Named, Content, Permissions
    <2>2. targetEntityCount(e) = Cardinality({i \in Ids : pages[i] # NoId})
      BY <1>5 DEF targetEntityCount, Named, Permissions
    <2>3. {i \in Ids : pages[i] # NoId} = Of({e})
      BY <1>1, <1>2, <1>5 DEF Arrived, PagesOnly, Of
    <2> QED BY <2>1, <2>2, <2>3
  <1>6. CASE e \in {"COMMENT", "ATTACHMENT"}
    <2>1. Checked(e) = {e}
      BY <1>6 DEF Checked, Rank, Entities, Named, Content, Permissions
    <2>2. targetEntityCount(e) = Cardinality({i \in notes : Is(i, e)})
      BY <1>6 DEF targetEntityCount, Named, Permissions
    <2>3. {i \in notes : Is(i, e)} = Of({e})
      BY <1>0, <1>1, <1>2, <1>6 DEF Arrived, Is, Of, TypeOK
    <2> QED BY <2>1, <2>2, <2>3
  <1>7. CASE e \in Permissions
    <2>1. Checked(e) = Permissions /\ Permissions \subseteq included
      BY <1>0, <1>7 DEF Checked, Rank, Entities, Named, Content, Permissions
    <2>2. targetEntityCount(e) = Cardinality({i \in Ids : grants[i] # NoGrant})
      BY <1>7 DEF targetEntityCount, Named, Permissions
    <2>3. {i \in Ids : grants[i] # NoGrant} = Of(Permissions)
      <3>1. ASSUME NEW i \in Of(Permissions)
            PROVE  i \in Ids /\ grants[i] # NoGrant
        <4>1. i \in Of(included) /\ source[i].entity \in Permissions
          BY <2>1 DEF Of
        <4> QED BY <1>1, <4>1 DEF Arrived
      <3>2. ASSUME NEW i \in Ids, grants[i] # NoGrant
            PROVE  i \in Of(Permissions)
        BY <1>0, <3>2 DEF GrantsMeant, GrantMeans, Of
      <3> QED BY <3>1, <3>2
    <2> QED BY <2>1, <2>2, <2>3
  <1> QED BY <1>0, <1>3, <1>4, <1>5, <1>6, <1>7 DEF Entities, Named, Content

LEMMA CountsRight ==
  ASSUME RecordsOnce, ImportInv, AccessInv, PagesOnly, AllComplete, NEW e \in included
  PROVE  CountCheck(e)
  <1>1. /\ e \in Entities /\ TypeOK
        /\ Permissions \subseteq included \/ Permissions \cap included = {}
    BY IncludedAssumption DEF ImportInv, TypeOK
  <1>2. Checked(e) \subseteq included
    <2>1. CASE e \in Permissions
      <3>1. Checked(e) = Permissions
        BY <2>1 DEF Checked, Rank, Entities, Named, Content, Permissions
      <3> QED BY <1>1, <2>1, <3>1
    <2>2. CASE e \notin Permissions
      <3>1. Checked(e) = {e}
        BY <1>1, <2>2 DEF Checked, Rank, Entities, Named, Content, Permissions
      <3> QED BY <3>1
    <2> QED BY <2>1, <2>2
  <1>3. \A i \in Of(Checked(e)) : item[i] = "COMPLETE"
    BY <1>2 DEF AllComplete, Of
  <1>4. {i \in Of(Checked(e)) : item[i] \in {"FAILED"}} = {}
    BY <1>3
  <1>5. /\ {i \in Of(Checked(e)) : item[i] \in {"COMPLETE"}} = Of(Checked(e))
        /\ {i \in Of(Checked(e)) : item[i] \in AnyItem} = Of(Checked(e))
    BY <1>3 DEF AnyItem
  <1>6. Items(Checked(e), {"FAILED"}) = 0
    BY <1>4, FS_EmptySet DEF Items
  <1>7. /\ Items(Checked(e), {"COMPLETE"}) = Cardinality(Of(Checked(e)))
        /\ Items(Checked(e), AnyItem) = Cardinality(Of(Checked(e)))
    BY <1>5 DEF Items
  <1> QED BY <1>6, <1>7, RowCount DEF CountCheck

LEMMA PassesStep ==
  ASSUME RecordsOnce, ImportInv, AccessInv, CountsInv, [Next]_vars
  PROVE  PassesMeant'
  <1>0. /\ TypeOK /\ RunShape /\ PagesOnly /\ PassesMeant /\ TypeOK'
        /\ source' = source /\ Ids' = Ids
    BY GrowStep, RowsGrow, TypingStep DEF Growing, ImportInv, CountsInv
  <1>1. ASSUME UNCHANGED <<included, item>>
        PROVE  AllComplete' <=> AllComplete
    BY <1>0, <1>1 DEF AllComplete, Of
  <1>2. CASE reconcile \/ Recheck
    <2> SUFFICES ASSUME ~blind', AllComplete', NEW e \in Verified'
                 PROVE  checks'[e] = "PASS"
      BY DEF PassesMeant
    <2>1. /\ ~blind /\ e \in included /\ UNCHANGED <<included, item>>
          /\ \/ e \in Verified /\ checks'[e] = checks[e]
             \/ checks'[e] = IF CountCheck(e) THEN "PASS" ELSE "FAIL"
      BY <1>0, <1>2, VerifiedStep
    <2>2. AllComplete
      BY <1>1, <2>1
    <2>3. CountCheck(e)
      BY <1>0, <2>1, <2>2, CountsRight
    <2> QED BY <1>0, <2>1, <2>2, <2>3 DEF PassesMeant
  <1>3. CASE ~reconcile /\ ~Recheck
    <2>1. CASE Verified' = {}
      BY <2>1 DEF PassesMeant
    <2>2. CASE /\ Verified' \subseteq Verified /\ UNCHANGED <<included, item, checks>>
               /\ ~blind' => ~blind
      BY <1>0, <1>1, <2>2 DEF PassesMeant
    <2> QED BY <1>0, <1>3, <2>1, <2>2, VerifiedElse
  <1> QED BY <1>2, <1>3

\* The checks of a job that ends COMPLETE pass: for any source without repetitions,
\* the rows that this and former jobs and the users left are as many as its items
\* (reconcile, targetEntityCount).
THEOREM Passes ==
  ASSUME RecordsOnce
  PROVE  Spec => []CompleteJobPasses
  <1>1. Init => CountsInv
    BY NoRunFacts DEF Init, CountsInv, PagesOnly, PassesMeant, Verified, At
  <1>2. ImportInv /\ AccessInv /\ CountsInv /\ [Next]_vars => CountsInv'
    <2> SUFFICES ASSUME ImportInv, AccessInv, CountsInv, [Next]_vars PROVE CountsInv'
      OBVIOUS
    <2>1. PagesOnly'
      BY PagesOnlyStep DEF ImportInv, CountsInv
    <2> QED BY <2>1, PassesStep DEF CountsInv
  <1>3. ImportInv /\ CountsInv => CompleteJobPasses
    BY DEF ImportInv, InOrder, CountsInv, PassesMeant, AllComplete, Verified, CompleteJobPasses
  <1> QED BY <1>1, <1>2, <1>3, Invariant, AccessInvariant, PTL DEF Spec
=============================================================================
