-------------------------- MODULE PageHistory_proofs --------------------------
(***************************************************************************)
(* PageHistory for any sources, jobs, editors and pages.                   *)
(***************************************************************************)
EXTENDS PageHistory, VersionChain_proofs, SequenceTheorems

-----------------------------------------------------------------------------
(* The inductive invariant                                                 *)

\* The pages the import makes, and the number of the record each is made of.
Legacy == DOMAIN LatestOf[source]
Top(p) == NumberOf[source][LatestOf[source][p]]

\* The row that content c is imported into.
PlacedAt(c, p, v) == PageOf[source][c] = p /\ NumberOf[source][c] = v

\* The goroutine has been through the records before the one it is at.
RunnerKnown ==
  runner.pc # "idle" =>
    /\ job[runner.job] = "RUNNING"
    /\ runner.pc \in {"page", "version", "complete", "failed"} =>
         items[runner.job][Content].status = "RUNNING"
    /\ runner.pc = "page" => IsPage
    /\ runner.pc = "finish" => runner.at = Cardinality(Contents)
    /\ \A k \in 1..Cardinality(Contents) :
         k < runner.at \/ (k = runner.at /\ runner.pc \in {"hash", "finish"}) =>
           items[runner.job][Plan[k]].status \in {"COMPLETE", "FAILED"}

JobsKnown ==
  \A j \in Jobs : job[j] = "COMPLETE" => \A c \in Contents : items[j][c].status = "COMPLETE"

\* A row holds the text of a content that is imported into it, or an edit above
\* the record its page was made of; and a row whose id is derived from a content
\* is where that is imported into, whatever its text came from.
RowsKnown ==
  \A p \in AllPages, v \in Versions :
    /\ versions[p][v].text = 0 => versions[p][v].id = 0
    /\ versions[p][v].text \in Contents => PlacedAt(versions[p][v].text, p, v)
    /\ versions[p][v].id # 0 =>
         PlacedAt(versions[p][v].id, p, v) /\ versions[p][v].text \in Contents
    /\ versions[p][v].text < 0 /\ p \in Contents => p \in Legacy /\ v > Top(p)

CurrentKnown == \A p \in Contents : current[p] # 0 => p \in Legacy /\ current[p] >= Top(p)

\* The pages that editors create: each version builds on the one before.
CreatedKnown ==
  \A p \in NewPages, v \in Versions :
    /\ v > current[p] => versions[p][v].text = 0
    /\ v <= current[p] =>
         /\ versions[p][v].text < 0
         /\ versions[p][v].base = IF v = 1 THEN 0 ELSE versions[p][v - 1].text

\* What an editor has read is still there, whatever was imported since.
DraftsKnown ==
  \A e \in Editors : draft[e] # NoDraft =>
    /\ draft[e].page \in AllPages /\ draft[e].version \in Versions
    /\ draft[e].page \in NewPages \/ source \in SoundSources =>
         draft[e].text # 0 /\ draft[e].text = versions[draft[e].page][draft[e].version].text

\* A page that cannot be read waits for the record that made it a page.
PagesKnown ==
  /\ runner.pc = "complete" => Exists(Page, Number)
  /\ \A p \in AllPages : current[p] # 0 /\ ~Exists(p, current[p]) =>
       /\ p \in Legacy /\ current[p] = Top(p)
       /\ \E j \in Jobs : items[j][LatestOf[source][p]].status \in {"RUNNING", "FAILED"}

HashesKnown == \A j \in Jobs, c \in Contents : items[j][c].hash # 0 => IdTaken(c)

ItemsKnown ==
  source \in SoundSources =>
    /\ runner.pc = "complete" => Faithful(Content)
    /\ \A j \in Jobs, c \in Contents : items[j][c].status = "COMPLETE" => Faithful(c)

HistoryInv ==
  /\ TypeOK /\ RunnerKnown /\ JobsKnown
  /\ RowsKnown /\ CurrentKnown /\ CreatedKnown /\ DraftsKnown
  /\ PagesKnown /\ HashesKnown /\ ItemsKnown /\ EditsBuildOnPredecessor

-----------------------------------------------------------------------------
(* What the import computes                                                *)

LEMMA Numbers0 ==
  /\ Cardinality(Contents) \in Nat \ {0} /\ MaxEdits \in Nat /\ MaxVersions \in Nat \ {0}
  /\ Contents \subseteq Nat \ {0} /\ NewPages \cap Contents = {}
  /\ \A t \in EditTexts : t \in Int /\ t < 0
  /\ \A n \in 1..MaxEdits : -n \in EditTexts
  <1>1. Cardinality(Contents) \in Nat /\ Cardinality(Contents) # 0
    BY ContentsAssumption, SomethingToImport, FS_CardinalityType, FS_EmptySet
  <1> QED BY <1>1, ContentsAssumption, BoundsAssumption, NewPagesAssumption DEF EditTexts

LEMMA PlaceFacts ==
  ASSUME source \in Sources, NEW c \in Contents
  PROVE  /\ PageOf[source][c] = LogicalPage(source, c) /\ PageOf[source][c] \in Contents
         /\ NumberOf[source][c] = VersionOf(source, c) /\ NumberOf[source][c] \in Versions
         /\ PageOf[source][c] \in Legacy
  <1>1. source \in [Contents -> Records]
    BY SourcesAssumption
  <1>2. VersionOf(source, c) \in Nat \ {0} /\ VersionOf(source, c) <= MaxVersions
    BY <1>1, NumberTyping, NumbersFit
  <1>3. VersionOf(source, c) \in Versions
    BY <1>2, Numbers0 DEF Versions
  <1>4. LogicalPage(source, c) \in Contents
    BY <1>1, PageTyping, SourcesAssumption
  <1>5. PageOf[source][c] = LogicalPage(source, c) /\ NumberOf[source][c] = VersionOf(source, c)
    BY DEF PageOf, NumberOf
  <1>6. Legacy = LogicalPages(source)
    BY DEF Legacy, LatestOf
  <1> QED BY <1>3, <1>4, <1>5, <1>6 DEF LogicalPages

LEMMA PlanFacts ==
  ASSUME source \in Sources
  PROVE  /\ Plan \in [1..Cardinality(Contents) -> Contents] /\ Len(Plan) = Cardinality(Contents)
         /\ \A i, j \in 1..Cardinality(Contents) : Plan[i] = Plan[j] => i = j
         /\ \A c \in Contents : \E i \in 1..Cardinality(Contents) : Plan[i] = c
  <1>1. source \in [Contents -> Records] /\ Plan = ImportPlan(source)
    BY SourcesAssumption DEF Plan, PlanOf
  <1>2. Len(ImportPlan(source)) = Cardinality(Contents)
    BY <1>1, PlanTyping, Numbers0
  <1> QED BY <1>1, <1>2, PlanTyping

LEMMA LatestFacts ==
  ASSUME source \in Sources, NEW p \in Legacy
  PROVE  /\ p \in Contents
         /\ LatestOf[source][p] \in Contents /\ PageOf[source][LatestOf[source][p]] = p
         /\ Top(p) \in Versions
  <1>1. source \in [Contents -> Records] /\ p \in LogicalPages(source)
    BY SourcesAssumption DEF Legacy, LatestOf
  <1>2. LatestOf[source][p] = Latest(source, p)
    BY <1>1 DEF LatestOf
  <1>3. LatestOf[source][p] \in Contents /\ LogicalPage(source, LatestOf[source][p]) = p
    BY <1>1, <1>2, LatestTyping
  <1>4. p \in Contents
    BY <1>3, PlaceFacts
  <1> QED BY <1>3, <1>4, PlaceFacts DEF Top

\* In a sound source no two contents share a row, and none is imported above the
\* record its page is made of.
LEMMA SoundPlaces ==
  ASSUME source \in SoundSources
  PROVE  /\ source \in Sources
         /\ \A c, d, p \in Contents, v \in Versions : PlacedAt(c, p, v) /\ PlacedAt(d, p, v) => c = d
         /\ \A c \in Contents : NumberOf[source][c] <= Top(PageOf[source][c])
  <1>1. source \in Sources /\ source \in [Contents -> Records] /\ WellVersioned(source)
    BY SourcesAssumption DEF SoundSources
  <1>2. \A c, d, p \in Contents, v \in Versions : PlacedAt(c, p, v) /\ PlacedAt(d, p, v) => c = d
    BY <1>1, PlaceFacts, SoundNumbers DEF PlacedAt
  <1>3. ASSUME NEW c \in Contents
        PROVE  NumberOf[source][c] <= Top(PageOf[source][c])
    <2>1. LogicalPage(source, c) \in LogicalPages(source)
      BY DEF LogicalPages
    <2>2. LatestOf[source][PageOf[source][c]] = Latest(source, LogicalPage(source, c))
      BY <1>1, <2>1, PlaceFacts DEF LatestOf
    <2>3. Latest(source, LogicalPage(source, c)) \in Contents
      BY <1>1, <2>1, LatestTyping
    <2> QED BY <1>1, <2>2, <2>3, PlaceFacts, SoundNumbers DEF Top
  <1> QED BY <1>1, <1>2, <1>3

\* The record a goroutine is at.
LEMMA ContentFacts ==
  ASSUME TypeOK, runner.pc # "idle"
  PROVE  /\ runner.job \in Jobs /\ runner.at \in 1..Cardinality(Contents)
         /\ Content \in Contents /\ Page \in Contents /\ Page \in Legacy /\ Number \in Versions
         /\ Page \in AllPages
         /\ PlacedAt(Content, Page, Number)
  <1>1. source \in Sources /\ runner.job \in Jobs /\ runner.at \in 1..Cardinality(Contents)
    BY DEF TypeOK, Idle
  <1>2. Content \in Contents
    BY <1>1, PlanFacts DEF Content
  <1> QED BY <1>1, <1>2, PlaceFacts DEF Page, Number, PlacedAt, AllPages

LEMMA InitHistory == Init => HistoryInv
  <1> SUFFICES ASSUME Init PROVE HistoryInv
    OBVIOUS
  <1>1. TypeOK
    BY Numbers0 DEF Init, TypeOK, Rows, NoRow, NoDraft, Versions
  <1>2. RunnerKnown /\ JobsKnown
    BY DEF Init, RunnerKnown, JobsKnown, Idle
  <1>3. \A p \in AllPages, v \in Versions : versions[p][v] = NoRow
    BY DEF Init
  <1>4. RowsKnown /\ EditsBuildOnPredecessor
    BY <1>3, Numbers0 DEF RowsKnown, NoRow, EditsBuildOnPredecessor
  <1>5. CurrentKnown /\ DraftsKnown /\ PagesKnown
    BY DEF Init, CurrentKnown, DraftsKnown, PagesKnown, AllPages, Idle
  <1>6. CreatedKnown
    BY <1>3, Numbers0 DEF Init, CreatedKnown, NoRow, AllPages, Versions
  <1>7. HashesKnown /\ ItemsKnown
    BY DEF Init, HashesKnown, ItemsKnown, Idle
  <1> QED BY <1>1, <1>2, <1>4, <1>5, <1>6, <1>7 DEF HistoryInv

-----------------------------------------------------------------------------
(* The types                                                               *)

ItemStatuses == {"NONE", "RUNNING", "COMPLETE", "FAILED"}
RowTexts == Contents \cup EditTexts \cup {0}
PCs == {"apply", "page", "version", "complete", "failed", "hash", "finish"}
RunnerType == [job : Jobs, at : 1..Cardinality(Contents), pc : PCs]

LEMMA RunnerTyped ==
  ASSUME TypeOK, runner.pc # "idle"
  PROVE  runner \in RunnerType
  BY DEF TypeOK, Idle, RunnerType, PCs

LEMMA GotoTyping ==
  ASSUME TypeOK, runner.pc # "idle", NEW pc \in PCs, Goto(pc)
  PROVE  runner' \in RunnerType
  BY RunnerTyped DEF Goto, RunnerType

LEMMA NextItemTyping ==
  ASSUME TypeOK, runner.pc # "idle", NextItem
  PROVE  runner' \in RunnerType
  <1>1. runner \in RunnerType /\ Len(Plan) = Cardinality(Contents)
    BY RunnerTyped, PlanFacts DEF TypeOK
  <1>2. CASE runner.at < Len(Plan)
    <2>1. runner.at + 1 \in 1..Cardinality(Contents)
      BY <1>1, <1>2, Numbers0 DEF RunnerType
    <2>2. runner' = [runner EXCEPT !.at = runner.at + 1, !.pc = "apply"]
      BY <1>2 DEF NextItem
    <2> QED BY <1>1, <2>1, <2>2 DEF RunnerType, PCs
  <1>3. CASE ~(runner.at < Len(Plan))
    BY <1>1, <1>3 DEF NextItem, RunnerType, PCs
  <1> QED BY <1>2, <1>3

LEMMA StatusTyping ==
  ASSUME TypeOK, runner.pc # "idle", NEW s \in ItemStatuses,
         items' = [items EXCEPT ![runner.job][Content].status = s]
  PROVE  items' \in [Jobs -> [Contents -> [status : ItemStatuses, hash : RowTexts]]]
  <1>1. runner.job \in Jobs /\ Content \in Contents
    BY ContentFacts
  <1>2. items \in [Jobs -> [Contents -> [status : ItemStatuses, hash : RowTexts]]]
    BY DEF TypeOK, ItemStatuses, RowTexts
  <1>3. [items[runner.job][Content] EXCEPT !.status = s] \in [status : ItemStatuses, hash : RowTexts]
    BY <1>1, <1>2
  <1>4. items' = [items EXCEPT ![runner.job] = [items[runner.job] EXCEPT ![Content] =
                    [items[runner.job][Content] EXCEPT !.status = s]]]
    BY <1>1, <1>2
  <1> QED BY <1>1, <1>2, <1>3, <1>4

LEMMA TextTyping ==
  ASSUME TypeOK, NEW c \in Contents
  PROVE  TextById(c) \in RowTexts
  <1>1. CASE IdTaken(c)
    <2> DEFINE at == CHOOSE at \in AllPages \X Versions : versions[at[1]][at[2]].id = c
    <2>1. \E x \in AllPages \X Versions : versions[x[1]][x[2]].id = c
      <3>1. PICK p \in AllPages, v \in Versions : versions[p][v].id = c
        BY <1>1 DEF IdTaken
      <3> WITNESS <<p, v>> \in AllPages \X Versions
      <3> QED BY <3>1
    <2>2. at \in AllPages \X Versions
      BY <2>1
    <2>3. TextById(c) = versions[at[1]][at[2]].text
      BY <1>1 DEF TextById
    <2> HIDE DEF at
    <2>4. versions[at[1]][at[2]] \in Rows
      BY <2>2 DEF TypeOK
    <2> QED BY <2>3, <2>4 DEF Rows, RowTexts
  <1>2. CASE ~IdTaken(c)
    BY <1>2 DEF TextById, RowTexts
  <1> QED BY <1>1, <1>2

LEMMA ReadTyping ==
  ASSUME TypeOK, NEW p \in AllPages, NEW v \in Versions
  PROVE  versions[p][v].text \in RowTexts /\ versions[p][v] \in Rows
  BY DEF TypeOK, Rows, RowTexts

LEMMA NextEdit ==
  ASSUME TypeOK, edits < MaxEdits
  PROVE  edits + 1 \in 0..MaxEdits /\ -(edits + 1) \in EditTexts
  <1>1. PICK n \in 1..MaxEdits : n = edits + 1
    BY Numbers0 DEF TypeOK
  <1>2. -n \in EditTexts
    BY Numbers0
  <1> QED BY <1>1, <1>2

LEMMA EditTyping ==
  ASSUME TypeOK, Edit
  PROVE  TypeOK'
  <1>1. ASSUME NEW e \in Editors, NEW p \in AllPages, PageByID(e, p)
        PROVE  TypeOK'
    <2>1. current[p] \in Versions /\ versions[p][current[p]].text \in RowTexts
      BY <1>1, ReadTyping DEF PageByID, Readable
    <2>2. draft' \in [Editors -> [page : AllPages \cup {0}, version : 0..MaxVersions, text : RowTexts]]
      BY <1>1, <2>1 DEF PageByID, TypeOK, Versions, RowTexts
    <2> QED BY <1>1, <2>2 DEF PageByID, TypeOK, database, import, RowTexts
  <1>2. ASSUME NEW e \in Editors, NEW p \in AllPages, CreatePage(e, p)
        PROVE  TypeOK'
    <2>1. edits' \in 0..MaxEdits /\ -(edits + 1) \in EditTexts
      BY <1>2, NextEdit DEF CreatePage
    <2>2. current' \in [AllPages -> 0..MaxVersions] /\ 1 \in Versions
      BY <1>2, Numbers0 DEF CreatePage, TypeOK, Versions
    <2>3. [id |-> 0, legacy |-> 0, text |-> -(edits + 1), base |-> 0] \in Rows
      BY <2>1 DEF Rows
    <2>4. versions' \in [AllPages -> [Versions -> Rows]]
      BY <1>2, <2>2, <2>3 DEF CreatePage, TypeOK
    <2> QED BY <1>2, <2>1, <2>2, <2>4 DEF CreatePage, TypeOK, import
  <1>3. ASSUME NEW e \in Editors, UpdatePage(e)
        PROVE  TypeOK'
    <2> DEFINE p == draft[e].page
               next == current[p] + 1
    <2>1. edits' \in 0..MaxEdits /\ -(edits + 1) \in EditTexts
      BY <1>3, NextEdit DEF UpdatePage
    <2>2. draft[e].text \in RowTexts /\ (p \in AllPages => current[p] \in 0..MaxVersions)
      BY DEF TypeOK, RowTexts
    <2>3. next <= MaxVersions /\ current' = [current EXCEPT ![p] = next]
          /\ versions' = [versions EXCEPT ![p][next] =
               [id |-> 0, legacy |-> 0, text |-> -(edits + 1), base |-> draft[e].text]]
      BY <1>3 DEF UpdatePage, Publish
    <2>4. p \in AllPages => next \in Versions
      BY <2>2, <2>3, Numbers0 DEF Versions
    <2> HIDE DEF p, next
    <2>5. [id |-> 0, legacy |-> 0, text |-> -(edits + 1), base |-> draft[e].text] \in Rows
      BY <2>1, <2>2 DEF Rows, RowTexts
    <2>6. current' \in [AllPages -> 0..MaxVersions]
      <3>1. CASE p \in AllPages
        BY <2>3, <2>4, <3>1 DEF TypeOK, Versions
      <3>2. CASE p \notin AllPages
        BY <2>3, <3>2 DEF TypeOK
      <3> QED BY <3>1, <3>2
    <2>7. versions' \in [AllPages -> [Versions -> Rows]]
      BY <2>3, <2>4, <2>5 DEF TypeOK
    <2>8. draft' \in [Editors -> [page : AllPages \cup {0}, version : 0..MaxVersions, text : RowTexts]]
      BY <1>3, Numbers0 DEF UpdatePage, TypeOK, NoDraft, RowTexts
    <2> QED BY <1>3, <2>1, <2>6, <2>7, <2>8 DEF UpdatePage, TypeOK, import, RowTexts
  <1>4. ASSUME NEW e \in Editors, UpdateFails(e)
        PROVE  TypeOK'
    BY <1>4, Numbers0 DEF UpdateFails, TypeOK, NoDraft, database, import
  <1> QED BY <1>1, <1>2, <1>3, <1>4 DEF Edit

LEMMA ImportTyping ==
  ASSUME TypeOK, Import
  PROVE  TypeOK'
  <1>1. ASSUME NEW j \in Jobs, RunSnapshot(j)
        PROVE  TypeOK'
    BY <1>1, Numbers0 DEF RunSnapshot, TypeOK, database
  <1>2. CASE Apply
    <2>1. runner' \in RunnerType
      BY <1>2, GotoTyping DEF Apply, PCs
    <2>2. items' \in [Jobs -> [Contents -> [status : ItemStatuses, hash : RowTexts]]]
      BY <1>2, StatusTyping DEF Apply, ItemStatuses, TypeOK, RowTexts
    <2> QED BY <1>2, <2>1, <2>2
            DEF Apply, TypeOK, database, RunnerType, PCs, ItemStatuses, RowTexts
  <1>3. CASE UpsertPage
    <2>1. runner' \in RunnerType
      BY <1>3, GotoTyping DEF UpsertPage, PCs
    <2>2. current' \in [AllPages -> 0..MaxVersions]
      <3>1. Page \in AllPages /\ Number \in 0..MaxVersions
        BY <1>3, ContentFacts, Numbers0 DEF UpsertPage, Versions, TypeOK
      <3>2. current \in [AllPages -> 0..MaxVersions]
        BY DEF TypeOK
      <3>3. [current EXCEPT ![Page] = Number] \in [AllPages -> 0..MaxVersions]
        BY <3>1, <3>2
      <3> QED BY <1>3, <3>2, <3>3 DEF UpsertPage
    <2> QED BY <1>3, <2>1, <2>2 DEF UpsertPage, TypeOK, RunnerType, PCs
  <1>4. CASE UpsertVersion
    <2>1. runner' \in RunnerType
      BY <1>4, GotoTyping DEF UpsertVersion, PCs
    <2>2. Content \in Contents /\ Page \in AllPages /\ Number \in Versions
      BY <1>4, ContentFacts DEF UpsertVersion
    <2>3. versions' \in [AllPages -> [Versions -> Rows]]
      <3>1. CASE versions' = versions
        BY <3>1 DEF TypeOK
      <3>2. CASE versions' = [versions EXCEPT ![Page][Number] =
                   [id |-> IF Exists(Page, Number) THEN @.id ELSE Content,
                    legacy |-> Content, text |-> Content, base |-> 0]]
        <4>1. versions[Page][Number].id \in Contents \cup {0}
          BY <2>2, ReadTyping DEF Rows
        <4>2. [id |-> IF Exists(Page, Number) THEN versions[Page][Number].id ELSE Content,
               legacy |-> Content, text |-> Content, base |-> 0] \in Rows
          BY <2>2, <4>1 DEF Rows
        <4> QED BY <2>2, <3>2, <4>2 DEF TypeOK
      <3> QED BY <1>4, <3>1, <3>2 DEF UpsertVersion
    <2> QED BY <1>4, <2>1, <2>3 DEF UpsertVersion, TypeOK, RunnerType, PCs
  <1>5. CASE FinishItem
    <2>1. runner' \in RunnerType
      BY <1>5, GotoTyping DEF FinishItem, PCs
    <2>2. items' \in [Jobs -> [Contents -> [status : ItemStatuses, hash : RowTexts]]]
      BY <1>5, StatusTyping DEF FinishItem, ItemStatuses
    <2> QED BY <1>5, <2>1, <2>2
            DEF FinishItem, TypeOK, database, RunnerType, PCs, ItemStatuses, RowTexts
  <1>6. CASE RecordHash
    <2>1. runner' \in RunnerType
      BY <1>6, NextItemTyping DEF RecordHash
    <2>2. TextById(Content) \in RowTexts /\ Content \in Contents /\ runner.job \in Jobs
      BY <1>6, ContentFacts, TextTyping DEF RecordHash
    <2>3. items' \in [Jobs -> [Contents -> [status : ItemStatuses, hash : RowTexts]]]
      <3>1. items \in [Jobs -> [Contents -> [status : ItemStatuses, hash : RowTexts]]]
        BY DEF TypeOK, ItemStatuses, RowTexts
      <3>2. CASE items' = [items EXCEPT ![runner.job][Content].hash = TextById(Content)]
        <4>1. PICK t \in RowTexts : t = TextById(Content)
          BY <2>2
        <4>2. [items[runner.job][Content] EXCEPT !.hash = t] \in
                 [status : ItemStatuses, hash : RowTexts]
          BY <2>2, <3>1, <4>1
        <4>3. items' = [items EXCEPT ![runner.job] = [items[runner.job] EXCEPT ![Content] =
                          [items[runner.job][Content] EXCEPT !.hash = t]]]
          BY <2>2, <3>1, <3>2, <4>1
        <4> QED BY <2>2, <3>1, <4>2, <4>3
      <3> QED BY <1>6, <3>1, <3>2 DEF RecordHash
    <2> QED BY <1>6, <2>1, <2>3
            DEF RecordHash, TypeOK, database, RunnerType, PCs, ItemStatuses, RowTexts
  <1>7. CASE Finish
    <2>1. PICK outcome \in Outcomes(runner.job) : job' = [job EXCEPT ![runner.job] = outcome]
      BY <1>7 DEF Finish
    <2>2. outcome \in {"COMPLETED_WITH_ERRORS", "UNCOUNTED", "COMPLETE"}
      BY <2>1 DEF Outcomes
    <2> QED BY <1>7, <2>1, <2>2, ContentFacts DEF Finish, TypeOK, database
  <1>8. CASE Stop
    BY <1>8, ContentFacts DEF Stop, TypeOK, database
  <1> QED BY <1>1, <1>2, <1>3, <1>4, <1>5, <1>6, <1>7, <1>8 DEF Import

-----------------------------------------------------------------------------
(* The goroutine and its items                                             *)

LEMMA EditFrame ==
  ASSUME Edit
  PROVE  source' = source /\ items' = items /\ job' = job /\ runner' = runner
  BY DEF Edit, PageByID, CreatePage, UpdatePage, UpdateFails, import

LEMMA ImportFrame ==
  ASSUME Import
  PROVE  source' = source /\ draft' = draft /\ edits' = edits
  BY DEF Import, RunSnapshot, Apply, UpsertPage, UpsertVersion, FinishItem, RecordHash, Finish,
         Stop

\* An update of one item.
LEMMA StatusSet ==
  ASSUME TypeOK, runner.pc # "idle", NEW s \in ItemStatuses,
         items' = [items EXCEPT ![runner.job][Content].status = s]
  PROVE  /\ items'[runner.job][Content].status = s
         /\ \A j \in Jobs, c \in Contents :
              /\ items'[j][c].hash = items[j][c].hash
              /\ j # runner.job \/ c # Content => items'[j][c] = items[j][c]
  BY ContentFacts DEF TypeOK

\* While a goroutine stays with a record: its next statement changes.
LEMMA StaysAt ==
  ASSUME TypeOK, runner.pc # "idle", NEW pc \in PCs, Goto(pc), source' = source
  PROVE  /\ runner'.job = runner.job /\ runner'.at = runner.at /\ runner'.pc = pc
         /\ Plan' = Plan /\ Content' = Content /\ Page' = Page /\ Number' = Number
         /\ IsPage' = IsPage
  <1>1. runner'.job = runner.job /\ runner'.at = runner.at /\ runner'.pc = pc
    BY RunnerTyped DEF Goto, RunnerType
  <1>2. Plan' = Plan /\ Content' = Content
    BY <1>1 DEF Plan, PlanOf, Content
  <1> QED BY <1>1, <1>2 DEF Page, Number, IsPage, PageOf, NumberOf, LatestOf

LEMMA RunnerEdit ==
  ASSUME RunnerKnown, JobsKnown, Edit
  PROVE  RunnerKnown' /\ JobsKnown'
  <1>1. source' = source /\ items' = items /\ job' = job /\ runner' = runner
    BY EditFrame
  <1>2. Plan' = Plan /\ Content' = Content /\ IsPage' = IsPage
    BY <1>1 DEF Content, Plan, PlanOf, IsPage, Page, PageOf, LatestOf
  <1> QED BY <1>1, <1>2 DEF RunnerKnown, JobsKnown

LEMMA RunnerImport ==
  ASSUME TypeOK, RunnerKnown, Import
  PROVE  RunnerKnown'
  <1>0. source' = source /\ source \in Sources
    BY ImportFrame DEF TypeOK
  <1>1. ASSUME NEW j \in Jobs, RunSnapshot(j)
        PROVE  RunnerKnown'
    BY <1>1, Numbers0 DEF RunSnapshot, RunnerKnown, TypeOK
  <1>2. CASE Apply
    <2>1. runner.pc = "apply" /\ job' = job /\ job[runner.job] = "RUNNING"
      BY <1>2 DEF Apply, RunnerKnown
    <2>2. Content \in Contents /\ runner.job \in Jobs /\ runner.at \in 1..Cardinality(Contents)
      BY <2>1, ContentFacts
    <2>3. \A k \in 1..Cardinality(Contents) : k < runner.at => Plan[k] \in Contents /\ Plan[k] # Content
      BY <1>0, <2>2, PlanFacts DEF Content
    <2>4. CASE items[runner.job][Content].status = "COMPLETE"
      <3>1. Goto("hash") /\ items' = items
        BY <1>2, <2>4 DEF Apply
      <3>2. /\ runner'.job = runner.job /\ runner'.at = runner.at /\ runner'.pc = "hash"
            /\ Plan' = Plan
        BY <1>0, <2>1, <3>1, StaysAt DEF PCs
      <3>3. \A k \in 1..Cardinality(Contents) :
              k < runner.at => items[runner.job][Plan[k]].status \in {"COMPLETE", "FAILED"}
        BY <2>1 DEF RunnerKnown
      <3> QED BY <2>1, <2>4, <3>1, <3>2, <3>3 DEF RunnerKnown, Content
    <2>5. CASE items[runner.job][Content].status # "COMPLETE"
      <3> DEFINE next == IF IsPage THEN "page" ELSE "version"
      <3>1. Goto(next) /\ next \in PCs
            /\ items' = [items EXCEPT ![runner.job][Content].status = "RUNNING"]
        BY <1>2, <2>5 DEF Apply, PCs
      <3>2. /\ runner'.job = runner.job /\ runner'.at = runner.at /\ runner'.pc = next
            /\ Plan' = Plan /\ Content' = Content /\ IsPage' = IsPage
        BY <1>0, <2>1, <3>1, StaysAt
      <3>3. /\ items'[runner.job][Content].status = "RUNNING"
            /\ \A c \in Contents : c # Content => items'[runner.job][c] = items[runner.job][c]
        BY <2>1, <2>2, <3>1, StatusSet DEF ItemStatuses
      <3>4. \A k \in 1..Cardinality(Contents) :
              k < runner.at => items'[runner.job][Plan[k]].status \in {"COMPLETE", "FAILED"}
        BY <2>1, <2>3, <3>3 DEF RunnerKnown
      <3> QED BY <2>1, <3>2, <3>3, <3>4 DEF RunnerKnown
    <2> QED BY <2>4, <2>5
  <1>3. ASSUME NEW pc \in {"version", "complete", "failed"}, Goto(pc),
               runner.pc \in {"page", "version"}, items' = items, job' = job
        PROVE  RunnerKnown'
    <2>1. /\ runner'.job = runner.job /\ runner'.at = runner.at /\ runner'.pc = pc
          /\ Plan' = Plan /\ Content' = Content
      BY <1>0, <1>3, StaysAt DEF PCs
    <2> QED BY <1>3, <2>1 DEF RunnerKnown
  <1>4. CASE UpsertPage
    BY <1>3, <1>4 DEF UpsertPage
  <1>5. CASE UpsertVersion
    BY <1>3, <1>5 DEF UpsertVersion
  <1>6. CASE FinishItem
    <2>1. runner.pc \in {"complete", "failed"} /\ job' = job /\ job[runner.job] = "RUNNING"
      BY <1>6 DEF FinishItem, RunnerKnown
    <2>2. Content \in Contents /\ runner.job \in Jobs /\ runner.at \in 1..Cardinality(Contents)
      BY <2>1, ContentFacts
    <2>3. PICK s \in {"COMPLETE", "FAILED"} :
            items' = [items EXCEPT ![runner.job][Content].status = s]
      BY <1>6 DEF FinishItem
    <2>4. /\ runner'.job = runner.job /\ runner'.at = runner.at /\ runner'.pc = "hash"
          /\ Plan' = Plan
      BY <1>0, <1>6, <2>1, StaysAt DEF FinishItem, PCs
    <2>5. /\ items'[runner.job][Content].status = s
          /\ \A c \in Contents : c # Content => items'[runner.job][c] = items[runner.job][c]
      BY <2>1, <2>2, <2>3, StatusSet DEF ItemStatuses
    <2>6. \A k \in 1..Cardinality(Contents) : k < runner.at => Plan[k] \in Contents /\ Plan[k] # Content
      BY <1>0, <2>2, PlanFacts DEF Content
    <2>7. \A k \in 1..Cardinality(Contents) :
            k < runner.at => items'[runner.job][Plan[k]].status \in {"COMPLETE", "FAILED"}
      BY <2>1, <2>5, <2>6 DEF RunnerKnown
    <2> QED BY <2>1, <2>4, <2>5, <2>7 DEF RunnerKnown, Content
  <1>7. CASE RecordHash
    <2>1. runner.pc = "hash" /\ job' = job /\ NextItem
      BY <1>7 DEF RecordHash
    <2>2. /\ runner \in RunnerType /\ Len(Plan) = Cardinality(Contents)
          /\ Plan \in [1..Cardinality(Contents) -> Contents] /\ Plan' = Plan
      BY <1>0, <2>1, RunnerTyped, PlanFacts DEF Plan, PlanOf
    <2>3. \A j \in Jobs, c \in Contents : items'[j][c].status = items[j][c].status
      <3>1. runner.job \in Jobs /\ Content \in Contents
        BY <2>1, ContentFacts
      <3>2. CASE UNCHANGED items
        BY <3>2
      <3>3. CASE items' = [items EXCEPT ![runner.job][Content].hash = TextById(Content)]
        <4> DEFINE t == TextById(Content)
                   i == runner.job
                   c == Content
        <4>1. /\ i \in Jobs /\ c \in Contents /\ items' = [items EXCEPT ![i][c].hash = t]
              /\ items \in [Jobs -> [Contents -> [status : ItemStatuses, hash : RowTexts]]]
          BY <3>1, <3>3 DEF TypeOK, ItemStatuses, RowTexts
        <4> HIDE DEF t, i, c
        <4>2. \A j \in Jobs, d \in Contents :
                items'[j][d] = IF j = i /\ d = c THEN [items[j][d] EXCEPT !.hash = t] ELSE items[j][d]
          BY <4>1
        <4>3. \A j \in Jobs, d \in Contents :
                [items[j][d] EXCEPT !.hash = t].status = items[j][d].status
          BY <4>1
        <4> QED BY <4>2, <4>3
      <3> QED BY <1>7, <3>2, <3>3 DEF RecordHash
    <2>4. \A k \in 1..Cardinality(Contents) :
            k <= runner.at => items'[runner.job][Plan[k]].status \in {"COMPLETE", "FAILED"}
      BY <2>1, <2>2, <2>3 DEF RunnerKnown, RunnerType
    <2>5. /\ runner'.job = runner.job
          /\ \/ runner'.at = runner.at + 1 /\ runner'.pc = "apply"
             \/ /\ runner'.at = runner.at /\ runner'.pc = "finish"
                /\ runner.at = Cardinality(Contents)
      BY <2>1, <2>2, Numbers0 DEF NextItem, RunnerType
    <2> QED BY <2>1, <2>2, <2>4, <2>5, Numbers0 DEF RunnerKnown, RunnerType
  <1>8. CASE Finish \/ Stop
    BY <1>8 DEF Finish, Stop, RunnerKnown, Idle
  <1> QED BY <1>1, <1>2, <1>4, <1>5, <1>6, <1>7, <1>8 DEF Import

LEMMA JobsImport ==
  ASSUME TypeOK, RunnerKnown, JobsKnown, Import
  PROVE  JobsKnown'
  <1>1. ASSUME NEW j \in Jobs, RunSnapshot(j)
        PROVE  JobsKnown'
    BY <1>1 DEF RunSnapshot, JobsKnown, TypeOK
  <1>2. ASSUME runner.pc # "idle", job' = job,
               \A j \in Jobs, c \in Contents : j # runner.job => items'[j][c] = items[j][c]
        PROVE  JobsKnown'
    BY <1>2 DEF JobsKnown, RunnerKnown
  <1>3. CASE Apply \/ FinishItem \/ RecordHash
    <2>1. runner.pc # "idle" /\ job' = job
      BY <1>3 DEF Apply, FinishItem, RecordHash
    <2>2. ASSUME NEW j \in Jobs, NEW c \in Contents, j # runner.job
          PROVE  items'[j][c] = items[j][c]
      BY <1>3, <2>2 DEF Apply, FinishItem, RecordHash, TypeOK
    <2> QED BY <1>2, <2>1, <2>2
  <1>4. CASE UpsertPage \/ UpsertVersion
    BY <1>4 DEF UpsertPage, UpsertVersion, JobsKnown
  <1>5. CASE Finish
    <2>1. runner.pc = "finish" /\ items' = items /\ runner.job \in Jobs /\ runner.at \in Nat
      BY <1>5, ContentFacts DEF Finish
    <2>2. ASSUME NEW c \in Contents
          PROVE  items[runner.job][c].status \in {"COMPLETE", "FAILED"}
      <3>1. PICK k \in 1..Cardinality(Contents) : Plan[k] = c
        BY PlanFacts DEF TypeOK
      <3>2. k < runner.at \/ k = runner.at
        BY <2>1, Numbers0 DEF RunnerKnown
      <3> QED BY <2>1, <3>1, <3>2 DEF RunnerKnown
    <2>3. \A j \in Jobs : j # runner.job => job'[j] = job[j]
      BY <1>5 DEF Finish, TypeOK
    <2>4. job'[runner.job] = "COMPLETE" => \A c \in Contents : items[runner.job][c].status # "FAILED"
      <3>1. PICK outcome \in Outcomes(runner.job) : job' = [job EXCEPT ![runner.job] = outcome]
        BY <1>5 DEF Finish
      <3>2. job'[runner.job] = outcome
        BY <2>1, <3>1 DEF TypeOK
      <3> QED BY <3>1, <3>2 DEF Outcomes
    <2> QED BY <2>1, <2>2, <2>3, <2>4 DEF JobsKnown
  <1>6. CASE Stop
    BY <1>6, ContentFacts DEF Stop, JobsKnown, TypeOK
  <1> QED BY <1>1, <1>3, <1>4, <1>5, <1>6 DEF Import

-----------------------------------------------------------------------------
(* The rows                                                                *)

\* An editor publishes version v of page p, upon the text base.
Publishes(p, v, base) ==
  /\ v = current[p] + 1 /\ ~Exists(p, v)
  /\ p \in NewPages \/ current[p] # 0
  /\ IF v = 1
       THEN base = 0
       ELSE p \in NewPages \/ source \in SoundSources =>
              Exists(p, v - 1) /\ base = versions[p][v - 1].text
  /\ current' = [current EXCEPT ![p] = v]
  /\ versions' = [versions EXCEPT ![p][v] =
       [id |-> 0, legacy |-> 0, text |-> -(edits + 1), base |-> base]]

\* The import makes its record the current version of its page, or writes its row.
MakesPage ==
  /\ runner.pc = "page"
  /\ current' = [current EXCEPT ![Page] = Number] /\ versions' = versions
  /\ items' = items

Writes ==
  /\ runner.pc = "version"
  /\ current' = current
  /\ versions' = [versions EXCEPT ![Page][Number] =
       [id |-> IF Exists(Page, Number) THEN @.id ELSE Content,
        legacy |-> Content, text |-> Content, base |-> 0]]
  /\ items' = items

LEMMA EditSteps ==
  ASSUME TypeOK, CreatedKnown, DraftsKnown, Edit
  PROVE  \/ current' = current /\ versions' = versions
         \/ \E p \in AllPages, v \in Versions, base \in RowTexts : Publishes(p, v, base)
  <1>1. ASSUME NEW e \in Editors, NEW p \in AllPages, CreatePage(e, p)
        PROVE  Publishes(p, 1, 0) /\ 1 \in Versions /\ 0 \in RowTexts
    <2>1. 1 \in Versions
      BY Numbers0 DEF Versions
    <2>2. ~Exists(p, 1)
      BY <1>1, <2>1 DEF CreatePage, CreatedKnown, Exists
    <2> QED BY <1>1, <2>1, <2>2 DEF CreatePage, Publishes, RowTexts
  <1>2. ASSUME NEW e \in Editors, UpdatePage(e)
        PROVE  \E p \in AllPages, v \in Versions, base \in RowTexts : Publishes(p, v, base)
    <2>1. PICK p \in AllPages : p = draft[e].page
      BY <1>2 DEF UpdatePage, DraftsKnown
    <2>2. current[p] = draft[e].version /\ current[p] \in Versions
      BY <1>2, <2>1 DEF UpdatePage, DraftsKnown
    <2>3. PICK v \in Versions : v = current[p] + 1 /\ v # 1 /\ v - 1 = current[p] /\ current[p] # 0
      BY <1>2, <2>1, <2>2, Numbers0 DEF UpdatePage, Publish, Versions
    <2>4. PICK base \in RowTexts : base = draft[e].text
      BY DEF TypeOK, RowTexts
    <2>5. p \in NewPages \/ source \in SoundSources =>
            Exists(p, v - 1) /\ base = versions[p][v - 1].text
      BY <1>2, <2>1, <2>2, <2>3, <2>4 DEF DraftsKnown, UpdatePage, Exists
    <2>6. /\ ~Exists(p, v) /\ current' = [current EXCEPT ![p] = v]
          /\ versions' = [versions EXCEPT ![p][v] =
               [id |-> 0, legacy |-> 0, text |-> -(edits + 1), base |-> base]]
      BY <1>2, <2>1, <2>3, <2>4 DEF UpdatePage, Publish
    <2>7. Publishes(p, v, base)
      BY <2>3, <2>5, <2>6 DEF Publishes
    <2> QED BY <2>7
  <1>3. ASSUME NEW e \in Editors, UpdateFails(e) \/ \E p \in AllPages : PageByID(e, p)
        PROVE  current' = current /\ versions' = versions
    BY <1>3 DEF UpdateFails, PageByID, database
  <1> QED BY <1>1, <1>2, <1>3 DEF Edit

LEMMA ImportSteps ==
  ASSUME Import
  PROVE  (current' = current /\ versions' = versions) \/ MakesPage \/ Writes
  BY DEF Import, RunSnapshot, Apply, UpsertPage, UpsertVersion, FinishItem, RecordHash, Finish,
         Stop, database, MakesPage, Writes

LEMMA PublishedRows ==
  ASSUME TypeOK, NEW p \in AllPages, NEW v \in Versions, NEW base \in RowTexts,
         Publishes(p, v, base)
  PROVE  /\ versions'[p][v] = [id |-> 0, legacy |-> 0, text |-> -(edits + 1), base |-> base]
         /\ \A q \in AllPages, w \in Versions :
              q # p \/ w # v => versions'[q][w] = versions[q][w]
         /\ current'[p] = v
         /\ \A q \in AllPages : q # p => current'[q] = current[q]
  BY DEF Publishes, TypeOK

LEMMA WrittenRows ==
  ASSUME TypeOK, Writes
  PROVE  /\ Page \in Contents /\ Page \in AllPages /\ Number \in Versions /\ Content \in Contents
         /\ versions'[Page][Number].text = Content
         /\ versions'[Page][Number].id =
              IF Exists(Page, Number) THEN versions[Page][Number].id ELSE Content
         /\ \A q \in AllPages, w \in Versions :
              q # Page \/ w # Number => versions'[q][w] = versions[q][w]
  <1>1. Page \in Contents /\ Page \in AllPages /\ Number \in Versions /\ Content \in Contents
    BY ContentFacts DEF Writes
  <1>2. versions'[Page][Number] =
          [id |-> IF Exists(Page, Number) THEN versions[Page][Number].id ELSE Content,
           legacy |-> Content, text |-> Content, base |-> 0]
    BY <1>1 DEF Writes, TypeOK
  <1>3. \A q \in AllPages, w \in Versions :
          q # Page \/ w # Number => versions'[q][w] = versions[q][w]
    BY <1>1 DEF Writes, TypeOK
  <1> QED BY <1>1, <1>2, <1>3

\* A row is never removed and keeps its id.  On a page that was created here, and
\* on all pages if the source is sound, it also keeps its text; an edit stays as
\* it is.
Kept(p, v) ==
  /\ Exists(p, v) => Exists(p, v)' /\ versions'[p][v].id = versions[p][v].id
  /\ Exists(p, v) /\ (p \in NewPages \/ source \in SoundSources) =>
       versions'[p][v].text = versions[p][v].text
  /\ versions[p][v].text < 0 /\ (p \in NewPages \/ source \in SoundSources) =>
       versions'[p][v] = versions[p][v]

LEMMA RowsKept ==
  ASSUME TypeOK, RowsKnown, CreatedKnown, DraftsKnown, [Next]_vars,
         NEW p \in AllPages, NEW v \in Versions
  PROVE  Kept(p, v)
  <1>1. CASE versions' = versions
    BY <1>1 DEF Kept, Exists
  <1>2. ASSUME NEW q \in AllPages, NEW w \in Versions, NEW base \in RowTexts,
               Publishes(q, w, base)
        PROVE  Kept(p, v)
    <2>1. CASE q = p /\ w = v
      BY <1>2, <2>1 DEF Publishes, Kept, Exists
    <2>2. CASE q # p \/ w # v
      <3>1. \A x \in AllPages, y \in Versions :
              x # q \/ y # w => versions'[x][y] = versions[x][y]
        BY <1>2 DEF Publishes, TypeOK
      <3>2. versions'[p][v] = versions[p][v]
        BY <2>2, <3>1
      <3> QED BY <3>2 DEF Kept, Exists
    <2> QED BY <2>1, <2>2
  <1>3. CASE Writes
    <2>1. CASE Page = p /\ Number = v
      <3>1. Content \in Contents /\ p \in Contents /\ PlacedAt(Content, p, v)
        BY <1>3, <2>1, ContentFacts DEF Writes
      <3>2. versions'[p][v].text = Content /\ Content # 0
        BY <1>3, <2>1, <3>1, WrittenRows, Numbers0
      <3>3. Exists(p, v) => versions'[p][v].id = versions[p][v].id
        BY <1>3, <2>1, WrittenRows
      <3>4. ASSUME source \in SoundSources
            PROVE  ~(versions[p][v].text < 0) /\ (Exists(p, v) => versions[p][v].text = Content)
        <4>1. ~(versions[p][v].text < 0)
          <5>1. v <= Top(p) /\ Top(p) \in Int /\ v \in Int
            BY <3>1, <3>4, SoundPlaces, PlaceFacts, LatestFacts DEF PlacedAt, Versions
          <5> QED BY <3>1, <5>1 DEF RowsKnown
        <4>2. versions[p][v].text \in RowTexts
          BY ReadTyping
        <4>3. versions[p][v].text \in Contents \/ versions[p][v].text = 0
          BY <4>1, <4>2, Numbers0 DEF RowTexts
        <4> QED BY <3>1, <3>4, <4>1, <4>3, SoundPlaces DEF RowsKnown, Exists
      <3>5. p \notin NewPages
        BY <3>1, Numbers0
      <3> QED BY <3>2, <3>3, <3>4, <3>5 DEF Kept, Exists
    <2>2. CASE Page # p \/ Number # v
      BY <1>3, <2>2, WrittenRows DEF Kept, Exists
    <2> QED BY <2>1, <2>2
  <1>4. versions' = versions \/ Writes
          \/ \E q \in AllPages, w \in Versions, base \in RowTexts : Publishes(q, w, base)
    BY EditSteps, ImportSteps DEF Next, vars, MakesPage
  <1>5. CASE \E q \in AllPages, w \in Versions, base \in RowTexts : Publishes(q, w, base)
    <2>1. PICK q \in AllPages, w \in Versions, base \in RowTexts : Publishes(q, w, base)
      BY <1>5
    <2> QED BY <1>2, <2>1
  <1> QED BY <1>1, <1>3, <1>4, <1>5

LEMMA SourceStays ==
  ASSUME source' = source
  PROVE  /\ Legacy' = Legacy
         /\ \A p : Top(p)' = Top(p)
         /\ \A c, p, v : PlacedAt(c, p, v)' <=> PlacedAt(c, p, v)
  BY DEF Legacy, LatestOf, Top, NumberOf, PlacedAt, PageOf

\* What a step may do to the tables.
LEMMA TableSteps ==
  ASSUME TypeOK, CreatedKnown, DraftsKnown, [Next]_vars
  PROVE  /\ source' = source
         /\ \/ current' = current /\ versions' = versions
            \/ \E p \in AllPages, v \in Versions, base \in RowTexts :
                 Publishes(p, v, base) /\ edits < MaxEdits
            \/ MakesPage
            \/ Writes
  <1>1. source' = source
    BY EditFrame, ImportFrame DEF Next, vars
  <1>2. Edit => edits < MaxEdits \/ (current' = current /\ versions' = versions)
    BY DEF Edit, PageByID, CreatePage, UpdatePage, UpdateFails, database
  <1> QED BY <1>1, <1>2, EditSteps, ImportSteps DEF Next, vars

LEMMA RowsStep ==
  ASSUME TypeOK, RowsKnown, CurrentKnown, CreatedKnown, DraftsKnown, [Next]_vars
  PROVE  RowsKnown'
  <1>0. source' = source /\ source \in Sources
    BY TableSteps DEF TypeOK
  <1>1. /\ Legacy' = Legacy
        /\ \A p : Top(p)' = Top(p)
        /\ \A c, p, v : PlacedAt(c, p, v)' <=> PlacedAt(c, p, v)
    BY <1>0, SourceStays
  <1> SUFFICES ASSUME NEW p \in AllPages, NEW v \in Versions
               PROVE  /\ versions'[p][v].text = 0 => versions'[p][v].id = 0
                      /\ versions'[p][v].text \in Contents => PlacedAt(versions'[p][v].text, p, v)
                      /\ versions'[p][v].id # 0 =>
                           PlacedAt(versions'[p][v].id, p, v) /\ versions'[p][v].text \in Contents
                      /\ versions'[p][v].text < 0 /\ p \in Contents => p \in Legacy /\ v > Top(p)
    BY <1>0, <1>1 DEF RowsKnown, PlacedAt
  <1>2. ASSUME versions'[p][v] = versions[p][v]
        PROVE  /\ versions'[p][v].text = 0 => versions'[p][v].id = 0
               /\ versions'[p][v].text \in Contents => PlacedAt(versions'[p][v].text, p, v)
               /\ versions'[p][v].id # 0 =>
                    PlacedAt(versions'[p][v].id, p, v) /\ versions'[p][v].text \in Contents
               /\ versions'[p][v].text < 0 /\ p \in Contents => p \in Legacy /\ v > Top(p)
    BY <1>2 DEF RowsKnown
  <1>3. CASE versions' = versions
    BY <1>2, <1>3
  <1>4. ASSUME NEW q \in AllPages, NEW w \in Versions, NEW base \in RowTexts,
               Publishes(q, w, base), edits < MaxEdits, q = p /\ w = v
        PROVE  /\ versions'[p][v].text \in EditTexts /\ versions'[p][v].id = 0
               /\ p \in Contents => p \in Legacy /\ v > Top(p)
    <2>1. versions'[p][v].text = -(edits + 1) /\ versions'[p][v].id = 0
      BY <1>4 DEF Publishes, TypeOK
    <2>2. -(edits + 1) \in EditTexts
      BY <1>4, NextEdit
    <2>3. ASSUME p \in Contents PROVE p \in Legacy /\ v > Top(p)
      <3>1. current[p] # 0 /\ v = current[p] + 1 /\ current[p] \in Nat
        BY <1>4, <2>3, Numbers0 DEF Publishes, TypeOK
      <3>2. p \in Legacy /\ current[p] >= Top(p)
        BY <2>3, <3>1 DEF CurrentKnown
      <3>3. Top(p) \in Nat
        BY <1>0, <3>2, LatestFacts, Numbers0 DEF Versions
      <3> QED BY <3>1, <3>2, <3>3
    <2> QED BY <2>1, <2>2, <2>3
  <1>5. CASE Writes
    <2>1. CASE Page = p /\ Number = v
      <3>1. Content \in Contents /\ PlacedAt(Content, p, v)
        BY <1>5, <2>1, ContentFacts DEF Writes
      <3>2. /\ versions'[p][v].text = Content
            /\ versions'[p][v].id = IF Exists(p, v) THEN versions[p][v].id ELSE Content
        BY <1>5, <2>1, WrittenRows
      <3>3. Content # 0 /\ ~(Content < 0)
        BY <3>1, Numbers0
      <3> QED BY <3>1, <3>2, <3>3 DEF RowsKnown
    <2>2. CASE Page # p \/ Number # v
      BY <1>2, <1>5, <2>2, WrittenRows
    <2> QED BY <2>1, <2>2
  <1>6. CASE \E q \in AllPages, w \in Versions, base \in RowTexts :
               Publishes(q, w, base) /\ edits < MaxEdits
    <2>1. PICK q \in AllPages, w \in Versions, base \in RowTexts :
            Publishes(q, w, base) /\ edits < MaxEdits
      BY <1>6
    <2>2. CASE q = p /\ w = v
      <3>1. /\ versions'[p][v].text \in EditTexts /\ versions'[p][v].id = 0
            /\ p \in Contents => p \in Legacy /\ v > Top(p)
        BY <1>4, <2>1, <2>2
      <3>2. versions'[p][v].text # 0 /\ versions'[p][v].text \notin Contents
        BY <3>1, Numbers0
      <3> QED BY <3>1, <3>2
    <2>3. CASE q # p \/ w # v
      <3>1. versions'[p][v] = versions[p][v]
        BY <2>1, <2>3 DEF Publishes, TypeOK
      <3> QED BY <1>2, <3>1
    <2> QED BY <2>2, <2>3
  <1> QED BY <1>3, <1>5, <1>6, TableSteps DEF MakesPage

LEMMA CurrentStep ==
  ASSUME TypeOK, RunnerKnown, CurrentKnown, CreatedKnown, DraftsKnown, [Next]_vars
  PROVE  CurrentKnown'
  <1>0. source' = source /\ source \in Sources /\ Legacy' = Legacy /\ \A p : Top(p)' = Top(p)
    BY TableSteps, SourceStays DEF TypeOK
  <1>1. ASSUME NEW p \in Contents, current'[p] # 0
        PROVE  p \in Legacy /\ current'[p] >= Top(p)
    <2>0. p \in AllPages /\ p \notin NewPages /\ current[p] \in Nat
      BY Numbers0 DEF AllPages, TypeOK
    <2>1. CASE current'[p] = current[p]
      BY <1>1, <2>1 DEF CurrentKnown
    <2>2. ASSUME NEW q \in AllPages, NEW v \in Versions, NEW base \in RowTexts,
                 Publishes(q, v, base), q = p
          PROVE  p \in Legacy /\ current'[p] >= Top(p)
      <3>1. current[p] # 0 /\ current'[p] = current[p] + 1
        BY <2>0, <2>2 DEF Publishes, TypeOK
      <3>2. p \in Legacy /\ current[p] >= Top(p)
        BY <3>1 DEF CurrentKnown
      <3>3. Top(p) \in Nat
        BY <1>0, <3>2, LatestFacts, Numbers0 DEF Versions
      <3> QED BY <2>0, <3>1, <3>2, <3>3
    <2>3. CASE MakesPage
      <3>1. /\ Page \in Legacy /\ Number \in Versions /\ IsPage
            /\ current' = [current EXCEPT ![Page] = Number]
        BY <2>3, ContentFacts DEF MakesPage, RunnerKnown
      <3>2. Number = Top(Page) /\ Number \in Nat
        BY <3>1, Numbers0 DEF Number, IsPage, Top, Versions
      <3>3. CASE Page = p
        BY <2>0, <3>1, <3>2, <3>3 DEF TypeOK
      <3>4. CASE Page # p
        BY <1>1, <2>0, <3>1, <3>4 DEF TypeOK, CurrentKnown
      <3> QED BY <3>3, <3>4
    <2>4. CASE \E q \in AllPages, v \in Versions, base \in RowTexts : Publishes(q, v, base)
      <3>1. PICK q \in AllPages, v \in Versions, base \in RowTexts : Publishes(q, v, base)
        BY <2>4
      <3>2. CASE q = p
        BY <2>2, <3>1, <3>2
      <3>3. CASE q # p
        BY <2>0, <2>1, <3>1, <3>3 DEF Publishes, TypeOK
      <3> QED BY <3>2, <3>3
    <2> QED BY <2>1, <2>3, <2>4, TableSteps DEF Writes
  <1> QED BY <1>0, <1>1 DEF CurrentKnown

LEMMA CreatedStep ==
  ASSUME TypeOK, RowsKnown, CreatedKnown, DraftsKnown, [Next]_vars
  PROVE  CreatedKnown'
  <1> SUFFICES ASSUME NEW p \in NewPages, NEW v \in Versions
               PROVE  /\ v > current'[p] => versions'[p][v].text = 0
                      /\ v <= current'[p] =>
                           /\ versions'[p][v].text < 0
                           /\ versions'[p][v].base = IF v = 1 THEN 0 ELSE versions'[p][v - 1].text
    BY DEF CreatedKnown
  <1>0. p \in AllPages /\ p \notin Contents /\ current[p] \in Nat /\ v \in Nat \ {0}
    BY Numbers0 DEF AllPages, TypeOK, Versions
  <1>1. ASSUME current'[p] = current[p], versions'[p] = versions[p]
        PROVE  /\ v > current'[p] => versions'[p][v].text = 0
               /\ v <= current'[p] =>
                    /\ versions'[p][v].text < 0
                    /\ versions'[p][v].base = IF v = 1 THEN 0 ELSE versions'[p][v - 1].text
    BY <1>1 DEF CreatedKnown
  <1>2. ASSUME NEW w \in Versions, NEW base \in RowTexts, Publishes(p, w, base), edits < MaxEdits
        PROVE  /\ v > current'[p] => versions'[p][v].text = 0
               /\ v <= current'[p] =>
                    /\ versions'[p][v].text < 0
                    /\ versions'[p][v].base = IF v = 1 THEN 0 ELSE versions'[p][v - 1].text
    <2>1. /\ w = current[p] + 1 /\ current'[p] = w
          /\ base = IF w = 1 THEN 0 ELSE versions[p][w - 1].text
          /\ versions'[p] = [versions[p] EXCEPT ![w] =
               [id |-> 0, legacy |-> 0, text |-> -(edits + 1), base |-> base]]
      BY <1>0, <1>2 DEF Publishes, TypeOK
    <2>2. versions[p] \in [Versions -> Rows] /\ -(edits + 1) < 0
      BY <1>0, <1>2, NextEdit, Numbers0 DEF TypeOK
    <2>3. v # 1 => v - 1 \in Versions /\ v - 1 # v
      BY Numbers0 DEF Versions
    <2>4. CASE v = w
      BY <1>0, <2>1, <2>2, <2>3, <2>4
    <2>5. CASE v # w
      <3>1. versions'[p][v] = versions[p][v] /\ (v > w <=> v > current[p])
        BY <1>0, <2>1, <2>2, <2>5
      <3>2. v <= w /\ v # 1 => versions'[p][v - 1] = versions[p][v - 1]
        BY <1>0, <2>1, <2>2, <2>3, <2>5
      <3> QED BY <1>0, <2>1, <2>5, <3>1, <3>2 DEF CreatedKnown
    <2> QED BY <2>4, <2>5
  <1>3. CASE \E q \in AllPages, w \in Versions, base \in RowTexts :
               Publishes(q, w, base) /\ edits < MaxEdits
    <2>1. PICK q \in AllPages, w \in Versions, base \in RowTexts :
            Publishes(q, w, base) /\ edits < MaxEdits
      BY <1>3
    <2>2. CASE q = p
      BY <1>2, <2>1, <2>2
    <2>3. CASE q # p
      <3>1. current'[p] = current[p] /\ versions'[p] = versions[p]
        BY <1>0, <2>1, <2>3 DEF Publishes, TypeOK
      <3> QED BY <1>1, <3>1
    <2> QED BY <2>2, <2>3
  <1>4. CASE MakesPage \/ Writes
    <2>1. Page \in Contents /\ Page # p
      BY <1>0, <1>4, ContentFacts DEF MakesPage, Writes
    <2>2. current'[p] = current[p] /\ versions'[p] = versions[p]
      BY <1>0, <1>4, <2>1 DEF MakesPage, Writes, TypeOK
    <2> QED BY <1>1, <2>2
  <1> QED BY <1>1, <1>3, <1>4, TableSteps
LEMMA DraftsStep ==
  ASSUME TypeOK, RowsKnown, CreatedKnown, DraftsKnown, [Next]_vars
  PROVE  DraftsKnown'
  <1>0. source' = source
    BY TableSteps
  <1> SUFFICES ASSUME NEW e \in Editors, draft'[e] # NoDraft
               PROVE  /\ draft'[e].page \in AllPages /\ draft'[e].version \in Versions
                      /\ draft'[e].page \in NewPages \/ source \in SoundSources =>
                           /\ draft'[e].text # 0
                           /\ draft'[e].text = versions'[draft'[e].page][draft'[e].version].text
    BY <1>0 DEF DraftsKnown
  <1>1. CASE draft'[e] = draft[e]
    <2> DEFINE p == draft[e].page
               v == draft[e].version
    <2>1. /\ p \in AllPages /\ v \in Versions
          /\ p \in NewPages \/ source \in SoundSources =>
               draft[e].text # 0 /\ draft[e].text = versions[p][v].text
      BY <1>1 DEF DraftsKnown
    <2> HIDE DEF p, v
    <2>2. Kept(p, v)
      BY <2>1, RowsKept
    <2>3. p \in NewPages \/ source \in SoundSources => draft[e].text = versions'[p][v].text
      BY <2>1, <2>2 DEF Kept, Exists
    <2> QED BY <1>1, <2>1, <2>3 DEF p, v
  <1>2. ASSUME NEW p \in AllPages, PageByID(e, p)
        PROVE  /\ draft'[e].page \in AllPages /\ draft'[e].version \in Versions
               /\ draft'[e].text # 0
               /\ draft'[e].text = versions'[draft'[e].page][draft'[e].version].text
    <2>1. draft'[e] = [page |-> p, version |-> current[p], text |-> versions[p][current[p]].text]
      BY <1>2 DEF PageByID, TypeOK
    <2>2. current[p] \in Versions /\ versions[p][current[p]].text # 0 /\ versions' = versions
      BY <1>2 DEF PageByID, Readable, Exists, database
    <2> QED BY <2>1, <2>2
  <1>3. draft'[e] = draft[e] \/ \E p \in AllPages : PageByID(e, p)
    <2>1. CASE Edit
      <3>1. ASSUME NEW f \in Editors, draft' = [draft EXCEPT ![f] = NoDraft]
            PROVE  draft'[e] = draft[e]
        BY <3>1 DEF TypeOK
      <3>2. ASSUME NEW f \in Editors, NEW p \in AllPages, PageByID(f, p), f # e
            PROVE  draft'[e] = draft[e]
        BY <3>2 DEF TypeOK, PageByID
      <3> QED BY <2>1, <3>1, <3>2 DEF Edit, CreatePage, UpdatePage, UpdateFails
    <2> QED BY <2>1, ImportFrame DEF Next, vars
  <1> QED BY <1>1, <1>2, <1>3

LEMMA BuildsStep ==
  ASSUME TypeOK, RowsKnown, CreatedKnown, DraftsKnown, EditsBuildOnPredecessor, [Next]_vars
  PROVE  EditsBuildOnPredecessor'
  <1>0. source' = source
    BY TableSteps
  <1> SUFFICES ASSUME source \in SoundSources,
                      NEW p \in AllPages, NEW v \in Versions, versions'[p][v].text < 0
               PROVE  IF v = 1 THEN versions'[p][v].base = 0
                               ELSE /\ versions'[p][v - 1].text # 0
                                    /\ versions'[p][v].base = versions'[p][v - 1].text
    BY <1>0 DEF EditsBuildOnPredecessor, Exists
  <1>1. v # 1 => v - 1 \in Versions /\ v - 1 # v
    BY Numbers0 DEF Versions
  <1>2. CASE versions[p][v].text < 0
    <2>1. versions'[p][v] = versions[p][v]
      BY <1>2, RowsKept DEF Kept
    <2>2. CASE v = 1
      BY <1>2, <2>1, <2>2 DEF EditsBuildOnPredecessor
    <2>3. CASE v # 1
      <3>1. Exists(p, v - 1) /\ versions[p][v].base = versions[p][v - 1].text
        BY <1>2, <2>3 DEF EditsBuildOnPredecessor
      <3>2. Kept(p, v - 1)
        BY <1>1, <2>3, RowsKept
      <3> QED BY <2>1, <2>3, <3>1, <3>2 DEF Kept, Exists
    <2> QED BY <2>2, <2>3
  <1>3. CASE ~(versions[p][v].text < 0)
    <2>1. versions'[p][v] # versions[p][v]
      BY <1>3
    <2>2. ~Writes
      <3> SUFFICES ASSUME Writes PROVE FALSE
        OBVIOUS
      <3>1. Page = p /\ Number = v
        BY <2>1, WrittenRows
      <3>2. PICK c \in Contents : versions'[p][v].text = c
        BY <3>1, WrittenRows
      <3> QED BY <3>2, Numbers0
    <2>3. PICK q \in AllPages, w \in Versions, base \in RowTexts : Publishes(q, w, base)
      BY <2>1, <2>2, TableSteps DEF MakesPage
    <2>4. q = p /\ w = v
      BY <2>1, <2>3 DEF Publishes, TypeOK
    <2>5. versions'[p][v].base = base
      BY <2>3, <2>4 DEF Publishes, TypeOK
    <2>6. v # 1 => versions'[p][v - 1] = versions[p][v - 1]
      BY <1>1, <2>3, <2>4 DEF Publishes, TypeOK
    <2> QED BY <2>3, <2>4, <2>5, <2>6 DEF Publishes, Exists
  <1> QED BY <1>2, <1>3

-----------------------------------------------------------------------------
(* The items                                                               *)

\* What a step may do to an item.
LEMMA ItemSteps ==
  ASSUME TypeOK, [Next]_vars, NEW j \in Jobs, NEW c \in Contents
  PROVE  /\ \/ items'[j][c].status = items[j][c].status
            \/ items'[j][c].status \in {"RUNNING", "FAILED"}
            \/ items'[j][c].status = "COMPLETE" /\ c = Content /\ runner.pc = "complete"
         /\ \/ items'[j][c].hash = items[j][c].hash
            \/ c = Content /\ items'[j][c].hash = TextById(c)
  <1>1. CASE items' = items
    BY <1>1
  <1>2. CASE Apply
    <2>1. runner.pc # "idle"
      BY <1>2 DEF Apply
    <2> QED BY <1>1, <1>2, <2>1, StatusSet DEF Apply, ItemStatuses
  <1>3. CASE FinishItem
    <2>1. runner.pc # "idle"
      BY <1>3 DEF FinishItem
    <2>2. PICK s \in {"COMPLETE", "FAILED"} :
            /\ items' = [items EXCEPT ![runner.job][Content].status = s]
            /\ s = "COMPLETE" => runner.pc = "complete"
      BY <1>3 DEF FinishItem
    <2> QED BY <2>1, <2>2, StatusSet DEF ItemStatuses
  <1>4. CASE RecordHash
    <2>1. Content \in Contents /\ runner.job \in Jobs
      BY <1>4, ContentFacts DEF RecordHash
    <2> QED BY <1>1, <1>4, <2>1 DEF RecordHash, TypeOK
  <1> QED BY <1>1, <1>2, <1>3, <1>4, EditFrame
          DEF Next, vars, Import, RunSnapshot, UpsertPage, UpsertVersion, Finish, Stop

\* A record counts as written only once its row is.
LEMMA WrittenSteps ==
  ASSUME TypeOK, [Next]_vars, runner'.pc = "complete"
  PROVE  /\ Content' = Content /\ Page' = Page /\ Number' = Number
         /\ runner.pc = "complete" \/ Writes
  <1>0. source' = source
    BY EditFrame, ImportFrame DEF Next, vars
  <1>1. CASE runner' = runner
    BY <1>0, <1>1 DEF Content, Plan, PlanOf, Page, PageOf, Number, NumberOf
  <1>2. CASE UpsertVersion
    <2>1. runner.pc # "idle" /\ runner \in RunnerType
      BY <1>2, RunnerTyped DEF UpsertVersion
    <2>2. Goto("complete") /\ Writes
      BY <1>2, <2>1 DEF UpsertVersion, Writes, Goto, RunnerType
    <2> QED BY <1>0, <2>1, <2>2, StaysAt DEF PCs
  <1>3. ASSUME NEW pc \in PCs \ {"complete"}, Goto(pc), runner.pc # "idle"
        PROVE  FALSE
    <2>1. runner \in RunnerType /\ runner' = [runner EXCEPT !.pc = pc]
      BY <1>3, RunnerTyped DEF Goto
    <2>2. runner'.pc = pc
      BY <2>1 DEF RunnerType
    <2> QED BY <1>3, <2>2
  <1>4. ~(RecordHash /\ NextItem)
    BY RunnerTyped DEF RecordHash, NextItem, RunnerType
  <1>5. ~(Apply \/ UpsertPage \/ FinishItem \/ RecordHash)
    BY <1>3, <1>4 DEF Apply, UpsertPage, FinishItem, RecordHash, PCs
  <1> QED BY <1>1, <1>2, <1>5, EditFrame DEF Next, vars, Import, RunSnapshot, Finish, Stop, Idle

LEMMA PagesStep ==
  ASSUME TypeOK, RunnerKnown, RowsKnown, CurrentKnown, CreatedKnown, DraftsKnown, PagesKnown,
         [Next]_vars
  PROVE  PagesKnown'
  <1>0. source' = source /\ source \in Sources /\ Legacy' = Legacy /\ \A p : Top(p)' = Top(p)
    BY TableSteps, SourceStays DEF TypeOK
  <1>1. ASSUME runner'.pc = "complete"
        PROVE  versions'[Page'][Number'].text # 0
    <2>1. CASE runner.pc = "complete"
      <3>1. Page \in AllPages /\ Number \in Versions /\ Exists(Page, Number)
        BY <2>1, ContentFacts DEF PagesKnown
      <3> QED BY <1>1, <3>1, RowsKept, WrittenSteps DEF Kept, Exists
    <2>2. CASE Writes
      BY <1>1, <2>2, WrittenRows, WrittenSteps, Numbers0
    <2> QED BY <1>1, <2>1, <2>2, WrittenSteps
  <1>2. ASSUME NEW p \in AllPages, current'[p] # 0, versions'[p][current'[p]].text = 0
        PROVE  /\ p \in Legacy /\ current'[p] = Top(p)
               /\ \E j \in Jobs : items'[j][LatestOf[source][p]].status \in {"RUNNING", "FAILED"}
    <2>0. current[p] \in 0..MaxVersions
      BY DEF TypeOK
    <2>1. CASE current'[p] = current[p]
      <3>1. current[p] \in Versions
        BY <1>2, <2>0, <2>1, Numbers0 DEF Versions
      <3>2. ~Exists(p, current[p])
        BY <1>2, <2>1, <3>1, RowsKept DEF Kept, Exists
      <3>3. /\ p \in Legacy /\ current[p] = Top(p)
            /\ \E j \in Jobs : items[j][LatestOf[source][p]].status \in {"RUNNING", "FAILED"}
        BY <1>2, <2>1, <3>2 DEF PagesKnown
      <3>4. PICK j \in Jobs : items[j][LatestOf[source][p]].status \in {"RUNNING", "FAILED"}
        BY <3>3
      <3>5. LatestOf[source][p] \in Contents /\ PageOf[source][LatestOf[source][p]] = p
        BY <1>0, <3>3, LatestFacts
      <3>6. ~(LatestOf[source][p] = Content /\ runner.pc = "complete")
        BY <3>2, <3>3, <3>5 DEF PagesKnown, Page, Number, Top
      <3>7. items'[j][LatestOf[source][p]].status \in {"RUNNING", "FAILED"}
        BY <3>4, <3>5, <3>6, ItemSteps
      <3> QED BY <2>1, <3>3, <3>7
    <2>2. CASE MakesPage /\ Page = p
      <3>1. /\ Page \in Legacy /\ IsPage /\ runner.job \in Jobs
            /\ items[runner.job][Content].status = "RUNNING"
            /\ current' = [current EXCEPT ![Page] = Number] /\ items' = items
        BY <2>2, ContentFacts DEF MakesPage, RunnerKnown
      <3>2. current'[p] = Top(p)
        BY <2>2, <3>1 DEF TypeOK, Number, IsPage, Top
      <3> QED BY <2>2, <3>1, <3>2 DEF IsPage
    <2>3. ASSUME NEW q \in AllPages, NEW v \in Versions, NEW base \in RowTexts,
                 Publishes(q, v, base), q = p, edits < MaxEdits
          PROVE  FALSE
      <3>1. current'[p] = v /\ versions'[p][v].text = -(edits + 1)
        BY <2>3 DEF Publishes, TypeOK
      <3>2. -(edits + 1) # 0
        BY <2>3, NextEdit, Numbers0
      <3> QED BY <1>2, <3>1, <3>2
    <2>4. CASE current'[p] # current[p]
      <3>1. CASE MakesPage
        <4>1. Page = p
          BY <2>4, <3>1 DEF MakesPage, TypeOK
        <4> QED BY <2>2, <3>1, <4>1
      <3>2. CASE \E q \in AllPages, v \in Versions, base \in RowTexts :
                   Publishes(q, v, base) /\ edits < MaxEdits
        <4>1. PICK q \in AllPages, v \in Versions, base \in RowTexts :
                Publishes(q, v, base) /\ edits < MaxEdits
          BY <3>2
        <4>2. q = p
          BY <2>4, <4>1 DEF Publishes, TypeOK
        <4> QED BY <2>3, <4>1, <4>2
      <3> QED BY <2>4, <3>1, <3>2, TableSteps DEF Writes
    <2> QED BY <2>1, <2>4
  <1> QED BY <1>0, <1>1, <1>2 DEF PagesKnown, Exists

LEMMA IdsKept ==
  ASSUME TypeOK, RowsKnown, CreatedKnown, DraftsKnown, [Next]_vars,
         NEW c \in Contents, IdTaken(c)
  PROVE  IdTaken(c)'
  <1>1. PICK p \in AllPages, v \in Versions : versions[p][v].id = c
    BY DEF IdTaken
  <1>2. Exists(p, v)
    BY <1>1, Numbers0 DEF RowsKnown, Exists
  <1>3. versions'[p][v].id = c
    BY <1>1, <1>2, RowsKept DEF Kept
  <1> QED BY <1>3 DEF IdTaken

LEMMA HashesStep ==
  ASSUME TypeOK, RowsKnown, CreatedKnown, DraftsKnown, HashesKnown, [Next]_vars
  PROVE  HashesKnown'
  <1> SUFFICES ASSUME NEW j \in Jobs, NEW c \in Contents, items'[j][c].hash # 0
               PROVE  IdTaken(c)'
    BY DEF HashesKnown
  <1>1. IdTaken(c)
    BY ItemSteps DEF HashesKnown, TextById
  <1> QED BY <1>1, IdsKept

LEMMA FaithfulKept ==
  ASSUME TypeOK, RowsKnown, CreatedKnown, DraftsKnown, [Next]_vars,
         source \in SoundSources, NEW c \in Contents, Faithful(c)
  PROVE  Faithful(c)'
  <1>1. source' = source /\ source \in Sources
    BY TableSteps DEF TypeOK
  <1>2. PageOf[source][c] \in AllPages /\ NumberOf[source][c] \in Versions
    BY <1>1, PlaceFacts DEF AllPages
  <1>3. versions'[PageOf[source][c]][NumberOf[source][c]].text = c
    BY <1>2, RowsKept, Numbers0 DEF Kept, Exists, Faithful
  <1> QED BY <1>1, <1>3 DEF Faithful, PageOf, NumberOf

LEMMA ItemsStep ==
  ASSUME TypeOK, RowsKnown, CreatedKnown, DraftsKnown, ItemsKnown, [Next]_vars
  PROVE  ItemsKnown'
  <1>0. source' = source
    BY TableSteps
  <1> SUFFICES ASSUME source \in SoundSources
               PROVE  /\ runner'.pc = "complete" => Faithful(Content)'
                      /\ \A j \in Jobs, c \in Contents :
                           items'[j][c].status = "COMPLETE" => Faithful(c)'
    BY <1>0 DEF ItemsKnown
  <1>1. ASSUME runner'.pc = "complete"
        PROVE  Faithful(Content)'
    <2>1. Content' = Content /\ Page' = Page /\ Number' = Number
      BY <1>1, WrittenSteps
    <2>2. CASE runner.pc = "complete"
      <3>1. PICK c \in Contents : c = Content
        BY <2>2, ContentFacts
      <3>2. Faithful(c)
        BY <2>2, <3>1 DEF ItemsKnown
      <3>3. Faithful(c)'
        BY <3>2, FaithfulKept
      <3> QED BY <1>0, <2>1, <3>1, <3>3 DEF Faithful
    <2>3. CASE Writes
      <3>1. versions'[Page][Number].text = Content
        BY <2>3, WrittenRows
      <3> QED BY <2>1, <3>1 DEF Faithful, Page, Number
    <2> QED BY <1>1, <2>2, <2>3, WrittenSteps
  <1>2. ASSUME NEW j \in Jobs, NEW c \in Contents, items'[j][c].status = "COMPLETE"
        PROVE  Faithful(c)'
    <2>1. Faithful(c)
      BY <1>2, ItemSteps DEF ItemsKnown
    <2> QED BY <2>1, FaithfulKept
  <1> QED BY <1>1, <1>2
LEMMA InvStep ==
  ASSUME HistoryInv, [Next]_vars
  PROVE  HistoryInv'
  <1> USE DEF HistoryInv
  <1>1. TypeOK'
    BY EditTyping, ImportTyping DEF Next, vars, TypeOK
  <1>2. RunnerKnown' /\ JobsKnown'
    <2>1. CASE Edit
      BY <2>1, RunnerEdit
    <2>2. CASE Import
      BY <2>2, RunnerImport, JobsImport
    <2>3. CASE vars' = vars
      <3>1. source' = source /\ items' = items /\ job' = job /\ runner' = runner
        BY <2>3 DEF vars
      <3> QED BY <3>1 DEF RunnerKnown, JobsKnown, Content, Plan, PlanOf, IsPage, Page, PageOf, LatestOf
    <2> QED BY <2>1, <2>2, <2>3 DEF Next
  <1>3. RowsKnown' /\ CurrentKnown' /\ CreatedKnown' /\ DraftsKnown'
    BY RowsStep, CurrentStep, CreatedStep, DraftsStep
  <1>4. PagesKnown' /\ HashesKnown' /\ ItemsKnown' /\ EditsBuildOnPredecessor'
    BY PagesStep, HashesStep, ItemsStep, BuildsStep
  <1> QED BY <1>1, <1>2, <1>3, <1>4

LEMMA Inductive == Spec => []HistoryInv
  BY InitHistory, InvStep, PTL DEF Spec

-----------------------------------------------------------------------------
(* What editors and the reconciliation rely on                             *)

\* Every variable stays within its type.
THEOREM Typing == Spec => []TypeOK
  BY Inductive, PTL DEF HistoryInv

\* No update is lost, however editors and imports interleave (UpdatePage's
\* expected version and importPages).
THEOREM BuildsOn == Spec => []EditsBuildOnPredecessor
  BY Inductive, PTL DEF HistoryInv

\* A page that cannot be read is one whose latest record is being imported or
\* failed to be (importPages writes pages before page_versions).
THEOREM Readability == Spec => []ImportedPagesReadable
  <1>1. HistoryInv => ImportedPagesReadable
    <2> SUFFICES ASSUME HistoryInv, NEW p \in AllPages, current[p] # 0, ~Readable(p)
                 PROVE  /\ p \in DOMAIN LatestOf[source]
                        /\ \E j \in Jobs :
                             items[j][LatestOf[source][p]].status \in {"RUNNING", "FAILED"}
      BY DEF ImportedPagesReadable
    <2>1. current[p] \in Versions
      BY Numbers0 DEF HistoryInv, TypeOK, Versions
    <2>2. ~Exists(p, current[p])
      BY <2>1 DEF Readable
    <2> QED BY <2>2 DEF HistoryInv, PagesKnown, Legacy
  <1> QED BY <1>1, Inductive, PTL

\* A job that completed without errors has brought every version of every page
\* (runSnapshot's final status and apply's items).
THEOREM FaithfulImport == Spec => []CompleteImportIsFaithful
  <1>1. HistoryInv => CompleteImportIsFaithful
    BY DEF HistoryInv, JobsKnown, ItemsKnown, CompleteImportIsFaithful
  <1> QED BY <1>1, Inductive, PTL

\* When reconcile's CONTENT_HASH check passes, every version is in its place,
\* also if the numbers of the source collide.
THEOREM HashSound == Spec => []HashCheckIsSound
  <1>1. HistoryInv => HashCheckIsSound
    <2> SUFFICES ASSUME HistoryInv, NEW j \in Jobs, HashCheckPasses(j), NEW c \in Contents
                 PROVE  Faithful(c)
      BY DEF HashCheckIsSound
    <2>1. \A d \in Contents : IdTaken(d)
      BY Numbers0 DEF HashCheckPasses, HistoryInv, HashesKnown
    <2>2. PICK p \in AllPages, v \in Versions : versions[p][v].id = c
      BY <2>1 DEF IdTaken
    <2>3. PlacedAt(c, p, v) /\ versions[p][v].text \in Contents
      BY <2>2, Numbers0 DEF HistoryInv, RowsKnown
    <2>4. PICK d \in Contents : d = versions[p][v].text
      BY <2>3
    <2>5. PlacedAt(d, p, v)
      BY <2>4 DEF HistoryInv, RowsKnown
    <2>6. PICK q \in AllPages, w \in Versions : versions[q][w].id = d
      BY <2>1 DEF IdTaken
    <2>7. PlacedAt(d, q, w)
      BY <2>6, Numbers0 DEF HistoryInv, RowsKnown
    <2>8. c = d
      BY <2>2, <2>5, <2>6, <2>7 DEF PlacedAt
    <2> QED BY <2>3, <2>4, <2>8 DEF Faithful, PlacedAt
  <1> QED BY <1>1, Inductive, PTL

\* What an editor has published stays as it is (UpdatePage appends, and the
\* upserts of importPages only meet rows of their own).
THEOREM Immutable == Spec => EditsAreImmutable
  <1>1. HistoryInv /\ [Next]_vars =>
          [(source \in SoundSources) => \A p \in AllPages, v \in Versions :
             versions[p][v].text < 0 => versions'[p][v] = versions[p][v]]_vars
    BY RowsKept DEF HistoryInv, Kept
  <1> QED BY <1>1, Inductive, PTL DEF Spec, EditsAreImmutable

-----------------------------------------------------------------------------
(* The log that editors are promised                                       *)

\* The log of the pages that are created here, as PageLog has it.
LogEntries(p) ==
  [v \in 1..current[p] |-> [text |-> versions[p][v].text, base |-> versions[p][v].base]]
LogState == [p \in NewPages |-> LogEntries(p)]

LEMMA InitLog == Init => Log!Init
  <1> SUFFICES ASSUME Init PROVE \A p \in NewPages : LogEntries(p) = <<>>
    BY DEF Log!Init, LogEntries
  <1> TAKE p \in NewPages
  <1>1. current[p] = 0
    BY DEF Init, AllPages
  <1> QED BY <1>1 DEF LogEntries

LEMMA LogKept ==
  ASSUME NEW p, current'[p] = current[p], versions'[p] = versions[p]
  PROVE  LogEntries(p)' = LogEntries(p)
  BY DEF LogEntries

LEMMA AppendByPositions ==
  ASSUME NEW S, NEW n \in Nat, NEW s \in [1..n -> S], NEW t \in [1..n + 1 -> S],
         \A w \in 1..n : t[w] = s[w]
  PROVE  Len(s) = n /\ t = Append(s, t[n + 1])
  <1>1. t[n + 1] \in S /\ s \in Seq(S) /\ Len(s) = n /\ t \in Seq(S) /\ Len(t) = n + 1
    OBVIOUS
  <1>2. /\ Append(s, t[n + 1]) \in Seq(S)
        /\ Len(Append(s, t[n + 1])) = n + 1
        /\ \A w \in 1..n : Append(s, t[n + 1])[w] = s[w]
        /\ Append(s, t[n + 1])[n + 1] = t[n + 1]
    BY <1>1, AppendProperties
  <1> QED BY <1>1, <1>2, SeqEqual

\* A version that is published on such a page is appended to its log.
LEMMA LogGrows ==
  ASSUME TypeOK, CreatedKnown, edits < MaxEdits,
         NEW p \in NewPages, NEW v \in Versions, NEW base \in RowTexts, Publishes(p, v, base)
  PROVE  /\ LogEntries(p)' = Append(LogEntries(p), [text |-> -(edits + 1), base |-> base])
         /\ base = IF LogEntries(p) = <<>> THEN 0
                   ELSE LogEntries(p)[Len(LogEntries(p))].text
  <1> DEFINE Logged == [text : RowTexts, base : RowTexts]
             new == [text |-> -(edits + 1), base |-> base]
             n == current[p]
             s == LogEntries(p)
             t == [w \in 1..n + 1 |-> [text |-> versions'[p][w].text, base |-> versions'[p][w].base]]
  <1>1. p \in AllPages /\ n \in Nat /\ v = n + 1
    BY DEF AllPages, TypeOK, Publishes
  <1>2. 1..n + 1 \subseteq Versions
    BY <1>1, Numbers0 DEF Versions
  <1>3. /\ current'[p] = n + 1 /\ versions'[p][v].text = -(edits + 1) /\ versions'[p][v].base = base
        /\ \A w \in 1..n : versions'[p][w] = versions[p][w]
    BY <1>1, <1>2 DEF Publishes, TypeOK
  <1>4. \A w \in 1..n : versions[p][w].text \in RowTexts /\ versions[p][w].base \in RowTexts
    BY <1>1, <1>2 DEF TypeOK, Rows, RowTexts
  <1>5. /\ s \in [1..n -> Logged]
        /\ \A w \in 1..n : s[w] = [text |-> versions[p][w].text, base |-> versions[p][w].base]
    BY <1>4 DEF LogEntries
  <1>6. LogEntries(p)' = t
    BY <1>3 DEF LogEntries
  <1>7. new \in Logged
    BY NextEdit DEF RowTexts
  <1>8. t[n + 1] = new /\ \A w \in 1..n : t[w] = s[w]
    <2>1. n + 1 \in 1..n + 1 /\ 1..n \subseteq 1..n + 1
      BY <1>1
    <2>2. t[n + 1] = [text |-> versions'[p][v].text, base |-> versions'[p][v].base]
      BY <1>1, <2>1
    <2>3. ASSUME NEW w \in 1..n PROVE t[w] = s[w]
      <3>1. t[w] = [text |-> versions'[p][w].text, base |-> versions'[p][w].base]
        BY <2>1
      <3> HIDE DEF t, s
      <3> QED BY <1>3, <1>5, <3>1
    <2> QED BY <1>3, <2>2, <2>3
  <1>9. t \in [1..n + 1 -> Logged]
    <2> SUFFICES ASSUME NEW w \in 1..n + 1 PROVE t[w] \in Logged
      OBVIOUS
    <2>1. CASE w = n + 1
      BY <1>7, <1>8, <2>1
    <2>2. CASE w # n + 1
      <3>1. w \in 1..n
        BY <1>1, <2>2
      <3> QED BY <1>5, <1>8, <3>1
    <2> QED BY <2>1, <2>2
  <1> HIDE DEF Logged, s, t, n, new
  <1>10. Len(s) = n /\ t = Append(s, new)
    BY <1>1, <1>5, <1>8, <1>9, AppendByPositions
  <1>11. base = IF s = <<>> THEN 0 ELSE s[Len(s)].text
    <2>1. CASE n = 0
      BY <1>1, <1>5, <2>1 DEF Publishes, n
    <2>2. CASE n # 0
      <3>1. base = versions[p][n].text /\ n \in 1..n
        BY <1>1, <2>2 DEF Publishes, n
      <3>2. s # <<>> /\ s[n].text = versions[p][n].text
        BY <1>5, <1>10, <2>2, <3>1
      <3> QED BY <1>10, <3>1, <3>2
    <2> QED BY <2>1, <2>2
  <1> QED BY <1>6, <1>10, <1>11 DEF s, new

LEMMA LogStep ==
  ASSUME HistoryInv, [Next]_vars
  PROVE  Log!Next \/ LogState' = LogState
  <1>0. TypeOK /\ CreatedKnown /\ DraftsKnown
    BY DEF HistoryInv
  <1>1. CASE \E p \in AllPages, v \in Versions, base \in RowTexts :
               Publishes(p, v, base) /\ edits < MaxEdits
    <2>1. PICK p \in AllPages, v \in Versions, base \in RowTexts :
            Publishes(p, v, base) /\ edits < MaxEdits
      BY <1>1
    <2>2. \A q \in AllPages : q # p => LogEntries(q)' = LogEntries(q)
      BY <1>0, <2>1, LogKept DEF Publishes, TypeOK
    <2>3. CASE p \in NewPages
      <3>1. LogEntries(p)' = Append(LogEntries(p), [text |-> -(edits + 1), base |-> base])
            /\ base = IF LogEntries(p) = <<>> THEN 0 ELSE LogEntries(p)[Len(LogEntries(p))].text
        BY <1>0, <2>1, <2>3, LogGrows
      <3>2. PICK t \in EditTexts : t = -(edits + 1)
        BY <1>0, <2>1, NextEdit
      <3>3. LogState' = [LogState EXCEPT ![p] = Append(LogEntries(p), [text |-> t, base |-> base])]
        BY <2>2, <2>3, <3>1, <3>2 DEF LogState, AllPages
      <3>4. LogState[p] = LogEntries(p)
        BY <2>3 DEF LogState
      <3>5. Log!Publish(p, t)
        BY <3>1, <3>3, <3>4 DEF Log!Publish, Log!LastText, LogState, LogEntries
      <3> QED BY <2>3, <3>5 DEF Log!Next
    <2>4. CASE p \notin NewPages
      BY <2>2, <2>4 DEF LogState, AllPages
    <2> QED BY <2>3, <2>4
  <1>2. CASE (current' = current /\ versions' = versions) \/ MakesPage \/ Writes
    <2>1. ASSUME NEW p \in NewPages
          PROVE  current'[p] = current[p] /\ versions'[p] = versions[p]
      <3>1. p \in AllPages /\ p \notin Contents
        BY Numbers0 DEF AllPages
      <3>2. MakesPage \/ Writes => Page # p
        BY <1>0, <3>1, ContentFacts DEF MakesPage, Writes
      <3> QED BY <1>0, <1>2, <3>1, <3>2 DEF MakesPage, Writes, TypeOK
    <2> QED BY <2>1, LogKept DEF LogState
  <1> QED BY <1>0, <1>1, <1>2, TableSteps

\* For the pages they create the store gives editors the log of PageLog
\* (CreatePage and UpdatePage, while anything is imported).
THEOREM Implements == Spec => ImplementsLog
  <1>1. HistoryInv /\ [Next]_vars => [Log!Next]_LogState
    BY LogStep
  <1> QED BY <1>1, InitLog, Inductive, PTL DEF Spec, ImplementsLog, Log!Spec, LogState, LogEntries
=============================================================================
