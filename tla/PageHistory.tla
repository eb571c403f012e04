------------------------------ MODULE PageHistory ------------------------------
(***************************************************************************)
(* The page store under editors and the snapshot: CreatePage and           *)
(* UpdatePage with their expected version, and importPages with the item   *)
(* bookkeeping of apply, which writes the same tables one statement at a   *)
(* time, stops anywhere (crash, cancel, fatal error) and is resumed.       *)
(*                                                                         *)
(* CreatePage and UpdatePage are transactions; UpdatePage holds the lock   *)
(* on the row of pages from its first statement on, so each is one action. *)
(* The import uses no transaction: each of its statements is an action.    *)
(*                                                                         *)
(* A text is a number: the legacy content c has text c, the n-th edit has  *)
(* text -n, and 0 is no text.                                              *)
(***************************************************************************)
EXTENDS VersionChain

CONSTANTS
  Sources,      \* the contents the legacy database may hold (it never changes)
  Jobs,         \* snapshot jobs, also of the same source
  Editors,      \* users and MCP clients that edit
  NewPages,     \* ids of the pages CreatePage makes
  MaxEdits,     \* bound on published versions
  MaxVersions   \* bound on version numbers

\* Kinds are written as the current versions of Confluence write them (other
\* spellings are not grouped, see ChainsBecomePages).
ASSUME SourcesAssumption ==
  /\ Sources \subseteq [Contents -> Records]
  /\ \A src \in Sources, c \in Contents : src[c].capital
ASSUME NewPagesAssumption == NewPages \cap Contents = {}
ASSUME BoundsAssumption == MaxEdits \in Nat /\ MaxVersions \in Nat \ {0}
ASSUME SomethingToImport == Contents # {}
\* The bound on version numbers leaves room for those of the sources.
ASSUME NumbersFit == \A src \in Sources, c \in Contents : VersionOf(src, c) <= MaxVersions

VARIABLES
  source,     \* the legacy CONTENT table
  current,    \* pages.current_version, 0 for no row
  versions,   \* page_versions, by page and version
  items,      \* migration_items: status and target_hash, by job and content
  job,        \* migration_jobs.status
  runner,     \* the goroutine: its job, its place in the plan, its statement
  draft,      \* what each editor has open: page, expected version, text read
  edits       \* edits so far (counts against MaxEdits)

database == <<current, versions>>
import == <<items, job, runner>>
vars == <<source, current, versions, items, job, runner, draft, edits>>

-----------------------------------------------------------------------------

AllPages == Contents \cup NewPages   \* a legacy page is named by its logical id
Versions == 1..MaxVersions

\* A row of page_versions: id is the content its id was derived from (0 for a
\* random one), legacy its legacy_id, base the text its author had read.
NoRow == [id |-> 0, legacy |-> 0, text |-> 0, base |-> 0]
EditTexts == {-n : n \in 1..MaxEdits}
Rows == [id : Contents \cup {0}, legacy : Contents \cup {0},
         text : Contents \cup EditTexts \cup {0},
         base : Contents \cup EditTexts \cup {0}]

Idle == [job |-> "none", at |-> 0, pc |-> "idle"]
NoDraft == [page |-> 0, version |-> 0, text |-> 0]

Exists(p, v) == versions[p][v].text # 0

\* pageSelect joins a page with the row of its current version.
Readable(p) == current[p] \in Versions /\ Exists(p, current[p])

-----------------------------------------------------------------------------
(* Editors                                                                 *)

\* PageByID, GET /pages/{id} or kanvas_get_page.
PageByID(e, p) ==
  /\ draft[e] = NoDraft
  /\ Readable(p)
  /\ draft' = [draft EXCEPT ![e] = [page |-> p, version |-> current[p],
                                    text |-> versions[p][current[p]].text]]
  /\ UNCHANGED <<source, database, import, edits>>

CreatePage(e, p) ==
  /\ current[p] = 0 /\ p \in NewPages
  /\ edits < MaxEdits
  /\ edits' = edits + 1
  /\ current' = [current EXCEPT ![p] = 1]
  /\ versions' = [versions EXCEPT ![p][1] =
                    [id |-> 0, legacy |-> 0, text |-> -(edits + 1), base |-> 0]]
  /\ UNCHANGED <<source, import, draft>>

Publish(e) ==
  LET p == draft[e].page
      next == current[p] + 1
  IN /\ next <= MaxVersions
     /\ ~Exists(p, next)                         \* UNIQUE(page_id,version)
     /\ current' = [current EXCEPT ![p] = next]
     /\ versions' = [versions EXCEPT ![p][next] =
                       [id |-> 0, legacy |-> 0, text |-> -(edits + 1),
                        base |-> draft[e].text]]

\* Mutant: the expected version is not compared.
UpdatePageUnchecked(e) ==
  /\ draft[e] # NoDraft
  /\ edits < MaxEdits
  /\ Publish(e)
  /\ edits' = edits + 1
  /\ draft' = [draft EXCEPT ![e] = NoDraft]
  /\ UNCHANGED <<source, import>>

UpdatePage(e) ==
  /\ draft[e] # NoDraft
  /\ edits < MaxEdits
  /\ current[draft[e].page] = draft[e].version   \* expectedVersion
  /\ Publish(e)
  /\ edits' = edits + 1
  /\ draft' = [draft EXCEPT ![e] = NoDraft]
  /\ UNCHANGED <<source, import>>

\* "version conflict", or the row is taken: the transaction rolls back.
UpdateFails(e) ==
  /\ draft[e] # NoDraft
  /\ LET p == draft[e].page IN
       \/ current[p] # draft[e].version
       \/ current[p] + 1 \in Versions /\ Exists(p, current[p] + 1)
  /\ draft' = [draft EXCEPT ![e] = NoDraft]
  /\ UNCHANGED <<source, database, import, edits>>

-----------------------------------------------------------------------------
(* The import: runSnapshot, importPages and apply                          *)

\* What importPages computes before its loop, for every source.
PlanOf == [src \in Sources |-> ImportPlan(src)]
PageOf == [src \in Sources |-> [c \in Contents |-> LogicalPage(src, c)]]
NumberOf == [src \in Sources |-> [c \in Contents |-> VersionOf(src, c)]]
LatestOf == [src \in Sources |-> [p \in LogicalPages(src) |-> Latest(src, p)]]
SoundSources == {src \in Sources : WellVersioned(src)}

Plan == PlanOf[source]
Content == Plan[runner.at]
Page == PageOf[source][Content]
Number == NumberOf[source][Content]

\* The entity is PAGE for the latest record of a page, else PAGE_VERSION.
IsPage == Content = LatestOf[source][Page]

Goto(pc) == runner' = [runner EXCEPT !.pc = pc]

\* StartSnapshot, or ResumeSnapshot of a job that has not completed.
RunSnapshot(j) ==
  /\ runner = Idle
  /\ job[j] \in {"NEW", "STOPPED", "COMPLETED_WITH_ERRORS"}
  /\ job' = [job EXCEPT ![j] = "RUNNING"]
  /\ runner' = [job |-> j, at |-> 1, pc |-> "apply"]
  /\ UNCHANGED <<source, database, items, draft, edits>>

\* Mutant: the item is recorded as done before it is.
ApplyTooEarly ==
  /\ runner.pc = "apply"
  /\ IF items[runner.job][Content].status = "COMPLETE"
       THEN /\ Goto("hash")
            /\ UNCHANGED items
       ELSE /\ Goto(IF IsPage THEN "page" ELSE "version")
            /\ items' = [items EXCEPT ![runner.job][Content].status = "COMPLETE"]
  /\ UNCHANGED <<source, database, job, draft, edits>>

\* apply: an item that is COMPLETE is skipped, any other is marked RUNNING.
Apply ==
  /\ runner.pc = "apply"
  /\ IF items[runner.job][Content].status = "COMPLETE"
       THEN /\ Goto("hash")
            /\ UNCHANGED items
       ELSE /\ Goto(IF IsPage THEN "page" ELSE "version")
            /\ items' = [items EXCEPT ![runner.job][Content].status = "RUNNING"]
  /\ UNCHANGED <<source, database, job, draft, edits>>

\* INSERT INTO pages ... ON CONFLICT(id) DO UPDATE SET current_version=...
UpsertPage ==
  /\ runner.pc = "page"
  /\ \/ /\ current' = [current EXCEPT ![Page] = Number]
        /\ Goto("version")
     \/ /\ UNCHANGED current
        /\ Goto("failed")
  /\ UNCHANGED <<source, versions, items, job, draft, edits>>

\* A row, other than the one at (p, v), that derives its id or has its
\* legacy_id from content c.
IdTaken(c) == \E p \in AllPages, v \in Versions : versions[p][v].id = c
LegacyTakenBut(c, p, v) ==
  \E q \in AllPages, w \in Versions : <<q, w>> # <<p, v>> /\ versions[q][w].legacy = c

\* INSERT INTO page_versions ... ON CONFLICT(page_id,version) DO UPDATE: an
\* existing row keeps its id; the primary key and page_versions_legacy_idx may
\* reject the statement.  Later statements of the item may fail after it.
UpsertVersion ==
  /\ runner.pc = "version"
  /\ \/ /\ IF Exists(Page, Number)
             THEN ~LegacyTakenBut(Content, Page, Number)
             ELSE ~LegacyTakenBut(Content, Page, Number) /\ ~IdTaken(Content)
        /\ versions' = [versions EXCEPT ![Page][Number] =
             [id |-> IF Exists(Page, Number) THEN @.id ELSE Content,
              legacy |-> Content, text |-> Content, base |-> 0]]
        /\ Goto("complete") \/ Goto("failed")
     \/ /\ UNCHANGED versions
        /\ Goto("failed")
  /\ UNCHANGED <<source, current, items, job, draft, edits>>

\* Mutant: an item whose statement failed is recorded as COMPLETE.
FinishItemIgnoresError ==
  /\ runner.pc \in {"complete", "failed"}
  /\ items' = [items EXCEPT ![runner.job][Content].status = "COMPLETE"]
  /\ Goto("hash")
  /\ UNCHANGED <<source, database, job, draft, edits>>

\* UPDATE migration_items SET status=...
FinishItem ==
  /\ runner.pc \in {"complete", "failed"}
  /\ items' = [items EXCEPT ![runner.job][Content].status =
                 IF runner.pc = "complete" THEN "COMPLETE" ELSE "FAILED"]
  /\ Goto("hash")
  /\ UNCHANGED <<source, database, job, draft, edits>>

\* Mutant: the loop runs past the last record.
NextItemOffByOne ==
  runner' = IF runner.at <= Len(Plan)
              THEN [runner EXCEPT !.at = @ + 1, !.pc = "apply"]
              ELSE [runner EXCEPT !.pc = "finish"]

NextItem ==
  runner' = IF runner.at < Len(Plan)
              THEN [runner EXCEPT !.at = @ + 1, !.pc = "apply"]
              ELSE [runner EXCEPT !.pc = "finish"]

\* The text of the row whose id is derived from content c, 0 for none.
TextById(c) ==
  IF IdTaken(c)
    THEN LET at == CHOOSE at \in AllPages \X Versions : versions[at[1]][at[2]].id = c
         IN versions[at[1]][at[2]].text
    ELSE 0

\* Mutant: the target hash is copied from the source.
RecordHashFromSource ==
  /\ runner.pc = "hash"
  /\ items' = [items EXCEPT ![runner.job][Content].hash = Content]
  /\ NextItem
  /\ UNCHANGED <<source, database, job, draft, edits>>

\* The hash of the stored row is noted for the reconciliation, also for an
\* item that was skipped; an error is discarded.
RecordHash ==
  /\ runner.pc = "hash"
  /\ \/ items' = [items EXCEPT ![runner.job][Content].hash = TextById(Content)]
     \/ UNCHANGED items
  /\ NextItem
  /\ UNCHANGED <<source, database, job, draft, edits>>

\* What the end of runSnapshot can write: a query that cannot count the items
\* has its error discarded, and the row says COMPLETE in spite of failures
\* (UNCOUNTED stands for such a row; like any COMPLETE one it is not resumed).
Outcomes(j) ==
  IF \E c \in Contents : items[j][c].status = "FAILED"
    THEN {"COMPLETED_WITH_ERRORS", "UNCOUNTED"} ELSE {"COMPLETE"}

\* The end of runSnapshot.
Finish ==
  /\ runner.pc = "finish"
  /\ \E outcome \in Outcomes(runner.job) : job' = [job EXCEPT ![runner.job] = outcome]
  /\ runner' = Idle
  /\ UNCHANGED <<source, database, items, draft, edits>>

\* A crash, a cancellation or an error of a bookkeeping statement.
Stop ==
  /\ runner # Idle
  /\ job' = [job EXCEPT ![runner.job] = "STOPPED"]
  /\ runner' = Idle
  /\ UNCHANGED <<source, database, items, draft, edits>>

-----------------------------------------------------------------------------

Init ==
  /\ source \in Sources
  /\ current = [p \in AllPages |-> 0]
  /\ versions = [p \in AllPages |-> [v \in Versions |-> NoRow]]
  /\ items = [j \in Jobs |-> [c \in Contents |-> [status |-> "NONE", hash |-> 0]]]
  /\ job = [j \in Jobs |-> "NEW"]
  /\ runner = Idle
  /\ draft = [e \in Editors |-> NoDraft]
  /\ edits = 0

Edit ==
  \E e \in Editors :
    \/ \E p \in AllPages : PageByID(e, p) \/ CreatePage(e, p)
    \/ UpdatePage(e)
    \/ UpdateFails(e)

Import ==
  \/ \E j \in Jobs : RunSnapshot(j)
  \/ Apply \/ UpsertPage \/ UpsertVersion \/ FinishItem \/ RecordHash
  \/ Finish \/ Stop

Next == Edit \/ Import

Spec == Init /\ [][Next]_vars
-----------------------------------------------------------------------------
(* Properties                                                              *)

TypeOK ==
  /\ source \in Sources
  /\ current \in [AllPages -> 0..MaxVersions]
  /\ versions \in [AllPages -> [Versions -> Rows]]
  /\ items \in [Jobs -> [Contents ->
       [status : {"NONE", "RUNNING", "COMPLETE", "FAILED"},
        hash : Contents \cup EditTexts \cup {0}]]]
  /\ job \in [Jobs -> {"NEW", "RUNNING", "STOPPED", "COMPLETE", "COMPLETED_WITH_ERRORS",
                       "UNCOUNTED"}]
  /\ runner = Idle \/ runner \in [job : Jobs, at : 1..Cardinality(Contents),
       pc : {"apply", "page", "version", "complete", "failed", "hash", "finish"}]
  /\ draft \in [Editors -> [page : AllPages \cup {0}, version : 0..MaxVersions,
                            text : Contents \cup EditTexts \cup {0}]]
  /\ edits \in 0..MaxEdits

\* No update is lost: an edited version was written by someone who had read
\* the version before it, also when editors race each other and the import
\* (a source whose numbers collide replaces the version read by another).
EditsBuildOnPredecessor ==
  source \in SoundSources => \A p \in AllPages, v \in Versions :
    versions[p][v].text < 0 =>
      IF v = 1 THEN versions[p][v].base = 0
               ELSE Exists(p, v - 1) /\ versions[p][v].base = versions[p][v - 1].text

\* A page is readable, except while the record that makes it a page is being
\* imported or its import has failed.
ImportedPagesReadable ==
  \A p \in AllPages :
    current[p] # 0 /\ ~Readable(p) =>
      /\ p \in DOMAIN LatestOf[source]
      /\ \E j \in Jobs : items[j][LatestOf[source][p]].status \in {"RUNNING", "FAILED"}

\* A job that ends as COMPLETE after its failures were counted has brought over
\* every version of every page, whatever crashes, resumes, second snapshots and
\* edits came between (one whose count failed is UNCOUNTED; numbers of the
\* source that collide share a row, see HashCheckIsSound).
Faithful(c) == versions[PageOf[source][c]][NumberOf[source][c]].text = c
CompleteImportIsFaithful ==
  source \in SoundSources => \A j \in Jobs : job[j] = "COMPLETE" => \A c \in Contents : Faithful(c)

\* reconcile's CONTENT_HASH check over the items of job j.
HashCheckPasses(j) ==
  \A c \in Contents : items[j][c].status = "COMPLETE" /\ items[j][c].hash = c

\* The CONTENT_HASH check is sound for every source, also for one whose
\* version numbers collide: when it passes, every version is in its place.
HashCheckIsSound ==
  \A j \in Jobs : HashCheckPasses(j) => \A c \in Contents : Faithful(c)

\* A version an editor has published never changes, neither by another editor
\* nor by an import that runs again or resumes.  It takes a source whose
\* current record has the highest number of its page: otherwise a page is open
\* for editing under a number below those still to be imported.
EditsAreImmutable ==
  [][(source \in SoundSources) => \A p \in AllPages, v \in Versions :
       versions[p][v].text < 0 => versions'[p][v] = versions[p][v]]_vars

\* Claimed by docs/ARCHITECTURE.md (every update requires the expected
\* version, so that concurrent edits are not lost): a page does not go back
\* from a published edit to an older version.
EditsStayCurrent ==
  [][\A p \in AllPages :
       Readable(p) /\ versions[p][current[p]].text < 0 => current'[p] >= current[p]]_vars

\* For the pages they create, also while others are imported, the store gives
\* editors the log that they are promised.
Log ==
  INSTANCE PageLog WITH
    Pages <- NewPages, Texts <- EditTexts, NoText <- 0,
    log <- [p \in NewPages |->
              [v \in 1..current[p] |-> [text |-> versions[p][v].text,
                                        base |-> versions[p][v].base]]]
ImplementsLog == Log!Spec
=============================================================================
