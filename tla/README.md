# A TLA+ verification of Kanvas

Kanvas is a wiki that takes over the content of a Confluence installation: a Go
server over PostgreSQL with a REST and an MCP front end, an importer that reads
the Confluence MySQL database, and a migration control plane that moves the
service, phase by phase, from the legacy system to itself. This directory holds
TLA+ models of it, the TLC configurations that check them and proofs for TLAPS.
`PROJECT.json` maps every definition to the lines it translates.

## 1. Inventory

| Component (source) | State | Operations | Hard behaviours | What makes it correct | Status |
|---|---|---|---|---|---|
| Migration control plane (`migration/job.go`, `service.go`, `reconciliation.go`, head of `snapshot.go`, `cmd/kanvas/main.go`) | rows of `migration_state`, `migration_jobs`; the `cancels` map of the process | StartSnapshot, ResumeSnapshot, StartReconciliation, CancelJob, Discover, Transition, RecoverInterruptedJobs; the goroutines runSnapshot, runReconciliation | handlers without transactions; writes with discarded errors; crash and restart; cancel against finish | one active job per kind, no orphaned job, jobs end, evidence before a snapshot, fail-closed phase | modelled, proved |
| Version chains (`snapshot.go:466-574, 1140`) | records of CONTENT | loadContent, resolveLogicalPages, importPages' plan, latestContent | forks and cycles of PREVVER, missing and repeated numbers | each chain one page, each record once, numbers distinct, latest record right | modelled, proved |
| Page store and page import (`store/store.go`, `snapshot.go:189-241, 537-612`) | `pages`, `page_versions`, `migration_items` | CreatePage, UpdatePage, PageByID; apply, upserts, hash | editors race each other and an import that stops and resumes between any two statements | no lost update, immutable versions, readable pages, a faithful completed import | modelled, proved; parents, macros, links, comments, attachments left out |
| Cutover evidence (`unsupported.go`, `snapshot.go:957-1062`, `service.go:115-139, 210-230`) | `unsupported_content`, `migration_checks`, readiness | DecideUnsupportedContent, refreshUnsupportedChecks, reconcile | write skew of decisions, decision between two statements of reconcile | the stored check says what the items say | modelled, proved (the count checks are with the snapshot); readiness and the checks of links and files left out |
| Snapshot items and other importers (`snapshot.go:113-464, 570-720, 924-1080`) | `migration_items`, job counters, `migration_mapping`, the rows of users, groups, memberships, spaces, pages, comments, attachments | apply; the importers; reconcile's counts; the end of a job | stop between any two statements, retry of failed items, rows of former jobs, names somebody takes meanwhile, discarded query errors | counters, items, mapping, checks and rows agree | modelled, proved |
| Permission import (`snapshot.go:722-922`) and access checks (`store.go:396-606`) | `space_permissions`, `page_permissions`, groups | import of permissions; CanSpace, CanPage and the lists | subjects that are missing or failed; several copies of one rule; pages that are there before their permissions | nothing becomes more visible than it was; copies agree | modelled, proved for users who are no administrators |
| Storage converter (`converter.go`) | none | ConvertStorage | nesting, malformed XHTML, first-error rule | text and order kept, blocks apart, macros counted | modelled, proved; attributes and marks left out |
| Accounts, sessions, API keys (`admin.go`, `store.go:196-377`, `auth.go`, `server.go:141-470`) | `users`, `sessions`, `api_keys`, advisory lock | UpdateAdminUser, logins, OIDC and migrated users, key rotation | demotions in parallel, login against disable | an administrator remains; disabling leaves no session or live key; a key is rotated once | modelled, proved; expiry and scopes left out |
| Login limiter (`server.go:141-165, 870-901`) | map of failure times per client, mutex | allowLogin, recordLoginFailure, clearLoginFailures | check and record apart, parallel calls, time | a bound on attempts, no lock for ever | modelled; the bound proved |
| Search, comments, spaces, preferences, groups, settings | one row each | single statements | none that span steps | constraints of the schema | not modelled |
| REST, OpenAPI, MCP (`api`, `mcp`) | none | routing, decoding, scopes | none | front end of the above | not modelled |
| OIDC, vault, configuration, schema script, embedding, web UI | none of the wiki's | | external libraries, rendering, start-up | | not modelled |

How they interact. The REST and MCP handlers call the store and the migration
service directly, on the request's goroutine; there is no queue. The migration
service spawns one goroutine per job, which writes the same tables as the
handlers; the only shared memory of the process is the `cancels` map (under
`Service.mu`) and the limiter's map. Everything else is shared through
PostgreSQL, mostly by autocommit statements at READ COMMITTED; Transition,
UpdateAdminUser, CreatePage, UpdatePage, DecideUnsupportedContent and
RotateAPIKey are transactions.

## 2. Modules

| Module | What it is |
|---|---|
| `MigrationControl` | the control plane, one action per SQL statement or critical section |
| `MCMigrationControl` (2 cfgs) | its instances |
| `MigrationControl_proofs` | TLAPS proofs of its invariants |
| `Selections` | pure: the elements of a sequence that are in a set |
| `VersionChain` | pure: from CONTENT records to pages, numbers, latest record, import order |
| `StorageConverter` | pure: from a page body to search text, editor text, macros and links |
| `VersionChain_proofs` | TLAPS lemmas about its operators, sorted sequences and folds |
| `ImportAlgorithms` | every source and every body over some alphabets, what the two modules make of them, and its properties |
| `MCImportAlgorithms` (2 cfgs) | sources of three records and five alphabets of short bodies |
| `ImportAlgorithms_proofs` | TLAPS proofs of the properties of pages, numbers and the plan, and of the converter's |
| `PageLog` | abstract: an append-only log per page |
| `PageHistory` | page store and page import, on top of `VersionChain`; implements `PageLog` for the pages that editors create |
| `MCPageHistory` (2 cfgs) | its sources and instances |
| `PageHistory_proofs` | TLAPS proofs of its invariants, its action property and the refinement |
| `CutoverEvidence` | decisions on exceptions, reconciliations, and the two checks both compute from the exceptions |
| `MCCutoverEvidence` (1 cfg) | its instance |
| `CutoverEvidence_proofs` | TLAPS proofs of its invariant and action properties |
| `AccessRules` | pure: who may see or edit a space or a page, by the rows of permissions |
| `SnapshotImport` | a snapshot job over all kinds of records: items, counters, mapping, permissions, count checks; on top of `AccessRules` |
| `MCSnapshotImport` (2 cfgs) | its sources |
| `SnapshotImport_proofs` | TLAPS proofs about items, counters, mapping, rows, permissions and count checks |
| `LoginLimiter` | the limit on failed logins, with parallel calls and time |
| `MCLoginLimiter` (1 cfg) | its instance |
| `LoginLimiter_proofs` | TLAPS proofs of the bound |
| `AdminPolicy` | accounts, sessions and API keys under updates, logins, rotations and imports |
| `MCAdminPolicy` (2 cfgs) | its instances |
| `AdminPolicy_proofs` | TLAPS proofs of its invariants and of its action property |

Definitions named `...Unchecked`, `...OffByOne` and the like, with a comment
"Mutant:", are faulty variants that no specification uses: each property is
shown to fail when one of them replaces the definition it stands before.

### MigrationControl

A *call* is one handler invocation with the goroutine it spawns; `pc` is its
next statement, `mine` the job it works on, `cancelled` its context and `step`
the import steps done. Database variables survive `Crash`; `up`, `cancels` and
the calls do not. Each statement of a handler is an action, because another
call may run between any two of them: `SnapshotDiscovery`, `SnapshotPhase`,
`SnapshotActive`, `SnapshotInsert`, `SnapshotState` and `Register` are
StartSnapshot, and so on for the other handlers; `RunStart` to `RunExit` are
runSnapshot, `ReconStart` to `ReconAbort` runReconciliation. Only Transition,
a transaction under the advisory lock with the row locked, is one action. The
partial unique indexes of the schema are `IndexAllows`. Writes whose error the
code discards may be lost (`LoseWrite`), and the insert or update of a handler may
commit although the handler gets an error (`AnswerLost`; the request's context ends
while the statement runs): the row is then PENDING and no goroutine starts. Both
count against `MaxLost`; `QueryFails` is the statement that changed nothing.
Whether the checks pass that Transition asks for is left open: the phase must
be right whatever they say. A cancel reads the map and calls the function in
one action; the function only sets a flag, which nobody reads under the mutex.

### VersionChain

A source is a function from ids to records (`prev`, number, status, and whether the
kind is written in capitals), as loadContent returns them, ordered by id as a
number. `LogicalPage` is the walk of resolveLogicalPages with its `seen` set; a
record whose kind is not in capitals passes the query (which uses UPPER) but not
resolveLogicalPages, and importPages puts all of those into one group under the
empty string, here 0. `Group` is the records of a page, `Numbers` the renumbering
loop, `Latest` the choice of importPages and `LatestContent` the one used for
parents. A sort of the code is `Sorted` by the relation its comparison is: `Older`
for the records of a page (number, then the id as a string), `PageOrder` for the
pages (ids as strings). How two ids compare as strings is the constant
`StringOrder`, any strict total order. `ImportPlan` is the loop of importPages over
the pages: of each the latest record, and behind it what `withoutContent` leaves of
the group. Two contents are of one chain (`SameChain` of `ImportAlgorithms`) if no
set that PREVVER links neither enter nor leave has one without the other.

### StorageConverter

A body is a sequence of tokens as encoding/xml hands them out: an element that
opens, named by the node startNode makes of it, the end of the innermost one,
some kinds of character data, and a fault. `Read` is one turn of the loop over
the tokens with its stack, `Parsed` the loop, `Accepted` what it reads before the
first error. `extractText` and `normalizeText` give the search text,
`editorChildren` the text nodes of the editor's document in reading order,
`dedupeMacros` and `dedupeLinks` the uses (macros, a nameless one as `unknown`; the
targets of page references and the addresses of <a>). `Fallback` is what tagStripper
leaves of a body that was rejected: it removes everything from a < to the next >,
hence tags, CDATA sections up to a > inside them (`cdataMore` is a word after one)
and text between a raw < and the next > (`Swallowed`). A word is known by its place in the body, so that a
word lost, doubled or moved is seen. Character data is one token or, where it
begins with a space or has several words, several; brackets that stay in a text are
not written down. Other attributes, marks and the JSON of the document are left out: no property is about them. `Bodies` are the bodies in which the elements
that the storage format knows without content (`Contentless`: br, hr, ri:page,
ri:user, ac:emoticon) have none; the constant `Alphabets` of `ImportAlgorithms`
is a set of such bodies, from which longer ones are put together.

### PageHistory and PageLog

`current` is `pages.current_version` (0 for no row), `versions` the rows of
`page_versions` (id, text, whether from the import), `items` those of
`migration_items`. Editors are calls of PageByID and UpdatePage with the
version they read; a version's text is modelled by who wrote it and upon what,
so that a lost update is visible in the state. UpdatePage is one action: it is
a transaction that locks the page's row first. The import is one runner at a
time (runs of one job exclude each other by the control plane except for the
reported resume race): `Apply` reads the item and sets it RUNNING, `UpsertPage`
and `UpsertVersion` are the two autocommit statements of the closure,
`FinishItem` the mapping and the item's status, `RecordHash` the UPDATE that
copies the hash of the row with that id. `Stop` ends the run between any two of
them, for a crash, a cancellation or an error alike, and `RunSnapshot` starts it
again from the first record. `Finish` writes COMPLETE also when the query that counts
the failures has failed; the model calls that row UNCOUNTED, so that the claims about
COMPLETE jobs can except it. The legacy source does not change during a
behaviour, and its kinds are in capitals (`SourcesAssumption`). `PageHistory` refines `PageLog` (`Log == INSTANCE PageLog WITH ...`,
property `ImplementsLog`) for the pages that editors create, also while others
are imported: versions only grow at the end and each builds on the last.

### CutoverEvidence

`item` is the status of the rows of `unsupported_content`, `checks` the rows
MACROS and PAGE_HIERARCHY of `migration_checks`: the snapshot job they are about
and the counts, from which `exceptionCheckStatus` gives the status. A decision is
a transaction at READ COMMITTED. `Decide` is its update of the exceptions with
the reading of the newest job (taking row locks commutes with what others do in
between); `CountMacros`, `UpsertMacros` and `CountTree` are
refreshUnsupportedChecks, and `Commit` is the last upsert with the commit. `View`
is what the transaction sees: the committed rows with its own changes. `ItemHeld`
and `MacrosHeld` are the row locks others wait for; waiting in a cycle ends with
`Fail`. `reconcile`, at the end of a snapshot or by itself, reads and upserts each
check in statements of its own (`Count`, `Upsert`) and takes a failed read for
zero. `FindItem` is the snapshot's insert of an exception, `Abort` an error, a
cancellation or a restart. The control plane's guards appear only as "one job of
a kind", and each snapshot includes pages. The readiness, which is derived from
all checks, and the checks that compare counts are not in this model.

### SnapshotImport and AccessRules

A source is a sequence of records of all kinds in the order in which runSnapshot
goes through them; a record names others by their place (0 for one that is not
in the source), and what it names is of the kind `Owner` says, as the maps of
targets are by kind. The row whose id is derived from record i is i, a row of the
same name that the import did not create is -i. `SkipItem` and `BeginItem` are
the head of apply (with the importer's lookup of the row by its name),
`importUser` to `importPermission` its closure for each kind, with what the
schema's foreign keys and unique constraints require (`Fits`), `FailRecord` its
error, and `UpsertMapping`, `FinishItem` and `CountItem` the three statements
after it. `reconcile` is the loop over the checks that compare items with rows, one
check after the other (`Check`; between its two queries and its upsert nobody else
changes what it counts), and `EndJob` counts the items once more. `Reconciliation`
is a job of its own that repeats any of those checks when the snapshot has ended.
It does so here only while no snapshot runs; a decision that falls between the
statements of a reconciliation is `CutoverEvidence`'s subject. The other checks of
reconcile are left out: Page Versions (`snapshot.go:988-1001`) and the hashes speak
of versions, which are `PageHistory`'s, MACROS and PAGE_HIERARCHY of exceptions,
which are `CutoverEvidence`'s, and links and attachment files are not modelled. `run` is what the goroutine knows (`known` is spaceTargets, usersByName
and the like) and is lost with it. `Stop` stands for an error, a cancellation or
a dead process after any statement; the job is then resumed (`ResumeSnapshot`)
or another one started over the rows that are there (`StartSnapshot`).
`CreateLocal` is somebody who signs in or creates a space or a group with a name
of the source. Names are equal as lower() finds them; the unique constraints of the
schema are case-sensitive, so the database also allows a second account whose name
differs in case, which the model does not have. `faults` counts stops and failed statements; `torn` and `blind`
are history variables for the two cases in which the counters and the checks
are known to be wrong (section 5). Versions of pages and the order of statements
inside a closure are `PageHistory`'s; here a closure commits in one step.

`AccessRules` has the WHERE clauses of the store: `CanPage` and `CanSpace`, and
`ListSpaces`, which spells the rule out again. PagesInSpace, PageByID and
SearchPages ask CanPage. `AccessNotWidened` compares both with the source's own
rule, `SourceAllows`.

### LoginLimiter

`loginAttempts` holds for each client and age the number of failures that are no
older, as allowLogin compacts them: `Window` ticks stand for the 15 minutes, and
the last entry counts what is older as well. A call of
localLogin is `allowLogin`, then `Malformed`, `WrongPassword` or `RightPassword`,
then `recordLoginFailure` or `clearLoginFailures`; only the first and the last
hold the mutex, so other calls and `Tick` come in between. `guesses` is a history
variable: the wrong passwords that were really tried.

### AdminPolicy

`role`, `status`, `sessions` and `keys` are the columns of `users`, `sessions`
and `api_keys` that decide who may do what; a row that is absent has status
NONE or owner NoUser. A call is one handler under way; its record holds the
arguments and, for a transaction, the rows it has deleted or revoked and not
committed. UpdateAdminUser is `LockPolicy`, `ReadUser`, `CountAdmins` (with the
UPDATE), `DeleteSessions`, `RevokeKeys` and `Commit`; RotateAPIKey is `RevokeOld`
and `InsertSuccessor` (the INSERT and the commit: after the INSERT's wait for
its foreign key, the transaction waits for nobody). Logins and key requests are
two steps each, the check and the insert. Locks are not variables:
`HoldsPolicy`, `HoldsRow` and `HoldsKey` say which ones PostgreSQL holds for a
transaction at its statement, and others wait (`PolicyFree`, `RowFree`,
`KeyFree`). A foreign key takes FOR KEY SHARE on the users row, which waits for
FOR UPDATE but not for an ordinary UPDATE. `Fail` rolls a transaction back: an
error, a request that is gone, or the victim PostgreSQL chooses in a cycle of
locks. `Init` is what BootstrapAdmin leaves. `outside` is a history variable: an
OIDC login or an import has taken an active administrator away.

## 3. Runs

| Run | Shows | Bounds, and why they are enough |
|---|---|---|
| `control_safety` | all invariants of the control plane, with crashes and one lost write or answer; every active job ends unless a write is lost | two calls, two job rows, one import step: every claim relates at most two calls and two jobs; a second import step only repeats the first; with no row left only `QueryFails` is possible, like an INSERT that fails. No symmetry, because of the liveness property |
| `control_two_owners` | *violation*: two resumes run one job twice | |
| `algorithms` | pages, numbers, latest record and import order, over all 262,144 sources; search text, editor text, macros and links of every body over five alphabets | three records: forks, cycles, self references, two pages and a kind that is not in capitals all occur; numbers 0 (missing) to 3 allow collisions with i+1; the ids 9, 10 and 11 compare differently as strings and as numbers. Bodies of up to 6, 5, 5, 4 and 4 letters, about nesting of blocks and marks, macros, elements without content, references and rejected input (a tag that does not match, an entity, a raw <, CDATA sections), each as it stands or with its open elements closed: two words, the elements around each and what is between them fit in |
| `algorithms_fallback` | *violation*: the fallback for a rejected body drops words | |
| `history` | no lost update, readable pages, faithful completed import, immutable versions; the hash check passes only when each version is in its place; pages that editors create implement `PageLog` | an imported page of two records, both current with any numbers (missing, equal, falling) or the newest one not current, and a page that an editor may create; two editors: stop and resume between any two statements, editors against each other on either page and against the import. To keep it small (the constraint `Scope`), a second snapshot and a created page are only beside the chain with sound numbers, one at a time: the two runs meet in the rows of the imported page, and a created page has none of the import's; and the last of three edits is only for a created page, which takes one to come into being before two can race. A page of several records already has a latest and an older one, and pages are independent but for the plan, which `algorithms` checks |
| `history_edit_hidden` | *violation*: a resumed import hides a published edit | |
| `cutover` | reopening an exception counts at once; racing decisions leave the page tree check exact; no decision leaves a right check behind | two snapshots, the first with a macro and an orphan and the second with a macro; two decisions race on different exceptions, on the same one and over both jobs; one goroutine (`Runners`), a snapshot or a reconciliation, so those two do not overlap: the properties are about decisions against either; decisions reopen and resolve (`Decisions`), approving differs in the count it goes to, and passes too |
| `snapshot` | counters, items, mapping, count checks and rows agree however runs are stopped, fail and are repeated; nobody sees what the source keeps from them | one source with every kind of record in which a space is open to a group and a page to one of its members, one with the odd cases (two permissions that mean the same, none or two subjects, no space, no page), one with a user, a space and a permission of that user, small enough for a job to end COMPLETE after the user's record has failed once; each imported as a whole or content and permissions alone; three runs, so that a resume is itself resumed or followed by another job; two faults, so that the repair of one is hit by another; one user and one space that somebody may create first |
| `snapshot_unconfirmed` | *violation*: a page whose VIEW permission has no subject is open when the job has ended | one page, one run, no faults |
| `limiter` | a bound on the wrong passwords of a window, and that a lock ends | two clients and two calls, both of them for one client or one for each; the second failure locks out, so calls in parallel pass the limit by one; a window of two ticks has old, recent and new failures |
| `admin` | an administrator remains, a key is rotated once, disabling an account leaves nothing to sign in with | two users (the local administrator, whom an import knows, and one of the identity provider) can be the two last administrators; two handlers race; one token is enough, because a request goes on after its session has ended; with three keys one can be rotated twice |
| `admin_last_administrator` | *violation*: with an OIDC login in between, UpdateAdminUser removes the last active administrator | |

Deadlock is checked for the control plane, the login limiter, the cutover
evidence and the accounts, where transactions that wait for each other are ended
by rolling one of them back (`Fail`). It is not checked for the page history and
the snapshot import, where a bounded number of edits or runs ends, and for the
algorithms, where each input is worked on once.

**Fairness.** `FairSpec` assumes weak fairness for the next statement of each
call that has begun (the Go scheduler runs every goroutine, and PostgreSQL
answers each statement with a result or an error) and for the restart of a dead
process (compose's restart policy). No fairness is assumed for requests, for
crashes, or for the choice between success and failure of a statement. A claim
about a lost write would need a restart that nobody promises: `JobTerminates`
speaks of behaviours without one. The
limiter's `FairSpec` assumes only that time passes (`WF` of `Tick`): a lock ends
whether or not any call goes on, and however often the client tries.

## 4. Proofs

`MigrationControl_proofs` proves, for any number of calls, jobs, import steps
and lost writes, assuming only that NoCall and NoJob are not a call or a job and
that Steps and MaxLost are naturals:

- `Typing` (`TypeOK`). `TypeOK` alone is not inductive: a goroutine at the head
  of its loop may be past the last step as far as the types know. `TypeInv`
  adds that a call at `import` has a step left, and that a call in the middle of
  an operation on a job has a job.
- `OneActive` (`OneActivePerKind`): every step changes the rows only by making
  one row active that the index allows, or by making rows inactive
  (`RowStep`); any such step keeps the invariant.
- `StaysFailClosed`, `EvidenceFirst`: the phases reachable are closed under the
  writes of all actions; discovery evidence is never removed and each path to a
  snapshot starts after it.
- `CancelsOwned`, `InterruptedIsDead`: each needs to know which calls write a job's
  row, from the lemmas about what one call may change.
- `NoOrphanedJob` (`ActiveJobOwned`): the set of `Orphans`, active rows that no call
  will end, grows by one row at most with a write or an answer that is lost
  (`CallLoss`, `OneOrphan`) and by nothing else (`CallOwner`).

`AdminPolicy_proofs` proves, for any finite set of users and any sets of tokens,
keys and calls, assuming that Root is a user, that the null values are not users
or keys, and that the identity provider's and the legacy users are users:

- `Typing` (`TypeOK`).
- `Administration` (`AdministratorRemains`). The invariant is not inductive: a
  commit applies what was counted some statements before. `PolicyInv` adds that
  at most one call is past the policy lock (`PolicyExclusive`) and that, between
  the count and the commit of a call that removes an administrator, there is
  another one (`AnotherAdministrator`). Finiteness is used only in
  `MoreThanOne`: what a count greater than 1 says.
- `Disabling` (`DisableRevokes`, an action property). `DisableInv` says that a
  transaction that comes to commit has taken every session and live key of its
  user (`RowsTaken`); `LockedRowsStay` says that none is added while the users
  row is locked.
- `Rotation` (`RotatedOnce`). `RotateInv` adds that rows not yet there are empty
  (`FreshRows`), and that a key under rotation is live, belongs to the caller and
  is taken by no other transaction (`Rotating`).

`LoginLimiter_proofs` proves, for any clients, finite set of calls, limit and
window of at least one, `Typing` (`LimiterTypeOK`) and `Bounded` (`GuessesBounded`).
Neither is inductive: failures are checked in one step and recorded in a later
one. `LimiterInv` adds that older failures count at every later age
(`Cumulative`), that a wrong password is kept as a failure or belongs to a call
that has yet to record it (`GuessesKept`), and that failures and admitted calls
together stay within the bound (`AdmittedBounded`).

`CutoverEvidence_proofs` proves, for any exceptions, decisions and goroutines and
any number of jobs, `Typing` (`TypeOK`), and the action properties `Reopened`
(`ReopenedCounts`), `TreeExact` (`TreeExactAfterDecision`) and `Follow`
(`ChecksFollowItems`). What a commit does depends on counts of some statements
before. `CutoverInv` adds that one decision at a time holds the row of the MACROS
check (`Exclusive`), that a decision which reopens an exception has counted it
(`OpenCounted`), and that its count of the page tree is still true when it
commits, or the newest snapshot has yet to come to its checks (`TreeCounted`).

`VersionChain_proofs` has the facts about chains, numbers and the plan, for any
finite set of records and any links between them. Induction theorems that take an
operator are beyond the provers; the lemmas go by a least counterexample
(`LeastNumber`, from the well-foundedness of the naturals), show that the
recursive functions exist (`WalkExists`, `NumberedExists`), and reason about
the walk and the numbering step by step (`WalkInduction`, `Upwards`). Sorted
sequences exist for every order (`ListExists`). What the folds of the code build is
followed in the same way (`FoldTable`, `FoldChain`): what a filtering loop keeps
(`SelectedFacts`), and where in a concatenation each part lies (`FlattenFacts`).
`ImportAlgorithms_proofs` proves from them, assuming only that the contents are a
finite set of positive numbers, `StringOrder` a strict total order of them and
MaxVersion a natural:

- `Complete` (`PlanIsComplete`): the pages partition the records (`PagesInOrder`),
  a page's part of the plan is its latest record and the others once each
  (`OfPageFacts`), and the parts make up the plan (`PlanTyping`); so every record
  lies in one part, in one place.
- `FilledIn` (`MissingNumbersFilledIn`): a place in the group is a free number
  when the numbers of the source differ and fit.
- `ChainEnd` (`PageIsChainEnd`): with rising versions the end of a chain is the
  highest number and the last of the group.
- `Chains` (`ChainsBecomePages`): without forks a record has one chain end that
  comes after it (`OneEnd`), so the walks of two linked records end alike; what
  leads to a page lies on one side of every closed set.

The second part of `ImportAlgorithms_proofs` is about the converter, for bodies of
any length and nesting. The assumption is that of `Bodies`, that elements of the
format without content have none: nothing in the code enforces it, and section 5
says what happens otherwise. `BodyInv` carries it from letters to bodies. Each
fold and each recursion of the converter is first turned into a chain of values
that is there (`FoldTable`, `ChainTable`, `ExtractExists`, `ShownExists`), and the
chain is followed index by index:

- What the loop makes of a body is a tree (`ParsedFacts`). The invariant of the
  loop is `Grown`: the stack holds nodes in rising order, each around all nodes
  made since (`OpenElements`), only a contentless element at its top can have no
  children (`ChildlessTop`), and the words of the nodes are those read so far. From
  it follows `Nested`, no link to a parent crosses another one, so that what is
  within a node is an interval of the document (`Within`, `WithinChild`,
  `SiblingsFollow`), and words ascend through it (`TextsAscend`).
- `Kept` (`WordsKept`): the text of a node has exactly the words within it,
  ascending (`ExtractFacts`, from the children up), which the white space that
  normalizeText removes does not change (`NormalizeFacts`); and there is one
  ascending sequence of given elements (`SameAscending`).
- `EditorShows` (`EditorShowsText`): the same for the list of texts that
  editorChildren returns (`ShownFacts`), whose parts are disjoint intervals again.
- `Separated` (`WordsSeparated`) is not inductive: whether two words are separated
  depends on the spaces before the first and behind the last word of the parts
  that are joined. `Renders` says all four (no word, the first, the last, two
  neighbours) of a text and the nodes it comes from; `RendersJoined` is the step
  from one child to the next, and needs that the node which begins between two
  words is unique (`BranchUnique`).
- `Uses` (`UsesReported`): the lists of uses grow with the tokens (`UsesRead`), and
  dedupeMacros counts the places of each name (`CountFacts`).

`PageHistory_proofs` proves seven theorems, for any set of sources, editors and
jobs: `Typing`, `BuildsOn` (`EditsBuildOnPredecessor`), `Readability`
(`ImportedPagesReadable`), `FaithfulImport` (`CompleteImportIsFaithful`),
`HashSound` (`HashCheckIsSound`), the action property `Immutable`
(`EditsAreImmutable`) and the refinement `Implements` (`ImplementsLog`), step by
step, with the log's state as a function of the store's. Assumed besides the
types of the constants: there is something to import (`SomethingToImport`), and
the numbers of the sources fit the model's bound on versions (`NumbersFit`), which
the code, whose numbers are integers, does not have. `HistoryInv` is what makes
them inductive: where each row of `page_versions` comes from (`RowsKnown`: a row
with the text of a content is in that content's place, an edit lies above the
record its page was made of), that the pages of editors are logs
(`CreatedKnown`), that what an editor has read is still there (`DraftsKnown`), why
a page cannot be read (`PagesKnown`), that a hash is of a row that is there
(`HashesKnown`), how far the run has come (`RunnerKnown`, `JobsKnown`), and that
complete items are in their rows (`ItemsKnown`). Two of the theorems have the
condition of their property, sources with sound numbers (`SoundSources`).

`SnapshotImport_proofs` proves, for any sources (sequences of records that name
earlier records of the right kind), any sets of entities to import, any names
that others may take and any number of runs and faults:

- `Typing` (`TypeOK`), with `RunShape` for what a run knows.
- `Counters` (`CountersExact`). The counters are wrong within a record, and
  rightly so: `Counted` says by how much at each statement (`Redone` for an item
  that had failed), and `OneItemOpen` that the item is RUNNING from its beginning
  to its end and was not COMPLETE before.
- `MappedRows` (`MappingNamesRow`). `TargetsNamed` says that every id that is kept,
  in the run or in the mapping, is one that the record's row may have, and
  `ItemsArrived` that there is such a row when the importer has succeeded.
- `Completes` (`CompleteJobLanded`). `InOrder` says that all records before the
  current one, and all of a job that has ended, are done with; `ItemsArrived`, with
  lemmas that rows are never removed (`GrowStep`), that what an importer left is
  there at the end; `NamesUnique` that a name has one row, hence that the membership
  that was inserted is the one asked for. For a permission, `GrantsMeant` says what
  its row means, `TargetsOwn` and `PagesSited` (`Sited`) that its target and subject
  are ids of the records it names, and `SubjectLanded` that the subject is then the
  row of the name, unless the name went to another row (`GivenAway`).
- `Access` (`AccessNotWidened`), for sources in which no two users and no two
  spaces have one name (`NamesOnce`: users of one name share an account and see
  what either may see, and two spaces of one key share a row and its permissions).
  `GrantsMeant` and `MembersMeant` say that each row of a permission or a
  membership is one that a record of the source asks for; `ChecksMeant` that a
  check that passes has seen all its items complete; `KnownInOrder` that a run
  knows the targets of all records before the current one. `PagesSited` is the
  part that is not obvious: a page lands in the space of orphans only where its
  space is neither asked for nor mapped, and then no permission of that space can
  be imported, so its check fails unless the space has none.
  `IncludedAssumption` is needed because one check covers the permissions of
  spaces and of pages, which are one option (job.go:23-32). A reconciliation writes
  one check at a time, so `ChecksMeant` speaks of those that are `Verified`: the
  ones this run has come to, or all when the job has ended.
- `Passes` (`CompleteJobPasses`, also after reconciliations), for sources that repeat no name and no membership
  (`RecordsOnce`: two records of one row can both complete, and the check counts
  one row). For each entity the rows are matched one to one with the records
  (`Matched`, `NamedCount`, `MemberCount`, `RowCount`), hence rows of users who
  signed in first and rows of former jobs neither lack nor add a count.

TLC evaluates the hypotheses of the last two on the sources of its run
(`InstanceAssumption`), and has checked the two invariants they rest on over the
states of that run.

Only model-checked: `JobTerminates` and `LockEnds`, since liveness is beyond the
prover. All other properties of the passing runs are theorems.

## 5. Disagreements found

The violation runs are listed as findings in `PROJECT.json` with the lines of
code and documentation that disagree: two resumes of one job that both start it
(a guard read in one statement and written in another without a condition), an
import that moves `current_version` back under an edit, an OIDC login that
takes an administrator away between UpdateAdminUser's count and its commit, a
fallback of the converter that drops text, and a page that is open because the
permission that closes it has no subject.

The models show further behaviour, which is why some properties carry a condition.
Three more disagree with a document and have no violation run, because a property
names them as its exception:

- `docs/MIGRATION.md:60` has the checks computed again at once. A decision
  can write a MACROS check without what was committed between its count and its
  hold on the check's row, another decision or an exception just imported; the
  page tree is counted once the row is held and stays exact
  (`TreeExactAfterDecision`). With two macros in one snapshot, a decision's own
  commit can so leave a MACROS check wrong that was right before, which is why
  `ChecksFollowItems` says nothing of that step; the attempt to prove it without
  that condition showed it. A reconciliation can likewise overwrite either check
  with counts from before a decision, or with zeros when its read fails. The next
  decision or reconciliation puts it right;
- `docs/MIGRATION.md:43` has permissions of unresolved subjects fail. One whose user
  or group failed in the same run is written with an id that no row has and counted
  as complete, since the maps of targets are filled whether or not the item
  succeeded. The job itself then has a failed item; a retry of the user gives that id
  its row. But if an account of that name signs in before the job is resumed, the
  user is mapped to it, and the permission of the job that is now COMPLETE still
  names the id that nobody has (`GivenAway`, the exception in `CompleteJobLanded`).
  It closes its space or page and opens it to nobody;
- `docs/ARCHITECTURE.md:34` calls the rows of `page_versions` immutable. A page whose
  current record does not have the highest number is open for editing under a number
  that is still to be imported, and the import then overwrites the edit (the
  condition `SoundSources` of `EditsAreImmutable`).

No document speaks of the rest:

- a stale resume can set a job that has just become COMPLETE to RUNNING again;
- the replacement number i+1 can equal a number in use: the two versions then
  share one row, and `HashCheckIsSound` says that the reconciliation notices;
- once an edit is hidden, no update of its page succeeds: the next number is
  taken by the hidden row;
- an OIDC login with provisioning makes a disabled account active again, and its
  groups replace the role an administrator gave it;
- a login or key request that was under way when its user was disabled still
  inserts its row afterwards: it is of no use while the account is disabled, and
  valid once the account is active again;
- an import can disable the bootstrap administrator, whom it finds by name; and
  as BootstrapAdmin counts administrators whatever their status, a restart does
  not help;
- a decision on exceptions of an older snapshot computes nothing again, also
  when the newest snapshot has failed and the checks are still the older one's;
- several records that name the same predecessor are split over several pages;
- records whose kind is not written in capitals are read, but all of them become
  versions of one page (`snapshot.go:514, 540`);
- an insert or a resume whose answer is lost leaves a PENDING job that nobody works
  on, which blocks every later one of its kind until the server restarts
  (`AnswerLost`; a cancel only makes it CANCEL_REQUESTED);
- StartSnapshot writes the phase SNAPSHOT some statements after it has read the
  phase (`job.go:84-115`), so a phase reached in between, LEGACY too, is
  overwritten.

Of the snapshot import:

- two permissions of the source with one meaning for one subject (EDITSPACE and
  EDITPAGE, or REMOVEPAGE and REMOVEOWNCONTENT) collide on the unique constraint:
  the second one fails in every run, and the job never becomes COMPLETE;
- a stop between an item and its counting, or in the retry of a failed item,
  leaves the counters wrong until the count at the end of the job (`torn`, the
  condition of `CountersExact`);
- the errors of the queries that count items are discarded: the check then
  compares 0 with 0, or a job with failed items ends COMPLETE (`blind`);
- until the permissions have been imported, the pages of a snapshot are open to
  everybody. What `AccessNotWidened` claims begins when the job has ended with
  passing checks of pages and permissions.

Of the converter (`converter.go`):

- `bulletList`, `table`, table cells and other elements without a node type of
  their own are no blocks: a word before a list or a table, words in neighbouring
  cells, words after a block and words around a line break run together in the
  search text (`Apart` says which words must not);
- the search text and the body of a code macro contain the macro's parameters;
- an element that the storage format has without content is not refused if it has
  some: an emoticon's is lost, that of a line break or of a reference is found by
  the search and not shown by the editor (the hypothesis `Bodies`);
- an empty code macro gives a text node without text, which the editor's library
  does not accept (the exception in `EditorShowsText`).

Of the front ends: the number of clients the limiter remembers is not bounded;
and the MCP tools get_page_history, get_comments and add_comment call the store
without the CanPage the REST handlers of the same operations ask for.

## 6. Not modelled, and plan

Not modelled on purpose: the content of MySQL's and PostgreSQL's own work
(constraints and row locks are modelled by what they allow), two server
processes on one database, a source that changes between snapshots, HTTP
details, rendering, cryptography and the web UI.

What is left out of the components that are modelled in part: page_macros,
page_links, parents and tags of pages (written by single statements beside the
version, rewritten as a whole by each import); the readiness, a derived sum over
all checks that several statements read; expiry of sessions and keys and the
scopes of keys, which are conditions of one query; attributes and marks of the
editor's document. Search, comments, spaces, preferences, groups and settings are
single statements on one row with nothing that spans steps; the REST and MCP
handlers, routing and OpenAPI text keep no state of their own.

Planned:

1. Resuming a snapshot job that is not the latest one. `SnapshotImport` resumes the
   latest job, while ResumeSnapshot (job.go:154-199) takes any that has ended. The
   claims about access do not carry over: a page that a job without spaces has put
   into the space of orphans stays there when another job imports the space and
   the first is resumed, which skips the complete page and can then import the
   permissions of the space.
2. The readiness over the checks as `SnapshotImport` and `CutoverEvidence` write
   them.
