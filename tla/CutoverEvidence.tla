---------------------------- MODULE CutoverEvidence ----------------------------
(***************************************************************************)
(* The evidence for a cutover that is derived from the exceptions of a     *)
(* snapshot (unsupported_content): the checks MACROS and PAGE_HIERARCHY.   *)
(* Decisions of administrators, the end of a snapshot and reconciliations  *)
(* all compute them again.                                                 *)
(*                                                                         *)
(* DecideUnsupportedContent is one transaction at READ COMMITTED: a        *)
(* statement sees what was committed when it began and the transaction's   *)
(* own changes, and rows stay locked until the commit.  Every statement of *)
(* reconcile commits by itself.                                            *)
(***************************************************************************)
EXTENDS Naturals, FiniteSets

CONSTANTS
  Items,        \* the exceptions a snapshot may meet, each of one occurrence
  JobOf,        \* the snapshot job of each
  CategoryOf,   \* the check that its kind counts in
  MaxJobs,      \* bound on snapshot jobs, which are numbered as created
  Decisions,    \* bound on the statuses decided on
  Calls,        \* decisions under way
  Runners       \* goroutines under way, of snapshots and reconciliations

Jobs == 1..MaxJobs
Categories == {"MACROS", "PAGE_HIERARCHY"}

ASSUME MaxJobsAssumption == MaxJobs \in Nat \ {0}
ASSUME DecisionsAssumption == Decisions \subseteq {"OPEN", "APPROVED", "RESOLVED"}
ASSUME ItemsAssumption ==
  IsFiniteSet(Items) /\ JobOf \in [Items -> Jobs] /\ CategoryOf \in [Items -> Categories]

VARIABLES
  item,        \* unsupported_content.status, NONE for no row
  newest,      \* the newest snapshot job, 0 for none
  job,         \* migration_jobs.status of the snapshots
  checks,      \* migration_checks: details.jobId (0 for no row) and the counts
  calls,       \* decisions: the next statement and what they have read
  runner       \* the goroutines of snapshots and reconciliations

vars == <<item, newest, job, checks, calls, runner>>

-----------------------------------------------------------------------------

Statuses == {"OPEN", "APPROVED", "RESOLVED"}

NoCounts == [open |-> 0, approved |-> 0]
NoReads == [cat \in Categories |-> NoCounts]

Idle == [pc |-> "idle", ids |-> {}, status |-> "OPEN", job |-> 0, read |-> NoReads]
IdleRunner == [pc |-> "idle", kind |-> "NONE", job |-> 0, read |-> NoReads]

\* The sums over occurrence_count of a job's exceptions.
Counts(rows, j, cat) ==
  LET of(status) == {i \in Items : JobOf[i] = j /\ CategoryOf[i] = cat /\ rows[i] = status}
  IN [open |-> Cardinality(of("OPEN")), approved |-> Cardinality(of("APPROVED"))]

exceptionCheckStatus(cat, counts) ==
  CASE counts.open > 0 -> IF cat = "PAGE_HIERARCHY" THEN "FAIL" ELSE "WARNING"
    [] counts.open = 0 /\ counts.approved > 0 -> "APPROVED"
    [] OTHER -> "PASS"

Check(j, counts) == [job |-> j, counts |-> counts]

Passes(cat, check) ==
  check.job # 0 /\ exceptionCheckStatus(cat, check.counts) \in {"PASS", "APPROVED"}

-----------------------------------------------------------------------------
(* Decisions: DecideUnsupportedContent and refreshUnsupportedChecks        *)

At(c, pc) == calls[c].pc = pc
Goto(c, pc) == calls' = [calls EXCEPT ![c].pc = pc]

\* Row locks: on the exceptions decided on, until the commit.
ItemHeld(i) == \E c \in Calls : i \in calls[c].ids

\* Mutant: the check is written outside the transaction and locks nothing.
MacrosHeldNot == FALSE

\* On the check MACROS, once it has been written.
MacrosHeld == \E c \in Calls : calls[c].job # 0 /\ calls[c].pc \in {"tree", "commit"}

\* What the transaction of c sees.
View(c) == [i \in Items |-> IF i \in calls[c].ids THEN calls[c].status ELSE item[i]]

\* Mutant: the counts are read outside the transaction.
SeenOutside(c, cat) == Counts(item, calls[c].job, cat)

Seen(c, cat) == Counts(View(c), calls[c].job, cat)

Read(c, cat, pc) == calls' = [calls EXCEPT ![c].pc = pc, ![c].read[cat] = Seen(c, cat)]

\* Mutant: only if all exceptions are of the newest snapshot.
RefreshedIfAll(ids) == IF \A i \in ids : JobOf[i] = newest THEN newest ELSE 0

\* The job whose checks are computed again: the newest snapshot, in whatever
\* status, if one of its exceptions is decided on.
Refreshed(ids) == IF \E i \in ids : JobOf[i] = newest THEN newest ELSE 0

\* The update, which waits for other decisions on its rows, and the reading of
\* the newest job: what others do between the two does not depend on the update.
Decide(c, ids, s) ==
  /\ At(c, "idle")
  /\ ids # {} /\ \A i \in ids : item[i] # "NONE" /\ ~ItemHeld(i)
  /\ calls' = [calls EXCEPT ![c] =
       [pc |-> IF Refreshed(ids) # 0 THEN "macros" ELSE "commit",
        ids |-> ids, status |-> s, job |-> Refreshed(ids), read |-> NoReads]]
  /\ UNCHANGED <<item, newest, job, checks, runner>>

CountMacros(c) ==
  /\ At(c, "macros")
  /\ Read(c, "MACROS", "upsert")
  /\ UNCHANGED <<item, newest, job, checks, runner>>

\* From here on, others that write this check wait.
UpsertMacros(c) ==
  /\ At(c, "upsert")
  /\ ~MacrosHeld
  /\ Goto(c, "tree")
  /\ UNCHANGED <<item, newest, job, checks, runner>>

CountTree(c) ==
  /\ At(c, "tree")
  /\ Read(c, "PAGE_HIERARCHY", "commit")
  /\ UNCHANGED <<item, newest, job, checks, runner>>

\* The last upsert and the commit: nobody else writes the checks in between.
Commit(c) ==
  /\ At(c, "commit")
  /\ item' = View(c)
  /\ checks' = IF calls[c].job = 0
                 THEN checks
                 ELSE [cat \in Categories |-> Check(calls[c].job, calls[c].read[cat])]
  /\ calls' = [calls EXCEPT ![c] = Idle]
  /\ UNCHANGED <<newest, job, runner>>

\* An error or a deadlock: the transaction is rolled back.
Fail(c) ==
  /\ ~At(c, "idle")
  /\ calls' = [calls EXCEPT ![c] = Idle]
  /\ UNCHANGED <<item, newest, job, checks, runner>>

-----------------------------------------------------------------------------
(* Snapshots and reconciliations                                           *)

\* At most one job of a kind is taken to be active (MigrationControl shows when
\* there may be two); the snapshot imports pages, so that it counts exceptions.
NoRun(kind) == \A r \in Runners : runner[r].kind # kind

Run(r, kind, j) ==
  runner' = [runner EXCEPT ![r] = [pc |-> "macros", kind |-> kind, job |-> j, read |-> NoReads]]

StartSnapshot(r) ==
  /\ runner[r].pc = "idle" /\ NoRun("SNAPSHOT")
  /\ newest < MaxJobs
  /\ newest' = newest + 1
  /\ job' = [job EXCEPT ![newest + 1] = "RUNNING"]
  /\ Run(r, "SNAPSHOT", newest + 1)
  /\ UNCHANGED <<item, checks, calls>>

\* A job that completed may have had errors.
ResumeSnapshot(r, j) ==
  /\ runner[r].pc = "idle" /\ NoRun("SNAPSHOT")
  /\ job[j] \in {"FAILED", "COMPLETE"}
  /\ job' = [job EXCEPT ![j] = "RUNNING"]
  /\ Run(r, "SNAPSHOT", j)
  /\ UNCHANGED <<item, newest, checks, calls>>

\* unsupportedCount, until reconcile counts: an exception met again keeps its
\* status.
FindItem(r, i) ==
  /\ runner[r].kind = "SNAPSHOT" /\ runner[r].pc = "macros" /\ runner[r].job = JobOf[i]
  /\ item[i] = "NONE"
  /\ item' = [item EXCEPT ![i] = "OPEN"]
  /\ UNCHANGED <<newest, job, checks, calls, runner>>

\* Of the newest snapshot that has completed.
StartReconciliation(r) ==
  /\ runner[r].pc = "idle" /\ NoRun("RECONCILIATION")
  /\ \E j \in Jobs :
       /\ job[j] = "COMPLETE"
       /\ \A later \in Jobs : later > j => job[later] # "COMPLETE"
       /\ Run(r, "RECONCILIATION", j)
  /\ UNCHANGED <<item, newest, job, checks, calls>>

\* The error of the query is discarded: the counts are then zero.
Count(r, cat, at, next) ==
  /\ runner[r].pc = at
  /\ \E counts \in {Counts(item, runner[r].job, cat), NoCounts} :
       runner' = [runner EXCEPT ![r].pc = next, ![r].read[cat] = counts]
  /\ UNCHANGED <<item, newest, job, checks, calls>>

Upsert(r, cat, at, next) ==
  /\ runner[r].pc = at
  /\ cat = "MACROS" => ~MacrosHeld
  /\ checks' = [checks EXCEPT ![cat] = Check(runner[r].job, runner[r].read[cat])]
  /\ runner' = [runner EXCEPT ![r].pc = next, ![r].read[cat] = NoCounts]
  /\ UNCHANGED <<item, newest, job, calls>>

\* COMPLETE, or COMPLETED_WITH_ERRORS.
Finish(r) ==
  /\ runner[r].pc = "finish"
  /\ job' = IF runner[r].kind = "SNAPSHOT" THEN [job EXCEPT ![runner[r].job] = "COMPLETE"] ELSE job
  /\ runner' = [runner EXCEPT ![r] = IdleRunner]
  /\ UNCHANGED <<item, newest, checks, calls>>

\* Mutant: the failure is not recorded.
AbortSilently(r) ==
  /\ runner[r].pc # "idle"
  /\ runner' = [runner EXCEPT ![r] = IdleRunner]
  /\ UNCHANGED <<item, newest, job, checks, calls>>

\* An error, a cancellation, or a restart of the process.
Abort(r) ==
  /\ runner[r].pc # "idle"
  /\ job' = IF runner[r].kind = "SNAPSHOT" THEN [job EXCEPT ![runner[r].job] = "FAILED"] ELSE job
  /\ runner' = [runner EXCEPT ![r] = IdleRunner]
  /\ UNCHANGED <<item, newest, checks, calls>>

reconcile(r) ==
  \/ Count(r, "MACROS", "macros", "upsertMacros")
  \/ Upsert(r, "MACROS", "upsertMacros", "tree")
  \/ Count(r, "PAGE_HIERARCHY", "tree", "upsertTree")
  \/ Upsert(r, "PAGE_HIERARCHY", "upsertTree", "finish")

-----------------------------------------------------------------------------

Init ==
  /\ item = [i \in Items |-> "NONE"]
  /\ newest = 0
  /\ job = [j \in Jobs |-> "NONE"]
  /\ checks = [cat \in Categories |-> Check(0, NoCounts)]
  /\ calls = [c \in Calls |-> Idle]
  /\ runner = [r \in Runners |-> IdleRunner]

Decision(c) ==
  \/ \E ids \in SUBSET Items, s \in Decisions : Decide(c, ids, s)
  \/ CountMacros(c) \/ UpsertMacros(c) \/ CountTree(c)
  \/ Commit(c) \/ Fail(c)

Goroutine(r) ==
  \/ StartSnapshot(r) \/ StartReconciliation(r)
  \/ \E j \in Jobs : ResumeSnapshot(r, j)
  \/ \E i \in Items : FindItem(r, i)
  \/ reconcile(r) \/ Finish(r) \/ Abort(r)

Next ==
  \/ \E c \in Calls : Decision(c)
  \/ \E r \in Runners : Goroutine(r)

Spec == Init /\ [][Next]_vars
-----------------------------------------------------------------------------
(* Properties                                                              *)

CountsType == [open : 0..Cardinality(Items), approved : 0..Cardinality(Items)]
Reads == [Categories -> CountsType]
CallRecords == [pc : {"idle", "macros", "upsert", "tree", "commit"},
                ids : SUBSET Items, status : Statuses, job : 0..MaxJobs, read : Reads]
RunnerRecords == [pc : {"idle", "macros", "upsertMacros", "tree", "upsertTree", "finish"},
                  kind : {"NONE", "SNAPSHOT", "RECONCILIATION"},
                  job : 0..MaxJobs, read : Reads]

TypeOK ==
  /\ item \in [Items -> Statuses \cup {"NONE"}]
  /\ newest \in 0..MaxJobs
  /\ job \in [Jobs -> {"NONE", "RUNNING", "COMPLETE", "FAILED"}]
  /\ checks \in [Categories -> [job : 0..MaxJobs, counts : CountsType]]
  /\ calls \in [Calls -> CallRecords]
  /\ runner \in [Runners -> RunnerRecords]
  /\ \A j \in Jobs : job[j] = "RUNNING" <=>
                    \E r \in Runners : runner[r].kind = "SNAPSHOT" /\ runner[r].job = j
  /\ \A j \in Jobs : job[j] # "NONE" <=> j <= newest

Exact(cat) == checks[cat] = Check(newest, Counts(item, newest, cat))

\* "Related checks are computed again at once" (docs/MIGRATION.md): when an
\* administrator reopens an exception of the newest snapshot, its check does
\* not pass once that is committed, whoever else writes it at the time.
ReopenedCounts ==
  [][\A c \in Calls : Commit(c) /\ calls[c].job # 0 /\ calls[c].status = "OPEN" =>
       \A i \in calls[c].ids : JobOf[i] = calls[c].job =>
         ~Passes(CategoryOf[i], checks'[CategoryOf[i]])]_vars

\* Decisions that race each other leave the page tree check exact: its
\* exceptions are counted only once the lock on the MACROS check is held.
TreeExactAfterDecision ==
  [][\A c \in Calls :
       Commit(c) /\ newest # 0 /\ calls[c].job = newest /\ job[newest] = "COMPLETE" =>
         Exact("PAGE_HIERARCHY")']_vars

\* "Related checks are computed again at once" also holds for all other
\* decisions: a check that is right about the newest snapshot, once that has
\* completed, is never left behind by its exceptions.  Whatever changes one of
\* them writes the checks too; of MACROS a decision may write what it counted
\* before others committed, so its own commit says nothing of that check.
ChecksFollowItems ==
  [][\A cat \in Categories :
       /\ newest # 0 /\ newest' = newest
       /\ job[newest] = "COMPLETE" /\ job'[newest] = "COMPLETE"
       /\ Exact(cat) /\ checks'[cat] = checks[cat]
       /\ cat = "MACROS" => \A c \in Calls : calls[c].job # 0 => ~Commit(c)
       => Exact(cat)']_vars
=============================================================================
