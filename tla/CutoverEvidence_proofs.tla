------------------------ MODULE CutoverEvidence_proofs ------------------------
(***************************************************************************)
(* CutoverEvidence for any exceptions, jobs, decisions and goroutines.     *)
(***************************************************************************)
EXTENDS CutoverEvidence, FiniteSetTheorems, TLAPS

-----------------------------------------------------------------------------
(* The inductive invariant                                                 *)

Active(c) == ~At(c, "idle")

\* Who holds the lock on the row MACROS.
Holds(c) == calls[c].job # 0 /\ calls[c].pc \in {"tree", "commit"}

\* A goroutine has a kind while it runs, its job is one of those started, and
\* one snapshot runs at a time.
RunnersKnown ==
  /\ \A r \in Runners : runner[r].pc = "idle" <=> runner[r].kind = "NONE"
  /\ \A r \in Runners : runner[r].kind # "NONE" => runner[r].job \in 1..newest
  /\ \A r, s \in Runners :
       runner[r].kind = "SNAPSHOT" /\ runner[s].kind = "SNAPSHOT" => r = s

\* Exceptions are those of jobs started, and a decision is on exceptions that
\* are there.  If it computes no check, none of them is of the newest job.
DecisionsKnown ==
  /\ \A i \in Items : item[i] # "NONE" => JobOf[i] <= newest
  /\ \A c \in Calls : calls[c].job <= newest
  /\ \A c \in Calls : Active(c) => \A i \in calls[c].ids : item[i] # "NONE"
  /\ \A c \in Calls : Active(c) /\ calls[c].job = 0 =>
       At(c, "commit") /\ \A i \in calls[c].ids : JobOf[i] # newest

Exclusive == \A c, d \in Calls : Holds(c) /\ Holds(d) => c = d

\* A decision that reopens an exception has counted it once it has counted.
OpenCounted ==
  \A c \in Calls : \A i \in calls[c].ids :
    Active(c) /\ calls[c].job # 0 /\ calls[c].status = "OPEN" /\ JobOf[i] = calls[c].job =>
      /\ CategoryOf[i] = "MACROS" /\ calls[c].pc \in {"upsert", "tree", "commit"} =>
           calls[c].read["MACROS"].open > 0
      /\ CategoryOf[i] = "PAGE_HIERARCHY" /\ At(c, "commit") =>
           calls[c].read["PAGE_HIERARCHY"].open > 0

\* The newest snapshot has still to pass the row MACROS.
NotPastMacros ==
  \/ job[newest] = "FAILED"
  \/ \E r \in Runners : /\ runner[r].kind = "SNAPSHOT" /\ runner[r].job = newest
                        /\ runner[r].pc \in {"macros", "upsertMacros"}

\* What a decision has counted of the page tree stays true until it commits, or
\* the newest snapshot goes on only after that.
TreeCounted ==
  \A c \in Calls :
    At(c, "commit") /\ calls[c].job = newest /\ newest # 0 =>
      \/ calls[c].read["PAGE_HIERARCHY"] = Counts(View(c), newest, "PAGE_HIERARCHY")
      \/ NotPastMacros

CutoverInv ==
  TypeOK /\ RunnersKnown /\ DecisionsKnown /\ Exclusive /\ OpenCounted /\ TreeCounted

-----------------------------------------------------------------------------
(* The counts                                                              *)

LEMMA ItemSets ==
  ASSUME NEW S \in SUBSET Items
  PROVE  IsFiniteSet(S) /\ Cardinality(S) \in 0..Cardinality(Items)
  <1>1. Cardinality(Items) \in Nat
    BY ItemsAssumption, FS_CardinalityType
  <1>2. IsFiniteSet(S) /\ Cardinality(S) <= Cardinality(Items)
    BY ItemsAssumption, FS_Subset
  <1> QED BY <1>1, <1>2, FS_CardinalityType

LEMMA CountsTyping ==
  ASSUME NEW rows, NEW j, NEW cat
  PROVE  Counts(rows, j, cat) \in CountsType
  <1> DEFINE of(status) ==
        {i \in Items : JobOf[i] = j /\ CategoryOf[i] = cat /\ rows[i] = status}
  <1>1. of("OPEN") \in SUBSET Items /\ of("APPROVED") \in SUBSET Items
    OBVIOUS
  <1>2. Cardinality(of("OPEN")) \in 0..Cardinality(Items)
    BY <1>1, ItemSets
  <1>3. Cardinality(of("APPROVED")) \in 0..Cardinality(Items)
    BY <1>1, ItemSets
  <1>4. Counts(rows, j, cat) =
          [open |-> Cardinality(of("OPEN")), approved |-> Cardinality(of("APPROVED"))]
    BY DEF Counts
  <1> HIDE DEF of
  <1> QED BY <1>2, <1>3, <1>4 DEF CountsType

LEMMA NoCountsTyping == NoCounts \in CountsType /\ NoReads \in Reads
  <1>1. Cardinality(Items) \in Nat
    BY ItemsAssumption, FS_CardinalityType
  <1> QED BY <1>1 DEF NoCounts, NoReads, CountsType, Reads

\* The counts of a job depend on its own exceptions only.
LEMMA CountsOfJob ==
  ASSUME NEW rows, NEW rows2, NEW j, NEW cat,
         \A i \in Items : JobOf[i] = j => rows[i] = rows2[i]
  PROVE  Counts(rows, j, cat) = Counts(rows2, j, cat)
  <1>1. \A status :
          {i \in Items : JobOf[i] = j /\ CategoryOf[i] = cat /\ rows[i] = status} =
          {i \in Items : JobOf[i] = j /\ CategoryOf[i] = cat /\ rows2[i] = status}
    OBVIOUS
  <1> QED BY <1>1 DEF Counts

\* An open exception is counted, and the check of its kind does not pass.
LEMMA OpenIsCounted ==
  ASSUME NEW rows, NEW i \in Items, rows[i] = "OPEN"
  PROVE  Counts(rows, JobOf[i], CategoryOf[i]).open > 0
  <1> DEFINE S == {k \in Items : /\ JobOf[k] = JobOf[i] /\ CategoryOf[k] = CategoryOf[i]
                                 /\ rows[k] = "OPEN"}
  <1>1. S \in SUBSET Items /\ i \in S
    OBVIOUS
  <1>2. IsFiniteSet(S) /\ Cardinality(S) \in Nat
    BY <1>1, ItemSets
  <1>3. Cardinality(S) # 0
    BY <1>1, <1>2, FS_EmptySet
  <1>4. Counts(rows, JobOf[i], CategoryOf[i]).open = Cardinality(S)
    BY DEF Counts
  <1> HIDE DEF S
  <1> QED BY <1>2, <1>3, <1>4

LEMMA OpenDoesNotPass ==
  ASSUME NEW cat \in Categories, NEW j, NEW counts, counts.open > 0
  PROVE  ~Passes(cat, Check(j, counts))
  BY DEF Passes, Check, exceptionCheckStatus, Categories

-----------------------------------------------------------------------------
(* The types                                                               *)

LEMMA InitCutover == Init => CutoverInv
  <1> SUFFICES ASSUME Init PROVE CutoverInv
    OBVIOUS
  <1>1. TypeOK
    BY NoCountsTyping, MaxJobsAssumption
       DEF Init, TypeOK, Idle, IdleRunner, CallRecords, RunnerRecords, Statuses, Check,
           Jobs
  <1>2. RunnersKnown /\ DecisionsKnown /\ Exclusive /\ OpenCounted /\ TreeCounted
    BY DEF Init, RunnersKnown, DecisionsKnown, Exclusive, OpenCounted, TreeCounted, Active,
           At, Holds, Idle, IdleRunner
  <1> QED BY <1>1, <1>2 DEF CutoverInv

LEMMA IdleTyping == Idle \in CallRecords /\ IdleRunner \in RunnerRecords
  BY NoCountsTyping, MaxJobsAssumption
     DEF Idle, IdleRunner, CallRecords, RunnerRecords, Statuses

LEMMA DecisionTyping ==
  ASSUME TypeOK, NEW c \in Calls, Decision(c)
  PROVE  TypeOK'
  <1>0. calls[c] \in CallRecords
    BY DEF TypeOK
  <1>1. ASSUME NEW ids \in SUBSET Items, NEW s \in Decisions, Decide(c, ids, s)
        PROVE  TypeOK'
    <2>1. Refreshed(ids) \in 0..MaxJobs /\ s \in Statuses
      BY DecisionsAssumption, MaxJobsAssumption DEF TypeOK, Refreshed, Statuses
    <2>2. calls' \in [Calls -> CallRecords]
      BY <1>1, <2>1, NoCountsTyping DEF TypeOK, Decide, CallRecords
    <2> QED BY <1>1, <2>2 DEF TypeOK, Decide
  <1>2. ASSUME NEW cat \in Categories, NEW pc \in {"upsert", "commit"}, Read(c, cat, pc)
        PROVE  calls' \in [Calls -> CallRecords]
    <2>1. PICK counts \in CountsType :
            calls' = [calls EXCEPT ![c].pc = pc, ![c].read[cat] = counts]
      BY <1>2, CountsTyping DEF Read, Seen
    <2> DEFINE new == [calls[c] EXCEPT !.pc = pc, !.read[cat] = counts]
    <2>2. [calls[c].read EXCEPT ![cat] = counts] \in Reads
      BY <1>0 DEF CallRecords, Reads
    <2>3. new \in CallRecords
      BY <1>0, <2>2 DEF CallRecords
    <2>4. calls' = [calls EXCEPT ![c] = new]
      BY <2>1
    <2> HIDE DEF new
    <2> QED BY <2>3, <2>4 DEF TypeOK
  <1>3. CASE CountMacros(c)
    BY <1>2, <1>3 DEF TypeOK, CountMacros, Categories
  <1>4. CASE CountTree(c)
    BY <1>2, <1>4 DEF TypeOK, CountTree, Categories
  <1>5. CASE UpsertMacros(c)
    <2>1. calls' \in [Calls -> CallRecords]
      BY <1>5 DEF TypeOK, UpsertMacros, Goto, CallRecords
    <2> QED BY <1>5, <2>1 DEF TypeOK, UpsertMacros
  <1>6. CASE Commit(c)
    <2>1. View(c) \in [Items -> Statuses \cup {"NONE"}]
      BY DEF TypeOK, View, CallRecords
    <2>2. checks' \in [Categories -> [job : 0..MaxJobs, counts : CountsType]]
      BY <1>0, <1>6 DEF TypeOK, Commit, CallRecords, Reads, Check
    <2> QED BY <1>6, <2>1, <2>2, IdleTyping DEF TypeOK, Commit
  <1>7. CASE Fail(c)
    BY <1>7, IdleTyping DEF TypeOK, Fail
  <1> QED BY <1>1, <1>3, <1>4, <1>5, <1>6, <1>7 DEF Decision

LEMMA RunTyping ==
  ASSUME NEW kind \in {"SNAPSHOT", "RECONCILIATION"}, NEW j \in Jobs
  PROVE  [pc |-> "macros", kind |-> kind, job |-> j, read |-> NoReads] \in RunnerRecords
  BY NoCountsTyping, MaxJobsAssumption DEF RunnerRecords, Jobs

\* A goroutine that ends leaves its kind and its job.
LEMMA EndTyping ==
  ASSUME TypeOK, RunnersKnown, NEW r \in Runners, Finish(r) \/ Abort(r)
  PROVE  TypeOK'
  <1>1. PICK status \in {"COMPLETE", "FAILED"} :
          /\ job' = IF runner[r].kind = "SNAPSHOT"
                      THEN [job EXCEPT ![runner[r].job] = status] ELSE job
          /\ runner' = [runner EXCEPT ![r] = IdleRunner]
          /\ UNCHANGED <<item, newest, checks, calls>>
    BY DEF Finish, Abort
  <1>2. job' \in [Jobs -> {"NONE", "RUNNING", "COMPLETE", "FAILED"}]
    BY <1>1 DEF TypeOK
  <1>3. runner' \in [Runners -> RunnerRecords]
    BY <1>1, IdleTyping DEF TypeOK
  <1>4. ASSUME NEW j \in Jobs
        PROVE  job'[j] = "RUNNING" <=>
                 \E s \in Runners : runner'[s].kind = "SNAPSHOT" /\ runner'[s].job = j
    <2>1. \A s \in Runners : s # r => runner'[s] = runner[s]
      BY <1>1 DEF TypeOK
    <2>2. runner'[r].kind = "NONE"
      BY <1>1 DEF TypeOK, IdleRunner
    <2>3. job[j] = "RUNNING" <=>
            \E s \in Runners : runner[s].kind = "SNAPSHOT" /\ runner[s].job = j
      BY DEF TypeOK
    <2>4. CASE runner[r].kind = "SNAPSHOT" /\ runner[r].job = j
      <3>1. job'[j] # "RUNNING"
        BY <1>1, <2>4 DEF TypeOK
      <3>2. \A s \in Runners : runner'[s].kind # "SNAPSHOT"
        BY <2>1, <2>2, <2>4 DEF RunnersKnown
      <3> QED BY <3>1, <3>2
    <2>5. CASE ~(runner[r].kind = "SNAPSHOT" /\ runner[r].job = j)
      <3>1. job'[j] = job[j]
        BY <1>1, <2>5 DEF TypeOK
      <3> QED BY <2>1, <2>2, <2>3, <2>5, <3>1
    <2> QED BY <2>4, <2>5
  <1>5. ASSUME NEW j \in Jobs
        PROVE  job'[j] # "NONE" <=> j <= newest'
    <2>1. job'[j] = job[j] \/ (runner[r].kind = "SNAPSHOT" /\ runner[r].job = j /\ job'[j] = status)
      BY <1>1 DEF TypeOK
    <2>2. runner[r].kind = "SNAPSHOT" => runner[r].job <= newest
      BY DEF RunnersKnown, TypeOK
    <2> QED BY <1>1, <2>1, <2>2 DEF TypeOK
  <1> QED BY <1>1, <1>2, <1>3, <1>4, <1>5 DEF TypeOK

\* A snapshot that starts or resumes.
LEMMA StartTyping ==
  ASSUME TypeOK, NEW r \in Runners, NEW j \in Jobs, runner[r].pc = "idle", NoRun("SNAPSHOT"),
         \/ j = newest + 1 /\ newest' = j
         \/ job[j] \in {"FAILED", "COMPLETE"} /\ newest' = newest,
         job' = [job EXCEPT ![j] = "RUNNING"], Run(r, "SNAPSHOT", j),
         UNCHANGED <<item, checks, calls>>
  PROVE  TypeOK'
  <1>1. newest' \in 0..MaxJobs /\ job' \in [Jobs -> {"NONE", "RUNNING", "COMPLETE", "FAILED"}]
    BY MaxJobsAssumption DEF TypeOK, Jobs
  <1>2. runner' \in [Runners -> RunnerRecords]
    BY RunTyping DEF TypeOK, Run
  <1>3. ASSUME NEW k \in Jobs
        PROVE  job'[k] = "RUNNING" <=>
                 \E s \in Runners : runner'[s].kind = "SNAPSHOT" /\ runner'[s].job = k
    <2>1. job[k] # "RUNNING"
      BY DEF TypeOK, NoRun
    <2>2. \A s \in Runners : runner'[s].kind = "SNAPSHOT" <=> s = r
      BY DEF TypeOK, NoRun, Run, IdleRunner
    <2>3. runner'[r].job = j
      BY DEF TypeOK, Run, IdleRunner
    <2> QED BY <2>1, <2>2, <2>3 DEF TypeOK
  <1>4. ASSUME NEW k \in Jobs
        PROVE  job'[k] # "NONE" <=> k <= newest'
    BY DEF TypeOK, Jobs
  <1> QED BY <1>1, <1>2, <1>3, <1>4 DEF TypeOK

LEMMA GoroutineTyping ==
  ASSUME TypeOK, RunnersKnown, NEW r \in Runners, Goroutine(r)
  PROVE  TypeOK'
  <1>0. runner[r] \in RunnerRecords
    BY DEF TypeOK
  <1>1. CASE StartSnapshot(r)
    <2>1. PICK j \in Jobs : j = newest + 1
      BY <1>1, MaxJobsAssumption DEF StartSnapshot, TypeOK, Jobs
    <2>2. /\ runner[r].pc = "idle" /\ NoRun("SNAPSHOT")
          /\ newest' = j /\ job' = [job EXCEPT ![j] = "RUNNING"] /\ Run(r, "SNAPSHOT", j)
          /\ UNCHANGED <<item, checks, calls>>
      BY <1>1, <2>1 DEF StartSnapshot
    <2> QED BY <2>1, <2>2, StartTyping
  <1>2. CASE StartReconciliation(r)
    <2>1. PICK j \in Jobs : Run(r, "RECONCILIATION", j)
      BY <1>2 DEF StartReconciliation
    <2>2. runner' \in [Runners -> RunnerRecords]
      BY <2>1, RunTyping DEF TypeOK, Run
    <2>3. \A s \in Runners, k \in Jobs :
            (runner'[s].kind = "SNAPSHOT" /\ runner'[s].job = k) <=>
            (runner[s].kind = "SNAPSHOT" /\ runner[s].job = k)
      <3>1. runner[r].kind # "SNAPSHOT"
        BY <1>2 DEF StartReconciliation, RunnersKnown
      <3> QED BY <2>1, <3>1 DEF TypeOK, Run, IdleRunner
    <2> QED BY <1>2, <2>2, <2>3 DEF TypeOK, StartReconciliation
  <1>3. ASSUME NEW j \in Jobs, ResumeSnapshot(r, j)
        PROVE  TypeOK'
    BY <1>3, StartTyping DEF ResumeSnapshot
  <1>4. ASSUME NEW i \in Items, FindItem(r, i)
        PROVE  TypeOK'
    BY <1>4 DEF FindItem, TypeOK, Statuses
  <1>5. ASSUME NEW cat \in Categories, NEW at,
               NEW next \in {"upsertMacros", "tree", "upsertTree", "finish"},
               Count(r, cat, at, next) \/ Upsert(r, cat, at, next)
        PROVE  TypeOK'
    <2>1. PICK counts \in CountsType :
            runner' = [runner EXCEPT ![r].pc = next, ![r].read[cat] = counts]
      BY <1>5, CountsTyping, NoCountsTyping DEF Count, Upsert
    <2> DEFINE new == [runner[r] EXCEPT !.pc = next, !.read[cat] = counts]
    <2>2. new \in RunnerRecords /\ new.kind = runner[r].kind /\ new.job = runner[r].job
      <3>1. [runner[r].read EXCEPT ![cat] = counts] \in Reads
        BY <1>0 DEF RunnerRecords, Reads
      <3> QED BY <1>0, <3>1 DEF RunnerRecords
    <2>3. runner' = [runner EXCEPT ![r] = new]
      BY <2>1
    <2> HIDE DEF new
    <2>4. /\ runner' \in [Runners -> RunnerRecords]
          /\ \A s \in Runners : runner'[s].kind = runner[s].kind /\ runner'[s].job = runner[s].job
      BY <2>2, <2>3 DEF TypeOK
    <2>5. checks' \in [Categories -> [job : 0..MaxJobs, counts : CountsType]]
      <3>1. CASE Count(r, cat, at, next)
        BY <3>1 DEF Count, TypeOK
      <3>2. CASE Upsert(r, cat, at, next)
        BY <1>0, <3>2 DEF Upsert, TypeOK, RunnerRecords, Reads, Check
      <3> QED BY <1>5, <3>1, <3>2
    <2>6. UNCHANGED <<item, newest, job, calls>>
      BY <1>5 DEF Count, Upsert
    <2>7. \A j \in Jobs : job'[j] = "RUNNING" <=>
                         \E s \in Runners : runner'[s].kind = "SNAPSHOT" /\ runner'[s].job = j
      <3> TAKE j \in Jobs
      <3>1. job[j] = "RUNNING" <=>
              \E s \in Runners : runner[s].kind = "SNAPSHOT" /\ runner[s].job = j
        BY DEF TypeOK
      <3>2. \A s \in Runners : runner'[s].kind = runner[s].kind /\ runner'[s].job = runner[s].job
        BY <2>4
      <3> QED BY <2>6, <3>1, <3>2
    <2> QED BY <2>4, <2>5, <2>6, <2>7 DEF TypeOK
  <1>6. CASE reconcile(r)
    BY <1>5, <1>6 DEF reconcile, Categories
  <1>7. CASE Finish(r) \/ Abort(r)
    BY <1>7, EndTyping
  <1> QED BY <1>1, <1>2, <1>3, <1>4, <1>6, <1>7 DEF Goroutine

-----------------------------------------------------------------------------
(* The goroutines                                                          *)

\* What a step may do to the goroutine r: start it, move it on, or end it.
Starts(r) ==
  /\ runner[r].pc = "idle" /\ runner'[r].pc # "idle"
  /\ runner'[r].kind \in {"SNAPSHOT", "RECONCILIATION"} /\ NoRun(runner'[r].kind)
  /\ runner'[r].job \in 1..newest'

Goes(r) ==
  /\ runner'[r].kind = runner[r].kind /\ runner'[r].job = runner[r].job
  /\ runner[r].pc = "idle" <=> runner'[r].pc = "idle"

Ends(r) == runner'[r].pc = "idle" /\ runner'[r].kind = "NONE"

RunnerStep(r) ==
  /\ calls' = calls
  /\ newest' \in {newest, newest + 1}
  /\ \A s \in Runners : s # r => runner'[s] = runner[s]
  /\ Starts(r) \/ Goes(r) \/ Ends(r)

LEMMA RunnerSteps ==
  ASSUME TypeOK, RunnersKnown, NEW r \in Runners, Goroutine(r)
  PROVE  RunnerStep(r)
  <1>1. ASSUME NEW j \in Nat \ {0}, NEW kind \in {"SNAPSHOT", "RECONCILIATION"},
               Run(r, kind, j), runner[r].pc = "idle", NoRun(kind), calls' = calls,
               newest' \in {newest, newest + 1}, j <= newest'
        PROVE  RunnerStep(r)
    <2>1. newest' \in Nat
      BY <1>1, MaxJobsAssumption DEF TypeOK
    <2>2. runner'[r] = [pc |-> "macros", kind |-> kind, job |-> j, read |-> NoReads]
      BY <1>1 DEF TypeOK, Run
    <2>3. \A s \in Runners : s # r => runner'[s] = runner[s]
      BY <1>1 DEF TypeOK, Run
    <2>4. Starts(r)
      BY <1>1, <2>1, <2>2 DEF Starts
    <2> QED BY <1>1, <2>3, <2>4 DEF RunnerStep
  <1>2. CASE StartSnapshot(r)
    <2>1. PICK j \in Nat \ {0} : j = newest + 1
      BY MaxJobsAssumption DEF TypeOK
    <2>2. /\ runner[r].pc = "idle" /\ NoRun("SNAPSHOT") /\ Run(r, "SNAPSHOT", j)
          /\ newest' = newest + 1 /\ calls' = calls /\ j <= newest'
      BY <1>2, <2>1 DEF StartSnapshot
    <2> QED BY <1>1, <2>2
  <1>3. CASE StartReconciliation(r)
    <2>1. PICK j \in Jobs : job[j] = "COMPLETE" /\ Run(r, "RECONCILIATION", j)
      BY <1>3 DEF StartReconciliation
    <2>2. j \in Nat \ {0} /\ j <= newest
      BY <2>1, MaxJobsAssumption DEF Jobs, TypeOK
    <2> QED BY <1>1, <1>3, <2>1, <2>2 DEF StartReconciliation
  <1>4. ASSUME NEW j \in Jobs, ResumeSnapshot(r, j)
        PROVE  RunnerStep(r)
    <2>1. j \in Nat \ {0} /\ j <= newest
      BY <1>4, MaxJobsAssumption DEF ResumeSnapshot, Jobs, TypeOK
    <2> QED BY <1>1, <1>4, <2>1 DEF ResumeSnapshot
  <1>5. ASSUME NEW i \in Items, FindItem(r, i)
        PROVE  RunnerStep(r)
    BY <1>5 DEF FindItem, RunnerStep, Goes
  <1>6. ASSUME NEW cat \in Categories, NEW at \in {"macros", "upsertMacros", "tree", "upsertTree"},
               NEW next \in {"upsertMacros", "tree", "upsertTree", "finish"},
               Count(r, cat, at, next) \/ Upsert(r, cat, at, next)
        PROVE  RunnerStep(r)
    <2>1. PICK counts : runner' = [runner EXCEPT ![r].pc = next, ![r].read[cat] = counts]
      BY <1>6 DEF Count, Upsert
    <2>2. runner[r].pc # "idle" /\ UNCHANGED <<newest, calls>>
      BY <1>6 DEF Count, Upsert
    <2>3. \A s \in Runners : s # r => runner'[s] = runner[s]
      BY <2>1 DEF TypeOK
    <2>4. Goes(r)
      BY <1>6, <2>1, <2>2 DEF Goes, TypeOK, RunnerRecords
    <2>5. newest' \in {newest, newest + 1} /\ calls' = calls
      BY <2>2
    <2> QED BY <2>3, <2>4, <2>5 DEF RunnerStep
  <1>7. CASE reconcile(r)
    BY <1>6, <1>7 DEF reconcile, Categories
  <1>8. CASE Finish(r) \/ Abort(r)
    <2>1. Ends(r) /\ \A s \in Runners : s # r => runner'[s] = runner[s]
      BY <1>8 DEF Finish, Abort, TypeOK, IdleRunner, Ends
    <2> QED BY <1>8, <2>1 DEF Finish, Abort, RunnerStep
  <1> QED BY <1>2, <1>3, <1>4, <1>5, <1>7, <1>8 DEF Goroutine

LEMMA RunnersKnownStep ==
  ASSUME TypeOK, RunnersKnown, NEW r \in Runners, Goroutine(r)
  PROVE  RunnersKnown'
  <1>0. RunnerStep(r)
    BY RunnerSteps
  <1>1. \A s \in Runners : runner'[s].pc = "idle" <=> runner'[s].kind = "NONE"
    BY <1>0 DEF RunnersKnown, RunnerStep, Starts, Goes, Ends
  <1>2. \A s \in Runners : runner'[s].kind # "NONE" => runner'[s].job \in 1..newest'
    <2>1. newest \in Nat /\ (newest' = newest \/ newest' = newest + 1)
      BY <1>0, MaxJobsAssumption DEF TypeOK, RunnerStep
    <2> QED BY <1>0, <2>1 DEF RunnersKnown, RunnerStep, Starts, Goes, Ends
  <1>3. \A s, t \in Runners :
          runner'[s].kind = "SNAPSHOT" /\ runner'[t].kind = "SNAPSHOT" => s = t
    BY <1>0 DEF RunnersKnown, NoRun, RunnerStep, Starts, Goes, Ends
  <1> QED BY <1>1, <1>2, <1>3 DEF RunnersKnown

-----------------------------------------------------------------------------
(* The decisions                                                           *)

\* Reading a check changes what is read and the next statement.
LEMMA ReadSteps ==
  ASSUME TypeOK, NEW c \in Calls, NEW cat \in Categories, NEW pc, Read(c, cat, pc)
  PROVE  /\ calls'[c].pc = pc
         /\ calls'[c].ids = calls[c].ids /\ calls'[c].status = calls[c].status
         /\ calls'[c].job = calls[c].job
         /\ calls'[c].read[cat] = Seen(c, cat)
         /\ \A other \in Categories : other # cat =>
              calls'[c].read[other] = calls[c].read[other]
         /\ \A d \in Calls : d # c => calls'[d] = calls[d]
  <1>1. PICK counts : counts = Seen(c, cat)
    OBVIOUS
  <1>2. calls' = [calls EXCEPT ![c].pc = pc, ![c].read[cat] = counts]
    BY <1>1 DEF Read
  <1>3. calls[c] \in CallRecords
    BY DEF TypeOK
  <1>4. calls'[c] = [calls[c] EXCEPT !.pc = pc, !.read[cat] = counts]
    BY <1>2 DEF TypeOK
  <1>5. \A d \in Calls : d # c => calls'[d] = calls[d]
    BY <1>2 DEF TypeOK
  <1> QED BY <1>1, <1>3, <1>4, <1>5 DEF CallRecords, Reads

LEMMA DecisionSteps ==
  ASSUME TypeOK, NEW c \in Calls, Decision(c)
  PROVE  /\ newest' = newest /\ job' = job /\ runner' = runner
         /\ \A d \in Calls : d # c => calls'[d] = calls[d]
         /\ Commit(c) \/ item' = item
  <1>1. newest' = newest /\ job' = job /\ runner' = runner /\ (Commit(c) \/ item' = item)
    BY DEF Decision, Decide, CountMacros, UpsertMacros, CountTree, Commit, Fail
  <1>2. ASSUME NEW d \in Calls, d # c
        PROVE  calls'[d] = calls[d]
    BY <1>2 DEF Decision, Decide, CountMacros, UpsertMacros, CountTree, Commit, Fail, Read,
                Goto, TypeOK
  <1> QED BY <1>1, <1>2

\* What a step may do to the decision c: start it, move it on, or end it.
Begins(c) ==
  /\ calls[c].pc = "idle"
  /\ \A i \in calls'[c].ids : item[i] # "NONE" /\ ~ItemHeld(i)
  /\ \/ calls'[c].job = newest /\ newest # 0 /\ calls'[c].pc = "macros"
     \/ /\ calls'[c].job = 0 /\ calls'[c].pc = "commit"
        /\ \A i \in calls'[c].ids : JobOf[i] # newest

Proceeds(c) ==
  /\ calls'[c].ids = calls[c].ids /\ calls'[c].status = calls[c].status
  /\ calls'[c].job = calls[c].job
  /\ \/ CountMacros(c) /\ calls[c].pc = "macros" /\ calls'[c].pc = "upsert"
     \/ UpsertMacros(c) /\ calls[c].pc = "upsert" /\ calls'[c].pc = "tree"
     \/ CountTree(c) /\ calls[c].pc = "tree" /\ calls'[c].pc = "commit"

Leaves(c) == calls[c].pc # "idle" /\ calls'[c] = Idle

LEMMA DecisionGoes ==
  ASSUME TypeOK, NEW c \in Calls, Decision(c)
  PROVE  Begins(c) \/ Proceeds(c) \/ Leaves(c)
  <1>1. ASSUME NEW ids \in SUBSET Items, NEW s \in Decisions, Decide(c, ids, s)
        PROVE  Begins(c)
    <2>1. calls'[c] =
            [pc |-> IF Refreshed(ids) # 0 THEN "macros" ELSE "commit",
             ids |-> ids, status |-> s, job |-> Refreshed(ids), read |-> NoReads]
      BY <1>1 DEF Decide, TypeOK
    <2>2. \A i \in Items : JobOf[i] # 0
      BY ItemsAssumption DEF Jobs
    <2> QED BY <1>1, <2>1, <2>2 DEF Decide, Begins, Refreshed, At
  <1>2. CASE CountMacros(c)
    BY <1>2, ReadSteps DEF CountMacros, Proceeds, At, Categories
  <1>3. CASE UpsertMacros(c)
    BY <1>3 DEF UpsertMacros, Goto, Proceeds, At, TypeOK, CallRecords
  <1>4. CASE CountTree(c)
    BY <1>4, ReadSteps DEF CountTree, Proceeds, At, Categories
  <1>5. CASE Commit(c) \/ Fail(c)
    BY <1>5 DEF Commit, Fail, Leaves, At, TypeOK
  <1> QED BY <1>1, <1>2, <1>3, <1>4, <1>5 DEF Decision

LEMMA DecisionsKnownStep ==
  ASSUME TypeOK, DecisionsKnown, NEW c \in Calls, Decision(c)
  PROVE  DecisionsKnown'
  <1>1. /\ newest' = newest /\ newest \in Nat
        /\ \A d \in Calls : d # c => calls'[d] = calls[d]
        /\ Begins(c) \/ Proceeds(c) \/ Leaves(c)
    BY DecisionSteps, DecisionGoes, MaxJobsAssumption DEF TypeOK
  <1>2. \A i \in Items : item'[i] # "NONE" <=> item[i] # "NONE"
    <2>1. CASE Commit(c)
      <3>1. \A i \in calls[c].ids : item[i] # "NONE"
        BY <2>1 DEF DecisionsKnown, Commit, Active, At
      <3>2. calls[c].status # "NONE"
        BY DEF TypeOK, CallRecords, Statuses
      <3> QED BY <2>1, <3>1, <3>2 DEF Commit, View
    <2> QED BY <2>1, DecisionSteps
  <1>3. calls'[c].ids \in SUBSET Items
    BY DecisionTyping DEF TypeOK, CallRecords
  <1>4. calls'[c].job <= newest
    BY <1>1 DEF Begins, Proceeds, Leaves, DecisionsKnown, Idle
  <1>5. calls'[c].pc # "idle" => \A i \in calls'[c].ids : item[i] # "NONE"
    BY <1>1 DEF Begins, Proceeds, Leaves, DecisionsKnown, Idle, Active, At
  <1>6. calls'[c].pc # "idle" /\ calls'[c].job = 0 =>
          calls'[c].pc = "commit" /\ \A i \in calls'[c].ids : JobOf[i] # newest
    BY <1>1 DEF Begins, Proceeds, Leaves, DecisionsKnown, Idle, Active, At
  <1>7. \A d \in Calls : calls'[d].ids \in SUBSET Items
    BY DecisionTyping DEF TypeOK, CallRecords
  <1> QED BY <1>1, <1>2, <1>3, <1>4, <1>5, <1>6, <1>7 DEF DecisionsKnown, Active, At

LEMMA DecisionsKnownGoroutine ==
  ASSUME TypeOK, RunnersKnown, DecisionsKnown, NEW r \in Runners, Goroutine(r)
  PROVE  DecisionsKnown'
  <1>1. /\ calls' = calls /\ newest' \in {newest, newest + 1} /\ newest \in Nat
        /\ \A d \in Calls : calls[d].job \in Nat /\ calls[d].ids \in SUBSET Items
    BY RunnerSteps, MaxJobsAssumption DEF RunnerStep, TypeOK, CallRecords
  <1>2. \A i \in Items : /\ item[i] # "NONE" => item'[i] # "NONE"
                         /\ item'[i] # "NONE" => item[i] # "NONE" \/ JobOf[i] <= newest
    <2>1. CASE item' = item
      BY <2>1
    <2>2. ASSUME NEW i \in Items, FindItem(r, i)
          PROVE  JobOf[i] <= newest /\ item' = [item EXCEPT ![i] = "OPEN"]
      BY <2>2, <1>1 DEF FindItem, RunnersKnown
    <2>3. item' = item \/ \E i \in Items : FindItem(r, i)
      BY DEF Goroutine, StartSnapshot, StartReconciliation, ResumeSnapshot, reconcile, Count,
             Upsert, Finish, Abort
    <2> QED BY <2>1, <2>2, <2>3 DEF TypeOK
  <1>3. \A i \in Items : JobOf[i] \in Nat
    BY ItemsAssumption, MaxJobsAssumption DEF Jobs
  <1>4. \A i \in Items : item'[i] # "NONE" => JobOf[i] <= newest'
    BY <1>1, <1>2, <1>3 DEF DecisionsKnown
  <1>5. \A d \in Calls : calls'[d].job <= newest'
    BY <1>1 DEF DecisionsKnown
  <1>6. \A d \in Calls : calls[d].pc # "idle" => \A i \in calls[d].ids : item'[i] # "NONE"
    BY <1>1, <1>2 DEF DecisionsKnown, Active, At
  <1>7. \A d \in Calls : calls[d].pc # "idle" /\ calls[d].job = 0 =>
          calls[d].pc = "commit" /\ \A i \in calls[d].ids : JobOf[i] # newest'
    <2> SUFFICES ASSUME NEW d \in Calls, calls[d].pc # "idle", calls[d].job = 0
                 PROVE  calls[d].pc = "commit" /\ \A i \in calls[d].ids : JobOf[i] # newest'
      OBVIOUS
    <2>1. calls[d].pc = "commit"
      BY DEF DecisionsKnown, Active, At
    <2>2. ASSUME NEW i \in calls[d].ids
          PROVE  JobOf[i] # newest'
      <3>1. i \in Items /\ JobOf[i] # newest /\ item[i] # "NONE"
        BY <1>1 DEF DecisionsKnown, Active, At
      <3> QED BY <1>1, <1>3, <3>1 DEF DecisionsKnown
    <2> QED BY <2>1, <2>2
  <1> QED BY <1>1, <1>4, <1>5, <1>6, <1>7 DEF DecisionsKnown, Active, At

LEMMA ExclusiveStep ==
  ASSUME TypeOK, Exclusive, NEW c \in Calls, Decision(c)
  PROVE  Exclusive'
  <1>1. /\ \A d \in Calls : d # c => calls'[d] = calls[d]
        /\ Begins(c) \/ Proceeds(c) \/ Leaves(c)
    BY DecisionSteps, DecisionGoes
  <1>2. ASSUME NEW d \in Calls, d # c, Holds(c)', Holds(d)
        PROVE  FALSE
    <2>1. ~MacrosHeld \/ Holds(c)
      BY <1>1, <1>2 DEF Begins, Proceeds, Leaves, Idle, Holds, UpsertMacros, CountTree, At
    <2> QED BY <1>2, <2>1 DEF Exclusive, MacrosHeld, Holds
  <1>3. \A d \in Calls : d # c => (Holds(d)' <=> Holds(d))
    BY <1>1 DEF Holds
  <1> QED BY <1>2, <1>3 DEF Exclusive

LEMMA OpenCountedStep ==
  ASSUME TypeOK, OpenCounted, NEW c \in Calls, Decision(c)
  PROVE  OpenCounted'
  <1>1. /\ \A d \in Calls : d # c => calls'[d] = calls[d]
        /\ Begins(c) \/ Proceeds(c) \/ Leaves(c)
    BY DecisionSteps, DecisionGoes
  <1> SUFFICES ASSUME NEW i \in calls'[c].ids, calls'[c].pc # "idle", calls'[c].job # 0,
                      calls'[c].status = "OPEN", JobOf[i] = calls'[c].job
               PROVE  /\ CategoryOf[i] = "MACROS" /\ calls'[c].pc \in {"upsert", "tree", "commit"} =>
                           calls'[c].read["MACROS"].open > 0
                      /\ CategoryOf[i] = "PAGE_HIERARCHY" /\ calls'[c].pc = "commit" =>
                           calls'[c].read["PAGE_HIERARCHY"].open > 0
    BY <1>1 DEF OpenCounted, Active, At
  <1>2. CASE Begins(c)
    BY <1>2 DEF Begins
  <1>3. CASE Leaves(c)
    BY <1>3 DEF Leaves, Idle
  <1>4. CASE Proceeds(c)
    <2>1. /\ i \in calls[c].ids /\ calls[c].pc # "idle" /\ calls[c].job # 0
          /\ calls[c].status = "OPEN" /\ JobOf[i] = calls[c].job /\ i \in Items
      BY <1>4 DEF Proceeds, TypeOK, CallRecords
    <2>2. ASSUME NEW cat \in Categories, CategoryOf[i] = cat
          PROVE  Seen(c, cat).open > 0
      <3>1. View(c)[i] = "OPEN"
        BY <2>1 DEF View
      <3>2. Counts(View(c), JobOf[i], CategoryOf[i]).open > 0
        BY <2>1, <3>1, OpenIsCounted
      <3> QED BY <2>1, <2>2, <3>2 DEF Seen
    <2>3. CASE CountMacros(c)
      <3>1. calls'[c].read["MACROS"] = Seen(c, "MACROS") /\ calls'[c].pc = "upsert"
        BY <2>3, ReadSteps DEF CountMacros, Categories
      <3> QED BY <2>2, <3>1 DEF Categories
    <2>4. CASE UpsertMacros(c)
      <3>1. calls'[c].read = calls[c].read /\ calls[c].pc = "upsert" /\ calls'[c].pc = "tree"
        BY <2>4 DEF UpsertMacros, Goto, At, TypeOK, CallRecords
      <3> QED BY <2>1, <3>1 DEF OpenCounted, Active, At
    <2>5. CASE CountTree(c)
      <3>1. /\ calls'[c].read["PAGE_HIERARCHY"] = Seen(c, "PAGE_HIERARCHY")
            /\ calls'[c].read["MACROS"] = calls[c].read["MACROS"]
            /\ calls[c].pc = "tree"
        BY <2>5, ReadSteps DEF CountTree, At, Categories
      <3> QED BY <2>1, <2>2, <3>1 DEF OpenCounted, Active, At, Categories
    <2> QED BY <1>4, <2>3, <2>4, <2>5 DEF Proceeds
  <1> QED BY <1>1, <1>2, <1>3, <1>4

-----------------------------------------------------------------------------
(* What is counted of the page tree                                        *)

\* c has counted the page tree for the newest snapshot and will write it.
WillWrite(c) == At(c, "commit") /\ calls[c].job = newest /\ newest # 0

\* A decision on other jobs does not change what c sees of the newest one.
LEMMA TreeKept ==
  ASSUME NEW c \in Calls, WillWrite(c), calls'[c] = calls[c], newest' = newest,
         \A i \in Items : JobOf[i] = newest => item'[i] = item[i]
  PROVE  Counts(View(c), newest, "PAGE_HIERARCHY")' = Counts(View(c), newest, "PAGE_HIERARCHY")
  <1>1. \A i \in Items : JobOf[i] = newest => View(c)'[i] = View(c)[i]
    BY DEF View
  <1>2. Counts(View(c)', newest, "PAGE_HIERARCHY") = Counts(View(c), newest, "PAGE_HIERARCHY")
    BY <1>1, CountsOfJob
  <1>3. Counts(View(c), newest, "PAGE_HIERARCHY")' = Counts(View(c)', newest, "PAGE_HIERARCHY")
    BY DEF Counts
  <1> QED BY <1>2, <1>3

LEMMA TreeCountedStep ==
  ASSUME TypeOK, DecisionsKnown, Exclusive, TreeCounted, NEW c \in Calls, Decision(c)
  PROVE  TreeCounted'
  <1>1. /\ newest' = newest /\ job' = job /\ runner' = runner
        /\ \A d \in Calls : d # c => calls'[d] = calls[d]
        /\ Commit(c) \/ item' = item
        /\ Begins(c) \/ Proceeds(c) \/ Leaves(c)
    BY DecisionSteps, DecisionGoes
  <1>2. NotPastMacros' <=> NotPastMacros
    BY <1>1 DEF NotPastMacros
  <1>3. ASSUME NEW d \in Calls, WillWrite(d)'
        PROVE  \/ calls'[d].read["PAGE_HIERARCHY"] = Counts(View(d), newest, "PAGE_HIERARCHY")'
               \/ NotPastMacros'
    <2>1. CASE d # c
      <3>1. calls'[d] = calls[d] /\ WillWrite(d)
        BY <1>1, <1>3, <2>1 DEF WillWrite, At
      <3>2. \A i \in Items : JobOf[i] = newest => item'[i] = item[i]
        <4>1. CASE Commit(c)
          <5>1. calls[c].job = 0
            BY <2>1, <3>1, <4>1 DEF Exclusive, Holds, WillWrite, Commit, At
          <5>2. \A i \in calls[c].ids : JobOf[i] # newest
            BY <4>1, <5>1 DEF DecisionsKnown, Active, At, Commit
          <5> QED BY <4>1, <5>2 DEF Commit, View
        <4> QED BY <1>1, <4>1
      <3>3. calls[d].read["PAGE_HIERARCHY"] = Counts(View(d), newest, "PAGE_HIERARCHY") \/ NotPastMacros
        BY <3>1 DEF TreeCounted, WillWrite
      <3> QED BY <1>1, <1>2, <3>1, <3>2, <3>3, TreeKept
    <2>2. CASE d = c
      <3>1. CountTree(c)
        BY <1>1, <1>3, <2>2 DEF WillWrite, At, Begins, Proceeds, Leaves, Idle
      <3>2. /\ calls'[c].read["PAGE_HIERARCHY"] = Seen(c, "PAGE_HIERARCHY")
            /\ calls'[c].ids = calls[c].ids /\ calls'[c].status = calls[c].status
            /\ calls'[c].job = calls[c].job
        BY <3>1, ReadSteps DEF CountTree, Categories
      <3>3. View(c)' = View(c)
        BY <3>1, <3>2 DEF CountTree, View
      <3>4. Seen(c, "PAGE_HIERARCHY") = Counts(View(c), newest, "PAGE_HIERARCHY")
        BY <1>1, <1>3, <2>2, <3>2 DEF Seen, WillWrite
      <3>5. Counts(View(c), newest, "PAGE_HIERARCHY")' = Counts(View(c), newest, "PAGE_HIERARCHY")
        BY <1>1, <3>3 DEF Counts
      <3> QED BY <2>2, <3>2, <3>4, <3>5
    <2> QED BY <2>1, <2>2
  <1> QED BY <1>3 DEF TreeCounted, WillWrite, At

\* A goroutine that goes on with the newest snapshot passes MACROS only while no
\* decision holds it, and one that ends leaves a snapshot that failed.
LEMMA TreeCountedGoroutine ==
  ASSUME TypeOK, RunnersKnown, DecisionsKnown, TreeCounted, NEW r \in Runners, Goroutine(r)
  PROVE  TreeCounted'
  <1>0. /\ calls' = calls /\ newest' \in {newest, newest + 1} /\ newest \in Nat
        /\ \A s \in Runners : s # r => runner'[s] = runner[s]
        /\ \A d \in Calls : calls[d].job \in Nat
    BY RunnerSteps, MaxJobsAssumption DEF RunnerStep, TypeOK, CallRecords
  <1> SUFFICES ASSUME NEW d \in Calls, WillWrite(d)'
               PROVE  \/ calls[d].read["PAGE_HIERARCHY"] = Counts(View(d), newest, "PAGE_HIERARCHY")'
                      \/ NotPastMacros'
    BY <1>0 DEF TreeCounted, WillWrite, At
  <1>1. newest' = newest
    BY <1>0 DEF DecisionsKnown, WillWrite
  <1>2. WillWrite(d) /\ MacrosHeld
    BY <1>0, <1>1 DEF WillWrite, At, MacrosHeld
  <1>3. newest \in Jobs
    BY <1>2 DEF WillWrite, TypeOK, Jobs
  <1>4. calls[d].read["PAGE_HIERARCHY"] = Counts(View(d), newest, "PAGE_HIERARCHY") \/ NotPastMacros
    BY <1>2 DEF TreeCounted, WillWrite
  <1>5. ASSUME \A i \in Items : JobOf[i] = newest => item'[i] = item[i],
               NotPastMacros => NotPastMacros'
        PROVE  \/ calls[d].read["PAGE_HIERARCHY"] = Counts(View(d), newest, "PAGE_HIERARCHY")'
               \/ NotPastMacros'
    BY <1>0, <1>1, <1>2, <1>4, <1>5, TreeKept
  <1>6. ASSUME NEW s \in Runners, runner'[s].kind = "SNAPSHOT", runner'[s].job = newest,
               runner'[s].pc \in {"macros", "upsertMacros"}
        PROVE  NotPastMacros'
    BY <1>1, <1>6 DEF NotPastMacros
  <1>7. ASSUME job' = job, runner[r].kind # "SNAPSHOT" \/ runner[r].job # newest
                        \/ runner[r].pc \notin {"macros", "upsertMacros"}
        PROVE  NotPastMacros => NotPastMacros'
    BY <1>0, <1>1, <1>7 DEF NotPastMacros
  <1>8. CASE StartSnapshot(r)
    BY <1>0, <1>1, <1>8 DEF StartSnapshot
  <1>9. CASE StartReconciliation(r)
    <2>1. runner[r].kind # "SNAPSHOT" /\ job' = job /\ item' = item
      BY <1>9 DEF StartReconciliation, RunnersKnown
    <2> QED BY <1>5, <1>7, <2>1
  <1>10. ASSUME NEW j \in Jobs, ResumeSnapshot(r, j)
         PROVE  \/ calls[d].read["PAGE_HIERARCHY"] = Counts(View(d), newest, "PAGE_HIERARCHY")'
                \/ NotPastMacros'
    <2>1. runner'[r].kind = "SNAPSHOT" /\ runner'[r].job = j /\ runner'[r].pc = "macros"
      BY <1>10 DEF ResumeSnapshot, Run, TypeOK
    <2>2. CASE j = newest
      BY <1>6, <2>1, <2>2
    <2>3. CASE j # newest
      <3>1. job'[newest] = job[newest] /\ item' = item
        BY <1>10, <1>3, <2>3 DEF ResumeSnapshot, TypeOK
      <3>2. NotPastMacros => NotPastMacros'
        BY <1>1, <1>10, <3>1 DEF ResumeSnapshot, NotPastMacros, NoRun
      <3> QED BY <1>5, <3>1, <3>2
    <2> QED BY <2>2, <2>3
  <1>11. ASSUME NEW i \in Items, FindItem(r, i)
         PROVE  \/ calls[d].read["PAGE_HIERARCHY"] = Counts(View(d), newest, "PAGE_HIERARCHY")'
                \/ NotPastMacros'
    <2>1. /\ runner' = runner /\ runner[r].kind = "SNAPSHOT" /\ runner[r].pc = "macros"
          /\ runner[r].job = JobOf[i] /\ item' = [item EXCEPT ![i] = "OPEN"] /\ job' = job
      BY <1>11 DEF FindItem
    <2>2. CASE JobOf[i] = newest
      BY <1>6, <2>1, <2>2
    <2>3. CASE JobOf[i] # newest
      BY <1>5, <1>7, <2>1, <2>3 DEF TypeOK
    <2> QED BY <2>2, <2>3
  <1>12. CASE Count(r, "MACROS", "macros", "upsertMacros")
    <2>1. /\ runner'[r].kind = runner[r].kind /\ runner'[r].job = runner[r].job
          /\ runner'[r].pc = "upsertMacros" /\ job' = job /\ item' = item
      BY <1>12 DEF Count, TypeOK, RunnerRecords
    <2>2. NotPastMacros => NotPastMacros'
      BY <1>0, <1>1, <2>1 DEF NotPastMacros
    <2> QED BY <1>5, <2>1, <2>2
  <1>13. CASE Upsert(r, "MACROS", "upsertMacros", "tree")
    BY <1>2, <1>13 DEF Upsert
  <1>14. CASE Count(r, "PAGE_HIERARCHY", "tree", "upsertTree")
    BY <1>5, <1>7, <1>14 DEF Count
  <1>15. CASE Upsert(r, "PAGE_HIERARCHY", "upsertTree", "finish")
    BY <1>5, <1>7, <1>15 DEF Upsert
  <1>16. CASE Finish(r)
    <2>1. item' = item /\ runner[r].pc = "finish"
      BY <1>16 DEF Finish
    <2>2. CASE runner[r].kind = "SNAPSHOT" /\ runner[r].job = newest
      <3>1. job[newest] = "RUNNING"
        BY <1>3, <2>2 DEF TypeOK
      <3>2. ~NotPastMacros
        BY <2>1, <2>2, <3>1 DEF NotPastMacros, RunnersKnown
      <3> QED BY <1>5, <2>1, <3>2
    <2>3. CASE ~(runner[r].kind = "SNAPSHOT" /\ runner[r].job = newest)
      <3>1. job'[newest] = job[newest]
        BY <1>3, <1>16, <2>3 DEF Finish, TypeOK
      <3>2. NotPastMacros => NotPastMacros'
        BY <1>0, <1>1, <2>3, <3>1 DEF NotPastMacros
      <3> QED BY <1>5, <2>1, <3>2
    <2> QED BY <2>2, <2>3
  <1>17. CASE Abort(r)
    <2>1. item' = item
      BY <1>17 DEF Abort
    <2>2. CASE runner[r].kind = "SNAPSHOT" /\ runner[r].job = newest
      <3>1. job'[newest] = "FAILED"
        BY <1>3, <1>17, <2>2 DEF Abort, TypeOK
      <3> QED BY <1>1, <3>1 DEF NotPastMacros
    <2>3. CASE ~(runner[r].kind = "SNAPSHOT" /\ runner[r].job = newest)
      <3>1. job'[newest] = job[newest]
        BY <1>3, <1>17, <2>3 DEF Abort, TypeOK
      <3>2. NotPastMacros => NotPastMacros'
        BY <1>0, <1>1, <2>3, <3>1 DEF NotPastMacros
      <3> QED BY <1>5, <2>1, <3>2
    <2> QED BY <2>2, <2>3
  <1> QED BY <1>8, <1>9, <1>10, <1>11, <1>12, <1>13, <1>14, <1>15, <1>16, <1>17
          DEF Goroutine, reconcile

-----------------------------------------------------------------------------
(* The invariant and what follows from it                                  *)

LEMMA InductiveCutover == CutoverInv /\ [Next]_vars => CutoverInv'
  <1> SUFFICES ASSUME CutoverInv, [Next]_vars PROVE CutoverInv'
    OBVIOUS
  <1> USE DEF CutoverInv
  <1>1. ASSUME NEW c \in Calls, Decision(c)
        PROVE  CutoverInv'
    <2>1. TypeOK' /\ DecisionsKnown' /\ Exclusive'
      BY <1>1, DecisionTyping, DecisionsKnownStep, ExclusiveStep
    <2>2. OpenCounted' /\ TreeCounted'
      BY <1>1, OpenCountedStep, TreeCountedStep
    <2>3. RunnersKnown'
      BY <1>1, DecisionSteps DEF RunnersKnown
    <2> QED BY <2>1, <2>2, <2>3
  <1>2. ASSUME NEW r \in Runners, Goroutine(r)
        PROVE  CutoverInv'
    <2>1. TypeOK' /\ RunnersKnown' /\ DecisionsKnown' /\ TreeCounted'
      BY <1>2, GoroutineTyping, RunnersKnownStep, DecisionsKnownGoroutine, TreeCountedGoroutine
    <2>2. calls' = calls
      BY <1>2, RunnerSteps DEF RunnerStep
    <2>3. Exclusive' /\ OpenCounted'
      BY <2>2 DEF Exclusive, Holds, OpenCounted, Active, At
    <2> QED BY <2>1, <2>3
  <1>3. CASE UNCHANGED vars
    <2>1. TypeOK'
      BY <1>3 DEF vars, TypeOK
    <2>2. RunnersKnown' /\ DecisionsKnown' /\ Exclusive' /\ OpenCounted'
      BY <1>3 DEF vars, RunnersKnown, DecisionsKnown, Exclusive, OpenCounted, Active, At, Holds
    <2>3. TreeCounted'
      BY <1>3 DEF vars, TreeCounted, NotPastMacros, At, Counts, View
    <2> QED BY <2>1, <2>2, <2>3
  <1> QED BY <1>1, <1>2, <1>3 DEF Next

LEMMA CutoverInvariant == Spec => []CutoverInv
  BY InitCutover, InductiveCutover, PTL DEF Spec

\* The rows and the memory of the program hold values of their types, a snapshot
\* is RUNNING exactly while a goroutine works on it, and jobs are numbered as
\* they are created: however many exceptions, jobs, decisions and goroutines.
THEOREM Typing == Spec => []TypeOK
  BY CutoverInvariant, PTL DEF CutoverInv

\* DecideUnsupportedContent (unsupported.go): when an administrator reopens an
\* exception of the newest snapshot, its check does not pass once that is
\* committed, whatever other decisions, snapshots and reconciliations do.
THEOREM Reopened == Spec => ReopenedCounts
  <1>1. ASSUME CutoverInv, NEW c \in Calls, Commit(c), calls[c].job # 0,
               calls[c].status = "OPEN", NEW i \in calls[c].ids, JobOf[i] = calls[c].job
        PROVE  ~Passes(CategoryOf[i], checks'[CategoryOf[i]])
    <2>1. i \in Items /\ CategoryOf[i] \in Categories
      BY <1>1, ItemsAssumption DEF CutoverInv, TypeOK, CallRecords
    <2>2. calls[c].read[CategoryOf[i]].open > 0
      BY <1>1, <2>1 DEF CutoverInv, OpenCounted, Active, At, Commit, Categories
    <2>3. checks'[CategoryOf[i]] = Check(calls[c].job, calls[c].read[CategoryOf[i]])
      BY <1>1, <2>1 DEF Commit
    <2> QED BY <2>1, <2>2, <2>3, OpenDoesNotPass
  <1>2. CutoverInv /\ [Next]_vars =>
          [\A c \in Calls : Commit(c) /\ calls[c].job # 0 /\ calls[c].status = "OPEN" =>
             \A i \in calls[c].ids : JobOf[i] = calls[c].job =>
               ~Passes(CategoryOf[i], checks'[CategoryOf[i]])]_vars
    BY <1>1
  <1> QED BY <1>2, CutoverInvariant, PTL DEF Spec, ReopenedCounts

\* A snapshot that has completed is past its checks.
LEMMA CompleteIsPast ==
  ASSUME TypeOK, newest \in Jobs, job[newest] = "COMPLETE"
  PROVE  ~NotPastMacros
  BY DEF TypeOK, NotPastMacros

LEMMA TreeExactStep ==
  ASSUME CutoverInv, NEW c \in Calls, Commit(c), newest # 0, calls[c].job = newest,
         job[newest] = "COMPLETE"
  PROVE  Exact("PAGE_HIERARCHY")'
  <1>1. newest \in Jobs /\ ~NotPastMacros
    BY CompleteIsPast DEF CutoverInv, TypeOK, Jobs
  <1>2. calls[c].read["PAGE_HIERARCHY"] = Counts(View(c), newest, "PAGE_HIERARCHY")
    BY <1>1 DEF CutoverInv, TreeCounted, Commit
  <1>3. checks'["PAGE_HIERARCHY"] = Check(newest, calls[c].read["PAGE_HIERARCHY"])
    BY DEF Commit, Categories
  <1>4. newest' = newest /\ item' = View(c)
    BY DEF Commit
  <1>5. Counts(item, newest, "PAGE_HIERARCHY")' = Counts(View(c), newest, "PAGE_HIERARCHY")
    BY <1>4 DEF Counts
  <1> QED BY <1>2, <1>3, <1>4, <1>5 DEF Exact, Check

\* refreshUnsupportedChecks (unsupported.go) reads the counts of the page tree
\* after it has written MACROS, whose row lock it holds until the commit:
\* decisions that race each other leave the page tree check exact.
THEOREM TreeExact == Spec => TreeExactAfterDecision
  <1>1. CutoverInv /\ [Next]_vars =>
          [\A c \in Calls :
             Commit(c) /\ newest # 0 /\ calls[c].job = newest /\ job[newest] = "COMPLETE" =>
               Exact("PAGE_HIERARCHY")']_vars
    BY TreeExactStep
  <1> QED BY <1>1, CutoverInvariant, PTL DEF Spec, TreeExactAfterDecision

\* A check stays exact if it and the exceptions of the newest job stay.
LEMMA ExactKept ==
  ASSUME NEW cat \in Categories, Exact(cat), newest' = newest, checks'[cat] = checks[cat],
         \A i \in Items : JobOf[i] = newest => item'[i] = item[i]
  PROVE  Exact(cat)'
  <1>1. Counts(item', newest, cat) = Counts(item, newest, cat)
    BY CountsOfJob
  <1>2. Counts(item, newest, cat)' = Counts(item', newest, cat)
    BY DEF Counts
  <1> QED BY <1>1, <1>2 DEF Exact, Check

LEMMA FollowStep ==
  ASSUME CutoverInv, [Next]_vars, NEW cat \in Categories,
         newest # 0, newest' = newest, job[newest] = "COMPLETE", job'[newest] = "COMPLETE",
         Exact(cat), checks'[cat] = checks[cat],
         cat = "MACROS" => \A c \in Calls : calls[c].job # 0 => ~Commit(c)
  PROVE  Exact(cat)'
  <1>0. newest \in Jobs
    BY DEF CutoverInv, TypeOK, Jobs
  <1>1. ASSUME NEW c \in Calls, Commit(c)
        PROVE  Exact(cat)'
    <2>1. CASE calls[c].job = 0
      <3>1. \A i \in calls[c].ids : JobOf[i] # newest
        BY <1>1, <2>1 DEF CutoverInv, DecisionsKnown, Active, At, Commit
      <3>2. \A i \in Items : JobOf[i] = newest => item'[i] = item[i]
        BY <1>1, <3>1 DEF Commit, View
      <3> QED BY <3>2, ExactKept
    <2>2. CASE calls[c].job # 0
      <3>1. cat = "PAGE_HIERARCHY"
        BY <1>1, <2>2 DEF Categories
      <3>2. checks'[cat] = Check(calls[c].job, calls[c].read[cat])
        BY <1>1, <2>2 DEF Commit
      <3>3. calls[c].job = newest
        BY <3>2 DEF Exact, Check
      <3> QED BY <1>1, <3>1, <3>3, TreeExactStep
    <2> QED BY <2>1, <2>2
  <1>2. ASSUME NEW r \in Runners, NEW i \in Items, FindItem(r, i)
        PROVE  Exact(cat)'
    <2>1. JobOf[i] # newest
      BY <1>0, <1>2 DEF FindItem, CutoverInv, TypeOK
    <2>2. \A k \in Items : JobOf[k] = newest => item'[k] = item[k]
      BY <1>2, <2>1 DEF FindItem, CutoverInv, TypeOK
    <2> QED BY <2>2, ExactKept
  <1>3. CASE item' = item
    BY <1>3, ExactKept
  <1>4. ASSUME NEW c \in Calls, Decision(c)
        PROVE  Commit(c) \/ item' = item
    BY <1>4, DecisionSteps DEF CutoverInv
  <1>5. ASSUME NEW r \in Runners, Goroutine(r)
        PROVE  item' = item \/ \E i \in Items : FindItem(r, i)
    BY <1>5 DEF Goroutine, StartSnapshot, StartReconciliation, ResumeSnapshot, reconcile, Count,
                Upsert, Finish, Abort
  <1> QED BY <1>1, <1>2, <1>3, <1>4, <1>5 DEF Next, vars

\* "Related checks are computed again at once" (docs/MIGRATION.md): a check that
\* is right about the newest snapshot, once that has completed, is never left
\* behind by its exceptions.
THEOREM Follow == Spec => ChecksFollowItems
  <1>1. CutoverInv /\ [Next]_vars =>
          [\A cat \in Categories :
             /\ newest # 0 /\ newest' = newest
             /\ job[newest] = "COMPLETE" /\ job'[newest] = "COMPLETE"
             /\ Exact(cat) /\ checks'[cat] = checks[cat]
             /\ cat = "MACROS" => \A c \in Calls : calls[c].job # 0 => ~Commit(c)
             => Exact(cat)']_vars
    BY FollowStep
  <1> QED BY <1>1, CutoverInvariant, PTL DEF Spec, ChecksFollowItems
=============================================================================
