-------------------------- MODULE MigrationControl --------------------------
(***************************************************************************)
(* The control plane of the Confluence migration: the phase row, the job   *)
(* rows and the map of cancel functions, as the handlers StartSnapshot,    *)
(* ResumeSnapshot, StartReconciliation, CancelJob, Discover and Transition *)
(* and the goroutines runSnapshot and runReconciliation change them.       *)
(*                                                                         *)
(* A call is one handler invocation together with the goroutine it spawns. *)
(* Each action is one SQL statement (or one critical section on s.mu):     *)
(* the handlers use no transaction, so other calls run between any two of  *)
(* their statements.  Only Transition is a transaction, under an advisory  *)
(* lock and a row lock, and is one action.                                 *)
(***************************************************************************)
EXTENDS Naturals, FiniteSets

CONSTANTS
  Calls,    \* handler invocations that may be in flight at once
  Jobs,     \* identities of job rows (uuid.New)
  NoCall,   \* no entry in the cancels map
  NoJob,    \* the call works on no job
  Steps,    \* import steps a snapshot has enabled (USERS .. PERMISSIONS)
  MaxLost   \* bound on writes that do not happen, or of which the answer is lost

ASSUME NullAssumption == NoCall \notin Calls /\ NoJob \notin Jobs
ASSUME StepsAssumption == Steps \in Nat
ASSUME MaxLostAssumption == MaxLost \in Nat

VARIABLES
  \* PostgreSQL: survives a restart
  phase,           \* migration_state.phase
  sourceMode,      \* migration_state.source_mode
  discovered,      \* schema_discovery holds a row
  kind,            \* migration_jobs.kind
  status,          \* migration_jobs.status, "NONE" for no row
  \* the process: lost on a restart
  up,              \* the HTTP server accepts requests
  cancels,         \* Service.cancels: the call whose context the entry cancels
  pc, mine,        \* the next statement of each call and the job it works on
  cancelled,       \* ctx.Err() # nil of the call's goroutine
  step,            \* import steps the goroutine has finished
  lost             \* such writes and answers so far (counts against MaxLost)

database == <<phase, sourceMode, discovered, kind, status>>
process  == <<up, cancels, pc, mine, cancelled, step>>
vars == <<phase, sourceMode, discovered, kind, status,
          up, cancels, pc, mine, cancelled, step, lost>>

-----------------------------------------------------------------------------

Phases == {"LEGACY", "DISCOVERY", "SNAPSHOT", "CDC_SYNC", "VERIFY", "SHADOW",
           "CUTOVER_READY", "FREEZE", "FINAL_SYNC", "CUTOVER", "STABILIZING",
           "COMPLETE", "WINBACK", "ERROR"}

Kinds == {"SNAPSHOT", "RECONCILIATION"}

ActiveStatus == {"PENDING", "RUNNING", "CANCEL_REQUESTED"}
ResumableStatus == {"FAILED", "INTERRUPTED", "CANCELLED", "COMPLETED_WITH_ERRORS"}
Statuses == {"NONE", "COMPLETE"} \cup ActiveStatus \cup ResumableStatus

\* The phases in which a snapshot may be started or resumed.
SnapshotPhases == {"DISCOVERY", "SNAPSHOT", "ERROR"}

transitions ==
  [p \in Phases |->
    CASE p = "LEGACY"        -> {"DISCOVERY"}
      [] p = "DISCOVERY"     -> {"SNAPSHOT", "ERROR", "LEGACY"}
      [] p = "SNAPSHOT"      -> {"CDC_SYNC", "ERROR"}
      [] p = "CDC_SYNC"      -> {"VERIFY", "ERROR"}
      [] p = "VERIFY"        -> {"SHADOW", "ERROR"}
      [] p = "SHADOW"        -> {"CUTOVER_READY", "ERROR"}
      [] p = "CUTOVER_READY" -> {"FREEZE", "LEGACY"}
      [] p = "FREEZE"        -> {"FINAL_SYNC", "WINBACK"}
      [] p = "FINAL_SYNC"    -> {"CUTOVER", "WINBACK", "ERROR"}
      [] p = "CUTOVER"       -> {"STABILIZING", "WINBACK"}
      [] p = "STABILIZING"   -> {"COMPLETE", "WINBACK"}
      [] p = "WINBACK"       -> {"LEGACY"}
      [] p = "ERROR"         -> {"LEGACY", "DISCOVERY"}
      [] p = "COMPLETE"      -> {}]

\* Statements at which a call has not yet changed anything: a failing query
\* (or a request the client abandoned) makes the handler return an error.
QueryPcs == {"snap_phase", "snap_active", "snap_insert", "resume_phase",
             "resume_active", "resume_update", "recon_active", "recon_insert"}

\* Statements of a call that still has the terminal status of its job to write.
OwnerPcs == {"snap_state", "register",
             "run", "open", "check", "import", "reconcile", "finish",
             "fail_job", "cancel_job",
             "recon", "compare", "comparing", "recon_finish",
             "recon_failed", "recon_cancelled"}

\* Statements of a goroutine, from its start to the deferred delete.
RunnerPcs == (OwnerPcs \ {"snap_state", "register"})
               \cup {"fail_phase", "cancel_phase", "exit"}

DiscoverPcs == {"disc_source", "disc_checks", "disc_error"}

Pcs == {"idle", "cancel_lookup"} \cup QueryPcs \cup OwnerPcs \cup RunnerPcs \cup DiscoverPcs

-----------------------------------------------------------------------------
(* Helpers                                                                 *)

Active(j) == status[j] \in ActiveStatus

\* Mutant: the partial unique indexes do not exist.
IndexAllowsNoIndex(j, k) == TRUE

\* The partial unique indexes migration_jobs_one_active_*: j may be active
\* with kind k only if no other row of that kind is.
IndexAllows(j, k) == \A i \in Jobs \ {j} : ~(Active(i) /\ kind[i] = k)

\* The call's next statement; its job, context and step are unchanged.
Goto(c, label) ==
  /\ pc' = [pc EXCEPT ![c] = label]
  /\ UNCHANGED <<mine, cancelled, step>>

\* The call ends: its locals are gone.
Return(c) ==
  /\ pc' = [pc EXCEPT ![c] = "idle"]
  /\ mine' = [mine EXCEPT ![c] = NoJob]
  /\ cancelled' = [cancelled EXCEPT ![c] = FALSE]
  /\ step' = [step EXCEPT ![c] = 0]

\* A statement of the handler fails, or the client is gone before it: nothing
\* was changed (AnswerLost is the write that fails after it has committed).
QueryFails(c) ==
  /\ pc[c] \in QueryPcs
  /\ Return(c)
  /\ UNCHANGED <<database, up, cancels, lost>>

\* A write whose error the code throws away does not happen.
LoseWrite ==
  /\ lost < MaxLost
  /\ lost' = lost + 1
  /\ UNCHANGED <<phase, status>>

SetPhase(p) ==
  \/ phase' = p /\ UNCHANGED <<status, lost>>
  \/ LoseWrite

\* Write the terminal status of the call's job.
SetTerminal(c, outcomes) ==
  \/ /\ \E s \in outcomes : status' = [status EXCEPT ![mine[c]] = s]
     /\ UNCHANGED <<phase, lost>>
  \/ LoseWrite

\* runSnapshot and runReconciliation open with an update to RUNNING whose
\* error is discarded: the unique index may reject it, the goroutine goes on.
SetRunning(c) ==
  \/ /\ IndexAllows(mine[c], kind[mine[c]])
     /\ status' = [status EXCEPT ![mine[c]] = "RUNNING"]
     /\ UNCHANGED <<phase, lost>>
  \/ /\ ~IndexAllows(mine[c], kind[mine[c]])
     /\ UNCHANGED <<phase, status, lost>>
  \/ LoseWrite

-----------------------------------------------------------------------------
(* StartSnapshot                                                           *)

\* Mutant: the schema discovery evidence is not counted.
SnapshotDiscoveryUnchecked(c) ==
  /\ up /\ pc[c] = "idle"
  /\ Goto(c, "snap_phase")
  /\ UNCHANGED <<database, up, cancels, lost>>

SnapshotDiscovery(c) ==
  /\ up /\ pc[c] = "idle"
  /\ discovered
  /\ Goto(c, "snap_phase")
  /\ UNCHANGED <<database, up, cancels, lost>>

SnapshotPhase(c) ==
  /\ pc[c] = "snap_phase"
  /\ IF phase \in SnapshotPhases THEN Goto(c, "snap_active") ELSE Return(c)
  /\ UNCHANGED <<database, up, cancels, lost>>

SnapshotActive(c) ==
  /\ pc[c] = "snap_active"
  /\ IF \E j \in Jobs : kind[j] = "SNAPSHOT" /\ Active(j)
       THEN Return(c)
       ELSE Goto(c, "snap_insert")
  /\ UNCHANGED <<database, up, cancels, lost>>

\* Insert a row of kind k; the unique index may reject it (then QueryFails).
InsertJob(c, k, next) ==
  /\ \E j \in Jobs :
       /\ status[j] = "NONE"
       /\ IndexAllows(j, k)
       /\ kind' = [kind EXCEPT ![j] = k]
       /\ status' = [status EXCEPT ![j] = "PENDING"]
       /\ mine' = [mine EXCEPT ![c] = j]
  /\ pc' = [pc EXCEPT ![c] = next]
  /\ UNCHANGED <<phase, sourceMode, discovered, up, cancels, cancelled, step, lost>>

SnapshotInsert(c) ==
  /\ pc[c] = "snap_insert"
  /\ InsertJob(c, "SNAPSHOT", "snap_state")

\* The phase is overwritten whatever it is by now; the error is discarded.
SnapshotState(c) ==
  /\ pc[c] = "snap_state"
  /\ SetPhase("SNAPSHOT")
  /\ Goto(c, "register")
  /\ UNCHANGED <<sourceMode, discovered, kind, up, cancels>>

\* s.cancels[id] = cancel, and the goroutine starts.
Register(c) ==
  /\ pc[c] = "register"
  /\ cancels' = [cancels EXCEPT ![mine[c]] = c]
  /\ Goto(c, IF kind[mine[c]] = "SNAPSHOT" THEN "run" ELSE "recon")
  /\ UNCHANGED <<database, up, lost>>

-----------------------------------------------------------------------------
(* ResumeSnapshot                                                          *)

ResumeRead(c) ==
  /\ up /\ pc[c] = "idle"
  /\ \E j \in Jobs :
       /\ kind[j] = "SNAPSHOT" /\ status[j] \in ResumableStatus
       /\ mine' = [mine EXCEPT ![c] = j]
  /\ pc' = [pc EXCEPT ![c] = "resume_phase"]
  /\ UNCHANGED <<database, up, cancels, cancelled, step, lost>>

ResumePhase(c) ==
  /\ pc[c] = "resume_phase"
  /\ IF phase \in SnapshotPhases THEN Goto(c, "resume_active") ELSE Return(c)
  /\ UNCHANGED <<database, up, cancels, lost>>

ResumeActive(c) ==
  /\ pc[c] = "resume_active"
  /\ IF \E j \in Jobs \ {mine[c]} : kind[j] = "SNAPSHOT" /\ Active(j)
       THEN Return(c)
       ELSE Goto(c, "resume_update")
  /\ UNCHANGED <<database, up, cancels, lost>>

\* UPDATE ... SET status='PENDING' WHERE id=$1: the status read by ResumeRead
\* is not in the WHERE clause.
ResumeUpdate(c) ==
  /\ pc[c] = "resume_update"
  /\ IndexAllows(mine[c], kind[mine[c]])
  /\ status' = [status EXCEPT ![mine[c]] = "PENDING"]
  /\ Goto(c, "register")
  /\ UNCHANGED <<phase, sourceMode, discovered, kind, up, cancels, lost>>

-----------------------------------------------------------------------------
(* StartReconciliation                                                     *)

ReconcileRead(c) ==
  /\ up /\ pc[c] = "idle"
  /\ \E j \in Jobs : kind[j] = "SNAPSHOT"
                     /\ status[j] \in {"COMPLETE", "COMPLETED_WITH_ERRORS"}
  /\ Goto(c, "recon_active")
  /\ UNCHANGED <<database, up, cancels, lost>>

ReconcileActive(c) ==
  /\ pc[c] = "recon_active"
  /\ IF \E j \in Jobs : kind[j] = "RECONCILIATION" /\ Active(j)
       THEN Return(c)
       ELSE Goto(c, "recon_insert")
  /\ UNCHANGED <<database, up, cancels, lost>>

ReconcileInsert(c) ==
  /\ pc[c] = "recon_insert"
  /\ InsertJob(c, "RECONCILIATION", "register")

\* The insert or the update of a handler commits but its answer is lost, the
\* request's context or the connection having ended: the handler returns the
\* error before it registers, and the PENDING row has no goroutine.
AnswerLost(c) ==
  /\ lost < MaxLost
  /\ lost' = lost + 1
  /\ \E j \in Jobs :
       /\ \/ pc[c] = "snap_insert" /\ status[j] = "NONE"
             /\ kind' = [kind EXCEPT ![j] = "SNAPSHOT"]
          \/ pc[c] = "recon_insert" /\ status[j] = "NONE"
             /\ kind' = [kind EXCEPT ![j] = "RECONCILIATION"]
          \/ pc[c] = "resume_update" /\ j = mine[c] /\ UNCHANGED kind
       /\ IndexAllows(j, kind'[j])
       /\ status' = [status EXCEPT ![j] = "PENDING"]
  /\ Return(c)
  /\ UNCHANGED <<phase, sourceMode, discovered, up, cancels>>

-----------------------------------------------------------------------------
(* CancelJob                                                               *)

CancelUpdate(c) ==
  /\ up /\ pc[c] = "idle"
  /\ \E j \in Jobs :
       /\ Active(j)
       /\ status' = [status EXCEPT ![j] = "CANCEL_REQUESTED"]
       /\ mine' = [mine EXCEPT ![c] = j]
  /\ pc' = [pc EXCEPT ![c] = "cancel_lookup"]
  /\ UNCHANGED <<phase, sourceMode, discovered, kind, up, cancels, cancelled, step, lost>>

\* cancels[id] is read under s.mu and called; there may be no entry yet.  When
\* the answer to the update was lost, the handler has returned before.
CancelLookup(c) ==
  /\ pc[c] = "cancel_lookup"
  /\ \E r \in {cancels[mine[c]], NoCall} :
       cancelled' = [d \in Calls |-> d # c /\ (cancelled[d] \/ d = r)]
  /\ pc' = [pc EXCEPT ![c] = "idle"]
  /\ mine' = [mine EXCEPT ![c] = NoJob]
  /\ UNCHANGED <<database, up, cancels, step, lost>>

-----------------------------------------------------------------------------
(* The goroutine of a snapshot: runSnapshot, failJob, cancelledJob         *)

RunStart(c) ==
  /\ pc[c] = "run"
  /\ SetRunning(c)
  /\ Goto(c, "open")
  /\ UNCHANGED <<sourceMode, discovered, kind, up, cancels>>

\* openLegacy: with a cancelled context the ping always fails, and every
\* failure is taken for a failed job.
RunOpen(c) ==
  /\ pc[c] = "open"
  /\ \/ ~cancelled[c] /\ Goto(c, "check")
     \/ Goto(c, "fail_job")
  /\ UNCHANGED <<database, up, cancels, lost>>

\* Mutant: the loop runs one step past the last.
RunCheckOffByOne(c) ==
  /\ pc[c] = "check"
  /\ Goto(c, CASE step[c] > Steps -> "reconcile"
               [] step[c] <= Steps /\ cancelled[c] -> "cancel_job"
               [] OTHER -> "import")
  /\ UNCHANGED <<database, up, cancels, lost>>

\* The head of the step loop; no context check follows the last step.
RunCheck(c) ==
  /\ pc[c] = "check"
  /\ Goto(c, CASE step[c] = Steps -> "reconcile"
               [] step[c] # Steps /\ cancelled[c] -> "cancel_job"
               [] OTHER -> "import")
  /\ UNCHANGED <<database, up, cancels, lost>>

RunImport(c) ==
  /\ pc[c] = "import"
  /\ \/ /\ pc' = [pc EXCEPT ![c] = "check"]
        /\ step' = [step EXCEPT ![c] = @ + 1]
        /\ UNCHANGED <<mine, cancelled>>
     \/ cancelled[c] /\ Goto(c, "cancel_job")
     \/ Goto(c, "fail_job")
  /\ UNCHANGED <<database, up, cancels, lost>>

RunReconcile(c) ==
  /\ pc[c] = "reconcile"
  /\ \/ Goto(c, "finish")
     \/ Goto(c, "fail_job")
  /\ UNCHANGED <<database, up, cancels, lost>>

RunFinish(c) ==
  /\ pc[c] = "finish"
  /\ SetTerminal(c, {"COMPLETE", "COMPLETED_WITH_ERRORS"})
  /\ Goto(c, "exit")
  /\ UNCHANGED <<sourceMode, discovered, kind, up, cancels>>

FailJob(c) ==
  /\ pc[c] = "fail_job"
  /\ SetTerminal(c, {"FAILED"})
  /\ Goto(c, "fail_phase")
  /\ UNCHANGED <<sourceMode, discovered, kind, up, cancels>>

FailPhase(c) ==
  /\ pc[c] = "fail_phase"
  /\ SetPhase("ERROR")
  /\ Goto(c, "exit")
  /\ UNCHANGED <<sourceMode, discovered, kind, up, cancels>>

\* Mutant: a cancelled import returns without recording it.
CancelledJobForgets(c) ==
  /\ pc[c] = "cancel_job"
  /\ Goto(c, "cancel_phase")
  /\ UNCHANGED <<database, up, cancels, lost>>

CancelledJob(c) ==
  /\ pc[c] = "cancel_job"
  /\ SetTerminal(c, {"CANCELLED"})
  /\ Goto(c, "cancel_phase")
  /\ UNCHANGED <<sourceMode, discovered, kind, up, cancels>>

CancelledPhase(c) ==
  /\ pc[c] = "cancel_phase"
  /\ IF phase = "SNAPSHOT" THEN SetPhase("DISCOVERY")
                           ELSE UNCHANGED <<phase, status, lost>>
  /\ Goto(c, "exit")
  /\ UNCHANGED <<sourceMode, discovered, kind, up, cancels>>

\* Mutant: the goroutine has no deferred delete.
RunExitLeaksEntry(c) ==
  /\ pc[c] = "exit"
  /\ Return(c)
  /\ UNCHANGED <<database, up, cancels, lost>>

\* defer delete(s.cancels, id), whoever registered the entry.
RunExit(c) ==
  /\ pc[c] = "exit"
  /\ cancels' = [cancels EXCEPT ![mine[c]] = NoCall]
  /\ Return(c)
  /\ UNCHANGED <<database, up, lost>>

-----------------------------------------------------------------------------
(* The goroutine of a reconciliation: runReconciliation                    *)

ReconStart(c) ==
  /\ pc[c] = "recon"
  /\ SetRunning(c)
  /\ Goto(c, "compare")
  /\ UNCHANGED <<sourceMode, discovered, kind, up, cancels>>

\* The first query of reconcile(ctx): a cancelled context fails it.
ReconCompare(c) ==
  /\ pc[c] = "compare"
  /\ Goto(c, IF cancelled[c] THEN "recon_cancelled" ELSE "comparing")
  /\ UNCHANGED <<database, up, cancels, lost>>

ReconComparing(c) ==
  /\ pc[c] = "comparing"
  /\ \/ Goto(c, "recon_finish")
     \/ Goto(c, "recon_failed")
     \/ cancelled[c] /\ Goto(c, "recon_cancelled")
  /\ UNCHANGED <<database, up, cancels, lost>>

\* COMPLETE, or FAILED when that update itself fails.
ReconFinish(c) ==
  /\ pc[c] = "recon_finish"
  /\ SetTerminal(c, {"COMPLETE", "FAILED"})
  /\ Goto(c, "exit")
  /\ UNCHANGED <<sourceMode, discovered, kind, up, cancels>>

ReconAbort(c) ==
  /\ pc[c] \in {"recon_failed", "recon_cancelled"}
  /\ SetTerminal(c, IF pc[c] = "recon_failed" THEN {"FAILED"} ELSE {"CANCELLED"})
  /\ Goto(c, "exit")
  /\ UNCHANGED <<sourceMode, discovered, kind, up, cancels>>

-----------------------------------------------------------------------------
(* Discover                                                                *)

\* Allowed in every phase; the phase follows only from the first ones.
DiscoverEnter(c) ==
  /\ up /\ pc[c] = "idle"
  /\ IF phase \in {"LEGACY", "ERROR", "DISCOVERY"}
       THEN SetPhase("DISCOVERY")
       ELSE UNCHANGED <<phase, status, lost>>
  /\ Goto(c, "disc_source")
  /\ UNCHANGED <<sourceMode, discovered, kind, up, cancels>>

\* Inspect the source and insert the evidence row, or fail at any query; the
\* row may be there although the insert is answered with an error.
DiscoverSource(c) ==
  /\ pc[c] = "disc_source"
  /\ \/ discovered' = TRUE /\ Goto(c, "disc_checks")
     \/ discovered' \in {discovered, TRUE} /\ Goto(c, "disc_error")
  /\ UNCHANGED <<phase, sourceMode, kind, status, up, cancels, lost>>

\* The two discovery checks; an upsert that fails is an error as well.
DiscoverChecks(c) ==
  /\ pc[c] = "disc_checks"
  /\ \/ Return(c)
     \/ Goto(c, "disc_error")
  /\ UNCHANGED <<database, up, cancels, lost>>

\* The deferred handler: phase ERROR, whatever the phase is by now.
DiscoverError(c) ==
  /\ pc[c] = "disc_error"
  /\ SetPhase("ERROR")
  /\ Return(c)
  /\ UNCHANGED <<sourceMode, discovered, kind, up, cancels>>

-----------------------------------------------------------------------------
(* Transition                                                              *)

requiredJob ==
  [p \in {"VERIFY", "SHADOW", "CUTOVER_READY", "FINAL_SYNC", "CUTOVER", "STABILIZING"} |->
    CASE p = "VERIFY" -> "CDC"
      [] p = "SHADOW" -> "VALIDATION"
      [] p = "CUTOVER_READY" -> "SHADOW"
      [] p = "FINAL_SYNC" -> "FREEZE"
      [] p = "CUTOVER" -> "FINAL_SYNC"
      [] p = "STABILIZING" -> "CUTOVER"]

HasJobEvidence(target) ==
  target \in DOMAIN requiredJob =>
    \E j \in Jobs : kind[j] = requiredJob[target] /\ status[j] = "COMPLETE"

\* Mutant: CDC_SYNC asks for a completed snapshot only.
transitionEvidenceCdcOpen(target) ==
  /\ target = "CDC_SYNC" =>
       \E j \in Jobs : kind[j] = "SNAPSHOT" /\ status[j] = "COMPLETE"
  /\ phase = "DISCOVERY" /\ target = "SNAPSHOT" => discovered
  /\ HasJobEvidence(target)

transitionEvidence(target) ==
  /\ target # "CDC_SYNC"
  /\ phase = "DISCOVERY" /\ target = "SNAPSHOT" => discovered
  /\ HasJobEvidence(target)

\* The gate over migration_checks is left open here (checksPass): what must
\* hold of the phase must hold whatever the checks say.
Transition(target) ==
  /\ up
  /\ target \in transitions[phase]
  /\ transitionEvidence(target)
  /\ \E checksPass \in BOOLEAN :
       target \in {"CUTOVER_READY", "CUTOVER"} => checksPass
  /\ phase' = target
  /\ sourceMode' = CASE target = "CUTOVER" -> "POSTGRES"
                     [] target = "SHADOW" -> "SHADOW"
                     [] target \in {"LEGACY", "WINBACK"} -> "LEGACY"
                     [] OTHER -> sourceMode
  /\ UNCHANGED <<discovered, kind, status, process, lost>>

-----------------------------------------------------------------------------
(* Restart                                                                 *)

\* The process dies: requests, goroutines and the cancels map are gone.
Crash ==
  /\ up
  /\ up' = FALSE
  /\ pc' = [c \in Calls |-> "idle"]
  /\ mine' = [c \in Calls |-> NoJob]
  /\ cancelled' = [c \in Calls |-> FALSE]
  /\ step' = [c \in Calls |-> 0]
  /\ cancels' = [j \in Jobs |-> NoCall]
  /\ UNCHANGED <<database, lost>>

\* Mutant: a job whose cancellation was requested is not recovered.
RecoverSkipsCancelRequested ==
  /\ ~up
  /\ up' = TRUE
  /\ status' = [j \in Jobs |-> IF status[j] \in {"PENDING", "RUNNING"}
                                 THEN "INTERRUPTED" ELSE status[j]]
  /\ UNCHANGED <<phase, sourceMode, discovered, kind, cancels, pc, mine, cancelled, step, lost>>

\* Mutant: recovery runs after the server has begun to accept requests.
RecoverAfterListen ==
  /\ up' = TRUE
  /\ status' = [j \in Jobs |-> IF Active(j) THEN "INTERRUPTED" ELSE status[j]]
  /\ UNCHANGED <<phase, sourceMode, discovered, kind, cancels, pc, mine, cancelled, step, lost>>

\* main: RecoverInterruptedJobs succeeds, then the server listens.
RecoverInterruptedJobs ==
  /\ ~up
  /\ up' = TRUE
  /\ status' = [j \in Jobs |-> IF Active(j) THEN "INTERRUPTED" ELSE status[j]]
  /\ UNCHANGED <<phase, sourceMode, discovered, kind, cancels, pc, mine, cancelled, step, lost>>

-----------------------------------------------------------------------------

Init ==
  /\ phase = "LEGACY" /\ sourceMode = "LEGACY"
  /\ discovered = FALSE
  /\ kind = [j \in Jobs |-> "SNAPSHOT"]
  /\ status = [j \in Jobs |-> "NONE"]
  /\ up = TRUE
  /\ cancels = [j \in Jobs |-> NoCall]
  /\ pc = [c \in Calls |-> "idle"]
  /\ mine = [c \in Calls |-> NoJob]
  /\ cancelled = [c \in Calls |-> FALSE]
  /\ step = [c \in Calls |-> 0]
  /\ lost = 0

\* A request arrives.
Request(c) ==
  \/ SnapshotDiscovery(c) \/ ResumeRead(c) \/ ReconcileRead(c)
  \/ CancelUpdate(c) \/ DiscoverEnter(c)

\* A call that has begun executes its next statement.
Handle(c) ==
  \/ QueryFails(c)
  \/ SnapshotPhase(c) \/ SnapshotActive(c) \/ SnapshotInsert(c) \/ SnapshotState(c)
  \/ ResumePhase(c) \/ ResumeActive(c) \/ ResumeUpdate(c)
  \/ ReconcileActive(c) \/ ReconcileInsert(c)
  \/ AnswerLost(c)
  \/ Register(c)
  \/ CancelLookup(c)
  \/ DiscoverSource(c) \/ DiscoverChecks(c) \/ DiscoverError(c)

Goroutine(c) ==
  \/ RunStart(c) \/ RunOpen(c) \/ RunCheck(c) \/ RunImport(c)
  \/ RunReconcile(c) \/ RunFinish(c)
  \/ FailJob(c) \/ FailPhase(c) \/ CancelledJob(c) \/ CancelledPhase(c)
  \/ ReconStart(c) \/ ReconCompare(c) \/ ReconComparing(c)
  \/ ReconFinish(c) \/ ReconAbort(c)
  \/ RunExit(c)

Next ==
  \/ \E c \in Calls : Request(c) \/ Handle(c) \/ Goroutine(c)
  \/ \E target \in Phases : Transition(target)
  \/ Crash
  \/ RecoverInterruptedJobs

Spec == Init /\ [][Next]_vars

\* A call that has begun goes on (the Go scheduler, and databases that answer
\* in the end), and a process that died is started again.
Fairness ==
  /\ \A c \in Calls : WF_vars(Handle(c) \/ Goroutine(c))
  /\ WF_vars(RecoverInterruptedJobs)

FairSpec == Spec /\ Fairness
-----------------------------------------------------------------------------
(* Properties                                                              *)

TypeOK ==
  /\ phase \in Phases
  /\ sourceMode \in {"LEGACY", "SHADOW", "POSTGRES"}
  /\ discovered \in BOOLEAN
  /\ kind \in [Jobs -> Kinds]
  /\ status \in [Jobs -> Statuses]
  /\ up \in BOOLEAN
  /\ cancels \in [Jobs -> Calls \cup {NoCall}]
  /\ pc \in [Calls -> Pcs]
  /\ mine \in [Calls -> Jobs \cup {NoJob}]
  /\ cancelled \in [Calls -> BOOLEAN]
  /\ step \in [Calls -> 0..Steps]
  /\ lost \in 0..MaxLost

\* The call has taken over job j: it has the job's terminal status to write.
Owns(c, j) == mine[c] = j /\ pc[c] \in OwnerPcs

\* The call is, or is about to become, the goroutine working on job j.
Runs(c, j) == mine[c] = j /\ pc[c] \in RunnerPcs \cup {"snap_state", "register"}

\* At most one job of each kind is active, although StartSnapshot,
\* ResumeSnapshot and StartReconciliation count the active jobs in one
\* statement and write in another.
OneActivePerKind ==
  \A i, j \in Jobs : Active(i) /\ Active(j) /\ kind[i] = kind[j] => i = j

\* The release is fail-closed: whatever administrators, jobs and restarts do,
\* the phase never gets past SNAPSHOT and reads are never taken away from the
\* legacy system.
FailClosed ==
  /\ phase \in {"LEGACY", "DISCOVERY", "SNAPSHOT", "ERROR"}
  /\ sourceMode = "LEGACY"

\* The phase is SNAPSHOT, and a snapshot row exists, only after a discovery
\* has stored its evidence.
SnapshotHasEvidence ==
  phase = "SNAPSHOT" \/ (\E j \in Jobs : status[j] # "NONE") => discovered

\* Active rows without a call that will still write their terminal status.
Orphans == {j \in Jobs : Active(j) /\ \A c \in Calls : ~Owns(c, j)}

\* No job is orphaned but by a lost write: while the server is up, there are no
\* more active rows that nobody works on than writes whose error is discarded
\* (the terminal status) or whose answer was lost (the insert, the resume);
\* cancels, double resumes and rejected updates to RUNNING make none, and
\* RecoverInterruptedJobs leaves none behind.
ActiveJobOwned ==
  up => IsFiniteSet(Orphans) /\ Cardinality(Orphans) <= lost

\* A job reported INTERRUPTED (the process died under it) has no goroutine
\* that still works on it.
InterruptedHasNoRunner ==
  \A j \in Jobs : status[j] = "INTERRUPTED" => \A c \in Calls : ~Runs(c, j)

\* An entry of the cancels map belongs to a goroutine that runs that job:
\* entries are never leaked, and a cancel never hits another job's context,
\* even when a second resume overwrote the entry.
CancelsPointAtRunner ==
  \A j \in Jobs : cancels[j] # NoCall =>
    mine[cancels[j]] = j /\ pc[cancels[j]] \in RunnerPcs

\* Every active job reaches a terminal status, unless a write is lost: it
\* completes, fails, is cancelled, or is interrupted by a restart.
JobTerminates ==
  \A j \in Jobs : Active(j) ~> ~Active(j) \/ lost > 0

\* Claimed by ResumeSnapshot's "a snapshot job is already active": a job is
\* worked on by one call at a time.
OneOwnerPerJob ==
  \A c, d \in Calls : c # d => \A j \in Jobs : ~(Owns(c, j) /\ Owns(d, j))
=============================================================================
