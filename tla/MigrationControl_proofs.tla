----------------------- MODULE MigrationControl_proofs -----------------------
(***************************************************************************)
(* Safety of MigrationControl for every number of calls, jobs and steps.   *)
(***************************************************************************)
EXTENDS MigrationControl, TLAPS, FiniteSetTheorems

\* What TypeOK needs to be inductive: a call past its insert or status read
\* has a job, and the loop body runs only below the last step.
LocalsOK ==
  \A c \in Calls :
    /\ pc[c] \in OwnerPcs \cup RunnerPcs
                  \cup {"cancel_lookup", "resume_phase", "resume_active", "resume_update"}
         => mine[c] \in Jobs
    /\ pc[c] = "import" => step[c] < Steps

TypeInv == TypeOK /\ LocalsOK

LEMMA InitTypeInv == Init => TypeInv
  <1> SUFFICES ASSUME Init PROVE TypeInv
    OBVIOUS
  <1> USE DEF Init
  <1>1. TypeOK
    <2>1. phase \in Phases /\ kind \in [Jobs -> Kinds] /\ status \in [Jobs -> Statuses]
      BY DEF Phases, Kinds, Statuses
    <2>2. pc \in [Calls -> Pcs] /\ step \in [Calls -> 0..Steps] /\ lost \in 0..MaxLost
      BY StepsAssumption, MaxLostAssumption DEF Pcs
    <2> QED BY <2>1, <2>2 DEF TypeOK
  <1>2. LocalsOK
    BY DEF LocalsOK, OwnerPcs, RunnerPcs
  <1> QED BY <1>1, <1>2 DEF TypeInv

\* A request that arrives keeps the type invariant.
LEMMA RequestTypeInv ==
  ASSUME TypeInv, NEW c \in Calls, Request(c)
  PROVE  TypeInv'
  <1> USE StepsAssumption, MaxLostAssumption
       DEF TypeInv, TypeOK, LocalsOK, Goto, Return, database, SetPhase, LoseWrite,
           Phases, Statuses, ActiveStatus, ResumableStatus, Kinds,
           Pcs, QueryPcs, OwnerPcs, RunnerPcs, DiscoverPcs
  <1>1. CASE SnapshotDiscovery(c)
    BY <1>1 DEF SnapshotDiscovery
  <1>2. CASE ResumeRead(c)
    BY <1>2 DEF ResumeRead
  <1>3. CASE ReconcileRead(c)
    BY <1>3 DEF ReconcileRead
  <1>4. CASE CancelUpdate(c)
    BY <1>4 DEF CancelUpdate
  <1>5. CASE DiscoverEnter(c)
    BY <1>5 DEF DiscoverEnter
  <1> QED BY <1>1, <1>2, <1>3, <1>4, <1>5 DEF Request

\* A call that ends leaves nothing behind.
LEMMA ReturnTypeInv ==
  ASSUME TypeInv, NEW c \in Calls, Return(c), UNCHANGED <<database, up, cancels, lost>>
  PROVE  TypeInv'
  <1>1. TypeOK'
    BY StepsAssumption DEF TypeInv, TypeOK, Return, database, Pcs
  <1>2. LocalsOK'
    BY DEF TypeInv, TypeOK, LocalsOK, Return, OwnerPcs, RunnerPcs
  <1> QED BY <1>1, <1>2 DEF TypeInv

\* So does the next statement of a handler.
LEMMA HandleTypeInv ==
  ASSUME TypeInv, NEW c \in Calls, Handle(c)
  PROVE  TypeInv'
  <1> USE StepsAssumption, MaxLostAssumption
       DEF TypeInv, TypeOK, LocalsOK, database, SetPhase, LoseWrite,
           Phases, Statuses, ActiveStatus, ResumableStatus, Kinds,
           Pcs, QueryPcs, OwnerPcs, RunnerPcs, DiscoverPcs
  <1>1. CASE QueryFails(c)
    BY <1>1, ReturnTypeInv DEF QueryFails
  <1>2. CASE SnapshotPhase(c)
    <2>1. CASE phase \in SnapshotPhases
      BY <1>2, <2>1 DEF SnapshotPhase, Goto
    <2>2. CASE phase \notin SnapshotPhases
      BY <1>2, <2>2, ReturnTypeInv DEF SnapshotPhase
    <2> QED BY <1>2, <2>1, <2>2 DEF SnapshotPhase
  <1>3. CASE SnapshotActive(c)
    <2>1. CASE \E j \in Jobs : kind[j] = "SNAPSHOT" /\ Active(j)
      BY <1>3, <2>1, ReturnTypeInv DEF SnapshotActive
    <2>2. CASE ~ \E j \in Jobs : kind[j] = "SNAPSHOT" /\ Active(j)
      BY <1>3, <2>2 DEF SnapshotActive, Goto
    <2> QED BY <1>3, <2>1, <2>2 DEF SnapshotActive
  <1>4. CASE SnapshotInsert(c)
    BY <1>4 DEF SnapshotInsert, InsertJob
  <1>5. CASE SnapshotState(c)
    BY <1>5 DEF SnapshotState, Goto
  <1>6. CASE ResumePhase(c)
    <2>1. CASE phase \in SnapshotPhases
      BY <1>6, <2>1 DEF ResumePhase, Goto
    <2>2. CASE phase \notin SnapshotPhases
      BY <1>6, <2>2, ReturnTypeInv DEF ResumePhase
    <2> QED BY <1>6, <2>1, <2>2 DEF ResumePhase
  <1>7. CASE ResumeActive(c)
    <2>1. CASE \E j \in Jobs \ {mine[c]} : kind[j] = "SNAPSHOT" /\ Active(j)
      BY <1>7, <2>1, ReturnTypeInv DEF ResumeActive
    <2>2. CASE ~ \E j \in Jobs \ {mine[c]} : kind[j] = "SNAPSHOT" /\ Active(j)
      BY <1>7, <2>2 DEF ResumeActive, Goto
    <2> QED BY <1>7, <2>1, <2>2 DEF ResumeActive
  <1>8. CASE ResumeUpdate(c)
    BY <1>8 DEF ResumeUpdate, Goto
  <1>9. CASE ReconcileActive(c)
    <2>1. CASE \E j \in Jobs : kind[j] = "RECONCILIATION" /\ Active(j)
      BY <1>9, <2>1, ReturnTypeInv DEF ReconcileActive
    <2>2. CASE ~ \E j \in Jobs : kind[j] = "RECONCILIATION" /\ Active(j)
      BY <1>9, <2>2 DEF ReconcileActive, Goto
    <2> QED BY <1>9, <2>1, <2>2 DEF ReconcileActive
  <1>10. CASE ReconcileInsert(c)
    BY <1>10 DEF ReconcileInsert, InsertJob
  <1>11. CASE Register(c)
    BY <1>11 DEF Register, Goto
  <1>12. CASE CancelLookup(c)
    BY <1>12 DEF CancelLookup
  <1>13. CASE DiscoverSource(c)
    <2>1. CASE discovered' = TRUE /\ Goto(c, "disc_checks")
      BY <1>13, <2>1 DEF DiscoverSource, Goto
    <2>2. CASE discovered' \in {discovered, TRUE} /\ Goto(c, "disc_error")
      <3>1. discovered' \in BOOLEAN
        BY <2>2
      <3> QED BY <1>13, <2>2, <3>1 DEF DiscoverSource, Goto
    <2> QED BY <1>13, <2>1, <2>2 DEF DiscoverSource
  <1>14. CASE DiscoverChecks(c)
    <2>1. CASE Return(c)
      BY <1>14, <2>1, ReturnTypeInv DEF DiscoverChecks
    <2>2. CASE Goto(c, "disc_error")
      BY <1>14, <2>2 DEF DiscoverChecks, Goto
    <2> QED BY <1>14, <2>1, <2>2 DEF DiscoverChecks
  <1>15. CASE DiscoverError(c)
    BY <1>15 DEF DiscoverError, Return
  <1>16. CASE AnswerLost(c)
    BY <1>16 DEF AnswerLost, Return
  <1> QED BY <1>1, <1>2, <1>3, <1>4, <1>5, <1>6, <1>7, <1>8, <1>9, <1>10, <1>11, <1>12, <1>13, <1>14, <1>15, <1>16 DEF Handle

\* And the next statement of a goroutine.
LEMMA GoroutineTypeInv ==
  ASSUME TypeInv, NEW c \in Calls, Goroutine(c)
  PROVE  TypeInv'
  <1> USE StepsAssumption, MaxLostAssumption
       DEF TypeInv, TypeOK, LocalsOK, Goto, Return, database, SetPhase, LoseWrite,
           Phases, Statuses, ActiveStatus, ResumableStatus, Kinds,
           Pcs, QueryPcs, OwnerPcs, RunnerPcs, DiscoverPcs
  <1>1. CASE RunStart(c)
    BY <1>1 DEF RunStart, SetRunning
  <1>2. CASE RunOpen(c)
    BY <1>2 DEF RunOpen
  <1>3. CASE RunCheck(c)
    BY <1>3 DEF RunCheck
  <1>4. CASE RunImport(c)
    BY <1>4 DEF RunImport
  <1>5. CASE RunReconcile(c)
    BY <1>5 DEF RunReconcile
  <1>6. CASE RunFinish(c)
    BY <1>6 DEF RunFinish, SetTerminal
  <1>7. CASE FailJob(c)
    BY <1>7 DEF FailJob, SetTerminal
  <1>8. CASE FailPhase(c)
    BY <1>8 DEF FailPhase
  <1>9. CASE CancelledJob(c)
    BY <1>9 DEF CancelledJob, SetTerminal
  <1>10. CASE CancelledPhase(c)
    BY <1>10 DEF CancelledPhase
  <1>11. CASE ReconStart(c)
    BY <1>11 DEF ReconStart, SetRunning
  <1>12. CASE ReconCompare(c)
    BY <1>12 DEF ReconCompare
  <1>13. CASE ReconComparing(c)
    BY <1>13 DEF ReconComparing
  <1>14. CASE ReconFinish(c)
    BY <1>14 DEF ReconFinish, SetTerminal
  <1>15. CASE ReconAbort(c)
    BY <1>15 DEF ReconAbort, SetTerminal
  <1>16. CASE RunExit(c)
    BY <1>16 DEF RunExit
  <1> QED BY <1>1, <1>2, <1>3, <1>4, <1>5, <1>6, <1>7, <1>8, <1>9, <1>10, <1>11, <1>12, <1>13, <1>14, <1>15, <1>16 DEF Goroutine

LEMMA NextTypeInv == TypeInv /\ [Next]_vars => TypeInv'
  <1> SUFFICES ASSUME TypeInv, [Next]_vars PROVE TypeInv'
    OBVIOUS
  <1>1. ASSUME NEW c \in Calls, Request(c) \/ Handle(c) \/ Goroutine(c) PROVE TypeInv'
    BY <1>1, RequestTypeInv, HandleTypeInv, GoroutineTypeInv
  <1>2. ASSUME NEW target \in Phases, Transition(target) PROVE TypeInv'
    BY <1>2 DEF TypeInv, TypeOK, LocalsOK, Transition, process
  <1>3. CASE Crash
    <2>1. pc' \in [Calls -> Pcs] /\ step' \in [Calls -> 0..Steps]
      BY <1>3, StepsAssumption DEF Crash, Pcs
    <2>2. TypeOK'
      BY <1>3, <2>1 DEF Crash, database, TypeInv, TypeOK
    <2>3. LocalsOK'
      BY <1>3 DEF Crash, LocalsOK, OwnerPcs, RunnerPcs
    <2> QED BY <2>2, <2>3 DEF TypeInv
  <1>4. CASE RecoverInterruptedJobs
    BY <1>4 DEF RecoverInterruptedJobs, TypeInv, TypeOK, LocalsOK, Statuses, ResumableStatus
  <1>5. CASE UNCHANGED vars
    BY <1>5 DEF vars, TypeInv, TypeOK, LocalsOK
  <1> QED BY <1>1, <1>2, <1>3, <1>4, <1>5 DEF Next

LEMMA SpecTypeInv == Spec => []TypeInv
  BY InitTypeInv, NextTypeInv, PTL DEF Spec

\* Every reachable state of the control plane is well typed; in particular a
\* goroutine never runs more import steps than are enabled.
THEOREM Typing == Spec => []TypeOK
  <1>1. TypeInv => TypeOK
    BY DEF TypeInv
  <1> QED BY <1>1, SpecTypeInv, PTL

-----------------------------------------------------------------------------
(* One active job per kind                                                 *)

\* The ways a step may change the job rows.
RowsUnchanged == UNCHANGED <<kind, status>>

RowInserted ==
  \E j \in Jobs, k \in Kinds :
    /\ IndexAllows(j, k)
    /\ kind' = [kind EXCEPT ![j] = k]
    /\ status' = [status EXCEPT ![j] = "PENDING"]

RowActivated ==
  \E j \in Jobs, s \in ActiveStatus :
    /\ Active(j) \/ IndexAllows(j, kind[j])
    /\ kind' = kind
    /\ status' = [status EXCEPT ![j] = s]

ClosingStatus == {"COMPLETE", "COMPLETED_WITH_ERRORS", "FAILED", "CANCELLED"}

RowClosed ==
  \E j \in Jobs, s \in ClosingStatus :
    kind' = kind /\ status' = [status EXCEPT ![j] = s]

RowsRecovered ==
  /\ kind' = kind
  /\ status' = [j \in Jobs |-> IF Active(j) THEN "INTERRUPTED" ELSE status[j]]

RowStep == RowsUnchanged \/ RowInserted \/ RowActivated \/ RowClosed \/ RowsRecovered

LEMMA SetPhaseRows == \A p : SetPhase(p) => UNCHANGED status
  BY DEF SetPhase, LoseWrite

LEMMA SetRunningRows ==
  ASSUME NEW c \in Calls, mine[c] \in Jobs, SetRunning(c), UNCHANGED kind
  PROVE  RowStep
  BY DEF SetRunning, LoseWrite, RowStep, RowsUnchanged, RowActivated, ActiveStatus

LEMMA SetTerminalRows ==
  ASSUME NEW c \in Calls, mine[c] \in Jobs, NEW S \in SUBSET ClosingStatus,
         SetTerminal(c, S), UNCHANGED kind
  PROVE  RowStep
  BY DEF SetTerminal, LoseWrite, RowStep, RowsUnchanged, RowClosed

LEMMA RequestRows ==
  ASSUME NEW c \in Calls, Request(c)
  PROVE  RowStep
  <1>1. CASE CancelUpdate(c)
    BY <1>1 DEF CancelUpdate, RowStep, RowActivated, ActiveStatus
  <1>2. CASE DiscoverEnter(c)
    BY <1>2, SetPhaseRows DEF DiscoverEnter, RowStep, RowsUnchanged
  <1> QED BY <1>1, <1>2
     DEF Request, SnapshotDiscovery, ResumeRead, ReconcileRead, database,
         RowStep, RowsUnchanged

LEMMA HandleRows ==
  ASSUME TypeInv, NEW c \in Calls, Handle(c)
  PROVE  RowStep
  <1>1. CASE SnapshotInsert(c) \/ ReconcileInsert(c)
    BY <1>1 DEF SnapshotInsert, ReconcileInsert, InsertJob, RowStep, RowInserted, Kinds
  <1>2. CASE ResumeUpdate(c)
    BY <1>2 DEF ResumeUpdate, TypeInv, LocalsOK, RowStep, RowActivated, ActiveStatus
  <1>3. CASE SnapshotState(c) \/ DiscoverError(c)
    BY <1>3, SetPhaseRows DEF SnapshotState, DiscoverError, RowStep, RowsUnchanged
  <1>4. CASE AnswerLost(c)
    <2>1. CASE pc[c] = "resume_update"
      BY <1>4, <2>1 DEF AnswerLost, TypeInv, TypeOK, RowStep, RowActivated, ActiveStatus
    <2>2. CASE pc[c] # "resume_update"
      BY <1>4, <2>2 DEF AnswerLost, TypeInv, TypeOK, RowStep, RowInserted, Kinds
    <2> QED BY <2>1, <2>2
  <1> QED BY <1>1, <1>2, <1>3, <1>4
     DEF Handle, QueryFails, SnapshotPhase, SnapshotActive, ResumePhase, ResumeActive,
         ReconcileActive, Register, CancelLookup, DiscoverSource, DiscoverChecks,
         database, RowStep, RowsUnchanged

LEMMA GoroutineRows ==
  ASSUME TypeInv, NEW c \in Calls, Goroutine(c)
  PROVE  RowStep
  <1>1. pc[c] \in RunnerPcs => mine[c] \in Jobs
    BY DEF TypeInv, LocalsOK
  <1>2. CASE RunStart(c) \/ ReconStart(c)
    BY <1>1, <1>2, SetRunningRows DEF RunStart, ReconStart, RunnerPcs, OwnerPcs
  <1>3. CASE RunFinish(c) \/ FailJob(c) \/ CancelledJob(c) \/ ReconFinish(c) \/ ReconAbort(c)
    <2>2. mine[c] \in Jobs
      BY <1>1, <1>3 DEF RunFinish, FailJob, CancelledJob, ReconFinish, ReconAbort,
                        RunnerPcs, OwnerPcs
    <2>3. \E S \in SUBSET ClosingStatus : SetTerminal(c, S)
      BY <1>3 DEF ClosingStatus, RunFinish, FailJob, CancelledJob, ReconFinish, ReconAbort
    <2> QED BY <1>3, <2>2, <2>3, SetTerminalRows
            DEF RunFinish, FailJob, CancelledJob, ReconFinish, ReconAbort
  <1>4. CASE FailPhase(c) \/ CancelledPhase(c)
    BY <1>4, SetPhaseRows DEF FailPhase, CancelledPhase, RowStep, RowsUnchanged
  <1> QED BY <1>2, <1>3, <1>4
     DEF Goroutine, RunOpen, RunCheck, RunImport, RunReconcile, RunExit,
         ReconCompare, ReconComparing, database, RowStep, RowsUnchanged

LEMMA NextRows == TypeInv /\ [Next]_vars => RowStep
  BY RequestRows, HandleRows, GoroutineRows
  DEF Next, vars, Transition, Crash, RecoverInterruptedJobs, database,
      RowStep, RowsUnchanged, RowsRecovered

LEMMA RowStepKeepsOneActive ==
  ASSUME TypeInv, OneActivePerKind, RowStep
  PROVE  OneActivePerKind'
  <1> USE DEF TypeInv, TypeOK, OneActivePerKind, Active
  <1>1. CASE RowsUnchanged
    BY <1>1 DEF RowsUnchanged
  <1>2. CASE RowInserted
    BY <1>2 DEF RowInserted, IndexAllows
  <1>3. CASE RowActivated
    BY <1>3 DEF RowActivated, IndexAllows
  <1>4. CASE RowClosed
    BY <1>4 DEF RowClosed, ClosingStatus, ActiveStatus
  <1>5. CASE RowsRecovered
    BY <1>5 DEF RowsRecovered, ActiveStatus
  <1> QED BY <1>1, <1>2, <1>3, <1>4, <1>5 DEF RowStep

\* However many calls count the active jobs and then write, at most one job of
\* each kind is active: the unique indexes decide, not the counts.
THEOREM OneActive == Spec => []OneActivePerKind
  <1>1. Init => OneActivePerKind
    BY DEF Init, OneActivePerKind, Active, ActiveStatus
  <1>2. TypeInv /\ OneActivePerKind /\ [Next]_vars => OneActivePerKind'
    BY NextRows, RowStepKeepsOneActive
  <1> QED BY <1>1, <1>2, SpecTypeInv, PTL DEF Spec

-----------------------------------------------------------------------------
(* Fail-closed                                                             *)

\* What a step of a call may do to the phase row.
LEMMA CallPhase ==
  ASSUME NEW c \in Calls, Request(c) \/ Handle(c) \/ Goroutine(c)
  PROVE  /\ phase' \in {phase, "DISCOVERY", "SNAPSHOT", "ERROR"}
         /\ sourceMode' = sourceMode
  <1>1. \A p : SetPhase(p) => phase' \in {phase, p}
    BY DEF SetPhase, LoseWrite
  <1>2. \A S : SetTerminal(c, S) => phase' = phase
    BY DEF SetTerminal, LoseWrite
  <1>3. SetRunning(c) => phase' = phase
    BY DEF SetRunning, LoseWrite
  <1>4. CASE Request(c)
    BY <1>1, <1>4
    DEF Request, SnapshotDiscovery, ResumeRead, ReconcileRead, CancelUpdate, DiscoverEnter,
        database
  <1>5. CASE Handle(c)
    BY <1>1, <1>5
    DEF Handle, QueryFails, AnswerLost, SnapshotPhase, SnapshotActive, SnapshotInsert, SnapshotState,
        ResumePhase, ResumeActive, ResumeUpdate, ReconcileActive, ReconcileInsert,
        Register, CancelLookup, DiscoverSource, DiscoverChecks, DiscoverError,
        InsertJob, database
  <1>6. CASE Goroutine(c)
    BY <1>1, <1>2, <1>3, <1>6
    DEF Goroutine, RunStart, RunOpen, RunCheck, RunImport, RunReconcile, RunFinish, FailJob,
        FailPhase, CancelledJob, CancelledPhase, ReconStart, ReconCompare,
        ReconComparing, ReconFinish, ReconAbort, RunExit, database
  <1> QED BY <1>4, <1>5, <1>6

\* No sequence of requests, job outcomes, cancellations, lost writes and
\* restarts takes the phase past SNAPSHOT or reads away from the legacy system.
THEOREM StaysFailClosed == Spec => []FailClosed
  <1>1. Init => FailClosed
    BY DEF Init, FailClosed
  <1>2. FailClosed /\ [Next]_vars => FailClosed'
    <2> SUFFICES ASSUME FailClosed, [Next]_vars PROVE FailClosed'
      OBVIOUS
    <2>1. ASSUME NEW c \in Calls, Request(c) \/ Handle(c) \/ Goroutine(c)
          PROVE  FailClosed'
      BY <2>1, CallPhase DEF FailClosed
    <2>2. ASSUME NEW target \in Phases, Transition(target)
          PROVE  FailClosed'
      <3>1. target \in {"LEGACY", "DISCOVERY", "SNAPSHOT", "ERROR"}
        BY <2>2 DEF Transition, transitions, transitionEvidence, FailClosed, Phases
      <3> QED BY <2>2, <3>1 DEF Transition, FailClosed
    <2>3. CASE Crash \/ RecoverInterruptedJobs \/ UNCHANGED vars
      BY <2>3 DEF Crash, RecoverInterruptedJobs, vars, database, FailClosed
    <2> QED BY <2>1, <2>2, <2>3 DEF Next
  <1> QED BY <1>1, <1>2, PTL DEF Spec

-----------------------------------------------------------------------------
(* Evidence of a discovery                                                 *)

\* A call that is past a guard other than Discover's has seen the evidence,
\* directly or through a row that only exists after it.
EvidenceInv ==
  /\ SnapshotHasEvidence
  /\ \A c \in Calls : pc[c] \notin {"idle"} \cup DiscoverPcs => discovered

LEMMA CallEvidence ==
  ASSUME TypeInv, EvidenceInv, NEW c \in Calls, Request(c) \/ Handle(c) \/ Goroutine(c)
  PROVE  EvidenceInv'
  <1>1. CASE discovered
    <2>1. discovered'
      <3>1. CASE Request(c)
        BY <1>1, <3>1
        DEF Request, SnapshotDiscovery, ResumeRead, ReconcileRead, CancelUpdate,
            DiscoverEnter, database
      <3>2. CASE Handle(c)
        BY <1>1, <3>2
        DEF Handle, QueryFails, AnswerLost, SnapshotPhase, SnapshotActive, SnapshotInsert,
            SnapshotState, ResumePhase, ResumeActive, ResumeUpdate,
            ReconcileActive, ReconcileInsert, Register, CancelLookup,
            DiscoverSource, DiscoverChecks, DiscoverError, InsertJob, database
      <3>3. CASE Goroutine(c)
        BY <1>1, <3>3
        DEF Goroutine, RunStart, RunOpen, RunCheck, RunImport, RunReconcile, RunFinish,
            FailJob, FailPhase, CancelledJob, CancelledPhase, ReconStart,
            ReconCompare, ReconComparing, ReconFinish, ReconAbort, RunExit, database
      <3> QED BY <3>1, <3>2, <3>3
    <2> QED BY <2>1 DEF EvidenceInv, SnapshotHasEvidence
  <1>2. CASE ~discovered
    <2>1. /\ pc[c] \in {"idle"} \cup DiscoverPcs
          /\ \A j \in Jobs : ~Active(j) /\ status[j] = "NONE"
      BY <1>2 DEF EvidenceInv, SnapshotHasEvidence, Active, ActiveStatus
    <2>2. DiscoverEnter(c) \/ DiscoverSource(c) \/ DiscoverChecks(c) \/ DiscoverError(c)
      BY <1>2, <2>1
      DEF Request, Handle, Goroutine, DiscoverPcs, QueryPcs, ResumableStatus,
          SnapshotDiscovery, ResumeRead, ReconcileRead, CancelUpdate, QueryFails,
          SnapshotPhase, SnapshotActive, SnapshotInsert, SnapshotState,
          ResumePhase, ResumeActive, ResumeUpdate, ReconcileActive, AnswerLost,
          ReconcileInsert, Register, CancelLookup, RunStart, RunOpen, RunCheck,
          RunImport, RunReconcile, RunFinish, FailJob, FailPhase, CancelledJob,
          CancelledPhase, ReconStart, ReconCompare, ReconComparing, ReconFinish,
          ReconAbort, RunExit
    <2>3. phase' # "SNAPSHOT" /\ status' = status
      <3>1. \A p : SetPhase(p) => phase' \in {phase, p} /\ status' = status
        BY DEF SetPhase, LoseWrite
      <3>2. phase # "SNAPSHOT"
        BY <1>2 DEF EvidenceInv, SnapshotHasEvidence
      <3>3. CASE DiscoverEnter(c) \/ DiscoverError(c)
        BY <3>1, <3>2, <3>3 DEF DiscoverEnter, DiscoverError
      <3>4. CASE DiscoverSource(c) \/ DiscoverChecks(c)
        BY <3>2, <3>4 DEF DiscoverSource, DiscoverChecks, database
      <3> QED BY <2>2, <3>3, <3>4
    <2>4. /\ pc' [c] \in {"idle"} \cup DiscoverPcs
          /\ \A d \in Calls \ {c} : pc'[d] = pc[d]
      BY <2>2
      DEF DiscoverEnter, DiscoverSource, DiscoverChecks, DiscoverError, Goto, Return,
          DiscoverPcs, TypeInv, TypeOK
    <2> QED BY <1>2, <2>3, <2>4 DEF EvidenceInv, SnapshotHasEvidence
  <1> QED BY <1>1, <1>2

\* The phase is SNAPSHOT, or a job row exists, only when a discovery has
\* stored its evidence, however the phase was set and whoever set it.
THEOREM EvidenceFirst == Spec => []SnapshotHasEvidence
  <1>1. Init => EvidenceInv
    BY DEF Init, EvidenceInv, SnapshotHasEvidence
  <1>2. TypeInv /\ EvidenceInv /\ [Next]_vars => EvidenceInv'
    <2> SUFFICES ASSUME TypeInv, EvidenceInv, [Next]_vars PROVE EvidenceInv'
      OBVIOUS
    <2>1. ASSUME NEW target \in Phases, Transition(target)
          PROVE  EvidenceInv'
      <3>1. target = "SNAPSHOT" => phase = "DISCOVERY"
        BY <2>1 DEF Transition, transitions, Phases, TypeInv, TypeOK
      <3> QED BY <2>1, <3>1
        DEF Transition, transitionEvidence, process, EvidenceInv, SnapshotHasEvidence
    <2>2. CASE Crash
      BY <2>2 DEF Crash, database, EvidenceInv, SnapshotHasEvidence
    <2>3. CASE RecoverInterruptedJobs
      BY <2>3 DEF RecoverInterruptedJobs, EvidenceInv, SnapshotHasEvidence, Active, ActiveStatus
    <2>4. CASE UNCHANGED vars
      BY <2>4 DEF vars, EvidenceInv, SnapshotHasEvidence
    <2> QED BY <2>1, <2>2, <2>3, <2>4, CallEvidence DEF Next
  <1>3. EvidenceInv => SnapshotHasEvidence
    BY DEF EvidenceInv
  <1> QED BY <1>1, <1>2, <1>3, SpecTypeInv, PTL DEF Spec

-----------------------------------------------------------------------------
(* What a step does to the calls                                           *)

\* A step of call c leaves the other calls where they are.
LEMMA CallFrame ==
  ASSUME TypeInv, NEW c \in Calls, Request(c) \/ Handle(c) \/ Goroutine(c),
         NEW d \in Calls \ {c}
  PROVE  pc'[d] = pc[d] /\ mine'[d] = mine[d] /\ up' = up
  <1> USE DEF TypeInv, TypeOK, Goto, Return
  <1>1. CASE Request(c)
    BY <1>1 DEF Request, SnapshotDiscovery, ResumeRead, ReconcileRead, CancelUpdate, DiscoverEnter
  <1>2. CASE Handle(c)
    BY <1>2 DEF Handle, InsertJob,
        QueryFails, AnswerLost, SnapshotPhase, SnapshotActive, SnapshotInsert, SnapshotState,
        ResumePhase, ResumeActive, ResumeUpdate, ReconcileActive, ReconcileInsert,
        Register, CancelLookup, DiscoverSource, DiscoverChecks, DiscoverError
  <1>3. CASE Goroutine(c)
    BY <1>3 DEF Goroutine, RunStart, RunOpen, RunCheck, RunImport, RunReconcile, RunFinish, FailJob,
        FailPhase, CancelledJob, CancelledPhase, ReconStart, ReconCompare,
        ReconComparing, ReconFinish, ReconAbort, RunExit
  <1> QED BY <1>1, <1>2, <1>3

\* Only Register adds an entry to the cancels map, and a handler is no goroutine.
LEMMA HandlerStep ==
  ASSUME NEW c \in Calls, Request(c) \/ Handle(c)
  PROVE  pc[c] \notin RunnerPcs /\ (Register(c) \/ cancels' = cancels)
  <1> USE DEF RunnerPcs, OwnerPcs
  <1>1. CASE Request(c)
    BY <1>1 DEF Request, SnapshotDiscovery, ResumeRead, ReconcileRead, CancelUpdate, DiscoverEnter
  <1>2. CASE Handle(c)
    BY <1>2 DEF Handle, InsertJob, QueryPcs,
        QueryFails, AnswerLost, SnapshotPhase, SnapshotActive, SnapshotInsert, SnapshotState,
        ResumePhase, ResumeActive, ResumeUpdate, ReconcileActive, ReconcileInsert,
        Register, CancelLookup, DiscoverSource, DiscoverChecks, DiscoverError
  <1> QED BY <1>1, <1>2

\* A goroutine keeps its job until it ends, and ends with its entry removed.
LEMMA GoroutineStep ==
  ASSUME TypeInv, NEW c \in Calls, Goroutine(c)
  PROVE  /\ pc[c] \in RunnerPcs
         /\ \/ RunExit(c)
            \/ pc'[c] \in RunnerPcs /\ mine' = mine /\ cancels' = cancels
  BY DEF Goroutine, Goto, RunnerPcs, OwnerPcs, TypeInv, TypeOK,
        RunStart, RunOpen, RunCheck, RunImport, RunReconcile, RunFinish, FailJob,
        FailPhase, CancelledJob, CancelledPhase, ReconStart, ReconCompare,
        ReconComparing, ReconFinish, ReconAbort, RunExit

-----------------------------------------------------------------------------
(* The cancels map                                                         *)

LEMMA CallCancels ==
  ASSUME TypeInv, CancelsPointAtRunner,
         NEW c \in Calls, Request(c) \/ Handle(c) \/ Goroutine(c)
  PROVE  CancelsPointAtRunner'
  <1>1. \A d \in Calls \ {c} : pc'[d] = pc[d] /\ mine'[d] = mine[d]
    BY CallFrame
  <1>2. CASE Register(c)
    <2>1. mine[c] \in Jobs /\ pc[c] \notin RunnerPcs
      BY <1>2 DEF Register, TypeInv, LocalsOK, OwnerPcs, RunnerPcs
    <2>2. mine' = mine /\ pc'[c] \in RunnerPcs
      BY <1>2 DEF Register, Goto, TypeInv, TypeOK, OwnerPcs, RunnerPcs
    <2> QED BY <1>1, <1>2, <2>1, <2>2, NullAssumption
        DEF Register, CancelsPointAtRunner, TypeInv, TypeOK
  <1>3. CASE RunExit(c)
    BY <1>1, <1>3, NullAssumption DEF RunExit, CancelsPointAtRunner, TypeInv, TypeOK
  <1>4. CASE cancels' = cancels /\ (pc[c] \notin RunnerPcs \/ (pc'[c] \in RunnerPcs /\ mine' = mine))
    BY <1>1, <1>4, NullAssumption DEF CancelsPointAtRunner, TypeInv, TypeOK
  <1> QED BY <1>2, <1>3, <1>4, HandlerStep, GoroutineStep

\* An entry of the cancels map always belongs to a live goroutine of that job.
THEOREM CancelsOwned == Spec => []CancelsPointAtRunner
  <1>1. Init => CancelsPointAtRunner
    BY DEF Init, CancelsPointAtRunner
  <1>2. TypeInv /\ CancelsPointAtRunner /\ [Next]_vars => CancelsPointAtRunner'
    <2> SUFFICES ASSUME TypeInv, CancelsPointAtRunner, [Next]_vars
                 PROVE  CancelsPointAtRunner'
      OBVIOUS
    <2>1. CASE Crash
      BY <2>1 DEF Crash, CancelsPointAtRunner
    <2>2. CASE RecoverInterruptedJobs \/ (\E t \in Phases : Transition(t)) \/ UNCHANGED vars
      BY <2>2 DEF RecoverInterruptedJobs, Transition, process, vars, CancelsPointAtRunner
    <2> QED BY <2>1, <2>2, CallCancels DEF Next
  <1> QED BY <1>1, <1>2, SpecTypeInv, PTL DEF Spec

-----------------------------------------------------------------------------
(* Interrupted jobs                                                        *)

\* While the server is down no call runs: what RecoverInterruptedJobs needs.
InterruptedInv ==
  /\ ~up => \A c \in Calls : pc[c] = "idle"
  /\ InterruptedHasNoRunner

\* A job a call newly runs after a step is one whose row the step made PENDING.
LEMMA NewRunner ==
  ASSUME TypeInv, NEW c \in Calls, Request(c) \/ Handle(c) \/ Goroutine(c),
         NEW j \in Jobs, Runs(c, j)', ~Runs(c, j)
  PROVE  status'[j] = "PENDING"
  <1> USE DEF Runs, Goto, Return, TypeInv, TypeOK, RunnerPcs, OwnerPcs
  <1>1. CASE Request(c)
    BY <1>1 DEF Request, SnapshotDiscovery, ResumeRead, ReconcileRead, CancelUpdate, DiscoverEnter
  <1>2. CASE Handle(c)
    <2>1. CASE AnswerLost(c)
      BY <2>1, NullAssumption DEF AnswerLost
    <2>2. CASE CancelLookup(c)
      BY <2>2, NullAssumption DEF CancelLookup
    <2>3. CASE SnapshotInsert(c) \/ ReconcileInsert(c)
      BY <2>3, NullAssumption DEF SnapshotInsert, ReconcileInsert, InsertJob
    <2>4. CASE DiscoverSource(c) \/ DiscoverChecks(c) \/ DiscoverError(c)
      BY <2>4, NullAssumption DEF DiscoverSource, DiscoverChecks, DiscoverError
    <2>5. CASE ResumePhase(c) \/ ResumeActive(c) \/ ResumeUpdate(c)
      BY <2>5, NullAssumption DEF ResumePhase, ResumeActive, ResumeUpdate
    <2>6. CASE SnapshotPhase(c) \/ SnapshotActive(c) \/ ReconcileActive(c)
      BY <2>6, NullAssumption DEF SnapshotPhase, SnapshotActive, ReconcileActive
    <2>7. CASE QueryFails(c) \/ SnapshotState(c) \/ Register(c)
      BY <2>7, NullAssumption DEF QueryFails, SnapshotState, Register
    <2> QED BY <1>2, <2>1, <2>2, <2>3, <2>4, <2>5, <2>6, <2>7 DEF Handle
  <1>3. CASE Goroutine(c)
    BY <1>3, NullAssumption DEF Goroutine,
        RunStart, RunOpen, RunCheck, RunImport, RunReconcile, RunFinish, FailJob,
        FailPhase, CancelledJob, CancelledPhase, ReconStart, ReconCompare,
        ReconComparing, ReconFinish, ReconAbort, RunExit
  <1> QED BY <1>1, <1>2, <1>3

\* No step of a call reports a job as INTERRUPTED.
LEMMA CallInterrupts ==
  ASSUME TypeInv, NEW c \in Calls, Request(c) \/ Handle(c) \/ Goroutine(c),
         NEW j \in Jobs, status'[j] = "INTERRUPTED"
  PROVE  status[j] = "INTERRUPTED"
  <1>1. CASE Request(c)
    <2>1. \A p : SetPhase(p) => status' = status
      BY SetPhaseRows
    <2> QED BY <1>1, <2>1 DEF Request, database, TypeInv, TypeOK,
          SnapshotDiscovery, ResumeRead, ReconcileRead, CancelUpdate, DiscoverEnter
  <1>2. CASE Handle(c)
    BY <1>2, SetPhaseRows DEF Handle, InsertJob, database, TypeInv, TypeOK,
        QueryFails, AnswerLost, SnapshotPhase, SnapshotActive, SnapshotInsert, SnapshotState,
        ResumePhase, ResumeActive, ResumeUpdate, ReconcileActive, ReconcileInsert,
        Register, CancelLookup, DiscoverSource, DiscoverChecks, DiscoverError
  <1>3. CASE Goroutine(c)
    <2>1. \A S : SetTerminal(c, S) /\ "INTERRUPTED" \notin S => status[j] = "INTERRUPTED"
      BY DEF SetTerminal, LoseWrite, TypeInv, TypeOK
    <2>2. SetRunning(c) => status[j] = "INTERRUPTED"
      BY DEF SetRunning, LoseWrite, TypeInv, TypeOK
    <2> QED BY <1>3, <2>1, <2>2, SetPhaseRows DEF Goroutine, database,
        RunStart, RunOpen, RunCheck, RunImport, RunReconcile, RunFinish, FailJob,
        FailPhase, CancelledJob, CancelledPhase, ReconStart, ReconCompare,
        ReconComparing, ReconFinish, ReconAbort, RunExit
  <1> QED BY <1>1, <1>2, <1>3

\* A job that is reported INTERRUPTED has no goroutine left.
THEOREM InterruptedIsDead == Spec => []InterruptedHasNoRunner
  <1>1. Init => InterruptedInv
    BY DEF Init, InterruptedInv, InterruptedHasNoRunner
  <1>2. TypeInv /\ InterruptedInv /\ [Next]_vars => InterruptedInv'
    <2> SUFFICES ASSUME TypeInv, InterruptedInv, [Next]_vars PROVE InterruptedInv'
      OBVIOUS
    <2>1. ASSUME NEW c \in Calls, Request(c) \/ Handle(c) \/ Goroutine(c)
          PROVE  InterruptedInv'
      <3>1. up' = up /\ up
        <4>1. pc[c] = "idle" => up
          BY <2>1 DEF Request, Handle, Goroutine, QueryPcs,
             SnapshotDiscovery, ResumeRead, ReconcileRead, CancelUpdate,
             DiscoverEnter, QueryFails, AnswerLost, SnapshotPhase, SnapshotActive,
             SnapshotInsert, SnapshotState, ResumePhase, ResumeActive,
             ResumeUpdate, ReconcileActive, ReconcileInsert, Register,
             CancelLookup, DiscoverSource, DiscoverChecks, DiscoverError, RunStart,
             RunOpen, RunCheck, RunImport, RunReconcile, RunFinish, FailJob,
             FailPhase, CancelledJob, CancelledPhase, ReconStart, ReconCompare,
             ReconComparing, ReconFinish, ReconAbort, RunExit
        <4>2. up
          BY <4>1 DEF InterruptedInv
        <4>3. up' = up
          BY <2>1 DEF Request, Handle, Goroutine, QueryFails, AnswerLost, InsertJob,
             SnapshotDiscovery, ResumeRead, ReconcileRead, CancelUpdate,
             DiscoverEnter, SnapshotPhase, SnapshotActive, SnapshotInsert,
             SnapshotState, ResumePhase, ResumeActive, ResumeUpdate,
             ReconcileActive, ReconcileInsert, Register, CancelLookup,
             DiscoverSource, DiscoverChecks, DiscoverError, RunStart, RunOpen,
             RunCheck, RunImport, RunReconcile, RunFinish, FailJob, FailPhase,
             CancelledJob, CancelledPhase, ReconStart, ReconCompare,
             ReconComparing, ReconFinish, ReconAbort, RunExit
        <4> QED BY <4>2, <4>3
      <3>2. ASSUME NEW j \in Jobs, status'[j] = "INTERRUPTED", NEW d \in Calls
            PROVE  ~Runs(d, j)'
        <4>1. ~Runs(d, j)
          BY <2>1, <3>2, CallInterrupts DEF InterruptedInv, InterruptedHasNoRunner
        <4>2. CASE d = c
          BY <2>1, <3>2, <4>1, <4>2, NewRunner
        <4>3. CASE d # c
          BY <2>1, <4>1, <4>3, CallFrame DEF Runs
        <4> QED BY <4>2, <4>3
      <3> QED BY <3>1, <3>2 DEF InterruptedInv, InterruptedHasNoRunner
    <2>2. CASE Crash
      BY <2>2 DEF Crash, InterruptedInv, InterruptedHasNoRunner, Runs, RunnerPcs, OwnerPcs
    <2>3. CASE RecoverInterruptedJobs
      BY <2>3 DEF RecoverInterruptedJobs, InterruptedInv, InterruptedHasNoRunner,
                  Runs, RunnerPcs, OwnerPcs
    <2>4. CASE (\E t \in Phases : Transition(t)) \/ UNCHANGED vars
      BY <2>4 DEF Transition, process, vars, InterruptedInv, InterruptedHasNoRunner, Runs
    <2> QED BY <2>1, <2>2, <2>3, <2>4 DEF Next
  <1>3. InterruptedInv => InterruptedHasNoRunner
    BY DEF InterruptedInv
  <1> QED BY <1>1, <1>2, <1>3, SpecTypeInv, PTL DEF Spec

-----------------------------------------------------------------------------
(* Orphaned jobs                                                           *)

\* A step that loses nothing keeps an owner for every job it leaves active.
LEMMA CallOwner ==
  ASSUME TypeInv, NEW c \in Calls, Request(c) \/ Handle(c) \/ Goroutine(c),
         lost' = lost, NEW j \in Jobs, Active(j)',
         Active(j) => \E d \in Calls : Owns(d, j)
  PROVE  \E d \in Calls : Owns(d, j)'
  <1>1. ~LoseWrite /\ ~AnswerLost(c)
    BY DEF TypeInv, TypeOK, LoseWrite, AnswerLost
  <1>2. Active(j) \/ Owns(c, j)'
    <2>1. CASE Request(c)
      BY <2>1, SetPhaseRows DEF Request, Active, TypeInv, TypeOK, database,
          SnapshotDiscovery, ResumeRead, ReconcileRead, CancelUpdate, DiscoverEnter
    <2>2. CASE Handle(c)
      <3>1. CASE SnapshotInsert(c) \/ ReconcileInsert(c)
        BY <3>1 DEF SnapshotInsert, ReconcileInsert, InsertJob, Active, Owns, OwnerPcs,
            TypeInv, TypeOK
      <3>2. CASE ResumeUpdate(c)
        BY <3>2 DEF ResumeUpdate, Goto, Active, Owns, OwnerPcs, TypeInv, TypeOK
      <3>3. CASE ~(SnapshotInsert(c) \/ ReconcileInsert(c) \/ ResumeUpdate(c))
        <4>1. status' = status
          BY <1>1, <2>2, <3>3, SetPhaseRows
          DEF Handle, database, QueryFails, SnapshotPhase, SnapshotActive, SnapshotState,
              ResumePhase, ResumeActive, ReconcileActive, Register, CancelLookup,
              DiscoverSource, DiscoverChecks, DiscoverError
        <4> QED BY <4>1 DEF Active
      <3> QED BY <3>1, <3>2, <3>3
    <2>3. CASE Goroutine(c)
      <3>1. SetRunning(c) => Active(j) \/ mine[c] = j
        BY <1>1 DEF SetRunning, Active, TypeInv, TypeOK
      <3>2. \A S \in SUBSET ClosingStatus : SetTerminal(c, S) => Active(j)
        BY <1>1 DEF SetTerminal, Active, ActiveStatus, ClosingStatus, TypeInv, TypeOK
      <3>3. CASE RunStart(c) \/ ReconStart(c)
        BY <3>1, <3>3 DEF RunStart, ReconStart, Goto, Owns, OwnerPcs, TypeInv, TypeOK
      <3>4. CASE RunFinish(c) \/ FailJob(c) \/ CancelledJob(c) \/ ReconFinish(c) \/ ReconAbort(c)
        BY <3>2, <3>4 DEF RunFinish, FailJob, CancelledJob, ReconFinish, ReconAbort, ClosingStatus
      <3> QED BY <2>3, <3>3, <3>4, SetPhaseRows DEF Goroutine, Active, database,
          RunStart, RunOpen, RunCheck, RunImport, RunReconcile, RunFinish, FailJob,
          FailPhase, CancelledJob, CancelledPhase, ReconStart, ReconCompare,
          ReconComparing, ReconFinish, ReconAbort, RunExit
    <2> QED BY <2>1, <2>2, <2>3
  <1>3. ASSUME Active(j), Owns(c, j) PROVE Owns(c, j)'
    <2>1. ~Request(c)
      BY <1>3 DEF Owns, OwnerPcs, Request,
          SnapshotDiscovery, ResumeRead, ReconcileRead, CancelUpdate, DiscoverEnter
    <2>2. CASE Handle(c)
      <3>1. SnapshotState(c) \/ Register(c)
        BY <1>1, <1>3, <2>2 DEF Owns, OwnerPcs, QueryPcs, Handle,
          QueryFails, SnapshotPhase, SnapshotActive, SnapshotInsert, SnapshotState,
          ResumePhase, ResumeActive, ResumeUpdate, ReconcileActive,
          ReconcileInsert, Register, CancelLookup, DiscoverSource, DiscoverChecks,
          DiscoverError
      <3> QED BY <1>3, <3>1
          DEF SnapshotState, Register, Goto, Owns, OwnerPcs, TypeInv, TypeOK
    <2>3. CASE Goroutine(c)
      <3>1. ASSUME NEW S \in SUBSET ClosingStatus, SetTerminal(c, S) PROVE FALSE
        <4>1. \E st \in S : status' = [status EXCEPT ![mine[c]] = st]
          BY <1>1, <3>1 DEF SetTerminal
        <4>2. mine[c] = j
          BY <1>3 DEF Owns
        <4> QED BY <4>1, <4>2 DEF Active, ActiveStatus, ClosingStatus, TypeInv, TypeOK
      <3>2. ~(RunFinish(c) \/ FailJob(c) \/ CancelledJob(c) \/ ReconFinish(c) \/ ReconAbort(c))
        BY <3>1 DEF RunFinish, FailJob, CancelledJob, ReconFinish, ReconAbort, ClosingStatus
      <3>3. ~(FailPhase(c) \/ CancelledPhase(c) \/ RunExit(c))
        BY <1>3 DEF FailPhase, CancelledPhase, RunExit, Owns, OwnerPcs
      <3> QED BY <1>3, <2>3, <3>2, <3>3
          DEF Goroutine, Goto, Owns, OwnerPcs, TypeInv, TypeOK, RunStart, RunOpen, RunCheck,
              RunImport, RunReconcile, ReconStart, ReconCompare, ReconComparing
    <2> QED BY <2>1, <2>2, <2>3
  <1>4. ASSUME NEW d \in Calls \ {c}, Owns(d, j) PROVE Owns(d, j)'
    BY <1>4, CallFrame DEF Owns
  <1> QED BY <1>2, <1>3, <1>4

LEMMA CallLoss ==
  ASSUME NEW c \in Calls, Request(c) \/ Handle(c) \/ Goroutine(c)
  PROVE  lost' = lost \/ LoseWrite \/ AnswerLost(c)
  BY DEF Request, Handle, Goroutine, QueryFails, InsertJob, SetPhase, SetRunning, SetTerminal,
         SnapshotDiscovery, ResumeRead, ReconcileRead, CancelUpdate,
         DiscoverEnter, SnapshotPhase, SnapshotActive, SnapshotInsert,
         SnapshotState, ResumePhase, ResumeActive, ResumeUpdate,
         ReconcileActive, ReconcileInsert, Register, CancelLookup,
         DiscoverSource, DiscoverChecks, DiscoverError, RunStart, RunOpen,
         RunCheck, RunImport, RunReconcile, RunFinish, FailJob, FailPhase,
         CancelledJob, CancelledPhase, ReconStart, ReconCompare,
         ReconComparing, ReconFinish, ReconAbort, RunExit

\* A write that is lost, or its answer, makes an orphan of one job at most.
LEMMA OneOrphan ==
  ASSUME TypeInv, NEW c \in Calls, Request(c) \/ Handle(c) \/ Goroutine(c),
         LoseWrite \/ AnswerLost(c)
  PROVE  lost' = lost + 1 /\ \E i : Orphans' \subseteq Orphans \cup {i}
  <1>1. ASSUME NEW d \in Calls \ {c}, NEW j, Owns(d, j) PROVE Owns(d, j)'
    BY <1>1, CallFrame DEF Owns
  <1>2. CASE LoseWrite
    <2>1. status' = status /\ lost' = lost + 1
      BY <1>2 DEF LoseWrite
    <2>2. ASSUME NEW j \in Jobs, j \in Orphans', j # mine[c] PROVE j \in Orphans
      <3>1. Active(j)
        BY <2>1, <2>2 DEF Orphans, Active
      <3>2. ASSUME NEW d \in Calls, Owns(d, j) PROVE FALSE
        <4>1. d # c
          BY <2>2, <3>2 DEF Owns
        <4> QED BY <1>1, <2>2, <3>2, <4>1 DEF Orphans
      <3> QED BY <3>1, <3>2 DEF Orphans
    <2>3. Orphans' \subseteq Orphans \cup {mine[c]}
      BY <2>2 DEF Orphans
    <2> QED BY <2>1, <2>3
  <1>3. CASE AnswerLost(c)
    <2>1. lost' = lost + 1 /\ pc[c] \in QueryPcs
      BY <1>3 DEF AnswerLost, QueryPcs
    <2>2. PICK i \in Jobs : status' = [status EXCEPT ![i] = "PENDING"]
      BY <1>3 DEF AnswerLost
    <2>3. ASSUME NEW j \in Jobs, j \in Orphans', j # i PROVE j \in Orphans
      <3>1. Active(j)
        BY <2>2, <2>3 DEF Orphans, Active, TypeInv, TypeOK
      <3>2. ASSUME NEW d \in Calls, Owns(d, j) PROVE FALSE
        <4>1. d # c
          BY <2>1, <3>2 DEF Owns, OwnerPcs, QueryPcs
        <4> QED BY <1>1, <2>3, <3>2, <4>1 DEF Orphans
      <3> QED BY <3>1, <3>2 DEF Orphans
    <2>4. Orphans' \subseteq Orphans \cup {i}
      BY <2>3 DEF Orphans
    <2> QED BY <2>1, <2>4
  <1> QED BY <1>2, <1>3

\* The active jobs that nobody will end are no more than the writes and answers
\* that were lost, across crashes, restarts, cancellations and resumes.
THEOREM NoOrphanedJob == Spec => []ActiveJobOwned
  <1>1. Init => ActiveJobOwned
    <2> SUFFICES ASSUME Init PROVE ActiveJobOwned
      OBVIOUS
    <2>1. Orphans = {} /\ lost = 0
      BY DEF Init, Orphans, Active, ActiveStatus
    <2> QED BY <2>1, FS_EmptySet DEF ActiveJobOwned
  <1>2. TypeInv /\ ActiveJobOwned /\ [Next]_vars => ActiveJobOwned'
    <2> SUFFICES ASSUME TypeInv, ActiveJobOwned, [Next]_vars PROVE ActiveJobOwned'
      OBVIOUS
    <2>1. ASSUME NEW c \in Calls, Request(c) \/ Handle(c) \/ Goroutine(c)
          PROVE  ActiveJobOwned'
      <3> SUFFICES ASSUME up'
                   PROVE  IsFiniteSet(Orphans') /\ Cardinality(Orphans') <= lost'
        BY DEF ActiveJobOwned
      <3>1. up
        BY <2>1 DEF Request, Handle, Goroutine, QueryFails, InsertJob, AnswerLost,
             SnapshotDiscovery, ResumeRead, ReconcileRead, CancelUpdate,
             DiscoverEnter, SnapshotPhase, SnapshotActive, SnapshotInsert,
             SnapshotState, ResumePhase, ResumeActive, ResumeUpdate,
             ReconcileActive, ReconcileInsert, Register, CancelLookup,
             DiscoverSource, DiscoverChecks, DiscoverError, RunStart, RunOpen,
             RunCheck, RunImport, RunReconcile, RunFinish, FailJob, FailPhase,
             CancelledJob, CancelledPhase, ReconStart, ReconCompare,
             ReconComparing, ReconFinish, ReconAbort, RunExit
      <3>2. IsFiniteSet(Orphans) /\ Cardinality(Orphans) \in Nat /\ Cardinality(Orphans) <= lost
        BY <3>1, FS_CardinalityType DEF ActiveJobOwned
      <3>3. lost \in Nat
        BY DEF TypeInv, TypeOK
      <3>4. CASE lost' = lost
        <4>1. Orphans' \subseteq Orphans
          BY <2>1, <3>4, CallOwner DEF Orphans
        <4> QED BY <3>2, <3>3, <3>4, <4>1, FS_Subset, FS_CardinalityType
      <3>5. CASE LoseWrite \/ AnswerLost(c)
        <4>1. PICK i : lost' = lost + 1 /\ Orphans' \subseteq Orphans \cup {i}
          BY <2>1, <3>5, OneOrphan
        <4>2. /\ IsFiniteSet(Orphans \cup {i})
              /\ Cardinality(Orphans \cup {i})
                   = IF i \in Orphans THEN Cardinality(Orphans) ELSE Cardinality(Orphans) + 1
          BY <3>2, FS_AddElement
        <4>3. IsFiniteSet(Orphans') /\ Cardinality(Orphans') <= Cardinality(Orphans \cup {i})
              /\ Cardinality(Orphans') \in Nat
          BY <4>1, <4>2, FS_Subset, FS_CardinalityType
        <4> QED BY <3>2, <3>3, <4>1, <4>2, <4>3
      <3> QED BY <2>1, <3>4, <3>5, CallLoss
    <2>2. CASE Crash
      BY <2>2 DEF Crash, ActiveJobOwned
    <2>3. CASE RecoverInterruptedJobs
      <3>1. Orphans' = {} /\ lost' = lost /\ lost \in Nat
        BY <2>3 DEF RecoverInterruptedJobs, Orphans, Active, ActiveStatus, TypeInv, TypeOK
      <3> QED BY <3>1, FS_EmptySet DEF ActiveJobOwned
    <2>4. CASE (\E t \in Phases : Transition(t)) \/ UNCHANGED vars
      <3>1. Orphans' = Orphans /\ lost' = lost /\ up' = up
        BY <2>4 DEF Transition, process, vars, Orphans, Active, Owns
      <3> QED BY <3>1 DEF ActiveJobOwned
    <2> QED BY <2>1, <2>2, <2>3, <2>4 DEF Next
  <1> QED BY <1>1, <1>2, SpecTypeInv, PTL DEF Spec
=============================================================================
