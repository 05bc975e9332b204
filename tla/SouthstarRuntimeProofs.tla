----------------------- MODULE SouthstarRuntimeProofs -----------------------
(***************************************************************************)
(* Theorems of SouthstarRuntime, for every number of tasks, attempts,      *)
(* requests and appliers and every set of kinds, commands and loops.       *)
(***************************************************************************)
EXTENDS SouthstarRuntime, FiniteSetTheorems, TLAPS

-----------------------------------------------------------------------------
(* The idle processes. *)

(* There is a hand execution to speak of. *)
LEMMA SomeHand == AnyHand \in Hands /\ NoHand \in Hands /\ QuietHand \in Hands
  <1>1. PICK t : t \in Tasks
    BY StoreAssumption
  <1>2. <<t, 1>> \in Hands
    BY <1>1, StoreAssumption DEF Hands, Attempts
  <1>3. QED
    BY <1>2, Zenon DEF AnyHand, NoHand, QuietHand

(* There is a recovery decision to speak of: every kind has a path. *)
LEMMA SomeDecision == AnyDecision \in Decisions
  <1>1. PICK t, k : t \in Tasks /\ k \in Kinds
    BY StoreAssumption, KindAssumption
  <1>2. PICK p : p \in PathsOf(k) /\ p \in Paths
    BY <1>1 DEF PathsOf, Paths, CommandPaths
  <1>3. <<t, 1, k>> \in Exceptions
    BY <1>1, StoreAssumption DEF Exceptions, Attempts
  <1>4. <<<<t, 1, k>>, p>> \in Decisions
    BY <1>2, <1>3 DEF Decisions
  <1>5. QED
    BY <1>4, Zenon DEF AnyDecision

LEMMA SomeCallback == AnyCallback \in Callbacks
  <1>1. [hand |-> AnyHand, ok |-> TRUE] \in Callbacks
    BY SomeHand DEF Callbacks
  <1>2. QED
    BY <1>1, Zenon DEF AnyCallback

(* The values that can be written. *)
LEMMA ReadyCount == Cardinality(ReadyTasks) \in Nat
  <1>1. ReadyTasks \in SUBSET Tasks
    BY DEF ReadyTasks
  <1>2. QED
    BY <1>1, StoreAssumption, FS_Subset, FS_CardinalityType

-----------------------------------------------------------------------------
(* Every process keeps every type. *)

(* A step of a pass. *)
LEMMA SchedulerTypes ==
  ASSUME TypeOK, SchedulerStep, UNCHANGED <<ingest, obs, beat, applier>>
  PROVE  TypeOK'
  <1> USE DEF TypeOK, StoreTypeOK, TorkTypeOK, storeVars, torkVars, handVars,
              recoveryVars
  <1>1. IngestTypeOK' /\ ObsTypeOK' /\ BeatTypeOK' /\ ApplierTypeOK'
    BY DEF IngestTypeOK, ObsTypeOK, BeatTypeOK, ApplierTypeOK
  <1>0. abandoned' \subseteq Tasks
    BY DEF SchedulerStep, PassFails, Dispatching, SchedTypeOK, Hands
  <1>2. \A pc \in SchedPc : sched' = [sched EXCEPT !.pc = pc] => SchedTypeOK'
    BY <1>0 DEF SchedTypeOK
  <1>3. \A t : sched' = [sched EXCEPT !.ready = @ \ {t}] => SchedTypeOK'
    BY <1>0 DEF SchedTypeOK
  <1>4. AbortPass => SchedTypeOK'
    BY <1>0, SomeHand DEF AbortPass, IdleSched, SchedTypeOK, SchedPc,
       PreparationKinds
  <1>5. EndDispatch => SchedTypeOK'
    BY <1>0, SomeHand DEF EndDispatch, SchedTypeOK, SchedPc
  <1>6. sched.hand \in Hands /\ sched.hand[1] \in Tasks
    BY DEF SchedTypeOK, Hands
  <1>7. \A h \in Hands, t \in Tasks :
           sched' = [sched EXCEPT !.pc = "prepare", !.ready = @ \ {t}, !.hand = h]
              => SchedTypeOK'
    <2> SUFFICES ASSUME NEW h \in Hands, NEW t \in Tasks,
                        sched' = [sched EXCEPT !.pc = "prepare", !.ready = @ \ {t},
                                               !.hand = h]
                 PROVE  SchedTypeOK'
      OBVIOUS
    <2> QED
      BY <1>0 DEF SchedTypeOK, SchedPc
  <1>8. \A kind \in PreparationKinds : PreparationFails(kind) => SchedTypeOK'
    BY <1>0 DEF PreparationFails, SchedTypeOK, SchedPc
  <1>9. CASE BeginPass
    BY <1>9, <1>0, <1>1, ReadyCount, SomeHand, StoreAssumption DEF BeginPass,
       IdleSched, SchedTypeOK, SchedPc, PreparationKinds, MaxParallelTasks,
       ReadyTasks
  <1>10. CASE \E t \in Tasks : SkipTask(t)
    BY <1>10, <1>1, <1>3 DEF SkipTask
  <1>11. CASE \E t \in Tasks : BlockMissingWorkspaceContract(t)
    BY <1>11, <1>1, <1>3 DEF BlockMissingWorkspaceContract, SetTask,
       TaskStatus, ActiveTaskStatus, TerminalTaskStatus
  <1>12. CASE \E t \in Tasks, n \in Attempts : ClaimRunnableTask(t, n)
    BY <1>12, <1>1, <1>7 DEF ClaimRunnableTask, Hands, SetTask, TaskStatus,
       ActiveTaskStatus, TerminalTaskStatus
  <1>13. CASE \E kind \in PreparationKinds : PreparationFails(kind)
    BY <1>13, <1>1, <1>8 DEF PreparationFails, WithException, ExceptionStatus
  <1>14. CASE DecidePreparationFailure
    BY <1>14, <1>1, <1>2 DEF DecidePreparationFailure, SchedPc, WithDecision,
       InitialDecisionStatus, DecisionStatus
  <1>15. CASE ReleasePreparation
    BY <1>15, <1>1, <1>4 DEF ReleasePreparation, SetTaskIf, TaskStatus,
       ActiveTaskStatus, TerminalTaskStatus
  <1>16. CASE PersistHandExecution
    BY <1>16, <1>1, <1>2 DEF PersistHandExecution, SchedPc, SetHand,
       HandStatus, ActiveHandStatus, TerminalHandStatus
  <1>17. CASE SubmitAccepted
    BY <1>17, <1>1, <1>2 DEF SubmitAccepted, SchedPc, SubmitJob, JobStatus,
       LiveJob
  <1>18. CASE SubmitFails
    BY <1>18, <1>1, <1>2 DEF SubmitFails, SchedPc, SubmitJob, JobStatus,
       LiveJob
  <1>19. CASE FinalizeSubmitted
    BY <1>19, <1>1, <1>5 DEF FinalizeSubmitted, SetTaskIf, TaskStatus,
       ActiveTaskStatus, TerminalTaskStatus
  <1>20. CASE IgnoreDispatchFailure
    BY <1>20, <1>1, <1>5 DEF IgnoreDispatchFailure
  <1>21. CASE MarkTaskDispatchFailed
    BY <1>21, <1>1, <1>4 DEF MarkTaskDispatchFailed, SetHand, SetTaskIf,
       ObserveAndDecide, WithException, ExceptionStatus, WithDecision,
       InitialDecisionStatus, DecisionStatus, TaskStatus, ActiveTaskStatus,
       TerminalTaskStatus, HandStatus, ActiveHandStatus, TerminalHandStatus
  <1>22. CASE EndPass
    BY <1>22, <1>1, <1>4 DEF EndPass
  <1>23. CASE PassFails
    BY <1>23, <1>1, <1>4 DEF PassFails
  <1>24. QED
    BY <1>9, <1>10, <1>11, <1>12, <1>13, <1>14, <1>15, <1>16, <1>17, <1>18,
       <1>19, <1>20, <1>21, <1>22, <1>23 DEF SchedulerStep, PassStep

(* A commit of a callback request. *)
LEMMA CallbackTypes ==
  ASSUME TypeOK, NEW r \in Requests, RequestStep(r),
         UNCHANGED <<sched, abandoned, obs, beat, applier>>
  PROVE  TypeOK'
  <1> USE DEF TypeOK, StoreTypeOK, TorkTypeOK, storeVars, torkVars, handVars,
              recoveryVars
  <1>1. SchedTypeOK' /\ ObsTypeOK' /\ BeatTypeOK' /\ ApplierTypeOK'
    BY DEF SchedTypeOK, ObsTypeOK, BeatTypeOK, ApplierTypeOK
  <1>2. \A pc \in IngestPc : GoTo(r, pc) => IngestTypeOK'
    BY DEF GoTo, IngestTypeOK
  <1>3. EndRequest(r) => IngestTypeOK'
    BY SomeCallback DEF EndRequest, IdleIngest, IngestTypeOK, IngestPc
  <1>4. ingest[r].cb \in Callbacks
    BY DEF IngestTypeOK
  <1>5. /\ ingest[r].cb.hand \in Hands
        /\ ingest[r].cb.hand[1] \in Tasks
    BY <1>4 DEF Callbacks, Hands
  <1>6. CASE \E c \in Callbacks : Preflight(r, c)
    BY <1>6, <1>1 DEF Preflight, IngestTypeOK, IngestPc, Receive
  <1>7. CASE IngestDuplicate(r)
    BY <1>7, <1>1, <1>2 DEF IngestDuplicate, IngestPc
  <1>8. CASE IngestForCancelledRun(r)
    BY <1>8, <1>1, <1>2, <1>4 DEF IngestForCancelledRun, IngestPc, Receive
  <1>9. CASE \E kind \in {"stale_callback", "late_callback"} : IngestIgnored(r, kind)
    BY <1>9, <1>1, <1>2, <1>4 DEF IngestIgnored, IngestPc, Receive,
       ObserveAndDecide, WithException, ExceptionStatus, WithDecision,
       InitialDecisionStatus, DecisionStatus
  <1>10. CASE IngestResult(r)
    BY <1>10, <1>1, <1>2, <1>4, <1>5 DEF IngestResult, IngestPc, Receive,
       SettleHand, SetHand, SetTask, TaskStatus, ActiveTaskStatus,
       TerminalTaskStatus, HandStatus, ActiveHandStatus, TerminalHandStatus
  <1>11. CASE IngestMergeConflict(r)
    BY <1>11, <1>1, <1>2, <1>4, <1>5 DEF IngestMergeConflict, IngestPc,
       Receive, SettleHand, SetHand, SetTask, ObserveAndDecide, WithException,
       ExceptionStatus, WithDecision, InitialDecisionStatus, DecisionStatus,
       TaskStatus, ActiveTaskStatus, TerminalTaskStatus, HandStatus,
       ActiveHandStatus, TerminalHandStatus
  <1>12. CASE ResolveTerminalWithoutCallback(r)
    BY <1>12, <1>1, <1>2 DEF ResolveTerminalWithoutCallback, IngestPc,
       ExceptionStatus
  <1>13. CASE FinalizeCallbackLifecycle(r)
    BY <1>13, <1>1, <1>3 DEF FinalizeCallbackLifecycle, RunStatus
  <1>14. CASE RequestFails(r)
    BY <1>14, <1>1, <1>3 DEF RequestFails
  <1>15. QED
    BY <1>6, <1>7, <1>8, <1>9, <1>10, <1>11, <1>12, <1>13, <1>14 DEF RequestStep

(* A step of the observer. *)
LEMMA ObserverTypes ==
  ASSUME TypeOK, ObserverStep, UNCHANGED <<sched, abandoned, ingest, beat, applier>>
  PROVE  TypeOK'
  <1> USE DEF TypeOK, StoreTypeOK, TorkTypeOK, storeVars, torkVars, handVars,
              recoveryVars
  <1>1. SchedTypeOK' /\ IngestTypeOK' /\ BeatTypeOK' /\ ApplierTypeOK'
    BY DEF SchedTypeOK, IngestTypeOK, BeatTypeOK, ApplierTypeOK
  <1>2. \A pc \in ObsPc, kind \in ObserverKinds : ObsGoTo(pc, kind) => ObsTypeOK'
    BY DEF ObsGoTo, ObsTypeOK
  <1>3. EndObservation => ObsTypeOK'
    BY SomeHand DEF EndObservation, IdleObs, ObsTypeOK, ObsPc,
       ActiveHandStatus, ObserverKinds
  <1>4. \A h \in Hands : ReadRow(h) => ObsTypeOK'
    BY DEF ReadRow, IdleObs, ObsTypeOK, ObsPc, ActiveHandStatus, ObserverKinds
  <1>5. obs.kind \in ObserverKinds /\ ObsHand \in Hands /\ ObsHand[1] \in Tasks
    BY DEF ObsTypeOK, ObsHand, Hands
  <1>6. CASE \E h \in Hands : ReadRow(h)
    BY <1>6, <1>1, <1>4 DEF ReadRow
  <1>7. CASE PollTerminal
    BY <1>7, <1>1, <1>2, <1>3 DEF PollTerminal, ObsPc, ObserverKinds
  <1>8. CASE SettleTerminal
    BY <1>8, <1>1, <1>2, <1>5 DEF SettleTerminal, SettledStatus, SetHand,
       ObsPc, HandStatus, ActiveHandStatus, TerminalHandStatus
  <1>9. CASE SettleOverwrittenByCallback
    BY <1>9, <1>1, <1>2, <1>5 DEF SettleOverwrittenByCallback, ObsPc
  <1>10. CASE PatchRunning
    BY <1>10, <1>1, <1>2, <1>5 DEF PatchRunning, SetHand, ObsPc, HandStatus,
       ActiveHandStatus, TerminalHandStatus
  <1>11. CASE PatchRunningTask
    BY <1>11, <1>1, <1>3, <1>5 DEF PatchRunningTask, SetTaskIf, TaskStatus,
       ActiveTaskStatus, TerminalTaskStatus
  <1>12. CASE \E kind \in {"tork_queue_timeout", "tork_running_hang"} : TimedOut(kind)
    BY <1>12, <1>1, <1>2 DEF TimedOut, ObsPc, ObserverKinds
  <1>13. CASE NothingToReport
    BY <1>13, <1>1, <1>3 DEF NothingToReport
  <1>14. CASE ObserveException
    BY <1>14, <1>1, <1>2, <1>5 DEF ObserveException, ObsPc, WithException,
       ExceptionStatus
  <1>15. CASE DecideException
    BY <1>15, <1>1, <1>3 DEF DecideException, WithDecision,
       InitialDecisionStatus, DecisionStatus
  <1>16. CASE SweepFails
    BY <1>16, <1>1, <1>3 DEF SweepFails
  <1>17. QED
    BY <1>6, <1>7, <1>8, <1>9, <1>10, <1>11, <1>12, <1>13, <1>14, <1>15, <1>16 DEF
       ObserverStep

(* A statement of a heartbeat request. *)
LEMMA HeartbeatTypes ==
  ASSUME TypeOK, HeartbeatStep, UNCHANGED <<sched, abandoned, ingest, obs, applier>>
  PROVE  TypeOK'
  <1> USE DEF TypeOK, StoreTypeOK, TorkTypeOK, storeVars, torkVars, handVars,
              recoveryVars
  <1>1. SchedTypeOK' /\ IngestTypeOK' /\ ObsTypeOK' /\ ApplierTypeOK'
    BY DEF SchedTypeOK, IngestTypeOK, ObsTypeOK, ApplierTypeOK
  <1>2. \A pc \in BeatPc : BeatGoTo(pc) => BeatTypeOK'
    BY DEF BeatGoTo, BeatTypeOK
  <1>3. EndBeat => BeatTypeOK'
    BY SomeHand DEF EndBeat, IdleBeat, BeatTypeOK, BeatPc
  <1>4. beat.hand \in Hands /\ beat.hand[1] \in Tasks /\ beat.jobId \in BOOLEAN
    BY DEF BeatTypeOK, Hands
  <1>5. CASE \E h \in Hands : ReadHand(h)
    BY <1>5, <1>1 DEF ReadHand, BeatTypeOK, BeatPc
  <1>6. CASE WriteHand
    BY <1>6, <1>1, <1>2, <1>3, <1>4 DEF WriteHand, BeatPc, SetHand,
       HandStatus, ActiveHandStatus, TerminalHandStatus
  <1>7. CASE MarkTaskRunning
    BY <1>7, <1>1, <1>2, <1>4 DEF MarkTaskRunning, BeatPc, SetTaskIf,
       TaskStatus, ActiveTaskStatus, TerminalTaskStatus
  <1>8. CASE MarkRunRunning
    BY <1>8, <1>1, <1>3 DEF MarkRunRunning, RunStatus
  <1>9. CASE HeartbeatFails
    BY <1>9, <1>1, <1>3 DEF HeartbeatFails
  <1>10. QED
    BY <1>5, <1>6, <1>7, <1>8, <1>9 DEF HeartbeatStep

(* A command. *)
LEMMA OperatorTypes ==
  ASSUME TypeOK, LifecycleStep, UNCHANGED processVars
  PROVE  TypeOK'
  <1> USE DEF TypeOK, StoreTypeOK, TorkTypeOK, storeVars, torkVars, handVars,
              recoveryVars
  <1>1. /\ SchedTypeOK' /\ IngestTypeOK' /\ ObsTypeOK' /\ BeatTypeOK'
        /\ ApplierTypeOK'
    BY DEF processVars, SchedTypeOK, IngestTypeOK, ObsTypeOK, BeatTypeOK,
       ApplierTypeOK
  <1>2. CASE StartRunScheduling
    BY <1>2, <1>1 DEF StartRunScheduling, RunStatus
  <1>3. CASE \E cancelActiveJobs \in BOOLEAN : PauseRun(cancelActiveJobs)
    BY <1>3, <1>1 DEF PauseRun, RunStatus, MarkActiveCancelRequested,
       HandStatus, ActiveHandStatus, TerminalHandStatus
  <1>4. CASE ResumeRun
    BY <1>4, <1>1 DEF ResumeRun, RunStatus
  <1>5. CASE CancelRun
    BY <1>5, <1>1 DEF CancelRun, RunStatus, MarkActiveCancelRequested,
       HandStatus, ActiveHandStatus, TerminalHandStatus
  <1>6. CASE \E h \in Hands : CancelExecutorJob(h)
    BY <1>6, <1>1 DEF CancelExecutorJob, SetHand, HandStatus,
       ActiveHandStatus, TerminalHandStatus
  <1>7. CASE \E t \in Tasks, c \in Attempts, path \in CommandPaths : CommandTask(t, c,
     path)
    BY <1>7, <1>1 DEF CommandTask, WithException, ExceptionStatus, WithDecision,
       InitialDecisionStatus, DecisionStatus
  <1>8. CASE \E d \in Decisions, approved \in BOOLEAN : DecideApproval(d, approved)
    BY <1>8, <1>1 DEF DecideApproval, DecisionStatus, TerminalDecisionStatus
  <1>9. QED
    BY <1>2, <1>3, <1>4, <1>5, <1>6, <1>7, <1>8 DEF LifecycleStep

(* A commit of an applier. *)
LEMMA ApplierTypes ==
  ASSUME TypeOK, NEW a \in Appliers, ApplierStep(a),
         UNCHANGED <<sched, abandoned, ingest, obs, beat>>
  PROVE  TypeOK'
  <1> USE DEF TypeOK, StoreTypeOK, TorkTypeOK, storeVars, torkVars, handVars,
              recoveryVars
  <1>1. SchedTypeOK' /\ IngestTypeOK' /\ ObsTypeOK' /\ BeatTypeOK'
    BY DEF SchedTypeOK, IngestTypeOK, ObsTypeOK, BeatTypeOK
  <1>2. \A pc \in ApplierPc : ApplierGoTo(a, pc) => ApplierTypeOK'
    BY DEF ApplierGoTo, ApplierTypeOK
  <1>3. EndApply(a) => ApplierTypeOK'
    BY SomeDecision DEF EndApply, IdleApplier, ApplierTypeOK, ApplierPc
  <1>4. Dec(a) \in Decisions /\ DecTask(Dec(a)) \in Tasks /\ DecHand(Dec(a)) \in Hands
    BY DEF ApplierTypeOK, Dec, Decisions, Exceptions, DecTask, DecHand,
       HandOf, Hands
  <1>5. \A d : FinalizeApplied(d) => decisions' \in [Decisions -> DecisionStatus]
    BY DEF FinalizeApplied, SetDecision, SetExecution, DecisionStatus,
       TerminalDecisionStatus, ExecutionStatus, StartedExecution
  <1>6. \A d : Succeed(d) => /\ exceptions' \in [Exceptions -> ExceptionStatus]
                             /\ decisions' \in [Decisions -> DecisionStatus]
                             /\ executions' \in [Decisions -> ExecutionStatus]
    BY <1>5 DEF Succeed, ResolveException, ExceptionStatus, SetExecution,
       ExecutionStatus
  <1>7. \A d \in Decisions : TransitionTerminal(d) =>
           /\ decisions' \in [Decisions -> DecisionStatus]
           /\ executions' \in [Decisions -> ExecutionStatus]
    BY DEF TransitionTerminal, CompletedTaskOutcome, ExecutionStarted,
       SetDecision, SetExecution, DecisionStatus, TerminalDecisionStatus,
       ExecutionStatus, StartedExecution
  <1>8. \A h : CancelBestEffort(h) => job' \in [Hands -> JobStatus]
    BY DEF CancelBestEffort, CancelledJob, JobStatus, TerminalJob
  <1>9. CASE \E d \in Decisions : ClaimDecision(a, d)
    BY <1>9, <1>1 DEF ClaimDecision, SetDecision, DecisionStatus,
       ApplierTypeOK, ApplierPc
  <1>10. CASE StartExecution(a)
    BY <1>10, <1>1, <1>2, <1>3, <1>4 DEF StartExecution, ApplierPc,
       SetExecution, ExecutionStatus, StartedExecution
  <1>11. CASE CheckCompletedTask(a)
    BY <1>11, <1>1, <1>2 DEF CheckCompletedTask, ApplierPc
  <1>12. CASE TerminateDecision(a)
    BY <1>12, <1>1, <1>3, <1>4, <1>7 DEF TerminateDecision
  <1>13. CASE ExecutionAlreadyFinished(a)
    BY <1>13, <1>1, <1>3, <1>5 DEF ExecutionAlreadyFinished
  <1>14. CASE SupersedeInTransaction(a)
    BY <1>14, <1>1, <1>3, <1>4, <1>7 DEF SupersedeInTransaction
  <1>15. CASE RetrySameTask(a)
    BY <1>15, <1>1, <1>3, <1>4, <1>6 DEF RetrySameTask, SetHand, SetTask,
       RunStatus, TaskStatus, HandStatus, ActiveHandStatus, TerminalHandStatus
  <1>16. CASE ObserveOnly(a)
    BY <1>16, <1>1, <1>3, <1>6 DEF ObserveOnly
  <1>17. CASE BlockForOperator(a)
    BY <1>17, <1>1, <1>3, <1>4 DEF BlockForOperator, SetTask, TaskStatus,
       ActiveTaskStatus, TerminalTaskStatus, SetDecision, SetExecution,
       DecisionStatus, TerminalDecisionStatus, ExecutionStatus,
       StartedExecution
  <1>18. CASE ReprovisionHand(a)
    BY <1>18, <1>1, <1>2, <1>3, <1>4, <1>6 DEF ReprovisionHand, SetHand,
       SetTask, TaskStatus, ApplierPc, HandStatus, ActiveHandStatus,
       TerminalHandStatus
  <1>19. CASE CancelReprovisionedJob(a)
    BY <1>19, <1>1, <1>3, <1>8 DEF CancelReprovisionedJob
  <1>20. CASE StageRequeue(a)
    BY <1>20, <1>1, <1>2, <1>3, <1>4 DEF StageRequeue, ApplierPc,
       SetExecution, ExecutionStatus, StartedExecution
  <1>21. CASE CancelRequeuedJob(a)
    BY <1>21, <1>1, <1>2, <1>3, <1>8 DEF CancelRequeuedJob, ApplierPc
  <1>22. CASE SupersedeRequeue(a)
    BY <1>22, <1>1, <1>3, <1>4, <1>7 DEF SupersedeRequeue
  <1>23. CASE RequeueTask(a)
    BY <1>23, <1>1, <1>2, <1>4 DEF RequeueTask, SetHand, SetTask, TaskStatus,
       ApplierPc, HandStatus, ActiveHandStatus, TerminalHandStatus
  <1>24. CASE ResolveRequeued(a)
    BY <1>24, <1>1, <1>2 DEF ResolveRequeued, ResolveException,
       ExceptionStatus, ApplierPc
  <1>25. CASE CompleteRequeue(a)
    BY <1>25, <1>1, <1>2, <1>3, <1>4 DEF CompleteRequeue, ApplierPc,
       SetExecution, ExecutionStatus, StartedExecution
  <1>26. CASE FinalizeDecision(a)
    BY <1>26, <1>1, <1>3, <1>5 DEF FinalizeDecision
  <1>27. CASE RecoverSession(a)
    BY <1>27, <1>1, <1>3, <1>4, <1>6 DEF RecoverSession, SetTask, TaskStatus
  <1>28. CASE BlockRollback(a)
    BY <1>28, <1>1, <1>3, <1>4 DEF BlockRollback, SetDecision, SetExecution,
       DecisionStatus, TerminalDecisionStatus, ExecutionStatus, StartedExecution
  <1>29. CASE ApplyFails(a)
    BY <1>29, <1>1, <1>3 DEF ApplyFails
  <1>30. QED
    BY <1>9, <1>10, <1>11, <1>12, <1>13, <1>14, <1>15, <1>16, <1>17, <1>18,
       <1>19, <1>20, <1>21, <1>22, <1>23, <1>24, <1>25, <1>26, <1>27,
          <1>28, <1>29 DEF ApplierStep

-----------------------------------------------------------------------------
(* TypeOK holds in every reachable state. *)

LEMMA CrashTypes ==
  ASSUME TypeOK, Crash
  PROVE  TypeOK'
  <1>1. StoreTypeOK' /\ TorkTypeOK'
    BY DEF TypeOK, Crash, StoreTypeOK, TorkTypeOK, storeVars, torkVars, handVars,
       recoveryVars
  <1>2. SchedTypeOK'
    BY SomeHand DEF TypeOK, Crash, IdleSched, SchedTypeOK, SchedPc, PreparationKinds,
       Dispatching, Hands
  <1>3. IngestTypeOK'
    BY SomeCallback DEF Crash, IdleIngest, IngestTypeOK, IngestPc
  <1>4. ObsTypeOK'
    BY SomeHand DEF Crash, IdleObs, ObsTypeOK, ObsPc, ActiveHandStatus,
       ObserverKinds
  <1>5. BeatTypeOK'
    BY SomeHand DEF Crash, IdleBeat, BeatTypeOK, BeatPc
  <1>6. ApplierTypeOK'
    BY SomeDecision DEF Crash, IdleApplier, ApplierTypeOK, ApplierPc
  <1>7. QED
    BY <1>1, <1>2, <1>3, <1>4, <1>5, <1>6 DEF TypeOK

LEMMA TorkTypes ==
  ASSUME TypeOK, TorkStep, UNCHANGED processVars
  PROVE  TypeOK'
  <1>1. SchedTypeOK' /\ IngestTypeOK' /\ ObsTypeOK' /\ BeatTypeOK' /\ ApplierTypeOK'
    BY DEF TypeOK, processVars, SchedTypeOK, IngestTypeOK, ObsTypeOK, BeatTypeOK,
       ApplierTypeOK
  <1>2. StoreTypeOK'
    BY DEF TypeOK, StoreTypeOK, TorkStep, StartJob, PostCallback, EndJob, storeVars,
       handVars, recoveryVars
  <1>3. TorkTypeOK'
    BY VerdictAssumption DEF TypeOK, TorkTypeOK, TorkStep, StartJob, PostCallback,
       EndJob, JobStatus, LiveJob, TerminalJob, Callbacks
  <1>4. QED
    BY <1>1, <1>2, <1>3 DEF TypeOK

LEMMA InitTypes == Init => TypeOK
  <1> SUFFICES ASSUME Init PROVE TypeOK
    OBVIOUS
  <1>1. StoreTypeOK /\ TorkTypeOK
    BY DEF Init, StoreInit, TorkInit, StoreTypeOK, TorkTypeOK, RunStatus, TaskStatus,
       HandStatus, ExceptionStatus, DecisionStatus, ExecutionStatus, JobStatus
  <1>2. SchedTypeOK
    BY SomeHand DEF Init, SchedInit, IdleSched, SchedTypeOK, SchedPc, PreparationKinds
  <1>3. IngestTypeOK
    BY SomeCallback DEF Init, IngestInit, IdleIngest, IngestTypeOK, IngestPc
  <1>4. ObsTypeOK
    BY SomeHand DEF Init, ObsInit, IdleObs, ObsTypeOK, ObsPc, ActiveHandStatus,
       ObserverKinds
  <1>5. BeatTypeOK
    BY SomeHand DEF Init, BeatInit, IdleBeat, BeatTypeOK, BeatPc
  <1>6. ApplierTypeOK
    BY SomeDecision DEF Init, ApplierInit, IdleApplier, ApplierTypeOK, ApplierPc
  <1>7. QED
    BY <1>1, <1>2, <1>3, <1>4, <1>5, <1>6 DEF TypeOK

LEMMA NextTypes == TypeOK /\ [Next]_vars => TypeOK'
  <1> SUFFICES ASSUME TypeOK, [Next]_vars PROVE TypeOK'
    OBVIOUS
  <1>1. CASE Tork
    BY <1>1, TorkTypes DEF Tork
  <1>2. CASE Scheduler
    BY <1>2, SchedulerTypes DEF Scheduler
  <1>3. CASE \E r \in Requests : Callback(r)
    BY <1>3, CallbackTypes DEF Callback
  <1>4. CASE Observer
    BY <1>4, ObserverTypes DEF Observer
  <1>5. CASE Heartbeat
    BY <1>5, HeartbeatTypes DEF Heartbeat
  <1>6. CASE Operator
    BY <1>6, OperatorTypes DEF Operator
  <1>7. CASE \E a \in Appliers : Applier(a)
    BY <1>7, ApplierTypes DEF Applier
  <1>8. CASE Crash
    BY <1>8, CrashTypes
  <1>9. CASE UNCHANGED vars
    BY <1>9 DEF vars, processVars, storeVars, torkVars, handVars, recoveryVars, TypeOK,
       StoreTypeOK, TorkTypeOK, SchedTypeOK, IngestTypeOK, ObsTypeOK, BeatTypeOK,
       ApplierTypeOK
  <1>10. QED
    BY <1>1, <1>2, <1>3, <1>4, <1>5, <1>6, <1>7, <1>8, <1>9 DEF Next

(* TypeOK: every row, job and process record holds values the code can put *)
(* there, whatever the processes, commands and crashes of RuntimeStore's   *)
(* clients do.                                                             *)
THEOREM TypeCorrect == Spec => []TypeOK
  <1>1. Init => TypeOK
    BY InitTypes
  <1>2. TypeOK /\ [Next]_vars => TypeOK'
    BY NextTypes
  <1>3. QED
    BY <1>1, <1>2, PTL DEF Spec

-----------------------------------------------------------------------------
(* What the steps of SouthstarRuntime may do to tasks, slots and results.  *)
(* Each theorem rests on one lemma that goes through the writers of        *)
(* workflow_tasks.status, or of the other variable it is about.            *)

(* The actions that write a task's status. *)

SchedulerTaskWrite ==
    \/ \E t \in Tasks : BlockMissingWorkspaceContract(t)
    \/ \E t \in Tasks, n \in Attempts : ClaimRunnableTask(t, n)
    \/ ReleasePreparation
    \/ FinalizeSubmitted
    \/ MarkTaskDispatchFailed

ApplierTaskWrite(a) ==
    \/ RetrySameTask(a) \/ RecoverSession(a)
    \/ BlockForOperator(a) \/ ReprovisionHand(a) \/ RequeueTask(a)

TaskWrite ==
    \/ SchedulerTaskWrite
    \/ \E r \in Requests : IngestResult(r) \/ IngestMergeConflict(r)
    \/ PatchRunningTask
    \/ MarkTaskRunning
    \/ \E a \in Appliers : ApplierTaskWrite(a)

LEMMA TaskWriters ==
  ASSUME [Next]_vars
  PROVE  TaskWrite \/ UNCHANGED taskStatus
  <1> USE DEF storeVars
  <1>1. CASE Tork
    BY <1>1 DEF Tork, TorkStep, StartJob, PostCallback, EndJob
  <1>2. CASE Scheduler
    BY <1>2 DEF Scheduler, SchedulerStep, PassStep, PassFails, TaskWrite, SchedulerTaskWrite,
       BeginPass,
       SkipTask, PreparationFails, DecidePreparationFailure, PersistHandExecution,
       SubmitAccepted, SubmitFails, IgnoreDispatchFailure, EndPass
  <1>3. CASE \E r \in Requests : Callback(r)
    BY <1>3 DEF Callback, RequestStep, RequestFails, TaskWrite, Preflight, IngestDuplicate,
       IngestForCancelledRun, IngestIgnored, ResolveTerminalWithoutCallback,
       FinalizeCallbackLifecycle
  <1>4. CASE Observer
    BY <1>4 DEF Observer, ObserverStep, SweepFails, TaskWrite, ReadRow, PollTerminal,
       SettleTerminal, SettleOverwrittenByCallback, PatchRunning, TimedOut,
       NothingToReport, ObserveException, DecideException
  <1>5. CASE Heartbeat
    BY <1>5 DEF Heartbeat, HeartbeatStep, HeartbeatFails, TaskWrite, ReadHand, WriteHand, MarkRunRunning
  <1>6. CASE Operator
    BY <1>6 DEF Operator, LifecycleStep, StartRunScheduling, PauseRun, ResumeRun,
       CancelRun, CancelExecutorJob, CommandTask, DecideApproval
  <1>7. CASE \E a \in Appliers : Applier(a)
    BY <1>7 DEF Applier, ApplierStep, ApplyFails, TaskWrite, ApplierTaskWrite, ClaimDecision,
       StartExecution, CheckCompletedTask, TerminateDecision, ExecutionAlreadyFinished,
       SupersedeInTransaction, BlockRollback, ObserveOnly, CancelReprovisionedJob,
       StageRequeue, CancelRequeuedJob, SupersedeRequeue, ResolveRequeued,
       CompleteRequeue, FinalizeDecision
  <1>8. CASE Crash
    BY <1>8 DEF Crash
  <1>9. CASE UNCHANGED vars
    BY <1>9 DEF vars
  <1>10. QED
    BY <1>1, <1>2, <1>3, <1>4, <1>5, <1>6, <1>7, <1>8, <1>9 DEF Next

(* A task that moves was not completed, and becomes active only by a claim. *)
TaskMove(t) ==
    taskStatus'[t] # taskStatus[t] =>
        /\ taskStatus[t] # "completed"
        /\ taskStatus'[t] \in ActiveTaskStatus =>
              \/ taskStatus[t] \in ActiveTaskStatus
              \/ \E n \in Attempts : ClaimRunnableTask(t, n)

LEMMA TaskMoves ==
  ASSUME TypeOK, [Next]_vars, NEW t \in Tasks
  PROVE  TaskMove(t)
  <1>1. taskStatus \in [Tasks -> TaskStatus]
    BY DEF TypeOK, StoreTypeOK
  <1> USE <1>1 DEF TaskMove, SetTask, SetTaskIf, ActiveTaskStatus, TerminalTaskStatus
  <1>2. CASE SchedulerTaskWrite
    <2>1. CASE \E u \in Tasks : BlockMissingWorkspaceContract(u)
      BY <2>1 DEF BlockMissingWorkspaceContract
    <2>2. CASE \E u \in Tasks, n \in Attempts : ClaimRunnableTask(u, n)
      <3>1. PICK u \in Tasks, n \in Attempts : ClaimRunnableTask(u, n)
        BY <2>2
      <3>2. taskStatus[u] = "pending" /\ taskStatus' = [taskStatus EXCEPT ![u] = "claimed"]
        BY <3>1 DEF ClaimRunnableTask, Claimable
      <3>3. QED
        BY <3>1, <3>2
    <2>3. CASE ReleasePreparation
      BY <2>3 DEF ReleasePreparation
    <2>4. CASE FinalizeSubmitted
      BY <2>4 DEF FinalizeSubmitted
    <2>5. CASE MarkTaskDispatchFailed
      BY <2>5 DEF MarkTaskDispatchFailed
    <2>6. QED
      BY <1>2, <2>1, <2>2, <2>3, <2>4, <2>5 DEF SchedulerTaskWrite
  <1>3. CASE \E r \in Requests : IngestResult(r) \/ IngestMergeConflict(r)
    <2>1. PICK r \in Requests : IngestResult(r) \/ IngestMergeConflict(r)
      BY <1>3
    <2>2. taskStatus[ingest[r].cb.hand[1]] \notin TerminalTaskStatus
      BY <2>1 DEF IngestResult, IngestMergeConflict, Ingestible, IgnoredAs
    <2>3. QED
      BY <2>1, <2>2 DEF IngestResult, IngestMergeConflict
  <1>4. CASE PatchRunningTask
    BY <1>4 DEF PatchRunningTask
  <1>5. CASE MarkTaskRunning
    BY <1>5 DEF MarkTaskRunning
  <1>6. CASE \E a \in Appliers : ApplierTaskWrite(a)
    <2>1. PICK a \in Appliers : ApplierTaskWrite(a)
      BY <1>6
    <2>2. taskStatus[DecTask(Dec(a))] # "completed"
      BY <2>1 DEF ApplierTaskWrite, RetrySameTask, RecoverSession, BlockForOperator,
         ReprovisionHand, RequeueTask, Applies, TaskCompleted
    <2>3. QED
      BY <2>1, <2>2 DEF ApplierTaskWrite, RetrySameTask, RecoverSession,
         BlockForOperator, ReprovisionHand, RequeueTask
  <1>7. QED
    BY <1>2, <1>3, <1>4, <1>5, <1>6, TaskWriters DEF TaskWrite

-----------------------------------------------------------------------------
(* CompletedTaskIsFinal: the completed-task preconditions of the applier's *)
(* transactions and the late-callback check of ingestion are enough to     *)
(* keep every completed task completed.                                    *)
THEOREM CompletedStays == Spec => CompletedTaskIsFinal
  <1>1. TypeOK /\ [Next]_vars =>
           [\A t \in Tasks : taskStatus[t] = "completed" => taskStatus'[t] = "completed"]_vars
    BY TaskMoves DEF TaskMove
  <1>2. QED
    BY <1>1, TypeCorrect, PTL DEF Spec, CompletedTaskIsFinal

-----------------------------------------------------------------------------
(* Slots and writers. *)

LEMMA ActiveTasksGrowByClaims ==
  ASSUME TypeOK, [Next]_vars
  PROVE  \/ ActiveTasks' \subseteq ActiveTasks
         \/ \E t \in Tasks : /\ \E n \in Attempts : ClaimRunnableTask(t, n)
                             /\ ActiveTasks' = ActiveTasks \cup {t}
  <1>1. CASE \E t \in Tasks, n \in Attempts : ClaimRunnableTask(t, n)
    <2>1. PICK t \in Tasks, n \in Attempts : ClaimRunnableTask(t, n)
      BY <1>1
    <2>2. taskStatus' = [taskStatus EXCEPT ![t] = "claimed"]
      BY <2>1 DEF ClaimRunnableTask, SetTask
    <2>3. ActiveTasks' = ActiveTasks \cup {t}
      BY <2>2 DEF ActiveTasks, ActiveTaskStatus, TypeOK, StoreTypeOK
    <2>4. QED
      BY <2>1, <2>3
  <1>2. CASE ~ \E t \in Tasks, n \in Attempts : ClaimRunnableTask(t, n)
    BY <1>2, TaskMoves DEF TaskMove, ActiveTasks
  <1>3. QED
    BY <1>1, <1>2

(* WriterExclusion: the claims alone, decided on the tasks active at the   *)
(* moment of the claim, keep overlapping writers apart.                    *)
THEOREM WritersExcluded == Spec => []WriterExclusion
  <1>1. Init => WriterExclusion
    BY DEF Init, StoreInit, WriterExclusion, ActiveTasks, ActiveTaskStatus
  <1>2. ASSUME TypeOK, WriterExclusion, [Next]_vars
        PROVE  WriterExclusion'
    <2>1. CASE ActiveTasks' \subseteq ActiveTasks
      BY <1>2, <2>1 DEF WriterExclusion, ResourcesOverlap
    <2>2. CASE \E t \in Tasks : /\ \E n \in Attempts : ClaimRunnableTask(t, n)
                                /\ ActiveTasks' = ActiveTasks \cup {t}
      BY <1>2, <2>2 DEF ClaimRunnableTask, Claimable, WorkspaceConflict,
         WriterExclusion, ResourcesOverlap
    <2>3. QED
      BY <1>2, <2>1, <2>2, ActiveTasksGrowByClaims
  <1>3. QED
    BY <1>1, <1>2, TypeCorrect, PTL DEF Spec

(* A pass works with the configured cap. *)
PassCap == EffortCap > 0 /\ sched.pc # "idle" => sched.cap = EffortCap

LEMMA PassKeepsCap ==
  ASSUME TypeOK, PassCap, [Next]_vars
  PROVE  PassCap'
  <1> USE DEF PassCap, TypeOK, SchedTypeOK
  <1>1. CASE Scheduler
    <2>1. CASE BeginPass
      BY <2>1, StoreAssumption DEF BeginPass, IdleSched, MaxParallelTasks
    <2>2. CASE AbortPass
      BY <2>2 DEF AbortPass, IdleSched
    <2>3. CASE sched.pc # "idle" /\ sched'.cap = sched.cap
      BY <2>3
    <2>4. QED
      BY <1>1, <2>1, <2>2, <2>3 DEF Scheduler, SchedulerStep, PassStep, PassFails, SkipTask,
         BlockMissingWorkspaceContract, ClaimRunnableTask, PreparationFails,
         DecidePreparationFailure, ReleasePreparation, PersistHandExecution,
         SubmitAccepted, SubmitFails, FinalizeSubmitted, IgnoreDispatchFailure,
         MarkTaskDispatchFailed, EndPass, EndDispatch
  <1>2. CASE Crash
    BY <1>2 DEF Crash, IdleSched
  <1>3. CASE UNCHANGED sched
    BY <1>3
  <1>4. QED
    BY <1>1, <1>2, <1>3 DEF Next, vars, processVars, Tork, Callback, Observer,
       Heartbeat, Operator, Applier

(* ParallelLimit: a pass that counts the active tasks at every claim keeps *)
(* the cap it read at its start.                                           *)
THEOREM LimitKept == Spec => []ParallelLimit
  <1> DEFINE Inv == ParallelLimit /\ PassCap
  <1>1. Init => Inv
    <2> SUFFICES ASSUME Init PROVE Inv
      OBVIOUS
    <2>1. ActiveTasks = {}
      BY DEF Init, StoreInit, ActiveTasks, ActiveTaskStatus
    <2>2. QED
      BY <2>1, FS_EmptySet, StoreAssumption DEF Init, SchedInit, IdleSched,
         ParallelLimit, PassCap
  <1>2. ASSUME TypeOK, Inv, [Next]_vars
        PROVE  Inv'
    <2>1. ActiveTasks \in SUBSET Tasks /\ IsFiniteSet(ActiveTasks)
      BY StoreAssumption, FS_Subset DEF ActiveTasks
    <2>2. Cardinality(ActiveTasks) \in Nat
      BY <2>1, FS_CardinalityType
    <2>3. CASE ActiveTasks' \subseteq ActiveTasks
      <3>1. Cardinality(ActiveTasks') \in Nat
               /\ Cardinality(ActiveTasks') <= Cardinality(ActiveTasks)
        BY <2>1, <2>3, FS_Subset, FS_CardinalityType
      <3>2. QED
        BY <1>2, <2>2, <3>1, StoreAssumption, PassKeepsCap DEF ParallelLimit
    <2>4. CASE \E t \in Tasks : /\ \E n \in Attempts : ClaimRunnableTask(t, n)
                                /\ ActiveTasks' = ActiveTasks \cup {t}
      <3>1. PICK t \in Tasks : /\ \E n \in Attempts : ClaimRunnableTask(t, n)
                               /\ ActiveTasks' = ActiveTasks \cup {t}
        BY <2>4
      <3>2. EffortCap > 0 => Cardinality(ActiveTasks) < EffortCap
        BY <1>2, <2>2, <3>1, StoreAssumption DEF ClaimRunnableTask, Claimable,
           ParallelLimitReached, PassCap, TypeOK, SchedTypeOK
      <3>3. Cardinality(ActiveTasks') \in Nat
               /\ Cardinality(ActiveTasks') <= Cardinality(ActiveTasks) + 1
        <4>1. Cardinality(ActiveTasks \cup {t}) =
                 IF t \in ActiveTasks THEN Cardinality(ActiveTasks)
                 ELSE Cardinality(ActiveTasks) + 1
          BY <2>1, FS_AddElement
        <4>2. QED
          BY <2>2, <3>1, <4>1
      <3>4. QED
        BY <1>2, <2>2, <3>2, <3>3, StoreAssumption, PassKeepsCap DEF ParallelLimit
    <2>5. QED
      BY <1>2, <2>3, <2>4, ActiveTasksGrowByClaims
  <1>3. Inv => ParallelLimit
    OBVIOUS
  <1>4. QED
    BY <1>1, <1>2, <1>3, TypeCorrect, PTL DEF Spec

-----------------------------------------------------------------------------
(* What the runtime does to dispatch attempts: that a settled attempt      *)
(* stays settled, that dependencies come first, that a cancelled run stays *)
(* cancelled, and that the runtime implements DispatchContract.  They rest *)
(* on one inductive invariant: nothing in flight speaks of a               *)
(* hand_execution row that does not exist.                                 *)

-----------------------------------------------------------------------------
(* The inductive invariant. *)

(* The kinds of exception that are raised about an existing row. *)
RowKinds == Kinds \ {"dispatch_preparation_failed", "tool_proxy_violation",
                     "validation_failed"}

PassHasRow ==
    /\ sched.pc = "prepare" => IsNextAttempt(sched.hand[1], sched.hand[2])
    /\ sched.pc \in {"submit", "finalize", "reject"} => HandExists(sched.hand)

TorkHasRow ==
    /\ \A h \in Hands : job[h] # "none" => HandExists(h)
    /\ \A c \in sent : HandExists(c.hand)

RequestHasRow ==
    /\ \A r \in Requests : ingest[r].pc # "idle" => HandExists(ingest[r].cb.hand)
    /\ obs.pc # "idle" => HandExists(obs.hand)
    /\ beat.pc # "idle" => HandExists(beat.hand)

DecisionHasRow ==
    /\ \A d \in Decisions :
          decisions[d] # "none" /\ d[1][3] \in RowKinds => HandExists(DecHand(d))
    /\ \A a \in Appliers :
          /\ applier[a].pc # "idle" => decisions[Dec(a)] # "none"
          /\ applier[a].pc \in {"cancel", "requeue"}
                => DecPath(Dec(a)) = "requeue-hand-execution"

RowsInv == PassHasRow /\ TorkHasRow /\ RequestHasRow /\ DecisionHasRow

(* A row that changes: only a pass inserts one, and a settled one stays so. *)
HandMove(h) ==
    handStatus'[h] # handStatus[h] =>
        \/ PersistHandExecution /\ h = sched.hand /\ handStatus'[h] = "queued"
        \/ /\ HandExists(h)
           /\ HandExists(h)'
           /\ handStatus[h] \in TerminalHandStatus => handStatus'[h] \in TerminalHandStatus

-----------------------------------------------------------------------------
(* The actions that write a row's status. *)

OperatorHandWrite ==
    \/ \E cancelActiveJobs \in BOOLEAN : PauseRun(cancelActiveJobs)
    \/ CancelRun
    \/ \E h \in Hands : CancelExecutorJob(h)

ApplierHandWrite(a) == RetrySameTask(a) \/ ReprovisionHand(a) \/ RequeueTask(a)

HandWrite ==
    \/ PersistHandExecution
    \/ MarkTaskDispatchFailed
    \/ \E r \in Requests : IngestResult(r) \/ IngestMergeConflict(r)
    \/ SettleTerminal
    \/ PatchRunning
    \/ WriteHand
    \/ OperatorHandWrite
    \/ \E a \in Appliers : ApplierHandWrite(a)

LEMMA HandWriters ==
  ASSUME [Next]_vars
  PROVE  HandWrite \/ UNCHANGED handStatus
  <1> USE DEF storeVars, handVars
  <1>1. CASE Tork
    BY <1>1 DEF Tork, TorkStep, StartJob, PostCallback, EndJob
  <1>2. CASE Scheduler
    BY <1>2 DEF Scheduler, SchedulerStep, PassStep, PassFails, HandWrite, BeginPass, SkipTask,
       BlockMissingWorkspaceContract, ClaimRunnableTask, PreparationFails,
       DecidePreparationFailure, ReleasePreparation, SubmitAccepted, SubmitFails,
       FinalizeSubmitted, IgnoreDispatchFailure, EndPass
  <1>3. CASE \E r \in Requests : Callback(r)
    BY <1>3 DEF Callback, RequestStep, RequestFails, HandWrite, Preflight, IngestDuplicate,
       IngestForCancelledRun, IngestIgnored, ResolveTerminalWithoutCallback,
       FinalizeCallbackLifecycle
  <1>4. CASE Observer
    BY <1>4 DEF Observer, ObserverStep, SweepFails, HandWrite, ReadRow, PollTerminal,
       SettleOverwrittenByCallback, PatchRunningTask, TimedOut, NothingToReport,
       ObserveException, DecideException
  <1>5. CASE Heartbeat
    BY <1>5 DEF Heartbeat, HeartbeatStep, HeartbeatFails, HandWrite, ReadHand, MarkTaskRunning,
       MarkRunRunning
  <1>6. CASE Operator
    BY <1>6 DEF Operator, LifecycleStep, HandWrite, OperatorHandWrite,
       StartRunScheduling, ResumeRun, CommandTask, DecideApproval
  <1>7. CASE \E a \in Appliers : Applier(a)
    BY <1>7 DEF Applier, ApplierStep, ApplyFails, HandWrite, ApplierHandWrite, ClaimDecision,
       StartExecution, CheckCompletedTask, TerminateDecision, ExecutionAlreadyFinished,
       SupersedeInTransaction, RecoverSession, BlockRollback, ObserveOnly,
       BlockForOperator, CancelReprovisionedJob, StageRequeue, CancelRequeuedJob,
       SupersedeRequeue, ResolveRequeued, CompleteRequeue, FinalizeDecision
  <1>8. CASE Crash
    BY <1>8 DEF Crash
  <1>9. CASE UNCHANGED vars
    BY <1>9 DEF vars
  <1>10. QED
    BY <1>1, <1>2, <1>3, <1>4, <1>5, <1>6, <1>7, <1>8, <1>9 DEF Next

(* A decision that retires its attempt is about an existing row. *)
LEMMA RetiredRowExists ==
  ASSUME TypeOK, RowsInv, NEW a \in Appliers, ApplierHandWrite(a),
         RetrySameTask(a) => NamesHand(Dec(a))
  PROVE  HandExists(DecHand(Dec(a)))
  <1>1. /\ Dec(a) \in Decisions
        /\ DecPath(Dec(a)) \in PathsOf(Dec(a)[1][3])
        /\ Dec(a)[1][3] \in Kinds
    BY DEF TypeOK, ApplierTypeOK, Dec, Decisions, Exceptions, DecPath
  <1>2. decisions[Dec(a)] # "none"
    BY DEF RowsInv, DecisionHasRow, ApplierHandWrite, RetrySameTask, ReprovisionHand,
       RequeueTask, Applies, OneTransaction, ApplierAt
  <1>3. Dec(a)[1][3] \in RowKinds
    <2>1. CASE RetrySameTask(a)
      BY <1>1, <2>1 DEF RetrySameTask, Applies, PathsOf, RowKinds, NamesHand
    <2>2. CASE ReprovisionHand(a)
      BY <1>1, <2>2 DEF ReprovisionHand, Applies, PathsOf, CommandPaths, SessionPaths, RowKinds
    <2>3. CASE RequeueTask(a)
      <3>1. DecPath(Dec(a)) = "requeue-hand-execution"
        BY <2>3 DEF RequeueTask, ApplierAt, RowsInv, DecisionHasRow
      <3>2. QED
        BY <1>1, <3>1 DEF PathsOf, CommandPaths, SessionPaths, RowKinds
    <2>4. QED
      BY <2>1, <2>2, <2>3 DEF ApplierHandWrite
  <1>4. QED
    BY <1>1, <1>2, <1>3 DEF RowsInv, DecisionHasRow

LEMMA HandMoves ==
  ASSUME TypeOK, RowsInv, [Next]_vars, NEW h \in Hands
  PROVE  HandMove(h)
  <1>1. handStatus \in [Hands -> HandStatus]
    BY DEF TypeOK, StoreTypeOK
  <1> USE <1>1 DEF HandMove, SetHand, HandExists, TerminalHandStatus
  <1>2. CASE PersistHandExecution
    BY <1>2 DEF PersistHandExecution, TypeOK, SchedTypeOK
  <1>3. CASE MarkTaskDispatchFailed
    BY <1>3 DEF MarkTaskDispatchFailed, TypeOK, SchedTypeOK, RowsInv, PassHasRow
  <1>4. CASE \E r \in Requests : IngestResult(r) \/ IngestMergeConflict(r)
    <2>1. PICK r \in Requests : IngestResult(r) \/ IngestMergeConflict(r)
      BY <1>4
    <2>2. handStatus[ingest[r].cb.hand] # "none"
      BY <2>1 DEF RowsInv, RequestHasRow, IngestResult, IngestMergeConflict, Ingestible,
         Fresh
    <2>3. QED
      BY <2>1, <2>2 DEF IngestResult, IngestMergeConflict, SettleHand
  <1>5. CASE SettleTerminal
    <2>1. handStatus[obs.hand] # "none"
      BY <1>5 DEF SettleTerminal, RowsInv, RequestHasRow
    <2>2. QED
      BY <1>5, <2>1 DEF SettleTerminal, SettledStatus, ObsHand
  <1>6. CASE PatchRunning
    BY <1>6 DEF PatchRunning
  <1>7. CASE WriteHand
    BY <1>7 DEF WriteHand, Protected, RowsInv, RequestHasRow, handVars
  <1>8. CASE OperatorHandWrite
    BY <1>8 DEF OperatorHandWrite, PauseRun, CancelRun, CancelExecutorJob,
       MarkActiveCancelRequested, CancelRequested
  <1>9. CASE \E a \in Appliers : ApplierHandWrite(a)
    <2>1. PICK a \in Appliers : ApplierHandWrite(a)
      BY <1>9
    <2>2. CASE RetrySameTask(a) /\ ~ NamesHand(Dec(a))
      BY <2>2 DEF RetrySameTask
    <2>3. CASE RetrySameTask(a) => NamesHand(Dec(a))
      <3>1. handStatus[DecHand(Dec(a))] # "none"
        BY <2>1, <2>3, RetiredRowExists
      <3>2. QED
        BY <2>1, <2>3, <3>1 DEF ApplierHandWrite, RetrySameTask, ReprovisionHand,
           RequeueTask
    <2>4. QED
      BY <2>2, <2>3
  <1>10. QED
    BY <1>2, <1>3, <1>4, <1>5, <1>6, <1>7, <1>8, <1>9, HandWriters DEF HandWrite

(* Rows are never deleted. *)
LEMMA RowsStay ==
  ASSUME TypeOK, RowsInv, [Next]_vars, NEW h \in Hands, HandExists(h)
  PROVE  HandExists(h)'
  BY HandMoves DEF HandMove, HandExists

(* Only a pass inserts rows, at the attempt number it read. *)
LEMMA RowsOfPassOnly ==
  ASSUME TypeOK, RowsInv, [Next]_vars, ~ PersistHandExecution, NEW h \in Hands
  PROVE  HandExists(h)' <=> HandExists(h)
  BY HandMoves DEF HandMove, HandExists

-----------------------------------------------------------------------------
(* The invariant is inductive. *)

LEMMA PassKeepsRow ==
  ASSUME TypeOK, RowsInv, [Next]_vars
  PROVE  PassHasRow'
  <1>1. /\ sched.hand \in Hands
        /\ sched.hand = <<sched.hand[1], sched.hand[2]>>
        /\ sched.hand[1] \in Tasks /\ sched.hand[2] \in Attempts
    BY DEF TypeOK, SchedTypeOK, Hands
  <1>2. CASE PersistHandExecution
    <2>1. HandExists(sched.hand)'
      BY <1>1, <1>2 DEF PersistHandExecution, SetHand, HandExists, TypeOK, StoreTypeOK
    <2>2. QED
      BY <1>2, <2>1 DEF PassHasRow, PersistHandExecution, TypeOK, SchedTypeOK
  <1>3. CASE ~ PersistHandExecution
    <2>1. \A t \in Tasks, n \in Attempts : IsNextAttempt(t, n)' <=> IsNextAttempt(t, n)
      BY <1>3, RowsOfPassOnly DEF IsNextAttempt, Hands
    <2>2. CASE UNCHANGED sched
      BY <1>1, <2>1, <2>2, RowsStay DEF PassHasRow, RowsInv
    <2>3. CASE sched'.pc \in {"idle", "pass", "decide", "release"}
      BY <2>3 DEF PassHasRow
    <2>4. CASE sched.pc = "submit" /\ sched'.pc \in {"finalize", "reject"}
               /\ sched'.hand = sched.hand
      BY <1>1, <2>4, RowsStay DEF PassHasRow, RowsInv
    <2>5. CASE \E t \in Tasks, n \in Attempts : ClaimRunnableTask(t, n)
      <3>1. PICK t \in Tasks, n \in Attempts : ClaimRunnableTask(t, n)
        BY <2>5
      <3>2. /\ IsNextAttempt(t, n)
            /\ sched'.pc = "prepare"
            /\ sched'.hand[1] = t /\ sched'.hand[2] = n
        BY <3>1 DEF ClaimRunnableTask, TypeOK, SchedTypeOK
      <3>3. QED
        BY <2>1, <3>2 DEF PassHasRow
    <2>6. QED
      <3>1. CASE Scheduler
        <4> USE DEF TypeOK, SchedTypeOK
        <4>1. CASE BeginPass
          <5>1. sched'.pc = "pass"
            BY <4>1 DEF BeginPass, IdleSched
          <5>2. QED
            BY <2>3, <5>1
        <4>2. CASE AbortPass
          BY <2>3, <4>2 DEF AbortPass, IdleSched
        <4>3. CASE \E t \in Tasks : SkipTask(t) \/ BlockMissingWorkspaceContract(t)
          BY <2>3, <4>3 DEF SkipTask, BlockMissingWorkspaceContract
        <4>4. CASE EndDispatch
          BY <2>3, <4>4 DEF EndDispatch
        <4>5. CASE \/ \E kind \in PreparationKinds : PreparationFails(kind)
                   \/ DecidePreparationFailure
          BY <2>3, <4>5 DEF PreparationFails, DecidePreparationFailure
        <4>6. CASE SubmitAccepted \/ SubmitFails
          BY <2>4, <4>6 DEF SubmitAccepted, SubmitFails
        <4>7. QED
          BY <1>3, <2>5, <3>1, <4>1, <4>2, <4>3, <4>4, <4>5, <4>6 DEF
             Scheduler, SchedulerStep, PassStep, PassFails, EndPass, ReleasePreparation,
             FinalizeSubmitted,
             IgnoreDispatchFailure, MarkTaskDispatchFailed
      <3>2. CASE Crash
        BY <2>3, <3>2 DEF Crash, IdleSched
      <3>3. QED
        BY <2>2, <3>1, <3>2 DEF Next, vars, processVars, Tork, Callback, Observer,
           Heartbeat, Operator, Applier
  <1>4. QED
    BY <1>2, <1>3

(* Only these touch Tork's jobs and callbacks. *)
LEMMA TorkWriters ==
  ASSUME [Next]_vars
  PROVE  \/ TorkStep
         \/ SubmitAccepted
         \/ SubmitFails
         \/ \E a \in Appliers : CancelReprovisionedJob(a) \/ CancelRequeuedJob(a)
         \/ UNCHANGED torkVars
  <1>1. CASE Tork
    BY <1>1 DEF Tork
  <1>2. CASE Scheduler
    BY <1>2 DEF Scheduler, SchedulerStep, PassStep, PassFails, BeginPass, SkipTask,
       BlockMissingWorkspaceContract, ClaimRunnableTask, PreparationFails,
       DecidePreparationFailure, ReleasePreparation, PersistHandExecution,
       FinalizeSubmitted, IgnoreDispatchFailure, MarkTaskDispatchFailed, EndPass
  <1>3. CASE \E r \in Requests : Callback(r)
    BY <1>3 DEF Callback, RequestStep, RequestFails, Preflight, IngestDuplicate,
       IngestForCancelledRun, IngestIgnored, IngestResult, IngestMergeConflict,
       ResolveTerminalWithoutCallback, FinalizeCallbackLifecycle
  <1>4. CASE Observer
    BY <1>4 DEF Observer, ObserverStep, SweepFails, ReadRow, PollTerminal, SettleTerminal,
       SettleOverwrittenByCallback, PatchRunning, PatchRunningTask, TimedOut,
       NothingToReport, ObserveException, DecideException
  <1>5. CASE Heartbeat
    BY <1>5 DEF Heartbeat, HeartbeatStep, HeartbeatFails, ReadHand, WriteHand, MarkTaskRunning,
       MarkRunRunning
  <1>6. CASE Operator
    BY <1>6 DEF Operator, LifecycleStep, StartRunScheduling, PauseRun, ResumeRun,
       CancelRun, CancelExecutorJob, CommandTask, DecideApproval
  <1>7. CASE \E a \in Appliers : Applier(a)
    BY <1>7 DEF Applier, ApplierStep, ApplyFails, ClaimDecision, StartExecution,
       CheckCompletedTask, TerminateDecision, ExecutionAlreadyFinished,
       SupersedeInTransaction, RetrySameTask, RecoverSession, BlockRollback,
       ObserveOnly, BlockForOperator, ReprovisionHand, StageRequeue, SupersedeRequeue,
       RequeueTask, ResolveRequeued, CompleteRequeue, FinalizeDecision
  <1>8. CASE Crash
    BY <1>8 DEF Crash
  <1>9. CASE UNCHANGED vars
    BY <1>9 DEF vars
  <1>10. QED
    BY <1>1, <1>2, <1>3, <1>4, <1>5, <1>6, <1>7, <1>8, <1>9 DEF Next

LEMMA TorkKeepsRow ==
  ASSUME TypeOK, RowsInv, [Next]_vars
  PROVE  TorkHasRow'
  <1> USE DEF TypeOK, TorkTypeOK, torkVars
  <1>1. \A h \in Hands : job'[h] # "none" => job[h] # "none" \/ HandExists(h)
    <2>1. CASE TorkStep
      BY <2>1 DEF TorkStep, StartJob, PostCallback, EndJob
    <2>2. CASE SubmitAccepted \/ SubmitFails
      BY <2>2 DEF SubmitAccepted, SubmitFails, SubmitJob, RowsInv, PassHasRow,
         SchedTypeOK
    <2>3. CASE \E a \in Appliers : CancelReprovisionedJob(a) \/ CancelRequeuedJob(a)
      BY <2>3 DEF CancelReprovisionedJob, CancelRequeuedJob, CancelBestEffort,
         CancelledJob, LiveJob
    <2>4. QED
      BY <2>1, <2>2, <2>3, TorkWriters
  <1>2. \A c \in sent' : c \in sent \/ (c.hand \in Hands /\ job[c.hand] # "none")
    <2>1. CASE TorkStep
      BY <2>1 DEF TorkStep, StartJob, PostCallback, EndJob
    <2>2. CASE UNCHANGED sent
      BY <2>2
    <2>3. QED
      BY <2>1, <2>2, TorkWriters DEF SubmitAccepted, SubmitFails,
         CancelReprovisionedJob, CancelRequeuedJob
  <1>3. sent \subseteq Callbacks
    OBVIOUS
  <1>4. QED
    BY <1>1, <1>2, <1>3, RowsStay DEF TorkHasRow, RowsInv, Callbacks

LEMMA RequestKeepsRow ==
  ASSUME TypeOK, RowsInv, [Next]_vars
  PROVE  RequestHasRow'
  <1>1. ASSUME NEW r \in Requests, ingest'[r].pc # "idle"
        PROVE  HandExists(ingest[r].cb.hand)'
    <2>1. \/ ingest[r].pc # "idle" /\ ingest'[r].cb = ingest[r].cb
          \/ ingest'[r].cb \in sent
      <3> USE DEF TypeOK, IngestTypeOK
      <3>1. CASE \E q \in Requests : Callback(q)
        BY <1>1, <3>1 DEF Callback, RequestStep, RequestFails, Preflight, IngestDuplicate, Fresh,
           IngestForCancelledRun, IngestIgnored, IngestResult, IngestMergeConflict,
           Ingestible, ResolveTerminalWithoutCallback, FinalizeCallbackLifecycle,
           GoTo, EndRequest, IdleIngest
      <3>2. CASE Crash
        BY <1>1, <3>2 DEF Crash, IdleIngest
      <3>3. CASE UNCHANGED ingest
        BY <1>1, <3>3
      <3>4. QED
        BY <3>1, <3>2, <3>3 DEF Next, vars, processVars, Tork, Scheduler, Observer,
           Heartbeat, Operator, Applier
    <2>2. \A h \in Hands : HandExists(h) => handStatus'[h] # "none"
      BY RowsStay DEF HandExists
    <2>3. /\ ingest[r].cb.hand \in Hands
          /\ \A c \in sent : c.hand \in Hands
      BY DEF TypeOK, IngestTypeOK, TorkTypeOK, Callbacks
    <2>4. QED
      BY <2>1, <2>2, <2>3 DEF RowsInv, RequestHasRow, TorkHasRow, HandExists
  <1>2. ASSUME obs'.pc # "idle"
        PROVE  HandExists(obs.hand)'
    <2>1. \/ obs.pc # "idle" /\ obs'.hand = obs.hand
          \/ HandExists(obs'.hand)
      <3> USE DEF TypeOK, ObsTypeOK
      <3>1. CASE Observer
        <4>1. CASE \E h \in Hands : ReadRow(h)
          BY <4>1 DEF ReadRow, IdleObs, ActiveHandStatus, HandExists
        <4>2. CASE EndObservation
          BY <1>2, <4>2 DEF EndObservation, IdleObs
        <4>3. CASE obs.pc # "idle" /\ obs'.hand = obs.hand
          BY <4>3
        <4>4. QED
          BY <3>1, <4>1, <4>2, <4>3 DEF Observer, ObserverStep, SweepFails, PollTerminal,
             SettleTerminal, SettleOverwrittenByCallback, PatchRunning,
             PatchRunningTask, TimedOut, NothingToReport, ObserveException,
             DecideException, ObsGoTo
      <3>2. CASE Crash
        BY <1>2, <3>2 DEF Crash, IdleObs
      <3>3. CASE UNCHANGED obs
        BY <1>2, <3>3
      <3>4. QED
        BY <3>1, <3>2, <3>3 DEF Next, vars, processVars, Tork, Scheduler, Callback,
           Heartbeat, Operator, Applier
    <2>2. obs'.hand \in Hands
      BY NextTypes DEF TypeOK, ObsTypeOK
    <2>3. QED
      BY <2>1, <2>2, RowsStay DEF RowsInv, RequestHasRow, HandExists
  <1>3. ASSUME beat'.pc # "idle"
        PROVE  HandExists(beat.hand)'
    <2>1. \/ beat.pc # "idle" /\ beat'.hand = beat.hand
          \/ HandExists(beat'.hand)
      <3> USE DEF TypeOK, BeatTypeOK
      <3>1. CASE Heartbeat
        BY <1>3, <3>1 DEF Heartbeat, HeartbeatStep, HeartbeatFails, ReadHand, WriteHand,
           MarkTaskRunning, MarkRunRunning, BeatGoTo, EndBeat, IdleBeat
      <3>2. CASE Crash
        BY <1>3, <3>2 DEF Crash, IdleBeat
      <3>3. CASE UNCHANGED beat
        BY <1>3, <3>3
      <3>4. QED
        BY <3>1, <3>2, <3>3 DEF Next, vars, processVars, Tork, Scheduler, Callback,
           Observer, Operator, Applier
    <2>2. beat'.hand \in Hands
      BY NextTypes DEF TypeOK, BeatTypeOK
    <2>3. QED
      BY <2>1, <2>2, RowsStay DEF RowsInv, RequestHasRow, HandExists
  <1>4. QED
    BY <1>1, <1>2, <1>3 DEF RequestHasRow

(* The actions that write decisions, by what they do to the rows. *)
LEMMA DecisionWriters ==
  ASSUME TypeOK, RowsInv, [Next]_vars, NEW d \in Decisions, decisions'[d] # "none",
         d[1][3] \in RowKinds
  PROVE  decisions[d] # "none" \/ HandExists(DecHand(d))
  <1> USE DEF TypeOK, StoreTypeOK, storeVars, recoveryVars
  <1>1. ASSUME NEW e, NEW path, decisions' = WithDecision(e, path),
               e[3] \in RowKinds => HandExists(HandOf(e))
        PROVE  decisions[d] # "none" \/ HandExists(DecHand(d))
    <2>1. CASE d = <<e, path>>
      BY <1>1, <2>1 DEF DecHand
    <2>2. CASE d # <<e, path>>
      BY <1>1, <2>2 DEF WithDecision
    <2>3. QED
      BY <2>1, <2>2
  <1>2. CASE Scheduler
    <2>1. CASE DecidePreparationFailure
      BY <1>1, <2>1 DEF DecidePreparationFailure, RowKinds, SchedTypeOK,
         PreparationKinds
    <2>2. CASE MarkTaskDispatchFailed
      <3>1. HandOf(<<sched.hand[1], sched.hand[2], "hand_submit_failed">>) = sched.hand
        BY DEF HandOf, SchedTypeOK, Hands
      <3>2. HandExists(sched.hand)
        BY <2>2 DEF MarkTaskDispatchFailed, RowsInv, PassHasRow
      <3>3. QED
        BY <1>1, <2>2, <3>1, <3>2 DEF MarkTaskDispatchFailed, ObserveAndDecide
    <2>3. CASE UNCHANGED decisions
      BY <2>3
    <2>4. QED
      BY <1>2, <2>1, <2>2, <2>3 DEF Scheduler, SchedulerStep, PassStep, PassFails, BeginPass,
         SkipTask,
         BlockMissingWorkspaceContract, ClaimRunnableTask, PreparationFails,
         ReleasePreparation, PersistHandExecution, SubmitAccepted, SubmitFails,
         FinalizeSubmitted, IgnoreDispatchFailure, EndPass
  <1>3. CASE \E r \in Requests : Callback(r)
    <2>1. PICK r \in Requests : Callback(r)
      BY <1>3
    <2>2. ASSUME ingest[r].pc = "ingest", NEW kind
          PROVE  LET h == ingest[r].cb.hand
                 IN HandExists(HandOf(<<h[1], h[2], kind>>))
      <3>1. ingest[r].cb.hand \in Hands /\ HandExists(ingest[r].cb.hand)
        BY <2>2 DEF IngestTypeOK, Callbacks, RowsInv, RequestHasRow
      <3>2. \A h \in Hands : HandOf(<<h[1], h[2], kind>>) = h
        BY DEF Hands, HandOf
      <3>3. QED
        BY <3>1, <3>2
    <2>3. CASE \E kind \in {"stale_callback", "late_callback"} : IngestIgnored(r, kind)
      BY <1>1, <2>2, <2>3 DEF IngestIgnored, Fresh, ObserveAndDecide
    <2>4. CASE IngestMergeConflict(r)
      BY <1>1, <2>2, <2>4 DEF IngestMergeConflict, Ingestible, Fresh, ObserveAndDecide
    <2>5. CASE UNCHANGED decisions
      BY <2>5
    <2>6. QED
      BY <2>1, <2>3, <2>4, <2>5 DEF Callback, RequestStep, RequestFails, Preflight, IngestDuplicate,
         IngestForCancelledRun, IngestResult, ResolveTerminalWithoutCallback,
         FinalizeCallbackLifecycle
  <1>4. CASE Observer
    <2>1. CASE DecideException
      <3>1. HandOf(ObsException) = obs.hand
        BY DEF HandOf, ObsException, ObsHand, ObsTypeOK, Hands
      <3>2. HandExists(obs.hand)
        BY <2>1 DEF DecideException, RowsInv, RequestHasRow
      <3>3. QED
        BY <1>1, <2>1, <3>1, <3>2 DEF DecideException
    <2>2. CASE UNCHANGED decisions
      BY <2>2
    <2>3. QED
      BY <1>4, <2>1, <2>2 DEF Observer, ObserverStep, SweepFails, ReadRow, PollTerminal,
         SettleTerminal, SettleOverwrittenByCallback, PatchRunning, PatchRunningTask,
         TimedOut, NothingToReport, ObserveException
  <1>5. CASE Operator
    <2>1. CASE \E t \in Tasks, c \in Attempts, path \in CommandPaths : CommandTask(t,
       c, path)
      BY <1>1, <2>1 DEF CommandTask, RowKinds
    <2>2. CASE \E x \in Decisions, approved \in BOOLEAN : DecideApproval(x, approved)
      BY <2>2 DEF DecideApproval
    <2>3. CASE UNCHANGED decisions
      BY <2>3
    <2>4. QED
      BY <1>5, <2>1, <2>2, <2>3 DEF Operator, LifecycleStep, StartRunScheduling,
         PauseRun, ResumeRun, CancelRun, CancelExecutorJob
  <1>6. CASE \E a \in Appliers : Applier(a)
    <2>1. PICK a \in Appliers : Applier(a)
      BY <1>6
    <2>2. applier[a].pc # "idle" => decisions[Dec(a)] # "none"
      BY DEF RowsInv, DecisionHasRow
    <2>3. ASSUME NEW x, NEW status, SetDecision(x, status),
                 x \in Decisions => decisions[x] # "none"
          PROVE  decisions[d] # "none"
      BY <2>3 DEF SetDecision
    <2>4. CASE \E x \in Decisions : ClaimDecision(a, x)
      BY <2>3, <2>4 DEF ClaimDecision
    <2>5. CASE applier[a].pc # "idle" /\ \E status : SetDecision(Dec(a), status)
      BY <2>2, <2>3, <2>5
    <2>6. CASE UNCHANGED decisions
      BY <2>6
    <2>7. QED
      BY <2>1, <2>4, <2>5, <2>6 DEF Applier, ApplierStep, ApplyFails, StartExecution,
         CheckCompletedTask, TerminateDecision, ExecutionAlreadyFinished,
         SupersedeInTransaction, RetrySameTask, RecoverSession, BlockRollback,
         ObserveOnly, BlockForOperator, ReprovisionHand, CancelReprovisionedJob,
         StageRequeue, CancelRequeuedJob, SupersedeRequeue, RequeueTask,
         ResolveRequeued, CompleteRequeue, FinalizeDecision, ApplierAt, Applies,
         OneTransaction, Requeues, Succeed, FinalizeApplied, TransitionTerminal
  <1>7. QED
    BY <1>2, <1>3, <1>4, <1>5, <1>6 DEF Next, vars, Tork, TorkStep, StartJob,
       PostCallback, EndJob, Heartbeat, HeartbeatStep, HeartbeatFails, ReadHand, WriteHand,
       MarkTaskRunning, MarkRunRunning, Crash

(* Decisions are never deleted. *)
LEMMA DecisionsStay ==
  ASSUME TypeOK, [Next]_vars, NEW d \in Decisions, decisions[d] # "none"
  PROVE  decisions'[d] # "none"
  <1> USE DEF TypeOK, StoreTypeOK, storeVars, recoveryVars
  <1>1. ASSUME NEW e, NEW path, decisions' = WithDecision(e, path)
        PROVE  decisions'[d] # "none"
    BY <1>1 DEF WithDecision
  <1>2. CASE Scheduler
    BY <1>1, <1>2 DEF Scheduler, SchedulerStep, PassStep, PassFails, BeginPass, SkipTask,
       BlockMissingWorkspaceContract, ClaimRunnableTask, PreparationFails,
       DecidePreparationFailure, ReleasePreparation, PersistHandExecution,
       SubmitAccepted, SubmitFails, FinalizeSubmitted, IgnoreDispatchFailure,
       MarkTaskDispatchFailed, EndPass, ObserveAndDecide
  <1>3. CASE \E r \in Requests : Callback(r)
    BY <1>1, <1>3 DEF Callback, RequestStep, RequestFails, Preflight, IngestDuplicate,
       IngestForCancelledRun, IngestIgnored, IngestResult, IngestMergeConflict,
       ResolveTerminalWithoutCallback, FinalizeCallbackLifecycle, ObserveAndDecide
  <1>4. CASE Observer
    BY <1>1, <1>4 DEF Observer, ObserverStep, SweepFails, ReadRow, PollTerminal, SettleTerminal,
       SettleOverwrittenByCallback, PatchRunning, PatchRunningTask, TimedOut,
       NothingToReport, ObserveException, DecideException
  <1>5. CASE Operator
    BY <1>1, <1>5 DEF Operator, LifecycleStep, StartRunScheduling, PauseRun, ResumeRun,
       CancelRun, CancelExecutorJob, CommandTask, DecideApproval
  <1>6. CASE \E a \in Appliers : Applier(a)
    <2>1. PICK a \in Appliers : Applier(a)
      BY <1>6
    <2>2. ASSUME NEW x, NEW status, SetDecision(x, status), status # "none"
          PROVE  decisions'[d] # "none"
      BY <2>2 DEF SetDecision
    <2>3. ASSUME NEW x, FinalizeApplied(x) \/ TransitionTerminal(x)
          PROVE  decisions'[d] # "none"
      BY <2>2, <2>3 DEF FinalizeApplied, TransitionTerminal, CompletedTaskOutcome,
         TerminalDecisionStatus
    <2>4. CASE (\E x \in Decisions : ClaimDecision(a,
       x)) \/ BlockForOperator(a) \/ BlockRollback(a)
      BY <2>2, <2>4 DEF ClaimDecision, BlockForOperator, BlockRollback
    <2>5. CASE UNCHANGED decisions
      BY <2>5
    <2>6. QED
      BY <2>1, <2>3, <2>4, <2>5 DEF Applier, ApplierStep, ApplyFails, StartExecution,
         CheckCompletedTask, TerminateDecision, ExecutionAlreadyFinished,
         SupersedeInTransaction, RetrySameTask, RecoverSession, BlockRollback,
         ObserveOnly, ReprovisionHand, CancelReprovisionedJob, StageRequeue,
         CancelRequeuedJob, SupersedeRequeue, RequeueTask, ResolveRequeued,
            CompleteRequeue, FinalizeDecision, Succeed
  <1>7. QED
    BY <1>2, <1>3, <1>4, <1>5, <1>6 DEF Next, vars, Tork, TorkStep, StartJob,
       PostCallback, EndJob, Heartbeat, HeartbeatStep, HeartbeatFails, ReadHand, WriteHand,
       MarkTaskRunning, MarkRunRunning, Crash

LEMMA DecisionKeepsRow ==
  ASSUME TypeOK, RowsInv, [Next]_vars
  PROVE  DecisionHasRow'
  <1>1. ASSUME NEW d \in Decisions, decisions'[d] # "none", d[1][3] \in RowKinds
        PROVE  HandExists(DecHand(d))'
    <2>1. HandExists(DecHand(d))
      BY <1>1, DecisionWriters DEF RowsInv, DecisionHasRow
    <2>2. DecHand(d) \in Hands
      BY DEF Decisions, Exceptions, DecHand, HandOf, Hands
    <2>3. QED
      BY <2>1, <2>2, RowsStay DEF DecHand
  <1>2. ASSUME NEW a \in Appliers
        PROVE  /\ applier'[a].pc # "idle" => decisions'[applier'[a].dec] # "none"
               /\ applier'[a].pc \in {"cancel", "requeue"}
                     => DecPath(applier'[a].dec) = "requeue-hand-execution"
    <2> DEFINE Kept == /\ applier[a].pc # "idle"
                       /\ applier'[a].dec = applier[a].dec
                       /\ applier'[a].pc \in {"cancel", "requeue"}
                             => DecPath(Dec(a)) = "requeue-hand-execution"
    <2>1. \/ applier'[a].pc = "idle"
          \/ \E d \in Decisions : ClaimDecision(a, d)
          \/ Kept
      <3> USE DEF TypeOK, ApplierTypeOK
      <3>1. CASE \E b \in Appliers : Applier(b)
        <4>1. PICK b \in Appliers : Applier(b)
          BY <3>1
        <4>2. CASE b # a
          <5>1. applier'[a] = applier[a]
            BY <4>1, <4>2 DEF Applier, ApplierStep, ApplyFails, ClaimDecision, StartExecution,
               CheckCompletedTask, TerminateDecision, ExecutionAlreadyFinished,
               SupersedeInTransaction, RetrySameTask, RecoverSession, BlockRollback,
               ObserveOnly, BlockForOperator, ReprovisionHand, CancelReprovisionedJob,
               StageRequeue, CancelRequeuedJob, SupersedeRequeue, RequeueTask,
               ResolveRequeued, CompleteRequeue, FinalizeDecision, ApplierGoTo, EndApply
          <5>2. QED
            BY <5>1 DEF RowsInv, DecisionHasRow, Dec
        <4>3. CASE b = a /\ (StageRequeue(a) \/ CancelRequeuedJob(a))
          BY <4>3 DEF StageRequeue, CancelRequeuedJob, Requeues, ApplierAt, ApplierGoTo,
             EndApply, IdleApplier, RowsInv, DecisionHasRow, Dec
        <4>4. CASE EndApply(a)
          BY <4>4 DEF EndApply, IdleApplier
        <4>5. ASSUME NEW pc \in ApplierPc \ {"cancel", "requeue"}, ApplierGoTo(a, pc),
                     applier[a].pc # "idle"
              PROVE  Kept
          BY <4>5 DEF ApplierGoTo
        <4>6. QED
          BY <4>1, <4>2, <4>3, <4>4, <4>5 DEF Applier, ApplierStep, ApplyFails, StartExecution,
             CheckCompletedTask, TerminateDecision, ExecutionAlreadyFinished,
             SupersedeInTransaction, RetrySameTask, RecoverSession, BlockRollback,
             ObserveOnly, BlockForOperator, ReprovisionHand, CancelReprovisionedJob,
             SupersedeRequeue, RequeueTask, ResolveRequeued, CompleteRequeue,
             FinalizeDecision, ApplierAt, Applies, OneTransaction, Requeues, ApplierPc
      <3>2. CASE Crash
        BY <3>2 DEF Crash, IdleApplier
      <3>3. CASE UNCHANGED applier
        BY <3>3 DEF RowsInv, DecisionHasRow, Dec
      <3>4. QED
        BY <3>1, <3>2, <3>3 DEF Next, vars, processVars, Tork, Scheduler, Callback,
           Observer, Heartbeat, Operator
    <2>2. CASE \E d \in Decisions : ClaimDecision(a, d)
      BY <2>2, DecisionsStay DEF ClaimDecision, TypeOK, ApplierTypeOK
    <2>3. CASE Kept
      BY <2>3, DecisionsStay DEF RowsInv, DecisionHasRow, Dec, TypeOK, ApplierTypeOK
    <2>4. QED
      BY <2>1, <2>2, <2>3
  <1>3. QED
    BY <1>1, <1>2 DEF DecisionHasRow, Dec

LEMMA RowsInductive ==
  /\ Init => RowsInv
  /\ TypeOK /\ RowsInv /\ [Next]_vars => RowsInv'
  <1>1. ASSUME Init PROVE RowsInv
    <2> USE <1>1 DEF Init
    <2>1. PassHasRow
      BY DEF SchedInit, IdleSched, PassHasRow
    <2>2. TorkHasRow
      BY DEF TorkInit, TorkHasRow
    <2>3. RequestHasRow
      BY DEF IngestInit, IdleIngest, ObsInit, IdleObs, BeatInit, IdleBeat, RequestHasRow
    <2>4. DecisionHasRow
      BY DEF StoreInit, ApplierInit, IdleApplier, DecisionHasRow
    <2>5. QED
      BY <2>1, <2>2, <2>3, <2>4 DEF RowsInv
  <1>2. ASSUME TypeOK, RowsInv, [Next]_vars PROVE RowsInv'
    BY <1>2, PassKeepsRow, TorkKeepsRow, RequestKeepsRow, DecisionKeepsRow DEF RowsInv
  <1>3. QED
    BY <1>1, <1>2

(* RowsInv: whatever a pass, a job, a callback, a heartbeat, the observer  *)
(* or a decision speaks of has a hand_execution row.                       *)
THEOREM RowsExist == Spec => []RowsInv
  BY RowsInductive, TypeCorrect, PTL DEF Spec

-----------------------------------------------------------------------------
(* SettledAttemptStaysSettled: no heartbeat, observation or cancel request *)
(* in flight revives a settled attempt, and no pass reissues its number.   *)
THEOREM SettledStays == Spec => SettledAttemptStaysSettled
  <1>1. ASSUME TypeOK, RowsInv, [Next]_vars, NEW h \in Hands,
               handStatus[h] \in TerminalHandStatus
        PROVE  handStatus'[h] \in TerminalHandStatus
    <2>1. HandMove(h)
      BY <1>1, HandMoves
    <2>2. CASE PersistHandExecution /\ h = sched.hand
      BY <1>1, <2>2 DEF PersistHandExecution, RowsInv, PassHasRow, IsNextAttempt,
         HandExists, TerminalHandStatus, TypeOK, SchedTypeOK, Hands
    <2>3. QED
      BY <1>1, <2>1, <2>2 DEF HandMove
  <1>2. TypeOK /\ RowsInv /\ [Next]_vars =>
           [\A h \in Hands : handStatus[h] \in TerminalHandStatus
                                 => handStatus'[h] \in TerminalHandStatus]_vars
    BY <1>1
  <1>3. QED
    BY <1>2, TypeCorrect, RowsExist, PTL DEF Spec, SettledAttemptStaysSettled

-----------------------------------------------------------------------------
(* Dependencies. *)

(* The actions that accept an artifact. *)
LEMMA AcceptedWriters ==
  ASSUME [Next]_vars
  PROVE  \/ \E r \in Requests : IngestResult(r) \/ IngestMergeConflict(r)
         \/ UNCHANGED accepted
  <1> USE DEF storeVars
  <1>1. CASE Tork
    BY <1>1 DEF Tork, TorkStep, StartJob, PostCallback, EndJob
  <1>2. CASE Scheduler
    BY <1>2 DEF Scheduler, SchedulerStep, PassStep, PassFails, BeginPass, SkipTask,
       BlockMissingWorkspaceContract, ClaimRunnableTask, PreparationFails,
       DecidePreparationFailure, ReleasePreparation, PersistHandExecution,
       SubmitAccepted, SubmitFails, FinalizeSubmitted, IgnoreDispatchFailure,
       MarkTaskDispatchFailed, EndPass
  <1>3. CASE \E r \in Requests : Callback(r)
    BY <1>3 DEF Callback, RequestStep, RequestFails, Preflight, IngestDuplicate,
       IngestForCancelledRun, IngestIgnored, ResolveTerminalWithoutCallback,
       FinalizeCallbackLifecycle
  <1>4. CASE Observer
    BY <1>4 DEF Observer, ObserverStep, SweepFails, ReadRow, PollTerminal, SettleTerminal,
       SettleOverwrittenByCallback, PatchRunning, PatchRunningTask, TimedOut,
       NothingToReport, ObserveException, DecideException
  <1>5. CASE Heartbeat
    BY <1>5 DEF Heartbeat, HeartbeatStep, HeartbeatFails, ReadHand, WriteHand, MarkTaskRunning,
       MarkRunRunning
  <1>6. CASE Operator
    BY <1>6 DEF Operator, LifecycleStep, StartRunScheduling, PauseRun, ResumeRun,
       CancelRun, CancelExecutorJob, CommandTask, DecideApproval
  <1>7. CASE \E a \in Appliers : Applier(a)
    BY <1>7 DEF Applier, ApplierStep, ApplyFails, ClaimDecision, StartExecution,
       CheckCompletedTask, TerminateDecision, ExecutionAlreadyFinished,
       SupersedeInTransaction, RetrySameTask, RecoverSession, BlockRollback,
       ObserveOnly, BlockForOperator, ReprovisionHand, CancelReprovisionedJob,
       StageRequeue, CancelRequeuedJob, SupersedeRequeue, RequeueTask, ResolveRequeued,
       CompleteRequeue, FinalizeDecision
  <1>8. CASE Crash
    BY <1>8 DEF Crash
  <1>9. CASE UNCHANGED vars
    BY <1>9 DEF vars
  <1>10. QED
    BY <1>1, <1>2, <1>3, <1>4, <1>5, <1>6, <1>7, <1>8, <1>9 DEF Next

LEMMA AcceptedGrows ==
  ASSUME [Next]_vars
  PROVE  accepted \subseteq accepted'
  BY AcceptedWriters DEF IngestResult, IngestMergeConflict

(* What a pass works on was ready, and stays so. *)
PassIsReady ==
    /\ \A t \in sched.ready : DependenciesReady(t)
    /\ sched.pc = "prepare" => DependenciesReady(sched.hand[1])

LEMMA PassStaysReady ==
  ASSUME TypeOK, PassIsReady, [Next]_vars
  PROVE  PassIsReady'
  <1> USE DEF TypeOK, SchedTypeOK
  <1>1. \A t : DependenciesReady(t) => DependenciesReady(t)'
    BY AcceptedGrows DEF DependenciesReady
  <1>2. CASE BeginPass
    <2>1. sched'.ready = ReadyTasks /\ sched'.pc = "pass"
      BY <1>2 DEF BeginPass, IdleSched
    <2>2. QED
      BY <1>1, <2>1 DEF PassIsReady, ReadyTasks
  <1>3. CASE AbortPass
    BY <1>3 DEF AbortPass, IdleSched, PassIsReady
  <1>4. CASE \E t \in Tasks, n \in Attempts : ClaimRunnableTask(t, n)
    <2>1. PICK t \in Tasks, n \in Attempts : ClaimRunnableTask(t, n)
      BY <1>4
    <2>2. /\ t \in sched.ready
          /\ sched'.ready \subseteq sched.ready
          /\ sched'.hand[1] = t
      BY <2>1 DEF ClaimRunnableTask
    <2>3. DependenciesReady(t) /\ \A u \in sched'.ready : DependenciesReady(u)
      BY <2>2 DEF PassIsReady
    <2>4. QED
      BY <1>1, <2>2, <2>3 DEF PassIsReady
  <1>5. CASE /\ sched'.ready \subseteq sched.ready
             /\ sched'.pc = "prepare" => sched.pc = "prepare" /\ sched'.hand = sched.hand
    <2>1. /\ \A u \in sched'.ready : DependenciesReady(u)
          /\ sched'.pc = "prepare" => DependenciesReady(sched'.hand[1])
      BY <1>5 DEF PassIsReady
    <2>2. QED
      BY <1>1, <2>1 DEF PassIsReady
  <1>6. QED
    <2>1. CASE Scheduler
      BY <1>2, <1>3, <1>4, <1>5, <2>1 DEF Scheduler, SchedulerStep, PassStep, PassFails, SkipTask,
         BlockMissingWorkspaceContract, PreparationFails, DecidePreparationFailure,
         ReleasePreparation, PersistHandExecution, SubmitAccepted, SubmitFails,
         FinalizeSubmitted, IgnoreDispatchFailure, MarkTaskDispatchFailed, EndPass,
         EndDispatch
    <2>2. CASE Crash
      BY <1>3, <2>2 DEF Crash, AbortPass
    <2>3. CASE UNCHANGED sched
      BY <1>5, <2>3
    <2>4. QED
      BY <2>1, <2>2, <2>3 DEF Next, vars, processVars, Tork, Callback, Observer,
         Heartbeat, Operator, Applier

(* DependenciesAccepted: the ready set a pass read at its start is still   *)
(* good when it claims and when it inserts the row, since artifacts are    *)
(* never withdrawn.                                                        *)
THEOREM DependenciesFirst == Spec => []DependenciesAccepted
  <1> DEFINE Inv == PassIsReady /\ DependenciesAccepted
  <1>1. ASSUME Init PROVE Inv
    <2>1. PassIsReady
      BY <1>1 DEF Init, SchedInit, IdleSched, PassIsReady
    <2>2. \A t \in Tasks, n \in Attempts : ~ HandExists(<<t, n>>)
      BY <1>1 DEF Init, StoreInit, HandExists, Hands
    <2>3. ActiveTasks = {}
      BY <1>1 DEF Init, StoreInit, ActiveTasks, ActiveTaskStatus
    <2>4. QED
      BY <2>1, <2>2, <2>3 DEF DependenciesAccepted
  <1>2. ASSUME TypeOK, RowsInv, Inv, [Next]_vars
        PROVE  Inv'
    <2>1. ASSUME NEW t \in Tasks, t \in ActiveTasks'
          PROVE  Deps[t] \subseteq accepted
      <3>1. CASE t \in ActiveTasks
        BY <1>2, <3>1 DEF DependenciesAccepted
      <3>2. CASE t \notin ActiveTasks
        <4>1. \E n \in Attempts : ClaimRunnableTask(t, n)
          BY <1>2, <2>1, <3>2, TaskMoves DEF TaskMove, ActiveTasks
        <4>2. QED
          BY <1>2, <4>1 DEF ClaimRunnableTask, PassIsReady, DependenciesReady
      <3>3. QED
        BY <3>1, <3>2
    <2>2. ASSUME NEW t \in Tasks, NEW n \in Attempts, HandExists(<<t, n>>)'
          PROVE  Deps[t] \subseteq accepted
      <3>1. CASE HandExists(<<t, n>>)
        BY <1>2, <3>1 DEF DependenciesAccepted
      <3>2. CASE ~ HandExists(<<t, n>>)
        <4>1. PersistHandExecution /\ <<t, n>> = sched.hand
          BY <1>2, <2>2, <3>2, HandMoves DEF HandMove, HandExists, Hands
        <4>2. QED
          BY <1>2, <4>1 DEF PersistHandExecution, PassIsReady, DependenciesReady
      <3>3. QED
        BY <3>1, <3>2
    <2>3. DependenciesAccepted'
      BY <1>2, <2>1, <2>2, AcceptedGrows DEF DependenciesAccepted
    <2>4. QED
      BY <1>2, <2>3, PassStaysReady
  <1>3. QED
    BY <1>1, <1>2, TypeCorrect, RowsExist, PTL DEF Spec

-----------------------------------------------------------------------------
(* Refinement. *)

Issued == {h \in Hands : HandExists(h)}
Ended == {h \in Hands : handStatus[h] \in TerminalHandStatus}

(* A step that writes existing rows only issues no attempt, and no attempt *)
(* ever starts again.                                                      *)
LEMMA RowsWritten ==
  ASSUME TypeOK, RowsInv, [Next]_vars, ~ PersistHandExecution
  PROVE  Issued' = Issued /\ Ended \subseteq Ended'
  <1>1. Issued' = Issued
    BY RowsOfPassOnly DEF Issued
  <1>2. \A h \in Hands : handStatus[h] \in TerminalHandStatus
                            => handStatus'[h] \in TerminalHandStatus
    BY HandMoves DEF HandMove
  <1>3. QED
    BY <1>1, <1>2 DEF Ended

(* Of a step that writes one row, the row's attempt may end. *)
LEMMA OneRowEnds ==
  ASSUME TypeOK, RowsInv, [Next]_vars, ~ PersistHandExecution, NEW h \in Hands,
         \A g \in Hands \ {h} : handStatus'[g] = handStatus[g]
  PROVE  Ended' = Ended \/ Ended' = Ended \cup {h}
  BY RowsWritten DEF Ended

LEMMA PersistIssues ==
  ASSUME TypeOK, RowsInv, PassIsReady, PersistHandExecution
  PROVE  \E t \in Tasks, n \in Attempts : Contract!Issue(t, n)
  <1>1. PICK t \in Tasks, n \in Attempts : sched.hand = <<t, n>>
    BY DEF TypeOK, SchedTypeOK, Hands
  <1>2. IsNextAttempt(t, n) /\ Deps[t] \subseteq accepted
    BY <1>1 DEF PersistHandExecution, RowsInv, PassHasRow, PassIsReady,
       DependenciesReady
  <1>3. \A m \in Attempts : <<t, m>> \in Issued <=> m < n
    BY <1>2 DEF IsNextAttempt, Issued, Hands
  <1>4. handStatus' = [handStatus EXCEPT ![<<t, n>>] = "queued"]
    BY <1>1 DEF PersistHandExecution, SetHand
  <1>5. handStatus[<<t, n>>] = "none" /\ <<t, n>> \in Hands
    BY <1>2 DEF IsNextAttempt, HandExists, Hands
  <1>6. Issued' = Issued \cup {<<t, n>>} /\ Ended' = Ended
    BY <1>4, <1>5 DEF Issued, Ended, HandExists, TerminalHandStatus, TypeOK, StoreTypeOK
  <1>7. QED
    BY <1>2, <1>3, <1>6 DEF Contract!Issue, Issued, Ended, PersistHandExecution

LEMMA IngestAccepts ==
  ASSUME TypeOK, RowsInv, [Next]_vars, NEW r \in Requests,
         IngestResult(r) \/ IngestMergeConflict(r)
  PROVE  \E t \in Tasks, n \in Attempts : Contract!Accept(t, n) \/ Contract!End(t, n)
  <1> DEFINE c == ingest[r].cb
  <1>1. PICK t \in Tasks, n \in Attempts : c.hand = <<t, n>>
    BY DEF TypeOK, IngestTypeOK, Callbacks, Hands
  <1>2. /\ ~ PersistHandExecution
        /\ c.hand \in Hands
        /\ HandExists(c.hand)
        /\ ~ StaleAttempt(c.hand)
    <2>1. Ingestible(r) /\ receipts' = receipts \cup {c}
      BY DEF IngestResult, IngestMergeConflict, Receive
    <2>2. ~ PersistHandExecution
      BY <2>1 DEF PersistHandExecution, Ingestible, Fresh
    <2>3. c.hand \in Hands /\ HandExists(c.hand)
      BY <2>1 DEF Ingestible, Fresh, RowsInv, RequestHasRow, TypeOK, IngestTypeOK,
         Callbacks
    <2>4. ~ StaleAttempt(c.hand)
      BY <2>1 DEF Ingestible, IgnoredAs
    <2>5. QED
      BY <2>2, <2>3, <2>4
  <1>3. Ended' = Ended \cup {<<t, n>>} /\ Issued' = Issued
    <2>1. PICK status \in TerminalHandStatus : SettleHand(c.hand, status)
      BY DEF IngestResult, IngestMergeConflict, TerminalHandStatus
    <2>2. handStatus \in [Hands -> HandStatus]
      BY DEF TypeOK, StoreTypeOK
    <2>3. Ended' = Ended \cup {c.hand}
      BY <1>2, <2>1, <2>2 DEF SettleHand, SetHand, Ended
    <2>4. QED
      BY <1>1, <1>2, <2>3, RowsWritten
  <1>4. accepted' = accepted \/ accepted' = accepted \cup {t}
    BY <1>1 DEF IngestResult, IngestMergeConflict
  <1>5. <<t, n>> \in Issued /\ \A m \in Attempts : <<t, m>> \in Issued => m <= n
    BY <1>1, <1>2, StoreAssumption DEF Issued, StaleAttempt, Hands, Attempts
  <1>6. CASE accepted' = accepted
    BY <1>3, <1>5, <1>6 DEF Contract!End, Issued, Ended
  <1>7. CASE accepted' = accepted \cup {t}
    BY <1>3, <1>5, <1>7 DEF Contract!Accept, Contract!Newest, Issued, Ended
  <1>8. QED
    BY <1>4, <1>6, <1>7

LEMMA OtherRowWrites ==
  ASSUME TypeOK, RowsInv, [Next]_vars, HandWrite, ~ PersistHandExecution,
         ~ \E r \in Requests : IngestResult(r) \/ IngestMergeConflict(r),
         UNCHANGED accepted
  PROVE  \/ UNCHANGED <<Issued, Ended, accepted>>
         \/ \E t \in Tasks, n \in Attempts : Contract!End(t, n)
  <1> USE DEF SetHand
  <1>1. ASSUME NEW h \in Hands, HandExists(h),
               \A g \in Hands \ {h} : handStatus'[g] = handStatus[g]
        PROVE  \/ UNCHANGED <<Issued, Ended, accepted>>
               \/ \E t \in Tasks, n \in Attempts : Contract!End(t, n)
    <2>1. PICK t \in Tasks, n \in Attempts : h = <<t, n>>
      BY DEF Hands
    <2>2. <<t, n>> \in Issued
      BY <1>1, <2>1 DEF Issued
    <2>3. Issued' = Issued /\ (Ended' = Ended \/ Ended' = Ended \cup {<<t, n>>})
      BY <1>1, <2>1, OneRowEnds, RowsWritten
    <2>4. QED
      BY <2>2, <2>3 DEF Contract!End, Issued, Ended
  <1>2. handStatus \in [Hands -> HandStatus]
    BY DEF TypeOK, StoreTypeOK
  <1>3. CASE MarkTaskDispatchFailed
    BY <1>1, <1>2, <1>3 DEF MarkTaskDispatchFailed, TypeOK, SchedTypeOK, RowsInv,
       PassHasRow
  <1>4. CASE SettleTerminal \/ PatchRunning
    BY <1>1, <1>2, <1>4 DEF SettleTerminal, PatchRunning, ObsHand, TypeOK, ObsTypeOK,
       RowsInv, RequestHasRow
  <1>5. CASE WriteHand
    BY <1>1, <1>2, <1>5 DEF WriteHand, TypeOK, BeatTypeOK, RowsInv, RequestHasRow,
       handVars
  <1>6. CASE OperatorHandWrite
    <2>1. Ended' = Ended
      BY <1>2, <1>6 DEF OperatorHandWrite, PauseRun, CancelRun, CancelExecutorJob,
         MarkActiveCancelRequested, CancelRequested, Ended, TerminalHandStatus
    <2>2. QED
      BY <2>1, RowsWritten
  <1>7. CASE \E a \in Appliers : ApplierHandWrite(a)
    <2>1. PICK a \in Appliers : ApplierHandWrite(a)
      BY <1>7
    <2>2. CASE RetrySameTask(a) /\ ~ NamesHand(Dec(a))
      BY <2>2, RowsWritten DEF RetrySameTask, Ended
    <2>3. CASE RetrySameTask(a) => NamesHand(Dec(a))
      <3>1. DecHand(Dec(a)) \in Hands /\ HandExists(DecHand(Dec(a)))
        BY <2>1, <2>3, RetiredRowExists DEF TypeOK, ApplierTypeOK, Dec, Decisions,
           Exceptions, DecHand, HandOf, Hands
      <3>2. \A g \in Hands \ {DecHand(Dec(a))} : handStatus'[g] = handStatus[g]
        BY <1>2, <2>1, <2>3 DEF ApplierHandWrite, RetrySameTask, ReprovisionHand,
           RequeueTask
      <3>3. QED
        BY <1>1, <3>1, <3>2
    <2>4. QED
      BY <2>2, <2>3
  <1>8. QED
    BY <1>3, <1>4, <1>5, <1>6, <1>7 DEF HandWrite

(* DispatchContract: the runtime issues attempts in order and after their  *)
(* dependencies, ends each of them once, and accepts artifacts from the    *)
(* newest attempt only.                                                    *)
THEOREM RuntimeImplementsContract == Spec => ImplementsContract
  <1>1. Init => Contract!ContractInit
    BY DEF Init, StoreInit, Contract!ContractInit, HandExists, TerminalHandStatus
  <1>2. ASSUME TypeOK, RowsInv, PassIsReady, [Next]_vars
        PROVE  [Contract!ContractNext]_(Contract!contractVars)
    <2>1. CASE PersistHandExecution
      BY <1>2, <2>1, PersistIssues DEF Contract!ContractNext
    <2>2. CASE \E r \in Requests : IngestResult(r) \/ IngestMergeConflict(r)
      BY <1>2, <2>2, IngestAccepts DEF Contract!ContractNext
    <2>3. CASE /\ HandWrite
               /\ ~ PersistHandExecution
               /\ ~ \E r \in Requests : IngestResult(r) \/ IngestMergeConflict(r)
      BY <1>2, <2>3, OtherRowWrites, AcceptedWriters DEF Contract!ContractNext,
         Contract!contractVars, Issued, Ended
    <2>4. CASE UNCHANGED <<handStatus, accepted>>
      BY <2>4 DEF Contract!contractVars, HandExists
    <2>5. QED
      BY <1>2, <2>1, <2>2, <2>3, <2>4, HandWriters, AcceptedWriters
  <1>3. PassIsReady /\ TypeOK /\ [Next]_vars => PassIsReady'
    BY PassStaysReady
  <1>4. Init => PassIsReady
    BY DEF Init, SchedInit, IdleSched, PassIsReady
  <1>5. QED
    BY <1>1, <1>2, <1>3, <1>4, TypeCorrect, RowsExist, PTL DEF Spec,
       ImplementsContract, Contract!ContractSpec

-----------------------------------------------------------------------------
(* The status of the run.  Seven handlers write it, each in a transaction  *)
(* of its own and most of them from what an earlier transaction saw; none  *)
(* of them brings a cancelled run back.                                    *)

RunWrite ==
    \/ StartRunScheduling
    \/ \E cancelActiveJobs \in BOOLEAN : PauseRun(cancelActiveJobs)
    \/ ResumeRun
    \/ CancelRun
    \/ \E r \in Requests : FinalizeCallbackLifecycle(r)
    \/ MarkRunRunning
    \/ \E a \in Appliers : RetrySameTask(a)

LEMMA RunWriters ==
  ASSUME [Next]_vars
  PROVE  RunWrite \/ UNCHANGED runStatus
  <1> USE DEF storeVars, RunWrite
  <1>1. CASE Tork
    BY <1>1 DEF Tork, TorkStep, StartJob, PostCallback, EndJob
  <1>2. CASE Scheduler
    BY <1>2 DEF Scheduler, SchedulerStep, PassStep, PassFails, BeginPass, SkipTask,
       BlockMissingWorkspaceContract, ClaimRunnableTask, PreparationFails,
       DecidePreparationFailure, ReleasePreparation, PersistHandExecution,
       SubmitAccepted, SubmitFails, FinalizeSubmitted, IgnoreDispatchFailure,
       MarkTaskDispatchFailed, EndPass
  <1>3. CASE \E r \in Requests : Callback(r)
    BY <1>3 DEF Callback, RequestStep, RequestFails, Preflight, IngestDuplicate,
       IngestForCancelledRun, IngestIgnored, IngestResult, IngestMergeConflict,
       ResolveTerminalWithoutCallback
  <1>4. CASE Observer
    BY <1>4 DEF Observer, ObserverStep, SweepFails, ReadRow, PollTerminal, SettleTerminal,
       SettleOverwrittenByCallback, PatchRunning, PatchRunningTask, TimedOut,
       NothingToReport, ObserveException, DecideException
  <1>5. CASE Heartbeat
    BY <1>5 DEF Heartbeat, HeartbeatStep, HeartbeatFails, ReadHand, WriteHand, MarkTaskRunning
  <1>6. CASE Operator
    BY <1>6 DEF Operator, LifecycleStep, CancelExecutorJob, CommandTask, DecideApproval
  <1>7. CASE \E a \in Appliers : Applier(a)
    BY <1>7 DEF Applier, ApplierStep, ApplyFails, ClaimDecision, StartExecution, CheckCompletedTask,
       TerminateDecision, ExecutionAlreadyFinished, SupersedeInTransaction,
       RecoverSession, BlockRollback, ObserveOnly, BlockForOperator, ReprovisionHand,
       CancelReprovisionedJob, StageRequeue, CancelRequeuedJob, SupersedeRequeue,
       RequeueTask, ResolveRequeued, CompleteRequeue, FinalizeDecision
  <1>8. CASE Crash
    BY <1>8 DEF Crash
  <1>9. CASE UNCHANGED vars
    BY <1>9 DEF vars
  <1>10. QED
    BY <1>1, <1>2, <1>3, <1>4, <1>5, <1>6, <1>7, <1>8, <1>9 DEF Next

(* CancelledRunIsFrozen: no command, callback, heartbeat or recovery       *)
(* decision in flight when a run is cancelled reopens it or adds a result. *)
THEOREM CancelledStays == Spec => CancelledRunIsFrozen
  <1>1. ASSUME [Next]_vars, runStatus = "cancelled"
        PROVE  runStatus' = "cancelled" /\ accepted' = accepted
    <2>1. runStatus' = "cancelled"
      <3>1. CASE RunWrite
        BY <1>1, <3>1 DEF RunWrite, StartRunScheduling, PauseRun, ResumeRun, CancelRun,
           FinalizeCallbackLifecycle, CompletionGateOpen, MarkRunRunning, RetrySameTask
      <3>2. QED
        BY <1>1, <3>1, RunWriters
    <2>2. accepted' = accepted
      BY <1>1, AcceptedWriters DEF IngestResult, IngestMergeConflict, Ingestible
    <2>3. QED
      BY <2>1, <2>2
  <1>2. QED
    BY <1>1, PTL DEF Spec, CancelledRunIsFrozen

=============================================================================
