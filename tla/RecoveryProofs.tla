--------------------------- MODULE RecoveryProofs ---------------------------
(***************************************************************************)
(* Recovery in SouthstarRuntime.  For any number of appliers at work on    *)
(* the same decisions, and a server that may crash, or fail to commit,     *)
(* between any two commits, a decision and its execution tell one story,   *)
(* an applied decision has had its effect, and every claim is in the hands *)
(* of a pass or was cut short.  While the server stays up and the          *)
(* scheduler's and the observer's commits succeed, no settled attempt      *)
(* leaves its task behind.                                                 *)
(***************************************************************************)
EXTENDS SouthstarRuntimeProofs

-----------------------------------------------------------------------------
(* The inductive invariant. *)

(* What an applier that claimed a decision may rely on. *)
ClaimedBy(a) ==
    LET d == Dec(a)
    IN /\ applier[a].pc # "idle" =>
             /\ decisions[d] \in {"applying"} \cup TerminalDecisionStatus
             /\ decisions[d] = "blocked" => executions[d] = "blocked"
       /\ applier[a].pc \notin {"idle", "start"} => executions[d] # "none"
       /\ applier[a].pc = "finalize" => executions[d] = "succeeded"

OneStory == DecisionMatchesExecution /\ \A a \in Appliers : ClaimedBy(a)

-----------------------------------------------------------------------------
(* The steps that are not an applier's touch decisions in two ways only. *)

LEMMA OthersDecide ==
  ASSUME [Next]_vars, ~ \E a \in Appliers : Applier(a)
  PROVE  /\ UNCHANGED executions
         /\ UNCHANGED applier \/ applier' = [a \in Appliers |-> IdleApplier]
         /\ \/ UNCHANGED decisions
            \/ \E e, path : decisions' = WithDecision(e, path)
            \/ \E d \in Decisions, approved \in BOOLEAN : DecideApproval(d, approved)
  <1> USE DEF storeVars, recoveryVars
  <1>1. CASE Tork
    BY <1>1 DEF Tork, TorkStep, StartJob, PostCallback, EndJob, processVars
  <1>2. CASE Scheduler
    BY <1>2 DEF Scheduler, SchedulerStep, PassStep, PassFails, BeginPass, SkipTask,
       BlockMissingWorkspaceContract, ClaimRunnableTask, PreparationFails,
       DecidePreparationFailure, ReleasePreparation, PersistHandExecution,
       SubmitAccepted, SubmitFails, FinalizeSubmitted, IgnoreDispatchFailure,
       MarkTaskDispatchFailed, EndPass, ObserveAndDecide
  <1>3. CASE \E r \in Requests : Callback(r)
    BY <1>3 DEF Callback, RequestStep, RequestFails, Preflight, IngestDuplicate,
       IngestForCancelledRun, IngestIgnored, IngestResult, IngestMergeConflict,
       ResolveTerminalWithoutCallback, FinalizeCallbackLifecycle, ObserveAndDecide
  <1>4. CASE Observer
    BY <1>4 DEF Observer, ObserverStep, SweepFails, ReadRow, PollTerminal, SettleTerminal,
       SettleOverwrittenByCallback, PatchRunning, PatchRunningTask, TimedOut,
       NothingToReport, ObserveException, DecideException
  <1>5. CASE Heartbeat
    BY <1>5 DEF Heartbeat, HeartbeatStep, HeartbeatFails, ReadHand, WriteHand, MarkTaskRunning,
       MarkRunRunning
  <1>6. CASE Operator
    BY <1>6 DEF Operator, LifecycleStep, StartRunScheduling, PauseRun, ResumeRun,
       CancelRun, CancelExecutorJob, CommandTask, DecideApproval, processVars
  <1>7. CASE Crash
    BY <1>7 DEF Crash
  <1>8. CASE UNCHANGED vars
    BY <1>8 DEF vars, processVars
  <1>9. QED
    BY <1>1, <1>2, <1>3, <1>4, <1>5, <1>6, <1>7, <1>8 DEF Next

LEMMA OthersKeepStory ==
  ASSUME TypeOK, OneStory, [Next]_vars, ~ \E a \in Appliers : Applier(a)
  PROVE  OneStory'
  <1> USE DEF TypeOK, StoreTypeOK, ApplierTypeOK
  <1>1. \A d \in Decisions :
           \/ decisions'[d] = decisions[d]
           \/ decisions[d] = "none" /\ decisions'[d] \in {"recorded",
              "waiting_operator_approval"}
           \/ decisions[d] = "waiting_operator_approval"
                 /\ decisions'[d] \in {"approved", "blocked"}
    BY OthersDecide DEF WithDecision, InitialDecisionStatus, DecideApproval
  <1>2. UNCHANGED executions
    BY OthersDecide
  <1>3. DecisionMatchesExecution'
    BY <1>1, <1>2 DEF OneStory, DecisionMatchesExecution
  <1>4. ASSUME NEW a \in Appliers
        PROVE  ClaimedBy(a)'
    <2>1. CASE UNCHANGED applier
      BY <1>1, <1>2, <2>1 DEF OneStory, ClaimedBy, Dec, TerminalDecisionStatus
    <2>2. CASE applier' = [b \in Appliers |-> IdleApplier]
      BY <2>2 DEF ClaimedBy, IdleApplier
    <2>3. QED
      BY <2>1, <2>2, OthersDecide
  <1>5. QED
    BY <1>3, <1>4 DEF OneStory

-----------------------------------------------------------------------------
(* What an applier does to the two rows of one decision. *)

(* The moves of the pair of rows. *)
PairMove(d) ==
    \/ decisions'[d] = decisions[d] /\ executions'[d] = executions[d]
    \/ /\ decisions[d] \in {"recorded", "approved", "applying"}
       /\ decisions'[d] = "applying" /\ executions'[d] = executions[d]
    \/ /\ decisions[d] = "applying" /\ executions[d] \in {"none"} \cup StartedExecution
       /\ decisions'[d] = "applying" /\ executions'[d] \in StartedExecution \cup {"succeeded"}
    \/ /\ decisions[d] = "applying" /\ executions[d] \in StartedExecution \cup {"succeeded"}
       /\ decisions'[d] = "applied" /\ executions'[d] = "succeeded"
    \/ /\ decisions[d] = "applying" /\ executions[d] \in StartedExecution
       /\ decisions'[d] = executions'[d] /\ decisions'[d] \in {"blocked", "superseded"}

(* The forms an applier's commit can have. *)
LEMMA ApplierForms ==
  ASSUME NEW a \in Appliers, ApplierStep(a)
  PROVE  \/ \E x \in Decisions : ClaimDecision(a, x)
         \/ /\ applier[a].pc # "idle"
            /\ \/ StartExecution(a) \/ StageRequeue(a) \/ CompleteRequeue(a)
               \/ BlockForOperator(a) \/ BlockRollback(a)
               \/ Succeed(Dec(a)) /\ ExecutionStarted(Dec(a))
               \/ TransitionTerminal(Dec(a)) /\ applier[a].pc # "start"
               \/ /\ FinalizeApplied(Dec(a)) /\ UNCHANGED executions
                  /\ applier[a].pc = "finalize" \/ executions[Dec(a)] = "succeeded"
               \/ UNCHANGED <<decisions, executions>>
  <1> USE DEF ApplierAt, OneTransaction, Applies, Requeues, storeVars, recoveryVars
  <1>1. CASE CheckCompletedTask(a) \/ CancelReprovisionedJob(a) \/ CancelRequeuedJob(a)
             \/ RequeueTask(a) \/ ResolveRequeued(a)
    BY <1>1 DEF CheckCompletedTask, CancelReprovisionedJob, CancelRequeuedJob,
       RequeueTask, ResolveRequeued
  <1>2. CASE TerminateDecision(a) \/ SupersedeInTransaction(a) \/ SupersedeRequeue(a)
    BY <1>2 DEF TerminateDecision, SupersedeInTransaction, SupersedeRequeue
  <1>3. CASE RetrySameTask(a) \/ RecoverSession(a) \/ ObserveOnly(a) \/ ReprovisionHand(a)
    BY <1>3 DEF RetrySameTask, RecoverSession, ObserveOnly, ReprovisionHand
  <1>4. CASE ExecutionAlreadyFinished(a) \/ FinalizeDecision(a)
    BY <1>4 DEF ExecutionAlreadyFinished, FinalizeDecision
  <1>5. CASE StartExecution(a) \/ StageRequeue(a) \/ CompleteRequeue(a)
             \/ BlockForOperator(a) \/ BlockRollback(a)
    BY <1>5 DEF StartExecution, StageRequeue, CompleteRequeue, BlockForOperator,
       BlockRollback
  <1>6. CASE ApplyFails(a)
    BY <1>6 DEF ApplyFails
  <1>7. QED
    BY <1>1, <1>2, <1>3, <1>4, <1>5, <1>6 DEF ApplierStep

LEMMA AppliersMovePairs ==
  ASSUME TypeOK, OneStory, NEW a \in Appliers, ApplierStep(a)
  PROVE  \A d \in Decisions : PairMove(d)
  <1> DEFINE d == Dec(a)
  <1> USE DEF TypeOK, StoreTypeOK, PairMove, SetDecision, SetExecution, StartedExecution
  <1>1. CASE \E x \in Decisions : ClaimDecision(a, x)
    BY <1>1 DEF ClaimDecision
  <1>2. d \in Decisions
    BY DEF ApplierTypeOK, Dec
  <1>3. CASE applier[a].pc # "idle" /\ UNCHANGED <<decisions, executions>>
    BY <1>3
  <1>4. CASE /\ applier[a].pc # "idle"
             /\ StartExecution(a) \/ StageRequeue(a) \/ CompleteRequeue(a)
    <2>1. \/ /\ decisions[d] = "applying"
             /\ executions[d] \in {"none", "started", "staged", "succeeded"}
          \/ executions[d] \in {"succeeded", "superseded", "blocked"}
      BY <1>2, <1>4 DEF OneStory, ClaimedBy, DecisionMatchesExecution,
         TerminalDecisionStatus
    <2>2. applier[a].pc # "start" => executions[d] # "none"
      BY <1>4 DEF OneStory, ClaimedBy
    <2>3. QED
      BY <1>2, <1>4, <2>1, <2>2 DEF StartExecution, StageRequeue, CompleteRequeue,
         ExecutionStarted, ApplierAt, Requeues
  <1>5. CASE BlockForOperator(a) \/ BlockRollback(a) \/ (Succeed(d) /\ ExecutionStarted(d))
    <2>1. ExecutionStarted(d)
      BY <1>5 DEF BlockForOperator, BlockRollback, Applies
    <2>2. decisions[d] = "applying"
      BY <1>2, <2>1 DEF OneStory, DecisionMatchesExecution, ExecutionStarted,
         StoreTypeOK, DecisionStatus, TerminalDecisionStatus
    <2>3. QED
      BY <1>2, <1>5, <2>1, <2>2 DEF BlockForOperator, BlockRollback, Succeed,
         FinalizeApplied, ExecutionStarted
  <1>6. CASE /\ TransitionTerminal(d)
             /\ applier[a].pc \notin {"idle", "start"}
    <2>1. \/ decisions[d] = "applying" /\ executions[d] \in {"started", "staged", "succeeded"}
          \/ decisions[d] = "applied" /\ executions[d] = "succeeded"
          \/ decisions[d] = "superseded" /\ executions[d] = "superseded"
          \/ decisions[d] = "blocked" /\ executions[d] = "blocked"
      BY <1>2, <1>6 DEF OneStory, ClaimedBy, DecisionMatchesExecution,
         TerminalDecisionStatus
    <2>2. QED
      BY <1>2, <1>6, <2>1 DEF TransitionTerminal, CompletedTaskOutcome,
         ExecutionStarted, TerminalDecisionStatus
  <1>7. CASE /\ FinalizeApplied(d) /\ UNCHANGED executions
             /\ applier[a].pc # "idle"
             /\ applier[a].pc = "finalize" \/ executions[d] = "succeeded"
    <2>1. executions[d] = "succeeded" /\ decisions[d] \in {"applying", "applied"}
      BY <1>2, <1>7 DEF OneStory, ClaimedBy, DecisionMatchesExecution,
         TerminalDecisionStatus
    <2>2. QED
      BY <1>2, <1>7, <2>1 DEF FinalizeApplied
  <1>8. QED
    BY <1>1, <1>3, <1>4, <1>5, <1>6, <1>7, ApplierForms

LEMMA AppliersKeepClaims ==
  ASSUME TypeOK, OneStory, NEW a \in Appliers, ApplierStep(a), NEW b \in Appliers
  PROVE  ClaimedBy(b)'
  <1>1. \A d \in Decisions : PairMove(d)
    BY AppliersMovePairs
  <1>2. Dec(b) \in Decisions
    BY DEF TypeOK, ApplierTypeOK, Dec
  <1>3. CASE applier'[b] = applier[b]
    BY <1>1, <1>2, <1>3 DEF OneStory, ClaimedBy, PairMove, Dec, TerminalDecisionStatus,
       StartedExecution
  <1>4. CASE a = b /\ \E d \in Decisions : ClaimDecision(a, d)
    BY <1>4 DEF ClaimDecision, ClaimedBy, Dec, SetDecision, TypeOK, StoreTypeOK,
       ApplierTypeOK
  <1>5. CASE a = b /\ EndApply(a)
    BY <1>5 DEF EndApply, IdleApplier, ClaimedBy, TypeOK, ApplierTypeOK
  <1>6. ASSUME a = b, applier[a].pc # "idle", NEW pc, ApplierGoTo(a, pc),
               executions'[Dec(a)] # "none",
               pc = "finalize" => executions'[Dec(a)] = "succeeded"
        PROVE  ClaimedBy(b)'
    BY <1>1, <1>2, <1>6 DEF ApplierGoTo, OneStory, ClaimedBy, PairMove, Dec,
       TerminalDecisionStatus, StartedExecution, TypeOK, ApplierTypeOK
  <1>7. CASE a = b /\ StartExecution(a)
    BY <1>2, <1>5, <1>6, <1>7 DEF StartExecution, SetExecution, ApplierAt,
       ExecutionStarted, StartedExecution, TypeOK, StoreTypeOK
  <1>8. CASE a = b /\ CompleteRequeue(a)
    BY <1>2, <1>5, <1>6, <1>8 DEF CompleteRequeue, SetExecution, ApplierAt,
       ExecutionStarted, StartedExecution, TypeOK, StoreTypeOK
  <1>9. CASE /\ a = b
             /\ applier[a].pc \notin {"idle", "start"}
             /\ \E pc \in ApplierPc \ {"finalize"} : ApplierGoTo(a, pc)
    <2>1. executions'[Dec(a)] # "none"
      BY <1>1, <1>2, <1>9 DEF PairMove, OneStory, ClaimedBy, StartedExecution
    <2>2. QED
      BY <1>6, <1>9, <2>1
  <1>10. QED
    <2> USE DEF ApplierAt, Applies, OneTransaction, Requeues
    <2>1. CASE a # b
      BY <1>3, <2>1 DEF ApplierStep, ApplyFails, ClaimDecision, StartExecution,
         CheckCompletedTask, TerminateDecision, ExecutionAlreadyFinished,
         SupersedeInTransaction, RetrySameTask, RecoverSession, BlockRollback,
         ObserveOnly, BlockForOperator, ReprovisionHand, CancelReprovisionedJob,
         StageRequeue, CancelRequeuedJob, SupersedeRequeue, RequeueTask,
         ResolveRequeued, CompleteRequeue, FinalizeDecision, ApplierGoTo, EndApply,
            TypeOK, ApplierTypeOK
    <2>2. CASE a = b
      BY <1>4, <1>5, <1>7, <1>8, <1>9, <2>2 DEF ApplierStep, ApplyFails, ApplierPc,
         CheckCompletedTask, TerminateDecision, ExecutionAlreadyFinished,
         SupersedeInTransaction, RetrySameTask, RecoverSession, BlockRollback,
         ObserveOnly, BlockForOperator, ReprovisionHand, CancelReprovisionedJob,
         StageRequeue, CancelRequeuedJob, SupersedeRequeue, RequeueTask,
            ResolveRequeued, FinalizeDecision
    <2>3. QED
      BY <2>1, <2>2

LEMMA OneStoryHolds == Spec => []OneStory
  <1>1. Init => OneStory
    BY DEF Init, StoreInit, ApplierInit, IdleApplier, OneStory, ClaimedBy,
       DecisionMatchesExecution
  <1>2. ASSUME TypeOK, OneStory, [Next]_vars
        PROVE  OneStory'
    <2>1. CASE \E a \in Appliers : Applier(a)
      <3>1. PICK a \in Appliers : ApplierStep(a)
        BY <2>1 DEF Applier
      <3>2. DecisionMatchesExecution'
        BY <1>2, <3>1, AppliersMovePairs DEF PairMove, OneStory,
           DecisionMatchesExecution, StartedExecution
      <3>3. QED
        BY <1>2, <3>1, <3>2, AppliersKeepClaims DEF OneStory
    <2>2. CASE ~ \E a \in Appliers : Applier(a)
      BY <1>2, <2>2, OthersKeepStory
    <2>3. QED
      BY <2>1, <2>2
  <1>3. QED
    BY <1>1, <1>2, TypeCorrect, PTL DEF Spec

(* DecisionMatchesExecution: two appliers of one decision, and crashes     *)
(* between the commits of one, never leave the decision open with an       *)
(* execution that cannot go on.                                            *)
THEOREM OneStoryAlways == Spec => []DecisionMatchesExecution
  <1>1. OneStory => DecisionMatchesExecution
    BY DEF OneStory
  <1>2. QED
    BY <1>1, OneStoryHolds, PTL

-----------------------------------------------------------------------------
(* Effects. *)

Resolved(d) == exceptions[DecException(d)] = "resolved"
Retired(d) == handStatus[DecHand(d)] \in TerminalHandStatus

Effect(d) ==
    /\ Resolved(d)
    /\ DecPath(d) # "none-observe-only" /\ NamesHand(d) => Retired(d)

(* What a requeue has done before its execution succeeds. *)
RequeueProgress(a) ==
    /\ applier[a].pc \in {"resolve", "complete"} => Retired(Dec(a))
    /\ applier[a].pc = "complete" => Resolved(Dec(a))

EffectInv ==
    /\ \A d \in Decisions : executions[d] = "succeeded" => Effect(d)
    /\ \A a \in Appliers : RequeueProgress(a)

(* Exceptions are never deleted, and once resolved, not observed again. *)
LEMMA ExceptionsStay ==
  ASSUME TypeOK, [Next]_vars, NEW e \in Exceptions
  PROVE  /\ exceptions[e] = "resolved" => exceptions'[e] = "resolved"
         /\ exceptions[e] # "none" => exceptions'[e] # "none"
  <1> DEFINE Stays == /\ exceptions[e] = "resolved" => exceptions'[e] = "resolved"
                      /\ exceptions[e] # "none" => exceptions'[e] # "none"
  <1> USE DEF TypeOK, StoreTypeOK, storeVars, recoveryVars
  <1>1. ASSUME NEW x, exceptions' = WithException(x) \/ ResolveException(x)
        PROVE  Stays
    BY <1>1 DEF WithException, ResolveException
  <1>0. UNCHANGED exceptions => Stays
    OBVIOUS
  <1> SUFFICES Stays
    OBVIOUS
  <1> HIDE DEF Stays
  <1>2. CASE Scheduler
    BY <1>0, <1>1, <1>2 DEF Scheduler, SchedulerStep, PassStep, PassFails, BeginPass, SkipTask,
       BlockMissingWorkspaceContract, ClaimRunnableTask, PreparationFails,
       DecidePreparationFailure, ReleasePreparation, PersistHandExecution,
       SubmitAccepted, SubmitFails, FinalizeSubmitted, IgnoreDispatchFailure,
       MarkTaskDispatchFailed, EndPass, ObserveAndDecide
  <1>3. CASE \E r \in Requests : Callback(r)
    <2>1. CASE \E r \in Requests : ResolveTerminalWithoutCallback(r)
      BY <2>1 DEF ResolveTerminalWithoutCallback, Stays
    <2>2. QED
      BY <1>0, <1>1, <1>3, <2>1 DEF Callback, RequestStep, RequestFails, Preflight, IngestDuplicate,
         IngestForCancelledRun, IngestIgnored, IngestResult, IngestMergeConflict,
         FinalizeCallbackLifecycle, ObserveAndDecide
  <1>4. CASE Observer
    BY <1>0, <1>1, <1>4 DEF Observer, ObserverStep, SweepFails, ReadRow, PollTerminal,
       SettleTerminal,
       SettleOverwrittenByCallback, PatchRunning, PatchRunningTask, TimedOut,
       NothingToReport, ObserveException, DecideException
  <1>5. CASE Operator
    BY <1>0, <1>1, <1>5 DEF Operator, LifecycleStep, StartRunScheduling, PauseRun, ResumeRun,
       CancelRun, CancelExecutorJob, CommandTask, DecideApproval
  <1>6. CASE \E a \in Appliers : Applier(a)
    BY <1>0, <1>1, <1>6 DEF Applier, ApplierStep, ApplyFails, ClaimDecision, StartExecution,
       CheckCompletedTask, TerminateDecision, ExecutionAlreadyFinished,
       SupersedeInTransaction, RetrySameTask, RecoverSession, BlockRollback,
       ObserveOnly, BlockForOperator, ReprovisionHand, CancelReprovisionedJob,
       StageRequeue, CancelRequeuedJob, SupersedeRequeue, RequeueTask, ResolveRequeued,
       CompleteRequeue, FinalizeDecision, Succeed
  <1>7. QED
    BY <1>0, <1>2, <1>3, <1>4, <1>5, <1>6 DEF Next, vars, Tork, TorkStep, StartJob,
       PostCallback, EndJob, Heartbeat, HeartbeatStep, HeartbeatFails, ReadHand, WriteHand,
       MarkTaskRunning, MarkRunRunning, Crash

LEMMA EffectsStay ==
  ASSUME TypeOK, RowsInv, [Next]_vars, NEW d \in Decisions
  PROVE  /\ Resolved(d) => Resolved(d)'
         /\ Retired(d) => Retired(d)'
  <1>1. DecException(d) \in Exceptions /\ DecHand(d) \in Hands
    BY DEF Decisions, DecException, Exceptions, DecHand, HandOf, Hands
  <1>2. Resolved(d) => Resolved(d)'
    BY <1>1, ExceptionsStay DEF Resolved, DecException
  <1>3. ASSUME Retired(d) PROVE Retired(d)'
    <2>1. HandMove(DecHand(d))
      BY <1>1, HandMoves
    <2>2. CASE PersistHandExecution /\ DecHand(d) = sched.hand
      BY <1>3, <2>2 DEF Retired, PersistHandExecution, RowsInv, PassHasRow,
         IsNextAttempt, HandExists, TerminalHandStatus, TypeOK, SchedTypeOK, Hands
    <2>3. QED
      BY <1>3, <2>1, <2>2 DEF HandMove, Retired, DecHand
  <1>4. QED
    BY <1>2, <1>3

(* An execution succeeds with the effect, or after it. *)
LEMMA SuccessHasEffect ==
  ASSUME TypeOK, RowsInv, EffectInv, [Next]_vars, NEW d \in Decisions,
         executions'[d] = "succeeded"
  PROVE  Effect(d)'
  <1> USE DEF TypeOK, StoreTypeOK
  <1>1. CASE executions[d] = "succeeded"
    BY <1>1, EffectsStay DEF EffectInv, Effect, DecPath, NamesHand
  <1>2. CASE executions[d] # "succeeded"
    <2>1. PICK a \in Appliers : Applier(a)
      BY <1>2, OthersDecide
    <2>2. DecException(d) \in Exceptions /\ DecHand(d) \in Hands
      BY DEF Decisions, DecException, Exceptions, DecHand, HandOf, Hands
    <2>3. CASE CompleteRequeue(a)
      <3>1. Dec(a) = d /\ applier[a].pc = "complete"
        BY <1>2, <2>3 DEF CompleteRequeue, SetExecution, ApplierAt
      <3>2. QED
        BY <3>1, EffectsStay DEF EffectInv, RequeueProgress, Effect, DecPath, NamesHand
    <2>4. CASE RetrySameTask(a) \/ RecoverSession(a) \/ ObserveOnly(a) \/ ReprovisionHand(a)
      <3>1. Dec(a) = d
        BY <1>2, <2>4 DEF RetrySameTask, RecoverSession, ObserveOnly, ReprovisionHand,
           Succeed, SetExecution
      <3>2. Resolved(d)'
        BY <2>2, <2>4, <3>1 DEF RetrySameTask, RecoverSession, ObserveOnly,
           ReprovisionHand, Succeed, ResolveException, Resolved, DecException
      <3>3. DecPath(d) # "none-observe-only" /\ NamesHand(d) => Retired(d)'
        BY <2>2, <2>4, <3>1 DEF RetrySameTask, RecoverSession, ObserveOnly,
           ReprovisionHand, Applies, Decisions, PathsOf, SessionPaths, NamesHand, Dec,
              DecPath, SetHand, Retired, TerminalHandStatus, DecHand
      <3>4. QED
        BY <3>2, <3>3 DEF Effect, DecPath, NamesHand
    <2>5. CASE TerminateDecision(a) \/ SupersedeInTransaction(a) \/ SupersedeRequeue(a)
      <3>1. TransitionTerminal(Dec(a))
        BY <2>5 DEF TerminateDecision, SupersedeInTransaction, SupersedeRequeue
      <3>2. CompletedTaskOutcome(Dec(a)) # "succeeded"
        BY DEF CompletedTaskOutcome, TerminalDecisionStatus
      <3>3. QED
        BY <1>2, <3>1, <3>2 DEF TransitionTerminal, SetExecution
    <2>6. CASE \/ StartExecution(a) \/ StageRequeue(a)
               \/ BlockForOperator(a) \/ BlockRollback(a)
      BY <1>2, <2>6 DEF StartExecution, StageRequeue, BlockForOperator, BlockRollback,
         SetExecution
    <2>7. CASE UNCHANGED executions
      BY <1>2, <2>7
    <2>8. QED
      BY <2>1, <2>3, <2>4, <2>5, <2>6, <2>7 DEF Applier, ApplierStep, ApplyFails, ClaimDecision,
         CheckCompletedTask, ExecutionAlreadyFinished, CancelReprovisionedJob,
         CancelRequeuedJob, RequeueTask, ResolveRequeued, FinalizeDecision, storeVars,
         recoveryVars
  <1>3. QED
    BY <1>1, <1>2

LEMMA OtherAppliersWait ==
  ASSUME TypeOK, NEW b \in Appliers, ApplierStep(b), NEW a \in Appliers, a # b
  PROVE  applier'[a] = applier[a]
  BY DEF ApplierStep, ApplyFails, ClaimDecision, StartExecution, CheckCompletedTask,
     TerminateDecision, ExecutionAlreadyFinished, SupersedeInTransaction,
     RetrySameTask, RecoverSession, BlockRollback, ObserveOnly, BlockForOperator,
     ReprovisionHand, CancelReprovisionedJob, StageRequeue, CancelRequeuedJob,
     SupersedeRequeue, RequeueTask, ResolveRequeued, CompleteRequeue, FinalizeDecision,
     ApplierGoTo, EndApply, TypeOK, ApplierTypeOK

LEMMA ProgressMoves ==
  ASSUME TypeOK, RowsInv, NEW a \in Appliers, RequeueProgress(a), [Next]_vars
  PROVE  RequeueProgress(a)'
  <1>1. Dec(a) \in Decisions
    BY DEF TypeOK, ApplierTypeOK, Dec
  <1>2. DecException(Dec(a)) \in Exceptions /\ DecHand(Dec(a)) \in Hands
    BY <1>1 DEF Decisions, DecException, Exceptions, DecHand, HandOf, Hands
  <1>3. CASE applier'[a] = applier[a]
    BY <1>1, <1>3, EffectsStay DEF RequeueProgress, Dec, Retired, Resolved, DecHand,
       DecException
  <1>4. CASE applier'[a].pc \notin {"resolve", "complete"}
    BY <1>4 DEF RequeueProgress
  <1>5. CASE RequeueTask(a)
    <2>1. applier'[a].pc = "resolve" /\ Dec(a)' = Dec(a)
      BY <1>5 DEF RequeueTask, ApplierGoTo, Dec, TypeOK, ApplierTypeOK
    <2>2. handStatus'[DecHand(Dec(a))] = "lost"
      BY <1>2, <1>5 DEF RequeueTask, SetHand, TypeOK, StoreTypeOK
    <2>3. QED
      BY <2>1, <2>2 DEF RequeueProgress, Retired, DecHand, TerminalHandStatus
  <1>6. CASE ResolveRequeued(a)
    <2>1. applier'[a].pc = "complete" /\ Dec(a)' = Dec(a)
      BY <1>6 DEF ResolveRequeued, ApplierGoTo, Dec, TypeOK, ApplierTypeOK
    <2>2. exceptions'[DecException(Dec(a))] = "resolved"
      BY <1>2, <1>6 DEF ResolveRequeued, ResolveException, TypeOK, StoreTypeOK
    <2>3. Retired(Dec(a)) /\ UNCHANGED handStatus
      BY <1>6 DEF RequeueProgress, ResolveRequeued, ApplierAt, handVars
    <2>4. QED
      BY <2>1, <2>2, <2>3 DEF RequeueProgress, Retired, Resolved, DecHand, DecException
  <1>7. CASE ApplierStep(a)
    BY <1>3, <1>4, <1>5, <1>6, <1>7 DEF ApplierStep, ApplyFails, ClaimDecision, StartExecution,
       CheckCompletedTask, TerminateDecision, ExecutionAlreadyFinished,
       SupersedeInTransaction, RetrySameTask, RecoverSession, BlockRollback,
       ObserveOnly, BlockForOperator, ReprovisionHand, CancelReprovisionedJob,
       StageRequeue, CancelRequeuedJob, SupersedeRequeue, CompleteRequeue,
       FinalizeDecision, EndApply, ApplierGoTo, IdleApplier, TypeOK, ApplierTypeOK
  <1>8. CASE \E b \in Appliers : b # a /\ ApplierStep(b)
    BY <1>3, <1>8, OtherAppliersWait
  <1>9. CASE ~ \E b \in Appliers : Applier(b)
    BY <1>3, <1>4, <1>9, OthersDecide DEF IdleApplier
  <1>10. QED
    BY <1>7, <1>8, <1>9 DEF Applier

(* A decision reported as applied was carried out: its exception is        *)
(* resolved and the attempt it names is no longer active (an observing     *)
(* decision leaves the attempt alone).                                     *)
THEOREM AppliedTookEffect == Spec => []AppliedDecisionTookEffect
  <1>1. Init => EffectInv
    BY DEF Init, StoreInit, ApplierInit, IdleApplier, EffectInv, RequeueProgress
  <1>2. ASSUME TypeOK, RowsInv, EffectInv, [Next]_vars
        PROVE  EffectInv'
    BY <1>2, SuccessHasEffect, ProgressMoves DEF EffectInv
  <1>3. OneStory /\ EffectInv => AppliedDecisionTookEffect
    BY DEF OneStory, DecisionMatchesExecution, EffectInv, Effect, Resolved, Retired,
       AppliedDecisionTookEffect
  <1>4. QED
    BY <1>1, <1>2, <1>3, TypeCorrect, RowsExist, OneStoryHolds, PTL DEF Spec

-----------------------------------------------------------------------------
(* Claims.                                                                 *)

(* What moves a task into a status that holds a slot. *)
LEMMA ClaimMoves ==
  ASSUME TypeOK, [Next]_vars, NEW t \in Tasks
  PROVE  /\ taskStatus'[t] = "claimed" =>
              taskStatus[t] = "claimed" \/ \E n \in Attempts : ClaimRunnableTask(t, n)
         /\ taskStatus'[t] \in {"queued", "running"} =>
              \/ taskStatus[t] \in {"queued", "running"}
              \/ FinalizeSubmitted /\ t = sched.hand[1] /\ ~ SubmissionSettled
              \/ (PatchRunningTask \/ MarkTaskRunning) /\ taskStatus[t] = "claimed"
  <1>1. taskStatus \in [Tasks -> TaskStatus]
    BY DEF TypeOK, StoreTypeOK
  <1> USE <1>1 DEF SetTask, SetTaskIf
  <1>2. CASE SchedulerTaskWrite
    <2>1. CASE \E u \in Tasks : BlockMissingWorkspaceContract(u)
      BY <2>1 DEF BlockMissingWorkspaceContract
    <2>2. CASE \E u \in Tasks, n \in Attempts : ClaimRunnableTask(u, n)
      BY <2>2 DEF ClaimRunnableTask
    <2>3. CASE ReleasePreparation
      BY <2>3 DEF ReleasePreparation
    <2>4. CASE FinalizeSubmitted
      <3>1. CASE SubmissionSettled
        BY <2>4, <3>1 DEF FinalizeSubmitted
      <3>2. CASE ~ SubmissionSettled
        <4>1. taskStatus' = [taskStatus EXCEPT ![sched.hand[1]] =
                               IF @ \in {"claimed"} THEN "queued" ELSE @]
          BY <2>4, <3>2 DEF FinalizeSubmitted
        <4>2. CASE t = sched.hand[1]
          BY <2>4, <3>2, <4>1, <4>2
        <4>3. CASE t # sched.hand[1]
          BY <4>1, <4>3
        <4>4. QED
          BY <4>2, <4>3
      <3>3. QED
        BY <3>1, <3>2
    <2>5. CASE MarkTaskDispatchFailed
      BY <2>5 DEF MarkTaskDispatchFailed
    <2>6. QED
      BY <1>2, <2>1, <2>2, <2>3, <2>4, <2>5 DEF SchedulerTaskWrite
  <1>3. CASE \E r \in Requests : IngestResult(r) \/ IngestMergeConflict(r)
    BY <1>3 DEF IngestResult, IngestMergeConflict
  <1>4. CASE PatchRunningTask
    BY <1>4 DEF PatchRunningTask
  <1>5. CASE MarkTaskRunning
    BY <1>5 DEF MarkTaskRunning
  <1>6. CASE \E a \in Appliers : ApplierTaskWrite(a)
    BY <1>6 DEF ApplierTaskWrite, RetrySameTask, RecoverSession, BlockForOperator,
       ReprovisionHand, RequeueTask
  <1>7. QED
    BY <1>2, <1>3, <1>4, <1>5, <1>6, TaskWriters DEF TaskWrite

(* A provider id is known of rows only, and not of the one a pass submits. *)
Submitting == sched.pc \in {"submit", "finalize", "reject"}

IdsHaveRows == \A h \in Hands : handJobId[h] => HandExists(h)

SubmissionIsUnseen ==
    /\ obs.pc = "settle" => obs.jobId
    /\ Submitting =>
         /\ ~ handJobId[sched.hand]
         /\ obs.pc # "idle" /\ obs.hand = sched.hand => ~ obs.jobId
         /\ beat.pc # "idle" /\ beat.hand = sched.hand => ~ beat.jobId

(* So nobody settles the attempt under submission and leaves its task claimed. *)
ClaimIsUnsettled ==
    Submitting /\ taskStatus[sched.hand[1]] = "claimed"
        => handStatus[sched.hand] \notin TerminalHandStatus

ClaimInv == IdsHaveRows /\ SubmissionIsUnseen /\ ClaimIsUnsettled /\ ClaimHasDispatcher

(* The actions that write the provider's id to a row. *)
LEMMA IdWriters ==
  ASSUME [Next]_vars
  PROVE  FinalizeSubmitted \/ MarkTaskDispatchFailed \/ WriteHand \/ UNCHANGED handJobId
  <1> USE DEF storeVars, handVars
  <1>1. CASE Tork
    BY <1>1 DEF Tork, TorkStep, StartJob, PostCallback, EndJob
  <1>2. CASE Scheduler
    BY <1>2 DEF Scheduler, SchedulerStep, PassStep, PassFails, BeginPass, SkipTask,
       BlockMissingWorkspaceContract, ClaimRunnableTask, PreparationFails,
       DecidePreparationFailure, ReleasePreparation, PersistHandExecution, SubmitAccepted,
       SubmitFails, IgnoreDispatchFailure, EndPass
  <1>3. CASE \E r \in Requests : Callback(r)
    BY <1>3 DEF Callback, RequestStep, RequestFails, Preflight, IngestDuplicate,
       IngestForCancelledRun, IngestIgnored, IngestResult, IngestMergeConflict,
       ResolveTerminalWithoutCallback, FinalizeCallbackLifecycle
  <1>4. CASE Observer
    BY <1>4 DEF Observer, ObserverStep, SweepFails, ReadRow, PollTerminal, SettleTerminal,
       SettleOverwrittenByCallback, PatchRunning, PatchRunningTask, TimedOut,
       NothingToReport, ObserveException, DecideException
  <1>5. CASE Heartbeat
    BY <1>5 DEF Heartbeat, HeartbeatStep, HeartbeatFails, ReadHand, MarkTaskRunning, MarkRunRunning
  <1>6. CASE Operator
    BY <1>6 DEF Operator, LifecycleStep, StartRunScheduling, PauseRun, ResumeRun,
       CancelRun, CancelExecutorJob, CommandTask, DecideApproval
  <1>7. CASE \E a \in Appliers : Applier(a)
    BY <1>7 DEF Applier, ApplierStep, ApplyFails, ClaimDecision,
       StartExecution, CheckCompletedTask, TerminateDecision, ExecutionAlreadyFinished,
       SupersedeInTransaction, RetrySameTask, RecoverSession, BlockRollback, ObserveOnly,
       BlockForOperator, ReprovisionHand, CancelReprovisionedJob, StageRequeue,
       CancelRequeuedJob, SupersedeRequeue, RequeueTask, ResolveRequeued, CompleteRequeue,
       FinalizeDecision
  <1>8. CASE Crash
    BY <1>8 DEF Crash
  <1>9. CASE UNCHANGED vars
    BY <1>9 DEF vars
  <1>10. QED
    BY <1>1, <1>2, <1>3, <1>4, <1>5, <1>6, <1>7, <1>8, <1>9 DEF Next

LEMMA IdsHaveRowsStep ==
  ASSUME TypeOK, RowsInv, IdsHaveRows, [Next]_vars
  PROVE  IdsHaveRows'
  <1> SUFFICES ASSUME NEW h \in Hands, handJobId'[h]
               PROVE  HandExists(h)'
    BY DEF IdsHaveRows
  <1>1. CASE handJobId[h]
    BY <1>1, RowsStay DEF IdsHaveRows
  <1>2. CASE ~ handJobId[h]
    <2> USE DEF TypeOK, StoreTypeOK
    <2>1. CASE FinalizeSubmitted
      <3>1. h = sched.hand
        BY <1>2, <2>1 DEF FinalizeSubmitted
      <3>2. HandExists(h)
        BY <2>1, <3>1 DEF FinalizeSubmitted, RowsInv, PassHasRow
      <3>3. QED
        BY <3>2, RowsStay
    <2>2. CASE MarkTaskDispatchFailed
      BY <1>2, <2>2 DEF MarkTaskDispatchFailed
    <2>3. CASE WriteHand
      <3>1. h = beat.hand
        BY <1>2, <2>3 DEF WriteHand, handVars
      <3>2. HandExists(h)
        BY <2>3, <3>1 DEF WriteHand, RowsInv, RequestHasRow
      <3>3. QED
        BY <3>2, RowsStay
    <2>4. QED
      BY <1>2, <2>1, <2>2, <2>3, IdWriters
  <1>3. QED
    BY <1>1, <1>2

(* How a pass comes to submit, and goes on. *)
LEMMA SubmittingMoves ==
  ASSUME TypeOK, [Next]_vars, Submitting'
  PROVE  \/ PersistHandExecution /\ Scheduler
         \/ /\ Submitting /\ sched'.hand = sched.hand
            /\ \/ UNCHANGED sched /\ ~ Scheduler
               \/ UNCHANGED <<storeVars, obs, beat>>
               \/ UNCHANGED vars
  <1> USE DEF Submitting, TypeOK, SchedTypeOK
  <1>1. CASE Scheduler
    <2>1. CASE SubmitAccepted \/ SubmitFails
      BY <1>1, <2>1 DEF SubmitAccepted, SubmitFails, Scheduler
    <2>2. CASE PersistHandExecution
      BY <1>1, <2>2
    <2>3. CASE BeginPass \/ AbortPass \/ EndDispatch
      <3>1. sched'.pc \in {"idle", "pass"}
        <4>1. CASE BeginPass
          BY <4>1 DEF BeginPass, IdleSched
        <4>2. CASE AbortPass
          BY <4>2 DEF AbortPass, IdleSched
        <4>3. CASE EndDispatch
          BY <4>3 DEF EndDispatch
        <4>4. QED
          BY <2>3, <4>1, <4>2, <4>3
      <3>2. QED
        BY <3>1
    <2>4. CASE \E t \in Tasks : SkipTask(t) \/ BlockMissingWorkspaceContract(t)
      BY <2>4 DEF SkipTask, BlockMissingWorkspaceContract
    <2>5. CASE \/ \E kind \in PreparationKinds : PreparationFails(kind)
               \/ DecidePreparationFailure
               \/ \E t \in Tasks, n \in Attempts : ClaimRunnableTask(t, n)
      BY <2>5 DEF PreparationFails, DecidePreparationFailure, ClaimRunnableTask
    <2>6. QED
      BY <1>1, <2>1, <2>2, <2>3, <2>4, <2>5 DEF Scheduler, SchedulerStep, PassStep, PassFails,
         EndPass,
         ReleasePreparation, FinalizeSubmitted, IgnoreDispatchFailure,
         MarkTaskDispatchFailed
  <1>2. CASE Crash
    BY <1>2 DEF Crash, IdleSched
  <1>3. CASE ~ Scheduler /\ ~ Crash
    BY <1>3 DEF Next, vars, processVars, Tork, Callback, Observer,
       Heartbeat, Operator, Applier
  <1>4. QED
    BY <1>1, <1>2, <1>3

(* What the observer and a heartbeat take over from a row. *)
LEMMA ObserverIds ==
  ASSUME TypeOK, [Next]_vars
  PROVE  /\ \/ obs'.pc = "idle"
            \/ \E h \in Hands : ReadRow(h) /\ obs'.hand = h /\ obs'.jobId = handJobId[h]
                                /\ obs'.pc = "row"
            \/ obs.pc # "idle" /\ obs'.hand = obs.hand /\ obs'.jobId = obs.jobId
         /\ obs'.pc = "settle" => \/ obs.pc = "settle" /\ UNCHANGED obs
                                  \/ PollTerminal
         /\ \/ beat'.pc = "idle"
            \/ \E h \in Hands : ReadHand(h) /\ beat'.hand = h /\ beat'.jobId = handJobId[h]
            \/ beat.pc # "idle" /\ beat'.hand = beat.hand /\ beat'.jobId = beat.jobId
  <1> USE DEF TypeOK, ObsTypeOK, BeatTypeOK
  <1>1. CASE Observer
    <2>1. UNCHANGED beat
      BY <1>1 DEF Observer
    <2>2. CASE \E h \in Hands : ReadRow(h)
      BY <2>1, <2>2 DEF ReadRow, IdleObs
    <2>3. CASE EndObservation
      BY <2>1, <2>3 DEF EndObservation, IdleObs
    <2>4. ASSUME obs.pc # "idle",
                 NEW pc \in {"patchTask", "observe", "decide"}, NEW kind, ObsGoTo(pc, kind)
          PROVE  /\ obs'.hand = obs.hand /\ obs'.jobId = obs.jobId
                 /\ obs'.pc # "settle" /\ obs.pc # "idle"
      BY <2>4 DEF ObsGoTo
    <2>5. CASE PollTerminal
      <3>1. CASE handStatus[ObsHand] \in ActiveHandStatus
        BY <2>1, <2>5, <3>1 DEF PollTerminal, ObsGoTo
      <3>2. CASE handStatus[ObsHand] \notin ActiveHandStatus
        BY <2>3, <2>5, <3>2 DEF PollTerminal
      <3>3. QED
        BY <3>1, <3>2
    <2>6. CASE \/ SettleTerminal \/ SettleOverwrittenByCallback \/ PatchRunning
               \/ \E kind \in {"tork_queue_timeout", "tork_running_hang"} : TimedOut(kind)
               \/ ObserveException
      <3>1. /\ obs'.hand = obs.hand /\ obs'.jobId = obs.jobId
            /\ obs'.pc # "settle" /\ obs.pc # "idle"
        BY <2>4, <2>6 DEF SettleTerminal, SettleOverwrittenByCallback, PatchRunning,
           TimedOut, ObserveException
      <3>2. QED
        BY <2>1, <3>1
    <2>7. QED
      BY <1>1, <2>2, <2>3, <2>5, <2>6 DEF Observer, ObserverStep, SweepFails, PatchRunningTask,
         NothingToReport, DecideException
  <1>2. CASE Heartbeat
    <2>1. UNCHANGED obs
      BY <1>2 DEF Heartbeat
    <2>2. CASE \E h \in Hands : ReadHand(h)
      BY <2>1, <2>2 DEF ReadHand
    <2>3. CASE EndBeat
      BY <2>1, <2>3 DEF EndBeat, IdleBeat
    <2>4. CASE \E pc : BeatGoTo(pc) /\ beat.pc # "idle"
      BY <2>1, <2>4 DEF BeatGoTo
    <2>5. QED
      BY <1>2, <2>2, <2>3, <2>4 DEF Heartbeat, HeartbeatStep, HeartbeatFails, WriteHand,
         MarkTaskRunning,
         MarkRunRunning
  <1>3. CASE Crash
    BY <1>3 DEF Crash, IdleObs, IdleBeat
  <1>4. CASE UNCHANGED <<obs, beat>>
    BY <1>4
  <1>5. QED
    BY <1>1, <1>2, <1>3, <1>4 DEF Next, vars, processVars, Tork, Scheduler, Callback,
       Operator, Applier

LEMMA SubmissionIsUnseenStep ==
  ASSUME TypeOK, RowsInv, IdsHaveRows, SubmissionIsUnseen, [Next]_vars
  PROVE  SubmissionIsUnseen'
  <1> USE DEF TypeOK
  <1>1. obs'.pc = "settle" => obs'.jobId
    BY ObserverIds DEF SubmissionIsUnseen, PollTerminal
  <1>2. ASSUME Submitting'
        PROVE  /\ ~ handJobId'[sched'.hand]
               /\ obs'.pc # "idle" /\ obs'.hand = sched'.hand => ~ obs'.jobId
               /\ beat'.pc # "idle" /\ beat'.hand = sched'.hand => ~ beat'.jobId
    <2>1. sched.hand \in Hands
      BY DEF SchedTypeOK
    <2>2. CASE PersistHandExecution /\ Scheduler
      <3>1. sched'.hand = sched.hand /\ UNCHANGED <<handJobId, obs, beat>>
        BY <2>2 DEF PersistHandExecution, Scheduler, SchedTypeOK
      <3>2. ~ HandExists(sched.hand)
        BY <2>1, <2>2 DEF PersistHandExecution, RowsInv, PassHasRow, IsNextAttempt, Hands
      <3>3. QED
        BY <2>1, <3>1, <3>2 DEF IdsHaveRows, RowsInv, RequestHasRow
    <2>3. CASE Submitting /\ sched'.hand = sched.hand /\ UNCHANGED <<storeVars, obs, beat>>
      BY <2>3 DEF SubmissionIsUnseen, storeVars, handVars
    <2>4. CASE Submitting /\ UNCHANGED vars
      BY <2>4 DEF SubmissionIsUnseen, vars, processVars, storeVars, handVars
    <2>5. CASE Submitting /\ UNCHANGED sched /\ ~ Scheduler
      <3>1. ~ handJobId[sched.hand]
        BY <2>5 DEF SubmissionIsUnseen
      <3>2. ~ handJobId'[sched.hand]
        <4>1. CASE FinalizeSubmitted \/ MarkTaskDispatchFailed
          <5>1. sched'.pc \in {"idle", "pass"}
            <6>1. CASE EndDispatch
              BY <6>1 DEF EndDispatch, SchedTypeOK
            <6>2. CASE AbortPass
              BY <6>2 DEF AbortPass, IdleSched
            <6>3. QED
              BY <4>1, <6>1, <6>2 DEF FinalizeSubmitted, MarkTaskDispatchFailed
          <5>2. QED
            BY <1>2, <5>1 DEF Submitting
        <4>2. CASE WriteHand
          BY <2>1, <2>5, <3>1, <4>2 DEF WriteHand, SubmissionIsUnseen, handVars, StoreTypeOK
        <4>3. QED
          BY <3>1, <4>1, <4>2, IdWriters
      <3>3. obs'.pc # "idle" /\ obs'.hand = sched.hand => ~ obs'.jobId
        BY <2>5, <3>1, ObserverIds DEF SubmissionIsUnseen
      <3>4. beat'.pc # "idle" /\ beat'.hand = sched.hand => ~ beat'.jobId
        BY <2>5, <3>1, ObserverIds DEF SubmissionIsUnseen
      <3>5. QED
        BY <2>5, <3>2, <3>3, <3>4
    <2>6. QED
      BY <1>2, <2>2, <2>3, <2>4, <2>5, SubmittingMoves
  <1>3. QED
    BY <1>1, <1>2 DEF SubmissionIsUnseen, Submitting

(* Who settles an attempt ends its task or puts it back, or the observer   *)
(* or the rejected submission is about to report it.                       *)
LEMMA Settlements ==
  ASSUME TypeOK, [Next]_vars, NEW h \in Hands,
         handStatus[h] \notin TerminalHandStatus, handStatus'[h] \in TerminalHandStatus
  PROVE  \/ taskStatus'[h[1]] \in {"pending"} \cup TerminalTaskStatus
         \/ SettleTerminal /\ h = obs.hand
         \/ Scheduler /\ MarkTaskDispatchFailed /\ h = sched.hand
  <1> USE DEF TypeOK, StoreTypeOK, SetHand, SetTask
  <1>1. h[1] \in Tasks
    BY DEF Hands
  <1>2. CASE \E r \in Requests : Callback(r)
    <2>1. PICK r \in Requests : Callback(r)
      BY <1>2
    <2>2. CASE IngestResult(r) \/ IngestMergeConflict(r)
      <3>1. \E status : handStatus' = [handStatus EXCEPT ![ingest[r].cb.hand] = status]
        BY <2>2 DEF IngestResult, IngestMergeConflict, SettleHand
      <3>2. ingest[r].cb.hand = h
        BY <3>1
      <3>3. \E status \in TerminalTaskStatus :
               taskStatus' = [taskStatus EXCEPT ![h[1]] = status]
        BY <2>2, <3>2 DEF IngestResult, IngestMergeConflict, TerminalTaskStatus
      <3>4. QED
        BY <1>1, <3>3
    <2>3. QED
      BY <2>1, <2>2 DEF Callback, RequestStep, RequestFails, Preflight, IngestDuplicate,
         IngestForCancelledRun, IngestIgnored, ResolveTerminalWithoutCallback,
         FinalizeCallbackLifecycle, storeVars, handVars
  <1>3. CASE Observer
    <2>1. CASE SettleTerminal
      BY <2>1 DEF SettleTerminal, ObsHand
    <2>2. CASE PatchRunning
      BY <2>2 DEF PatchRunning, TerminalHandStatus
    <2>3. QED
      BY <1>3, <2>1, <2>2 DEF Observer, ObserverStep, SweepFails, ReadRow, PollTerminal,
         SettleOverwrittenByCallback, PatchRunningTask, TimedOut, NothingToReport,
         ObserveException, DecideException, storeVars, handVars
  <1>4. CASE Heartbeat
    <2>1. CASE WriteHand
      <3>1. handStatus' = handStatus \/ handStatus' = [handStatus EXCEPT ![beat.hand] = "running"]
        BY <2>1 DEF WriteHand, handVars
      <3>2. QED
        BY <3>1 DEF TerminalHandStatus
    <2>2. QED
      BY <1>4, <2>1 DEF Heartbeat, HeartbeatStep, HeartbeatFails, ReadHand, MarkTaskRunning,
         MarkRunRunning,
         storeVars, handVars
  <1>5. CASE Operator
    <2>1. CASE OperatorHandWrite
      <3>1. \/ handStatus'[h] = handStatus[h]
            \/ handStatus'[h] = "cancel_requested"
        <4>1. CASE MarkActiveCancelRequested \/ UNCHANGED handStatus
          BY <4>1 DEF MarkActiveCancelRequested
        <4>2. CASE \E x \in Hands : CancelExecutorJob(x)
          BY <4>2 DEF CancelExecutorJob
        <4>3. QED
          BY <2>1, <4>1, <4>2 DEF OperatorHandWrite, PauseRun, CancelRun
      <3>2. QED
        BY <3>1 DEF TerminalHandStatus
    <2>2. QED
      BY <1>5, <2>1 DEF Operator, LifecycleStep, OperatorHandWrite, StartRunScheduling,
         ResumeRun, CommandTask, DecideApproval, handVars
  <1>6. CASE \E a \in Appliers : Applier(a)
    <2>1. PICK a \in Appliers : Applier(a)
      BY <1>6
    <2>2. CASE ApplierHandWrite(a)
      <3>1. \/ handStatus' = handStatus
            \/ \E status : handStatus' = [handStatus EXCEPT ![DecHand(Dec(a))] = status]
        BY <2>2 DEF ApplierHandWrite, RetrySameTask, ReprovisionHand, RequeueTask
      <3>2. DecHand(Dec(a)) = h
        BY <3>1
      <3>3. DecTask(Dec(a)) = h[1]
        BY <3>2 DEF DecHand, DecTask, HandOf
      <3>4. QED
        BY <1>1, <2>2, <3>3 DEF ApplierHandWrite, RetrySameTask, ReprovisionHand, RequeueTask
    <2>3. QED
      BY <2>1, <2>2 DEF Applier, ApplierStep, ApplyFails, ApplierHandWrite, ClaimDecision,
         StartExecution, CheckCompletedTask, TerminateDecision, ExecutionAlreadyFinished,
         SupersedeInTransaction, RecoverSession, BlockRollback, ObserveOnly,
         BlockForOperator, CancelReprovisionedJob, StageRequeue, CancelRequeuedJob,
         SupersedeRequeue, ResolveRequeued, CompleteRequeue, FinalizeDecision, storeVars,
         handVars
  <1>7. CASE Scheduler
    <2>1. CASE PersistHandExecution
      BY <2>1 DEF PersistHandExecution, TerminalHandStatus
    <2>2. CASE MarkTaskDispatchFailed
      BY <1>7, <2>2 DEF MarkTaskDispatchFailed
    <2>3. QED
      BY <1>7, <2>1, <2>2 DEF Scheduler, SchedulerStep, PassStep, PassFails, BeginPass, SkipTask,
         BlockMissingWorkspaceContract, ClaimRunnableTask, PreparationFails,
         DecidePreparationFailure, ReleasePreparation, SubmitAccepted, SubmitFails,
         FinalizeSubmitted, IgnoreDispatchFailure, EndPass, storeVars, handVars
  <1>8. CASE Tork \/ Crash \/ UNCHANGED vars
    BY <1>8 DEF Tork, TorkStep, StartJob, PostCallback, EndJob, Crash, vars, storeVars,
       handVars
  <1>9. QED
    BY <1>2, <1>3, <1>4, <1>5, <1>6, <1>7, <1>8 DEF Next

(* An attempt that is settled behind the pass takes its task's claim away. *)
LEMMA SettlementTakesClaim ==
  ASSUME TypeOK, SubmissionIsUnseen, Submitting, [Next]_vars, ~ Scheduler,
         handStatus[sched.hand] \notin TerminalHandStatus,
         handStatus'[sched.hand] \in TerminalHandStatus
  PROVE  taskStatus'[sched.hand[1]] # "claimed"
  <1>1. sched.hand \in Hands
    BY DEF TypeOK, SchedTypeOK
  <1>2. ~ (SettleTerminal /\ sched.hand = obs.hand)
    BY DEF SettleTerminal, SubmissionIsUnseen
  <1>3. QED
    BY <1>1, <1>2, Settlements DEF TerminalTaskStatus

LEMMA ClaimIsUnsettledStep ==
  ASSUME TypeOK, SubmissionIsUnseen, ClaimIsUnsettled, [Next]_vars
  PROVE  ClaimIsUnsettled'
  <1> USE DEF TypeOK, StoreTypeOK
  <1>1. sched.hand \in Hands /\ sched.hand[1] \in Tasks
    BY DEF SchedTypeOK, Hands
  <1> SUFFICES ASSUME Submitting', taskStatus'[sched'.hand[1]] = "claimed"
               PROVE  handStatus'[sched'.hand] \notin TerminalHandStatus
    BY DEF ClaimIsUnsettled
  <1>2. CASE PersistHandExecution /\ Scheduler
    <2>1. sched'.hand = sched.hand /\ handStatus'[sched.hand] = "queued"
      BY <1>1, <1>2 DEF PersistHandExecution, SetHand, SchedTypeOK
    <2>2. QED
      BY <2>1 DEF TerminalHandStatus
  <1>3. CASE Submitting /\ sched'.hand = sched.hand
             /\ (UNCHANGED <<storeVars, obs, beat>> \/ UNCHANGED vars)
    BY <1>3 DEF ClaimIsUnsettled, vars, storeVars, handVars
  <1>4. CASE Submitting /\ UNCHANGED sched /\ ~ Scheduler
    <2>1. taskStatus[sched.hand[1]] = "claimed"
      <3>1. ~ \E n \in Attempts : ClaimRunnableTask(sched.hand[1], n)
        BY <1>4 DEF ClaimRunnableTask, Submitting
      <3>2. QED
        BY <1>1, <1>4, <3>1, ClaimMoves
    <2>2. handStatus[sched.hand] \notin TerminalHandStatus
      BY <1>4, <2>1 DEF ClaimIsUnsettled
    <2>3. QED
      BY <1>4, <2>2, SettlementTakesClaim
  <1>5. QED
    BY <1>2, <1>3, <1>4, SubmittingMoves

LEMMA ClaimHasDispatcherStep ==
  ASSUME TypeOK, ClaimIsUnsettled, ClaimHasDispatcher, [Next]_vars
  PROVE  ClaimHasDispatcher'
  <1> USE DEF TypeOK, StoreTypeOK, SchedTypeOK
  <1> SUFFICES ASSUME NEW t \in Tasks, taskStatus'[t] = "claimed"
               PROVE  t \in Dispatching' \cup abandoned'
    BY DEF ClaimHasDispatcher
  <1>1. CASE \E n \in Attempts : ClaimRunnableTask(t, n)
    BY <1>1 DEF ClaimRunnableTask, Dispatching
  <1>2. CASE ~ \E n \in Attempts : ClaimRunnableTask(t, n)
    <2>1. taskStatus[t] = "claimed"
      BY <1>2, ClaimMoves
    <2>2. t \in Dispatching \cup abandoned
      BY <2>1 DEF ClaimHasDispatcher
    <2>3. CASE PassStep /\ abandoned' = abandoned \ Dispatching'
      <3>1. CASE t \in abandoned
        BY <2>3, <3>1
      <3>2. CASE t \in Dispatching
        <4>1. sched.pc \notin {"idle", "pass"} /\ sched.hand[1] = t
          BY <3>2 DEF Dispatching
        <4>2. CASE \/ \E kind \in PreparationKinds : PreparationFails(kind)
                   \/ DecidePreparationFailure \/ PersistHandExecution
                   \/ SubmitAccepted \/ SubmitFails
          <5>1. sched'.pc \notin {"idle", "pass"} /\ sched'.hand = sched.hand
            BY <4>2 DEF PreparationFails, DecidePreparationFailure,
               PersistHandExecution, SubmitAccepted, SubmitFails
          <5>2. QED
            BY <4>1, <5>1 DEF Dispatching
        <4>3. CASE ReleasePreparation
          BY <2>1, <4>1, <4>3 DEF ReleasePreparation, SetTaskIf
        <4>4. CASE MarkTaskDispatchFailed
          BY <2>1, <4>1, <4>4 DEF MarkTaskDispatchFailed, SetTaskIf
        <4>5. CASE FinalizeSubmitted \/ IgnoreDispatchFailure
          <5>1. ~ SubmissionSettled
            BY <2>1, <4>1, <4>5 DEF ClaimIsUnsettled, Submitting, SubmissionSettled,
               TerminalTaskStatus, FinalizeSubmitted, IgnoreDispatchFailure
          <5>2. FinalizeSubmitted
            BY <4>5, <5>1 DEF IgnoreDispatchFailure
          <5>3. QED
            BY <2>1, <4>1, <5>1, <5>2 DEF FinalizeSubmitted, SetTaskIf
        <4>6. QED
          BY <2>3, <4>1, <4>2, <4>3, <4>4, <4>5 DEF PassStep, BeginPass, SkipTask,
             BlockMissingWorkspaceContract, ClaimRunnableTask, EndPass
      <3>3. QED
        BY <2>2, <3>1, <3>2
    <2>4. CASE PassFails \/ Crash
      BY <2>2, <2>4 DEF PassFails, Crash
    <2>5. CASE UNCHANGED <<sched, abandoned>>
      BY <2>2, <2>5 DEF Dispatching
    <2>6. QED
      BY <2>3, <2>4, <2>5 DEF Next, vars, processVars, Tork, Scheduler, SchedulerStep,
         Callback, Observer, Heartbeat, Operator, Applier
  <1>3. QED
    BY <1>1, <1>2

LEMMA ClaimInvHolds == Spec => []ClaimInv
  <1>1. Init => ClaimInv
    BY DEF Init, StoreInit, SchedInit, IdleSched, ObsInit, IdleObs, ClaimInv, IdsHaveRows,
       SubmissionIsUnseen, Submitting, ClaimIsUnsettled, ClaimHasDispatcher
  <1>2. TypeOK /\ RowsInv /\ ClaimInv /\ [Next]_vars => ClaimInv'
    BY IdsHaveRowsStep, SubmissionIsUnseenStep, ClaimIsUnsettledStep, ClaimHasDispatcherStep
       DEF ClaimInv
  <1>3. QED
    BY <1>1, <1>2, TypeCorrect, RowsExist, PTL DEF Spec

(* ClaimHasDispatcher: every failure that a dispatch handles gives the     *)
(* claim up, whoever settles, requeues or completes the task behind it; a  *)
(* claim without a pass was cut short by a crash or by an error that       *)
(* dispatchTask rethrows, and nobody else's.                               *)
THEOREM ClaimsAreHeld == Spec => []ClaimHasDispatcher
  <1>1. ClaimInv => ClaimHasDispatcher
    BY DEF ClaimInv
  <1>2. QED
    BY <1>1, ClaimInvHolds, PTL

-----------------------------------------------------------------------------
(* Stranded tasks, while nothing cuts the scheduler or the observer short. *)

NoInterruption == ~ Crashes /\ Fallible \cap {"scheduler", "observer"} = {}

(* The pass reports a failed preparation before it lets go of the claim.   *)
PassReports ==
    /\ sched.pc \in {"decide", "release"} =>
          /\ IsNextAttempt(sched.hand[1], sched.hand[2])
          /\ sched.kind \in Kinds
          /\ exceptions[<<sched.hand[1], sched.hand[2], sched.kind>>] # "none"
    /\ sched.pc = "reject" => "hand_submit_failed" \in Kinds
    /\ Submitting => ~ StaleAttempt(sched.hand)

ObserverReports == obs.pc \in {"settle", "observe"} => obs.kind \in Kinds

StrandInv == PassReports /\ ObserverReports /\ NoStrandedTask /\ abandoned = {}

LEMMA PassReportsStep ==
  ASSUME NoInterruption, TypeOK, RowsInv, PassReports, [Next]_vars
  PROVE  PassReports'
  <1>1. /\ sched.hand \in Hands
        /\ sched.hand = <<sched.hand[1], sched.hand[2]>>
        /\ sched.hand[1] \in Tasks /\ sched.hand[2] \in Attempts
    BY DEF TypeOK, SchedTypeOK, Hands
  <1>2. CASE PersistHandExecution
    <2>1. sched'.hand = sched.hand /\ sched'.pc = "submit"
      BY <1>2 DEF PersistHandExecution, TypeOK, SchedTypeOK
    <2>2. IsNextAttempt(sched.hand[1], sched.hand[2])
      BY <1>2 DEF PersistHandExecution, RowsInv, PassHasRow
    <2>3. ~ StaleAttempt(sched.hand)
      <3>1. ASSUME NEW m \in Attempts, m > sched.hand[2], HandExists(<<sched.hand[1], m>>)
            PROVE  FALSE
        <4>1. m < sched.hand[2]
          BY <2>2, <3>1 DEF IsNextAttempt
        <4>2. QED
          BY <1>1, <3>1, <4>1 DEF Attempts
      <3>2. QED
        BY <3>1 DEF StaleAttempt
    <2>4. \A m \in Attempts : m > sched.hand[2] =>
             handStatus'[<<sched.hand[1], m>>] = handStatus[<<sched.hand[1], m>>]
      BY <1>1, <1>2 DEF PersistHandExecution, SetHand, Hands, TypeOK, StoreTypeOK, Attempts
    <2>5. ~ StaleAttempt(sched.hand)'
      BY <2>1, <2>3, <2>4 DEF StaleAttempt, HandExists
    <2>6. QED
      BY <2>1, <2>5 DEF PassReports, StaleAttempt, HandExists
  <1>3. CASE ~ PersistHandExecution
    <2>1. \A t \in Tasks, n \in Attempts : IsNextAttempt(t, n)' <=> IsNextAttempt(t, n)
      BY <1>3, RowsOfPassOnly DEF IsNextAttempt, Hands
    <2>2. StaleAttempt(sched.hand) <=> \E m \in Attempts :
             m > sched.hand[2] /\ handStatus'[<<sched.hand[1], m>>] # "none"
      BY <1>1, <1>3, RowsOfPassOnly DEF StaleAttempt, HandExists, Hands
    <2>3. \A e \in Exceptions : exceptions[e] # "none" => exceptions'[e] # "none"
      BY ExceptionsStay
    <2>4. sched.kind \in Kinds => <<sched.hand[1], sched.hand[2], sched.kind>> \in Exceptions
      BY <1>1 DEF Exceptions
    <2>5. CASE UNCHANGED sched
      BY <1>1, <2>1, <2>2, <2>3, <2>4, <2>5 DEF PassReports, Submitting, StaleAttempt,
         HandExists
    <2>6. CASE sched'.pc \in {"idle", "pass", "prepare"}
      BY <2>6 DEF PassReports, Submitting
    <2>7. QED
      <3>1. CASE Scheduler
        <4> USE DEF TypeOK, SchedTypeOK
        <4>1. CASE BeginPass
          <5>1. sched'.pc = "pass"
            BY <4>1 DEF BeginPass, IdleSched
          <5>2. QED
            BY <2>6, <5>1
        <4>2. CASE AbortPass
          BY <2>6, <4>2 DEF AbortPass, IdleSched
        <4>3. CASE \E t \in Tasks : \/ SkipTask(t) \/ BlockMissingWorkspaceContract(t)
                                    \/ \E n \in Attempts : ClaimRunnableTask(t, n)
          BY <2>6, <4>3 DEF SkipTask, BlockMissingWorkspaceContract, ClaimRunnableTask
        <4>4. CASE EndDispatch
          BY <2>6, <4>4 DEF EndDispatch
        <4>5. CASE \E kind \in PreparationKinds : PreparationFails(kind)
          <5>1. PICK kind \in PreparationKinds : PreparationFails(kind)
            BY <4>5
          <5>2. /\ sched'.pc = "decide" /\ sched'.hand = sched.hand /\ sched'.kind = kind
                /\ kind \in Kinds
            BY <5>1 DEF PreparationFails
          <5>3. IsNextAttempt(sched.hand[1], sched.hand[2])'
            BY <1>1, <2>1, <5>1, <5>2 DEF NoInterruption, PreparationFails, RowsInv,
               PassHasRow, IsNextAttempt, HandExists
          <5>4. exceptions'[<<sched.hand[1], sched.hand[2], kind>>] # "none"
            BY <1>1, <5>1, <5>2 DEF PreparationFails, WithException, Exceptions
          <5>5. QED
            BY <5>2, <5>3, <5>4 DEF PassReports, Submitting
        <4>6. CASE DecidePreparationFailure
          <5>1. /\ sched'.pc = "release" /\ sched'.hand = sched.hand
                /\ sched'.kind = sched.kind /\ sched.pc = "decide"
            BY <4>6 DEF DecidePreparationFailure
          <5>2. QED
            BY <1>1, <2>1, <2>3, <2>4, <5>1 DEF PassReports, Submitting, IsNextAttempt,
               HandExists
        <4>7. CASE SubmitAccepted \/ SubmitFails
          <5>1. /\ sched'.pc \in {"finalize", "reject"} /\ sched'.hand = sched.hand
                /\ sched'.pc = "reject" => "hand_submit_failed" \in Kinds
                /\ Submitting
            BY <4>7 DEF SubmitAccepted, SubmitFails, Submitting
          <5>2. QED
            BY <2>2, <5>1 DEF PassReports, StaleAttempt, HandExists
        <4>8. QED
          BY <1>3, <3>1, <4>1, <4>2, <4>3, <4>4, <4>5, <4>6, <4>7 DEF Scheduler,
             SchedulerStep, PassStep, PassFails, EndPass, ReleasePreparation, FinalizeSubmitted,
             IgnoreDispatchFailure, MarkTaskDispatchFailed
      <3>2. CASE Crash
        BY <2>6, <3>2 DEF Crash, IdleSched
      <3>3. QED
        BY <2>5, <3>1, <3>2 DEF Next, vars, processVars, Tork, Callback, Observer,
           Heartbeat, Operator, Applier
  <1>4. QED
    BY <1>2, <1>3

LEMMA ObserverReportsStep ==
  ASSUME TypeOK, ObserverReports, [Next]_vars
  PROVE  ObserverReports'
  <1> USE DEF TypeOK, ObsTypeOK, ObserverReports
  <1>1. CASE Observer
    <2>1. CASE obs'.pc \notin {"settle", "observe"}
      BY <2>1
    <2>2. CASE PollTerminal \/ \E kind : TimedOut(kind)
      <3>1. CASE EndObservation
        BY <3>1 DEF EndObservation, IdleObs
      <3>2. CASE \E pc \in ObsPc, kind \in Kinds : ObsGoTo(pc, kind)
        BY <3>2 DEF ObsGoTo
      <3>3. QED
        BY <2>2, <3>1, <3>2 DEF PollTerminal, TimedOut, ObsPc
    <2>3. CASE SettleTerminal \/ SettleOverwrittenByCallback
      BY <2>3 DEF SettleTerminal, SettleOverwrittenByCallback, ObsGoTo
    <2>4. CASE \/ \E h \in Hands : ReadRow(h)
               \/ PatchRunning \/ PatchRunningTask \/ NothingToReport
               \/ ObserveException \/ DecideException
      <3>1. CASE EndObservation
        BY <3>1 DEF EndObservation, IdleObs
      <3>2. CASE \E h \in Hands : ReadRow(h)
        BY <3>2 DEF ReadRow, IdleObs
      <3>3. CASE PatchRunning \/ ObserveException
        BY <2>1, <3>3 DEF PatchRunning, ObserveException, ObsGoTo
      <3>4. QED
        BY <2>4, <3>1, <3>2, <3>3 DEF PatchRunningTask, NothingToReport, DecideException
    <2>5. QED
      BY <1>1, <2>1, <2>2, <2>3, <2>4 DEF Observer, ObserverStep, SweepFails,
         EndObservation, IdleObs
  <1>2. CASE Crash
    BY <1>2 DEF Crash, IdleObs
  <1>3. CASE UNCHANGED obs
    BY <1>3
  <1>4. QED
    BY <1>1, <1>2, <1>3 DEF Next, vars, processVars, Tork, Scheduler, Callback, Heartbeat,
       Operator, Applier

(* Somebody is about to recover task t, whose attempt n is the newest. *)
LookedAfter(t, n) == Preparing(t) \/ \E m \in Attempts : m >= n /\ Watched(<<t, m>>)

LEMMA NobodyLooksAway ==
  ASSUME NoInterruption, TypeOK, RowsInv, PassReports, ObserverReports, [Next]_vars,
         NEW t \in Tasks, NEW n \in Attempts, HandExists(<<t, n>>),
         ~ (PersistHandExecution /\ sched.hand[1] = t), LookedAfter(t, n)
  PROVE  LookedAfter(t, n)'
  <1> USE DEF TypeOK, SchedTypeOK, ObsTypeOK
  <1>1. CASE Preparing(t)
    <2>1. /\ sched.hand \in Hands
          /\ sched.hand[2] \in Attempts
          /\ sched.hand = <<t, sched.hand[2]>>
      BY <1>1 DEF Hands, Preparing
    <2>2. n < sched.hand[2]
      BY <1>1, <2>1 DEF Preparing, RowsInv, PassHasRow, IsNextAttempt
    <2>3. CASE \E kind \in PreparationKinds : PreparationFails(kind)
      <3>1. PICK kind \in PreparationKinds : PreparationFails(kind)
        BY <2>3
      <3>2. exceptions'[<<t, sched.hand[2], kind>>] # "none" /\ kind \in Kinds
        BY <1>1, <2>1, <3>1 DEF PreparationFails, WithException, Exceptions, Preparing
      <3>3. kind # "validation_failed"
        BY DEF PreparationKinds
      <3>4. PICK m \in Attempts : m = sched.hand[2]
        BY <2>1
      <3>5. Watched(<<t, m>>)'
        BY <3>2, <3>3, <3>4 DEF Watched
      <3>6. QED
        BY <2>2, <3>4, <3>5 DEF LookedAfter, Attempts
    <2>4. CASE UNCHANGED sched
      BY <1>1, <2>4 DEF LookedAfter, Preparing
    <2>5. QED
      BY <1>1, <2>3, <2>4 DEF NoInterruption, Preparing, Next, vars, processVars, Tork, Callback,
         Observer, Heartbeat, Operator, Applier, Crash, Scheduler, SchedulerStep, PassStep,
         PassFails,
         BeginPass, SkipTask, BlockMissingWorkspaceContract, ClaimRunnableTask,
         DecidePreparationFailure, ReleasePreparation, SubmitAccepted, SubmitFails,
         FinalizeSubmitted, IgnoreDispatchFailure, MarkTaskDispatchFailed, EndPass
  <1>2. ASSUME NEW m \in Attempts, m >= n, Watched(<<t, m>>)
        PROVE  LookedAfter(t, n)'
    <2>1. ASSUME NEW kind \in Kinds \ {"validation_failed"}, exceptions[<<t, m, kind>>] # "none"
          PROVE  Watched(<<t, m>>)'
      <3>1. <<t, m, kind>> \in Exceptions
        BY DEF Exceptions
      <3>2. exceptions'[<<t, m, kind>>] # "none"
        BY <2>1, <3>1, ExceptionsStay
      <3>3. QED
        BY <2>1, <3>2 DEF Watched
    <2>2. ASSUME obs.pc = "observe", obs.hand = <<t, m>>
          PROVE  Watched(<<t, m>>)'
      <3>1. CASE ObserveException
        <4>1. obs.kind \in Kinds \ {"validation_failed"} /\ ObsException = <<t, m, obs.kind>>
          BY <2>2 DEF ObserverReports, ObserverKinds, ObsException, ObsHand
        <4>2. exceptions'[<<t, m, obs.kind>>] # "none"
          BY <3>1, <4>1 DEF ObserveException, WithException, Exceptions
        <4>3. QED
          BY <4>1, <4>2 DEF Watched
      <3>2. CASE UNCHANGED obs
        BY <2>2, <3>2 DEF Watched
      <3>3. QED
        BY <2>2, <3>1, <3>2 DEF NoInterruption, Next, vars, processVars, Tork, Scheduler,
           Callback, Heartbeat, Operator, Applier, Crash, Observer, ObserverStep, SweepFails,
           ReadRow,
           PollTerminal, SettleTerminal, SettleOverwrittenByCallback, PatchRunning,
           PatchRunningTask, TimedOut, NothingToReport, DecideException
    <2>3. \/ obs.pc = "observe" /\ obs.hand = <<t, m>>
          \/ \E kind \in Kinds \ {"validation_failed"} : exceptions[<<t, m, kind>>] # "none"
      BY <1>2 DEF Watched
    <2>4. Watched(<<t, m>>)'
      BY <2>1, <2>2, <2>3
    <2>5. QED
      BY <1>2, <2>4 DEF LookedAfter
  <1>3. QED
    BY <1>1, <1>2 DEF LookedAfter

(* An attempt that is settled while its task goes on is reported. *)
LEMMA SettlementIsWatched ==
  ASSUME TypeOK, RowsInv, PassReports, ObserverReports, [Next]_vars,
         NEW t \in Tasks, NEW n \in Attempts,
         handStatus[<<t, n>>] \notin TerminalHandStatus,
         handStatus'[<<t, n>>] \in TerminalHandStatus,
         taskStatus'[t] \in {"queued", "running"}
  PROVE  Watched(<<t, n>>)'
  <1> USE DEF TypeOK, SchedTypeOK, ObsTypeOK
  <1>1. <<t, n>> \in Hands
    BY DEF Hands
  <1>2. CASE SettleTerminal /\ <<t, n>> = obs.hand
    <2>1. obs'.pc = "observe" /\ obs'.hand = obs.hand
      BY <1>2 DEF SettleTerminal, ObsGoTo
    <2>2. QED
      BY <1>2, <2>1 DEF Watched
  <1>3. CASE MarkTaskDispatchFailed /\ <<t, n>> = sched.hand
    <2>1. "hand_submit_failed" \in Kinds
      BY <1>3 DEF MarkTaskDispatchFailed, PassReports
    <2>2. exceptions'[<<t, n, "hand_submit_failed">>] # "none"
      BY <1>3, <2>1 DEF MarkTaskDispatchFailed, ObserveAndDecide, WithException, Exceptions
    <2>3. QED
      BY <2>1, <2>2 DEF Watched
  <1>4. QED
    BY <1>1, <1>2, <1>3, Settlements DEF TerminalTaskStatus

(* A task comes to queued or running with the attempt under submission, or *)
(* with a claim that a late heartbeat or observation takes over.           *)
LEMMA ClaimIsLookedAfter ==
  ASSUME TypeOK, RowsInv, PassReports, ClaimInv, abandoned = {}, [Next]_vars,
         NEW t \in Tasks, NEW n \in Attempts,
         taskStatus[t] \notin {"queued", "running"},
         taskStatus'[t] \in {"queued", "running"},
         Newest(t, n), handStatus[<<t, n>>] \in TerminalHandStatus
  PROVE  LookedAfter(t, n)'
  <1> USE DEF TypeOK, SchedTypeOK
  <1>1. /\ sched.hand \in Hands
        /\ sched.hand = <<sched.hand[1], sched.hand[2]>>
        /\ sched.hand[1] \in Tasks /\ sched.hand[2] \in Attempts
    BY DEF Hands
  <1>2. ASSUME Submitting, sched.hand[1] = t
        PROVE  sched.hand = <<t, n>>
    <2>1. HandExists(sched.hand) /\ ~ StaleAttempt(sched.hand)
      BY <1>2 DEF PassReports, RowsInv, PassHasRow, Submitting
    <2>2. ~ n > sched.hand[2] /\ ~ sched.hand[2] > n
      BY <1>1, <1>2, <2>1 DEF Newest, StaleAttempt
    <2>3. n = sched.hand[2]
      BY <1>1, <2>2 DEF Attempts
    <2>4. QED
      BY <1>1, <1>2, <2>3
  <1>3. ~ (FinalizeSubmitted /\ t = sched.hand[1] /\ ~ SubmissionSettled)
    BY <1>2 DEF FinalizeSubmitted, SubmissionSettled, Submitting
  <1>4. (PatchRunningTask \/ MarkTaskRunning) /\ taskStatus[t] = "claimed"
    BY <1>3, ClaimMoves
  <1>5. sched.pc \notin {"idle", "pass"} /\ sched.hand[1] = t
    BY <1>4 DEF ClaimInv, ClaimHasDispatcher, Dispatching
  <1>6. ~ Submitting
    BY <1>2, <1>4, <1>5 DEF ClaimInv, ClaimIsUnsettled
  <1>7. UNCHANGED <<sched, exceptions>>
    <2>1. obs' # obs \/ beat' # beat
      BY <1>4 DEF PatchRunningTask, MarkTaskRunning, EndObservation, IdleObs, BeatGoTo,
         ObsTypeOK, BeatTypeOK
    <2>2. UNCHANGED exceptions
      BY <1>4 DEF PatchRunningTask, MarkTaskRunning, recoveryVars
    <2>3. UNCHANGED sched
      BY <2>1 DEF Next, Crash, vars, processVars, Tork, Scheduler, Callback, Observer,
         Heartbeat, Operator, Applier, storeVars
    <2>4. QED
      BY <2>2, <2>3
  <1>8. CASE sched.pc = "prepare"
    BY <1>5, <1>7, <1>8 DEF LookedAfter, Preparing
  <1>9. CASE sched.pc \in {"decide", "release"}
    <2>1. PICK m \in Attempts : m = sched.hand[2]
      BY <1>1
    <2>2. n < m
      BY <1>1, <1>5, <1>9, <2>1 DEF PassReports, IsNextAttempt, Newest
    <2>3. PICK kind \in Kinds \ {"validation_failed"} : kind = sched.kind
      BY <1>9 DEF PassReports, PreparationKinds
    <2>4. exceptions'[<<t, m, kind>>] # "none"
      BY <1>5, <1>7, <1>9, <2>1, <2>3 DEF PassReports
    <2>5. Watched(<<t, m>>)'
      BY <2>3, <2>4 DEF Watched
    <2>6. QED
      BY <2>1, <2>2, <2>5 DEF LookedAfter, Attempts
  <1>10. QED
    BY <1>5, <1>6, <1>8, <1>9 DEF Submitting, SchedPc

LEMMA NoStrandedTaskStep ==
  ASSUME NoInterruption, TypeOK, RowsInv, ClaimInv, StrandInv, [Next]_vars
  PROVE  NoStrandedTask'
  <1> USE DEF TypeOK, SchedTypeOK, StoreTypeOK
  <1> SUFFICES ASSUME NEW t \in Tasks, NEW n \in Attempts,
                      taskStatus'[t] \in {"queued", "running"},
                      Newest(t, n)',
                      handStatus'[<<t, n>>] \in TerminalHandStatus
               PROVE  LookedAfter(t, n)'
    BY DEF NoStrandedTask, LookedAfter
  <1>1. <<t, n>> \in Hands
    BY DEF Hands
  <1>2. HandExists(<<t, n>>)
    <2>1. ~ (PersistHandExecution /\ <<t, n>> = sched.hand)
      BY DEF PersistHandExecution, SetHand, TerminalHandStatus
    <2>2. QED
      BY <1>1, <2>1, HandMoves DEF HandMove, Newest, HandExists, TerminalHandStatus
  <1>3. Newest(t, n)
    <2>1. ASSUME NEW m \in Attempts, m > n, HandExists(<<t, m>>)
          PROVE  FALSE
      <3>1. <<t, m>> \in Hands
        BY DEF Hands
      <3>2. HandExists(<<t, m>>)'
        BY <2>1, <3>1, RowsStay
      <3>3. QED
        BY <2>1, <3>2 DEF Newest, StaleAttempt, HandExists
    <2>2. QED
      BY <1>2, <2>1 DEF Newest, StaleAttempt
  <1>4. ~ (PersistHandExecution /\ sched.hand[1] = t)
    <2> SUFFICES ASSUME PersistHandExecution, sched.hand[1] = t
                 PROVE  FALSE
      OBVIOUS
    <2>1. sched.hand \in Hands /\ sched.hand = <<t, sched.hand[2]>> /\ sched.hand[2] \in Attempts
      BY DEF Hands
    <2>2. sched.hand[2] > n
      BY <1>2, <2>1 DEF PersistHandExecution, RowsInv, PassHasRow, IsNextAttempt, Attempts
    <2>3. handStatus'[<<t, sched.hand[2]>>] = "queued"
      BY <2>1 DEF PersistHandExecution, SetHand
    <2>4. QED
      BY <2>1, <2>2, <2>3 DEF Newest, StaleAttempt, HandExists
  <1>5. CASE handStatus[<<t, n>>] \notin TerminalHandStatus
    BY <1>5, SettlementIsWatched DEF StrandInv, LookedAfter, Attempts
  <1>6. CASE /\ handStatus[<<t, n>>] \in TerminalHandStatus
             /\ taskStatus[t] \in {"queued", "running"}
    <2>1. LookedAfter(t, n)
      BY <1>3, <1>6 DEF StrandInv, NoStrandedTask, LookedAfter
    <2>2. QED
      BY <1>2, <1>4, <2>1, NobodyLooksAway DEF StrandInv
  <1>7. CASE /\ handStatus[<<t, n>>] \in TerminalHandStatus
             /\ taskStatus[t] \notin {"queued", "running"}
    BY <1>3, <1>7, ClaimIsLookedAfter DEF StrandInv
  <1>8. QED
    BY <1>5, <1>6, <1>7

LEMMA NoneAbandonedStep ==
  ASSUME NoInterruption, abandoned = {}, [Next]_vars
  PROVE  abandoned' = {}
  BY DEF NoInterruption, Next, vars, processVars, Tork, Scheduler, SchedulerStep, PassFails,
     Callback, Observer, Heartbeat, Operator, Applier, Crash

(* NoStrandedTask: while the server stays up and the scheduler's and the   *)
(* observer's commits succeed, no settlement leaves a task queued or       *)
(* running that nothing is going to recover, in whatever order heartbeats, *)
(* polls, callbacks, commands and recoveries commit, or fail to.           *)
THEOREM NobodyIsStranded == NoInterruption => (Spec => []NoStrandedTask)
  <1> SUFFICES ASSUME NoInterruption
               PROVE  Spec => []NoStrandedTask
    OBVIOUS
  <1>1. Init => StrandInv
    <2>1. ASSUME Init PROVE PassReports /\ ObserverReports /\ abandoned = {}
      BY <2>1 DEF Init, SchedInit, IdleSched, ObsInit, IdleObs, PassReports,
         ObserverReports, Submitting
    <2>2. ASSUME Init PROVE NoStrandedTask
      BY <2>2 DEF Init, StoreInit, NoStrandedTask
    <2>3. QED
      BY <2>1, <2>2 DEF StrandInv
  <1>2. TypeOK /\ RowsInv /\ ClaimInv /\ StrandInv /\ [Next]_vars => StrandInv'
    BY PassReportsStep, ObserverReportsStep, NoStrandedTaskStep, NoneAbandonedStep
       DEF StrandInv
  <1>3. StrandInv => NoStrandedTask
    BY DEF StrandInv
  <1>4. QED
    BY <1>1, <1>2, <1>3, TypeCorrect, RowsExist, ClaimInvHolds, PTL DEF Spec

=============================================================================
