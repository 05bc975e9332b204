--------------------------- MODULE RecoveryApplier ---------------------------
(***************************************************************************)
(* src/v2/exceptions/recovery-decision-applier.ts, applyDecision: how one  *)
(* recovery decision is carried out.  The loop "recovery-decision-applier" *)
(* and the HTTP endpoint that applies a named decision are the appliers;   *)
(* two of them may work on the same decision.  A step that throws rolls    *)
(* its transaction back and leaves the decision to be applied again.       *)
(***************************************************************************)
EXTENDS TorkExecutor

CONSTANT Appliers  \* bound: the appliers that can be at work at once

VARIABLE applier  \* applier[a]: the progress of applier a

ApplierPc == {"idle", "start", "check", "terminate", "mutate", "cancel", "requeue",
              "resolve", "complete", "finalize", "cancelAfter"}

AnyDecision == CHOOSE d \in Decisions : TRUE

IdleApplier == [pc |-> "idle", dec |-> AnyDecision]

ApplierTypeOK == applier \in [Appliers -> [pc : ApplierPc, dec : Decisions]]

ApplierInit == applier = [a \in Appliers |-> IdleApplier]

-----------------------------------------------------------------------------
Dec(a) == applier[a].dec
DecException(d) == d[1]
DecPath(d) == d[2]
DecHand(d) == HandOf(d[1])
DecTask(d) == d[1][1]

(* Decisions on these kinds carry no handExecutionId. *)
NamesHand(d) == d[1][3] \notin {"dispatch_preparation_failed", "validation_failed"}

ApplierAt(a, pc) == applier[a].pc = pc

ApplierGoTo(a, pc) == applier' = [applier EXCEPT ![a].pc = pc]

EndApply(a) == applier' = [applier EXCEPT ![a] = IdleApplier]

ExecutionStarted(d) == executions[d] \in StartedExecution

TaskCompleted(d) == taskStatus[DecTask(d)] = "completed"

SetDecision(d, status) == decisions' = [decisions EXCEPT ![d] = status]
SetExecution(d, status) == executions' = [executions EXCEPT ![d] = status]

(* finalizeRecoveryDecisionAppliedPg *)
FinalizeApplied(d) ==
    SetDecision(d, IF decisions[d] \in {"blocked", "superseded"} THEN decisions[d]
                   ELSE "applied")

(* transitionDecisionTerminalPg for a decision whose task has completed:   *)
(* superseded, or blocked when no artifact was accepted.  A decision that  *)
(* is already terminal keeps its status; an execution that has finished    *)
(* otherwise makes the transaction roll back.                              *)
CompletedTaskOutcome(d) ==
    IF decisions[d] \in TerminalDecisionStatus THEN decisions[d]
    ELSE IF DecTask(d) \in accepted THEN "superseded" ELSE "blocked"

(* Mutants: one of the two rows is forgotten. *)
TransitionDecisionOnly(d) == SetDecision(d, CompletedTaskOutcome(d)) /\ UNCHANGED executions

TransitionExecutionOnly(d) ==
    /\ IF ExecutionStarted(d) THEN SetExecution(d, CompletedTaskOutcome(d))
       ELSE UNCHANGED executions
    /\ UNCHANGED decisions

TransitionTerminal(d) ==
    LET outcome == CompletedTaskOutcome(d)
    IN IF outcome # "applied" /\ (ExecutionStarted(d) \/ executions[d] = outcome)
         THEN SetDecision(d, outcome) /\ SetExecution(d, outcome)
         ELSE UNCHANGED <<decisions, executions>>

(* executeBestEffortCancelAction: the provider may not be reached. *)
CancelBestEffort(h) == job' = CancelledJob(h) \/ UNCHANGED job

-----------------------------------------------------------------------------
(* Before the path's own transaction. *)

ClaimDecision(a, d) ==
    /\ ApplierAt(a, "idle")
    /\ decisions[d] \in {"recorded", "approved", "applying"}
    /\ SetDecision(d, "applying")
    /\ applier' = [applier EXCEPT ![a] = [pc |-> "start", dec |-> d]]
    /\ UNCHANGED <<torkVars, runStatus, taskStatus, handVars, accepted, receipts,
                   exceptions, executions>>

StartExecution(a) ==
    LET d == Dec(a)
    IN /\ ApplierAt(a, "start")
       /\ SetExecution(d, IF executions[d] = "none" THEN "started" ELSE executions[d])
       /\ IF executions[d] = "none" \/ ExecutionStarted(d) THEN ApplierGoTo(a, "check")
          ELSE IF executions[d] = "succeeded" THEN ApplierGoTo(a, "finalize")
          ELSE EndApply(a)
       /\ UNCHANGED <<torkVars, runStatus, taskStatus, handVars, accepted, receipts,
                      exceptions, decisions>>

(* applyCompletedTaskPreconditionPg, here outside any transaction. *)
CheckCompletedTask(a) ==
    /\ ApplierAt(a, "check")
    /\ ApplierGoTo(a, IF TaskCompleted(Dec(a)) THEN "terminate" ELSE "mutate")
    /\ UNCHANGED <<torkVars, storeVars>>

TerminateDecision(a) ==
    /\ ApplierAt(a, "terminate")
    /\ TransitionTerminal(Dec(a))
    /\ EndApply(a)
    /\ UNCHANGED <<torkVars, runStatus, taskStatus, handVars, accepted, receipts,
                   exceptions>>

-----------------------------------------------------------------------------
(* The single transaction of every path but requeue-hand-execution.        *)

OneTransaction(a) ==
    ApplierAt(a, "mutate") /\ DecPath(Dec(a)) # "requeue-hand-execution"

ExecutionAlreadyFinished(a) ==
    LET d == Dec(a)
    IN /\ OneTransaction(a)
       /\ ~ ExecutionStarted(d)
       /\ IF executions[d] = "succeeded" THEN FinalizeApplied(d) ELSE UNCHANGED decisions
       /\ EndApply(a)
       /\ UNCHANGED <<torkVars, runStatus, taskStatus, handVars, accepted, receipts,
                      exceptions, executions>>

SupersedeInTransaction(a) ==
    /\ OneTransaction(a)
    /\ ExecutionStarted(Dec(a))
    /\ TaskCompleted(Dec(a))
    /\ TransitionTerminal(Dec(a))
    /\ EndApply(a)
    /\ UNCHANGED <<torkVars, runStatus, taskStatus, handVars, accepted, receipts,
                   exceptions>>

(* Mutant: the completed-task precondition is checked outside only. *)
AppliesUnchecked(a, path) ==
    /\ OneTransaction(a)
    /\ DecPath(Dec(a)) = path
    /\ ExecutionStarted(Dec(a))

Applies(a, path) ==
    /\ OneTransaction(a)
    /\ DecPath(Dec(a)) = path
    /\ ExecutionStarted(Dec(a))
    /\ ~ TaskCompleted(Dec(a))

(* Mutant: the decision's status word is written to the execution. *)
SucceedAsApplied(d) ==
    /\ ResolveException(DecException(d))
    /\ SetExecution(d, "applied")
    /\ FinalizeApplied(d)

Succeed(d) ==
    /\ ResolveException(DecException(d))
    /\ SetExecution(d, "succeeded")
    /\ FinalizeApplied(d)

(* The run is reopened when it had already completed. *)
RetrySameTask(a) ==
    LET d == Dec(a)
    IN /\ Applies(a, "retry-same-task-new-attempt")
       /\ IF NamesHand(d) THEN SetHand(DecHand(d), "superseded") ELSE UNCHANGED handStatus
       /\ SetTask(DecTask(d), "pending")
       /\ runStatus' = IF runStatus = "completed" THEN "scheduling" ELSE runStatus
       /\ Succeed(d)
       /\ EndApply(a)
       /\ UNCHANGED <<torkVars, handJobId, handStarted, accepted, receipts>>

(* applySessionRecoveryMutation: the task goes on in a new session.  The   *)
(* attempt in progress is left alone, and a completed run is not reopened. *)
RecoverSession(a) ==
    LET d == Dec(a)
    IN /\ \E path \in SessionPaths : Applies(a, path)
       /\ SetTask(DecTask(d), "pending")
       /\ Succeed(d)
       /\ EndApply(a)
       /\ UNCHANGED <<torkVars, runStatus, handVars, accepted, receipts>>

(* A rollback whose workspace snapshot is missing or unusable.             *)
BlockRollback(a) ==
    LET d == Dec(a)
    IN /\ Applies(a, "rollback-session")
       /\ SetDecision(d, "blocked")
       /\ SetExecution(d, "blocked")
       /\ EndApply(a)
       /\ UNCHANGED <<torkVars, runStatus, taskStatus, handVars, accepted, receipts, exceptions>>

ObserveOnly(a) ==
    /\ Applies(a, "none-observe-only")
    /\ Succeed(Dec(a))
    /\ EndApply(a)
    /\ UNCHANGED <<torkVars, runStatus, taskStatus, handVars, accepted, receipts>>

(* The exception stays unresolved. *)
BlockForOperator(a) ==
    LET d == Dec(a)
    IN /\ Applies(a, "block-for-operator")
       /\ SetTask(DecTask(d), "blocked")
       /\ SetDecision(d, "blocked")
       /\ SetExecution(d, "blocked")
       /\ EndApply(a)
       /\ UNCHANGED <<torkVars, runStatus, handVars, accepted, receipts, exceptions>>

(* The old job is cancelled only after the commit, if its id is known.     *)
ReprovisionHand(a) ==
    LET d == Dec(a)
    IN /\ Applies(a, "reprovision-hand")
       /\ SetHand(DecHand(d), "lost")
       /\ SetTask(DecTask(d), "pending")
       /\ Succeed(d)
       /\ IF handJobId[DecHand(d)] THEN ApplierGoTo(a, "cancelAfter") ELSE EndApply(a)
       /\ UNCHANGED <<torkVars, runStatus, handJobId, handStarted, accepted, receipts>>

CancelReprovisionedJob(a) ==
    /\ ApplierAt(a, "cancelAfter")
    /\ CancelBestEffort(DecHand(Dec(a)))
    /\ EndApply(a)
    /\ UNCHANGED <<sent, storeVars>>

-----------------------------------------------------------------------------
(* requeue-hand-execution: stage, cancel, mutate, resolve, complete,       *)
(* finalize, each a commit of its own.                                     *)

Requeues(a) == ApplierAt(a, "mutate") /\ DecPath(Dec(a)) = "requeue-hand-execution"

(* Only the applier that stages the evidence cancels the job. *)
StageRequeue(a) ==
    LET d == Dec(a)
    IN /\ Requeues(a)
       /\ ~ TaskCompleted(d)
       /\ SetExecution(d, IF ExecutionStarted(d) THEN "staged" ELSE executions[d])
       /\ IF ~ ExecutionStarted(d) THEN EndApply(a)
          ELSE ApplierGoTo(a, IF executions[d] = "started" /\ handJobId[DecHand(d)]
                              THEN "cancel" ELSE "requeue")
       /\ UNCHANGED <<torkVars, runStatus, taskStatus, handVars, accepted, receipts,
                      exceptions, decisions>>

CancelRequeuedJob(a) ==
    LET d == Dec(a)
    IN /\ ApplierAt(a, "cancel")
       /\ CancelBestEffort(DecHand(d))
       /\ IF ExecutionStarted(d) \/ executions[d] = "succeeded"
            THEN ApplierGoTo(a, "requeue") ELSE EndApply(a)
       /\ UNCHANGED <<sent, storeVars>>

SupersedeRequeue(a) ==
    /\ Requeues(a) \/ ApplierAt(a, "requeue")
    /\ TaskCompleted(Dec(a))
    /\ TransitionTerminal(Dec(a))
    /\ EndApply(a)
    /\ UNCHANGED <<torkVars, runStatus, taskStatus, handVars, accepted, receipts,
                   exceptions>>

(* Mutant: the old attempt is left active. *)
RequeueTaskOnly(a) ==
    LET d == Dec(a)
    IN /\ ApplierAt(a, "requeue")
       /\ ~ TaskCompleted(d)
       /\ SetTask(DecTask(d), "pending")
       /\ ApplierGoTo(a, "resolve")
       /\ UNCHANGED <<torkVars, runStatus, handVars, accepted, receipts, recoveryVars>>

(* This transaction does not look at the execution's status. *)
RequeueTask(a) ==
    LET d == Dec(a)
    IN /\ ApplierAt(a, "requeue")
       /\ ~ TaskCompleted(d)
       /\ SetHand(DecHand(d), "lost")
       /\ SetTask(DecTask(d), "pending")
       /\ ApplierGoTo(a, "resolve")
       /\ UNCHANGED <<torkVars, runStatus, handJobId, handStarted, accepted, receipts,
                      recoveryVars>>

ResolveRequeued(a) ==
    /\ ApplierAt(a, "resolve")
    /\ ResolveException(DecException(Dec(a)))
    /\ ApplierGoTo(a, "complete")
    /\ UNCHANGED <<torkVars, runStatus, taskStatus, handVars, accepted, receipts,
                   decisions, executions>>

(* A second completion returns the first one when its evidence is the same, *)
(* and throws otherwise.                                                   *)
CompleteRequeue(a) ==
    LET d == Dec(a)
    IN /\ ApplierAt(a, "complete")
       /\ SetExecution(d, IF ExecutionStarted(d) THEN "succeeded" ELSE executions[d])
       /\ \/ /\ ExecutionStarted(d) \/ executions[d] = "succeeded"
             /\ ApplierGoTo(a, "finalize")
          \/ ~ ExecutionStarted(d) /\ EndApply(a)
       /\ UNCHANGED <<torkVars, runStatus, taskStatus, handVars, accepted, receipts,
                      exceptions, decisions>>

FinalizeDecision(a) ==
    /\ ApplierAt(a, "finalize")
    /\ FinalizeApplied(Dec(a))
    /\ EndApply(a)
    /\ UNCHANGED <<torkVars, runStatus, taskStatus, handVars, accepted, receipts,
                   exceptions, executions>>

ApplyFails(a) ==
    /\ "applier" \in Fallible
    /\ ~ ApplierAt(a, "idle")
    /\ EndApply(a)
    /\ UNCHANGED <<torkVars, storeVars>>

ApplierStep(a) ==
    \/ \E d \in Decisions : ClaimDecision(a, d)
    \/ StartExecution(a)
    \/ CheckCompletedTask(a)
    \/ TerminateDecision(a)
    \/ ExecutionAlreadyFinished(a)
    \/ SupersedeInTransaction(a)
    \/ RetrySameTask(a)
    \/ RecoverSession(a)
    \/ BlockRollback(a)
    \/ ObserveOnly(a)
    \/ BlockForOperator(a)
    \/ ReprovisionHand(a)
    \/ CancelReprovisionedJob(a)
    \/ StageRequeue(a)
    \/ CancelRequeuedJob(a)
    \/ SupersedeRequeue(a)
    \/ RequeueTask(a)
    \/ ResolveRequeued(a)
    \/ CompleteRequeue(a)
    \/ FinalizeDecision(a)
    \/ ApplyFails(a)

=============================================================================
