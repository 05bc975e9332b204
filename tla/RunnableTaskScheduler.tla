----------------------- MODULE RunnableTaskScheduler -----------------------
(***************************************************************************)
(* src/v2/scheduler/runnable-task-scheduler.ts: one pass of the loop       *)
(* "runnable-task-scheduler" over the run.  A pass reads the ready tasks   *)
(* and the parallelism cap once, and then, for each ready task, claims it, *)
(* prepares it, records its hand_execution, submits it to Tork and         *)
(* finalizes the submission; every one of these is a commit of its own.    *)
(* Tasks of a pass are tried in any order (the code's order is             *)
(* sort_order, which the manifest chooses).                                *)
(***************************************************************************)
EXTENDS TorkExecutor

VARIABLES
    sched,     \* the pass in progress
    abandoned  \* history: the tasks whose last dispatch an error or a crash cut short

SchedPc == {"idle", "pass", "prepare", "decide", "release", "submit", "finalize", "reject"}

PreparationKinds == {"dispatch_preparation_failed", "tool_proxy_violation"}

AnyHand == CHOOSE h \in Hands : TRUE

IdleSched == [pc |-> "idle", ready |-> {}, cap |-> 1, hand |-> AnyHand,
              kind |-> "dispatch_preparation_failed"]

SchedTypeOK ==
    /\ sched \in [pc : SchedPc, ready : SUBSET Tasks, cap : Nat, hand : Hands,
                  kind : PreparationKinds]
    /\ abandoned \subseteq Tasks

SchedInit == sched = IdleSched /\ abandoned = {}

(* The task the pass has claimed and not yet let go. *)
Dispatching == IF sched.pc \in {"idle", "pass"} THEN {} ELSE {sched.hand[1]}

-----------------------------------------------------------------------------
(* What a pass and a claim decide from. *)

(* Mutant: a dependency that ended, with an artifact or not, counts. *)
DependenciesEnded(t) == \A u \in Deps[t] : taskStatus[u] \in TerminalTaskStatus

DependenciesReady(t) == Deps[t] \subseteq accepted

ReadyTasks == {t \in Tasks : taskStatus[t] = "pending" /\ DependenciesReady(t)}

MaxParallelTasks ==
    IF EffortCap > 0 THEN EffortCap
    ELSE IF ReadyTasks = {} THEN 1 ELSE Cardinality(ReadyTasks)

(* Mutant: off by one. *)
ParallelLimitExceeded == Cardinality(ActiveTasks) > sched.cap

ParallelLimitReached == Cardinality(ActiveTasks) >= sched.cap

ResourcesOverlap(t, u) ==
    \/ ResourceKeys[t] = {}
    \/ ResourceKeys[u] = {}
    \/ ResourceKeys[t] \cap ResourceKeys[u] # {}

MissingContract(t) == ~ ({t} \cup ActiveTasks \subseteq Contracted)

(* Mutant: nobody yields to a writer in a worktree. *)
SharedWriterConflict(t) ==
    \E u \in ActiveTasks \ {t} : u \notin ReadOnly \cup Worktree /\ ResourcesOverlap(t, u)

(* decideWorkspaceClaim: a reader yields to a shared writer only, a writer *)
(* to every writer.                                                        *)
WorkspaceConflict(t) ==
    \E u \in ActiveTasks \ {t} :
        /\ u \notin ReadOnly
        /\ ResourcesOverlap(t, u)
        /\ t \in ReadOnly => u \notin Worktree

(* Bound: a task whose attempts are used up is skipped. *)
AttemptsLeft(t) == \E n \in Attempts : IsNextAttempt(t, n)

Claimable(t) ==
    /\ taskStatus[t] = "pending"
    /\ ~ ParallelLimitReached
    /\ ~ MissingContract(t)
    /\ ~ WorkspaceConflict(t)

-----------------------------------------------------------------------------
(* The pass. *)

EndDispatch == sched' = [sched EXCEPT !.pc = "pass", !.hand = AnyHand]

AbortPass == sched' = IdleSched

BeginPass ==
    /\ sched.pc = "idle"
    /\ runStatus \in {"scheduling", "running"}
    /\ ReadyTasks # {}
    /\ sched' = [IdleSched EXCEPT !.pc = "pass", !.ready = ReadyTasks,
                                  !.cap = MaxParallelTasks]
    /\ UNCHANGED <<torkVars, storeVars>>

(* claimRunnableTask returns status-changed, parallel-limit or conflict.   *)
SkipTask(t) ==
    /\ sched.pc = "pass"
    /\ t \in sched.ready
    /\ \/ taskStatus[t] # "pending"
       \/ ParallelLimitReached
       \/ ~ MissingContract(t) /\ WorkspaceConflict(t)
       \/ ~ AttemptsLeft(t)
    /\ sched' = [sched EXCEPT !.ready = @ \ {t}]
    /\ UNCHANGED <<torkVars, storeVars>>

BlockMissingWorkspaceContract(t) ==
    /\ sched.pc = "pass"
    /\ t \in sched.ready
    /\ taskStatus[t] = "pending"
    /\ ~ ParallelLimitReached
    /\ MissingContract(t)
    /\ SetTask(t, "blocked")
    /\ sched' = [sched EXCEPT !.ready = @ \ {t}]
    /\ UNCHANGED <<torkVars, runStatus, handVars, accepted, receipts, recoveryVars>>

(* The claim commits before nextDispatchAttemptId reads the attempt number; *)
(* only the task's claimant inserts its hand_execution rows.               *)
ClaimRunnableTask(t, n) ==
    /\ sched.pc = "pass"
    /\ t \in sched.ready
    /\ Claimable(t)
    /\ IsNextAttempt(t, n)
    /\ SetTask(t, "claimed")
    /\ sched' = [sched EXCEPT !.pc = "prepare", !.ready = @ \ {t}, !.hand = <<t, n>>]
    /\ UNCHANGED <<torkVars, runStatus, handVars, accepted, receipts, recoveryVars>>

(* Preparation (workspace, context, bindings, policy) throws; or, when     *)
(* executeTask has failed, markTaskDispatchFailed itself throws.           *)
PreparationFails(kind) ==
    /\ \/ sched.pc = "prepare"
       \/ "scheduler" \in Fallible /\ sched.pc = "reject" /\ kind = "dispatch_preparation_failed"
    /\ kind \in Kinds
    /\ exceptions' = WithException(<<sched.hand[1], sched.hand[2], kind>>)
    /\ sched' = [sched EXCEPT !.pc = "decide", !.kind = kind]
    /\ UNCHANGED <<torkVars, runStatus, taskStatus, handVars, accepted, receipts,
                   decisions, executions>>

DecidePreparationFailure ==
    /\ sched.pc = "decide"
    /\ LET e == <<sched.hand[1], sched.hand[2], sched.kind>>
       IN decisions' = WithDecision(e, RecoveryPath(e, exceptions))
    /\ sched' = [sched EXCEPT !.pc = "release"]
    /\ UNCHANGED <<torkVars, runStatus, taskStatus, handVars, accepted, receipts,
                   exceptions, executions>>

(* Mutant: the claim is released only when the policy rejected the hand. *)
ReleaseRejectedOnly ==
    /\ sched.pc = "release"
    /\ IF sched.kind = "tool_proxy_violation" THEN SetTaskIf(sched.hand[1], {"claimed"}, "blocked")
       ELSE UNCHANGED taskStatus
    /\ AbortPass
    /\ UNCHANGED <<torkVars, runStatus, handVars, accepted, receipts, recoveryVars>>

(* releaseTaskDispatchPreparation, or blockTaskDispatchPreparation when    *)
(* the tool policy rejected the hand; the error ends the pass.             *)
ReleasePreparation ==
    /\ sched.pc = "release"
    /\ SetTaskIf(sched.hand[1], {"claimed"},
                 IF sched.kind = "tool_proxy_violation" THEN "blocked" ELSE "pending")
    /\ AbortPass
    /\ UNCHANGED <<torkVars, runStatus, handVars, accepted, receipts, recoveryVars>>

PersistHandExecution ==
    /\ sched.pc = "prepare"
    /\ SetHand(sched.hand, "queued")
    /\ sched' = [sched EXCEPT !.pc = "submit"]
    /\ UNCHANGED <<torkVars, runStatus, taskStatus, handJobId, handStarted, accepted,
                   receipts, recoveryVars>>

(* executeTask.  When it fails, Tork may or may not have taken the job.    *)
SubmitAccepted ==
    /\ sched.pc = "submit"
    /\ SubmitJob(sched.hand)
    /\ sched' = [sched EXCEPT !.pc = "finalize"]
    /\ UNCHANGED <<sent, storeVars>>

SubmitFails ==
    /\ sched.pc = "submit"
    /\ "hand_submit_failed" \in Kinds
    /\ SubmitJob(sched.hand) \/ UNCHANGED job
    /\ sched' = [sched EXCEPT !.pc = "reject"]
    /\ UNCHANGED <<sent, storeVars>>

SubmissionSettled ==
    \/ handStatus[sched.hand] \in TerminalHandStatus
    \/ taskStatus[sched.hand[1]] \in TerminalTaskStatus

FinalizeSubmitted ==
    /\ sched.pc = "finalize"
    /\ handJobId' = [handJobId EXCEPT ![sched.hand] = TRUE]
    /\ IF SubmissionSettled THEN UNCHANGED taskStatus
       ELSE SetTaskIf(sched.hand[1], {"claimed"}, "queued")
    /\ EndDispatch
    /\ UNCHANGED <<torkVars, runStatus, handStatus, handStarted, accepted, receipts,
                   recoveryVars>>

(* markTaskDispatchFailed, ignored when the callback came first.           *)
IgnoreDispatchFailure ==
    /\ sched.pc = "reject"
    /\ SubmissionSettled
    /\ EndDispatch
    /\ UNCHANGED <<torkVars, storeVars>>

(* persistHandExecution replaces the payload: job id and heartbeats go.    *)
MarkTaskDispatchFailed ==
    /\ sched.pc = "reject"
    /\ ~ SubmissionSettled
    /\ SetHand(sched.hand, "failed")
    /\ handJobId' = [handJobId EXCEPT ![sched.hand] = FALSE]
    /\ handStarted' = [handStarted EXCEPT ![sched.hand] = FALSE]
    /\ ObserveAndDecide(<<sched.hand[1], sched.hand[2], "hand_submit_failed">>)
    /\ SetTaskIf(sched.hand[1], {"claimed"}, "failed")
    /\ AbortPass
    /\ UNCHANGED <<torkVars, runStatus, accepted, receipts, executions>>

EndPass ==
    /\ sched.pc = "pass"
    /\ sched.ready = {}
    /\ AbortPass
    /\ UNCHANGED <<torkVars, storeVars>>

(* An error that dispatchTask rethrows, or raises while it handles one:    *)
(* finalizeSubmittedHandExecutionPg fails after Tork took the job, or the  *)
(* failure of the preparation cannot be recorded or released.  The pass    *)
(* ends and the claim stays.  executeTask's own errors are handled.        *)
PassFails ==
    /\ "scheduler" \in Fallible
    /\ sched.pc \notin {"idle", "submit"}
    /\ abandoned' = abandoned \cup Dispatching
    /\ AbortPass
    /\ UNCHANGED <<torkVars, storeVars>>

PassStep ==
    \/ BeginPass
    \/ \E t \in Tasks :
          \/ SkipTask(t)
          \/ BlockMissingWorkspaceContract(t)
          \/ \E n \in Attempts : ClaimRunnableTask(t, n)
    \/ \E kind \in PreparationKinds : PreparationFails(kind)
    \/ DecidePreparationFailure
    \/ ReleasePreparation
    \/ PersistHandExecution
    \/ SubmitAccepted
    \/ SubmitFails
    \/ FinalizeSubmitted
    \/ IgnoreDispatchFailure
    \/ MarkTaskDispatchFailed
    \/ EndPass

SchedulerStep ==
    \/ PassStep /\ abandoned' = abandoned \ Dispatching'
    \/ PassFails

=============================================================================
