---------------------------- MODULE RunLifecycle ----------------------------
(***************************************************************************)
(* The operator's commands on a run: start (run-execution-controller.ts),  *)
(* pause, resume and cancel (run-lifecycle-routes.ts), cancelling one      *)
(* executor job (execution-routes.ts), retrying a task and forking,        *)
(* resetting or rolling back its session (task-command-routes.ts), and     *)
(* deciding an approval                                                    *)
(* (recovery-approval-service.ts).  Each is one transaction.  None of them *)
(* calls Tork: cancelling marks rows cancel_requested.                     *)
(***************************************************************************)
EXTENDS TorkExecutor

CONSTANT Commands  \* bound: the operator commands this instance can issue

AllCommands == {"start", "pause", "pause_cancelling", "resume", "cancel", "cancel_job",
                "retry_task", "fork_session", "reset_session", "rollback_session",
                "approve", "reject"}

ASSUME CommandAssumption == Commands \subseteq AllCommands

CancelRequested(h) == handStatus[h] \in {"queued", "running"}

StartRunScheduling ==
    /\ "start" \in Commands
    /\ \/ runStatus \in {"created", "scheduling"}
       \/ runStatus = "completed" /\ \E t \in Tasks : taskStatus[t] = "pending"
    /\ runStatus' = "scheduling"
    /\ UNCHANGED <<torkVars, taskStatus, handVars, accepted, receipts, recoveryVars>>

(* markActiveExecutionResourcesCancelRequested *)
MarkActiveCancelRequested ==
    handStatus' = [h \in Hands |-> IF CancelRequested(h) THEN "cancel_requested"
                                   ELSE handStatus[h]]

PauseRun(cancelActiveJobs) ==
    /\ (IF cancelActiveJobs THEN "pause_cancelling" ELSE "pause") \in Commands
    /\ runStatus \in {"scheduling", "running"}
    /\ runStatus' = "paused"
    /\ IF cancelActiveJobs THEN MarkActiveCancelRequested ELSE UNCHANGED handStatus
    /\ UNCHANGED <<torkVars, taskStatus, handJobId, handStarted, accepted, receipts,
                   recoveryVars>>

ResumeRun ==
    /\ "resume" \in Commands
    /\ runStatus = "paused"
    /\ runStatus' = "scheduling"
    /\ UNCHANGED <<torkVars, taskStatus, handVars, accepted, receipts, recoveryVars>>

CancelRun ==
    /\ "cancel" \in Commands
    /\ runStatus \notin {"completed", "cancelled"}
    /\ runStatus' = "cancelled"
    /\ MarkActiveCancelRequested
    /\ UNCHANGED <<torkVars, taskStatus, handJobId, handStarted, accepted, receipts,
                   recoveryVars>>

(* The job is found by its externalJobId. *)
CancelExecutorJob(h) ==
    /\ "cancel_job" \in Commands
    /\ handJobId[h]
    /\ CancelRequested(h)
    /\ SetHand(h, "cancel_requested")
    /\ UNCHANGED <<torkVars, runStatus, taskStatus, handJobId, handStarted, accepted,
                   receipts, recoveryVars>>

CommandFor(path) ==
    CASE path = "fork-session" -> "fork_session"
      [] path = "reset-session" -> "reset_session"
      [] path = "rollback-session" -> "rollback_session"
      [] OTHER -> "retry_task"

(* Each command is an exception and a decision of its own; c numbers the   *)
(* command, which when it is sent again has no effect.  The decision names *)
(* no hand execution; that of a rollback waits for an approval.            *)
CommandTask(t, c, path) ==
    LET e == <<t, c, "validation_failed">>
    IN /\ CommandFor(path) \in Commands
       /\ "validation_failed" \in Kinds
       /\ taskStatus[t] \in {"failed", "blocked", "running", "queued"}
       /\ exceptions[e] = "none"
       /\ exceptions' = WithException(e)
       /\ decisions' = WithDecision(e, path)
       /\ UNCHANGED <<torkVars, runStatus, taskStatus, handVars, accepted, receipts,
                      executions>>

DecideApproval(d, approved) ==
    /\ (IF approved THEN "approve" ELSE "reject") \in Commands
    /\ decisions[d] = "waiting_operator_approval"
    /\ decisions' = [decisions EXCEPT ![d] = IF approved THEN "approved" ELSE "blocked"]
    /\ UNCHANGED <<torkVars, runStatus, taskStatus, handVars, accepted, receipts,
                   exceptions, executions>>

LifecycleStep ==
    \/ StartRunScheduling
    \/ \E cancelActiveJobs \in BOOLEAN : PauseRun(cancelActiveJobs)
    \/ ResumeRun
    \/ CancelRun
    \/ \E h \in Hands : CancelExecutorJob(h)
    \/ \E t \in Tasks, c \in Attempts, path \in CommandPaths : CommandTask(t, c, path)
    \/ \E d \in Decisions, approved \in BOOLEAN : DecideApproval(d, approved)

=============================================================================
