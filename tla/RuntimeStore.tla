---------------------------- MODULE RuntimeStore ----------------------------
(***************************************************************************)
(* The Postgres truth of one workflow run, as every runtime process of     *)
(* src/v2 sees it: the run row, the task rows, the hand_execution          *)
(* resources (one per dispatch attempt), the accepted artifact_refs, the   *)
(* callback receipts, the runtime exceptions, the recovery decisions and   *)
(* the recovery executions.  The modules that EXTEND this one are the      *)
(* processes; every action of theirs is one committed transaction (or one  *)
(* auto-committed statement) on these variables.  A transaction may also   *)
(* fail (a deadlock, a lost connection): it leaves no trace, and the error *)
(* ends what its process was doing.                                        *)
(***************************************************************************)
EXTENDS Naturals, FiniteSets

CONSTANTS
    Tasks,          \* the tasks of the run's manifest
    Deps,           \* Deps[t]: the tasks t depends on (depends_on_json)
    EffortCap,      \* effortPolicy.maxParallelTasks; 0 when the manifest omits it
    Contracted,     \* tasks whose manifest entry has workspaceMutation metadata
    ReadOnly,       \* of these, mode = read_only
    Worktree,       \* of these, isolation = git_worktree
    ResourceKeys,   \* ResourceKeys[t]: workspaceMutation.resourceKeys, {} = whole workspace
    AttemptBound,   \* bound: dispatch attempts explored per task
    Kinds,          \* bound: the exception kinds this instance keeps rows of
    QueueTimeoutLimit, \* DEFAULT_TORK_QUEUE_TIMEOUT_AUTO_REQUEUE_LIMIT
    Fallible        \* bound: the processes whose transactions may fail in this instance

Attempts == 1 .. AttemptBound

(* A hand_execution id is hand-execution:<run>:<task>:<attempt>. *)
Hands == Tasks \X Attempts

AllKinds == {"dispatch_preparation_failed", "tool_proxy_violation", "hand_submit_failed",
             "tork_queue_timeout", "tork_running_hang", "tork_terminal_without_callback",
             "stale_callback", "late_callback", "workspace_merge_conflict",
             "validation_failed"}

SessionPaths == {"fork-session", "reset-session", "rollback-session"}

Paths == {"retry-same-task-new-attempt", "reprovision-hand", "requeue-hand-execution",
          "block-for-operator", "none-observe-only"} \cup SessionPaths

(* The paths an operator's task commands name. *)
CommandPaths == {"retry-same-task-new-attempt"} \cup SessionPaths

ASSUME StoreAssumption ==
    /\ IsFiniteSet(Tasks)
    /\ Tasks # {}
    /\ Deps \in [Tasks -> SUBSET Tasks]
    /\ EffortCap \in Nat
    /\ Contracted \subseteq Tasks
    /\ ReadOnly \subseteq Contracted
    /\ Worktree \subseteq Contracted \ ReadOnly
    /\ DOMAIN ResourceKeys = Tasks
    /\ AttemptBound \in Nat \ {0}
    /\ QueueTimeoutLimit \in Nat \ {0}

ASSUME KindAssumption == Kinds \subseteq AllKinds /\ Kinds # {}

-----------------------------------------------------------------------------
TerminalTaskStatus == {"completed", "failed", "cancelled", "lost", "blocked"}
ActiveTaskStatus == {"claimed", "queued", "running"}
TaskStatus == {"pending"} \cup ActiveTaskStatus \cup TerminalTaskStatus

TerminalHandStatus == {"completed", "failed", "cancelled", "lost", "superseded"}
ActiveHandStatus == {"queued", "running", "cancel_requested"}
HandStatus == {"none"} \cup ActiveHandStatus \cup TerminalHandStatus

RunStatus == {"created", "scheduling", "running", "paused", "completed", "cancelled"}

ExceptionStatus == {"none", "observed", "resolved"}

TerminalDecisionStatus == {"applied", "blocked", "superseded"}
DecisionStatus == {"none", "recorded", "waiting_operator_approval", "approved", "applying"}
                      \cup TerminalDecisionStatus

(* "staged" is the row status started with its evidence already staged. *)
StartedExecution == {"started", "staged"}
ExecutionStatus == {"none"} \cup StartedExecution \cup {"succeeded", "blocked", "superseded"}

(* An exception is identified by its fingerprint <<task, attempt, kind>>.  *)
(* For an operator's task command the second component is the command.     *)
Exceptions == Tasks \X Attempts \X Kinds

(* The recovery paths a decision on an exception of a kind can have; the   *)
(* operator's task command names its path itself.                          *)
PathsOf(kind) ==
    CASE kind \in {"tork_terminal_without_callback", "dispatch_preparation_failed"}
           -> {"retry-same-task-new-attempt"}
      [] kind = "validation_failed" -> CommandPaths
      [] kind \in {"tork_running_hang", "hand_submit_failed"} -> {"reprovision-hand"}
      [] kind \in {"late_callback", "stale_callback"} -> {"none-observe-only"}
      [] kind = "tork_queue_timeout" -> {"requeue-hand-execution", "block-for-operator"}
      [] OTHER -> {"block-for-operator"}

(* A decision is identified by its exception and its recovery path. *)
Decisions == {d \in Exceptions \X Paths : d[2] \in PathsOf(d[1][3])}

HandOf(e) == <<e[1], e[2]>>

VARIABLES
    runStatus,   \* workflow_runs.status
    taskStatus,  \* workflow_tasks.status
    handStatus,  \* hand_execution status; "none" when there is no row
    handJobId,   \* whether the hand_execution payload holds an externalJobId
    handStarted, \* whether its payload holds startedAt or lastHeartbeatAt
    accepted,    \* tasks with an accepted artifact_ref
    receipts,    \* callbacks whose receipt is in workflow_history
    exceptions,  \* runtime_exception status
    decisions,   \* recovery_decision status
    executions   \* recovery_execution status

handVars == <<handStatus, handJobId, handStarted>>
recoveryVars == <<exceptions, decisions, executions>>
storeVars == <<runStatus, taskStatus, handVars, accepted, receipts, recoveryVars>>

(* The callback results a container can post: its verdict stands for the   *)
(* payload the receipt token hashes.                                       *)
Callbacks == [hand : Hands, ok : BOOLEAN]

StoreTypeOK ==
    /\ runStatus \in RunStatus
    /\ taskStatus \in [Tasks -> TaskStatus]
    /\ handStatus \in [Hands -> HandStatus]
    /\ handJobId \in [Hands -> BOOLEAN]
    /\ handStarted \in [Hands -> BOOLEAN]
    /\ accepted \subseteq Tasks
    /\ receipts \subseteq Callbacks
    /\ exceptions \in [Exceptions -> ExceptionStatus]
    /\ decisions \in [Decisions -> DecisionStatus]
    /\ executions \in [Decisions -> ExecutionStatus]

StoreInit ==
    /\ runStatus = "created"
    /\ taskStatus = [t \in Tasks |-> "pending"]
    /\ handStatus = [h \in Hands |-> "none"]
    /\ handJobId = [h \in Hands |-> FALSE]
    /\ handStarted = [h \in Hands |-> FALSE]
    /\ accepted = {}
    /\ receipts = {}
    /\ exceptions = [e \in Exceptions |-> "none"]
    /\ decisions = [d \in Decisions |-> "none"]
    /\ executions = [d \in Decisions |-> "none"]

-----------------------------------------------------------------------------
(* Reading the store. *)

ActiveTasks == {t \in Tasks : taskStatus[t] \in ActiveTaskStatus}

AllTasksTerminal == \A t \in Tasks : taskStatus[t] \in TerminalTaskStatus

HandExists(h) == handStatus[h] # "none"

(* nextDispatchAttemptId: one more than the highest attempt number on a row. *)
IsNextAttempt(t, n) ==
    /\ ~ HandExists(<<t, n>>)
    /\ \A m \in Attempts : HandExists(<<t, m>>) <=> m < n

(* staleAttemptReasonPg: some row of the task has a higher attempt number. *)
StaleAttempt(h) == \E m \in Attempts : m > h[2] /\ HandExists(<<h[1], m>>)

-----------------------------------------------------------------------------
(* Writing the store. *)

SetTask(t, status) == taskStatus' = [taskStatus EXCEPT ![t] = status]

SetTaskIf(t, from, status) ==
    taskStatus' = [taskStatus EXCEPT ![t] = IF @ \in from THEN status ELSE @]

SetHand(h, status) == handStatus' = [handStatus EXCEPT ![h] = status]

(* recordRuntimeExceptionPg: an exception with this fingerprint, resolved  *)
(* or not, is returned unchanged.                                          *)
WithException(e) ==
    [x \in Exceptions |-> IF x = e /\ exceptions[x] = "none" THEN "observed"
                          ELSE exceptions[x]]

ResolveException(e) == exceptions' = [exceptions EXCEPT ![e] = "resolved"]

(* classifyRecoveryPath, over the exception set excs. *)
QueueTimeoutsOf(t, excs) ==
    {n \in Attempts : excs[<<t, n, "tork_queue_timeout">>] # "none"}

(* Only a queue timeout has a choice: requeue while the budget lasts. *)
RecoveryPath(e, excs) ==
    IF e[3] = "tork_queue_timeout"
      THEN IF Cardinality(QueueTimeoutsOf(e[1], excs)) < QueueTimeoutLimit
             THEN "requeue-hand-execution" ELSE "block-for-operator"
      ELSE CHOOSE path \in PathsOf(e[3]) : TRUE

RequiresOperatorApproval(path) == path \in {"block-for-operator", "rollback-session"}

(* recordRecoveryDecisionPg: idempotent by (exception, path). *)
InitialDecisionStatus(path) ==
    IF RequiresOperatorApproval(path) THEN "waiting_operator_approval" ELSE "recorded"

WithDecision(e, path) ==
    [d \in Decisions |-> IF d = <<e, path>> /\ decisions[d] = "none"
                           THEN InitialDecisionStatus(path) ELSE decisions[d]]

(* observe, classify and decide inside the caller's transaction. *)
ObserveAndDecide(e) ==
    /\ exceptions' = WithException(e)
    /\ decisions' = WithDecision(e, RecoveryPath(e, WithException(e)))

=============================================================================
