-------------------------- MODULE SouthstarRuntime --------------------------
(***************************************************************************)
(* One run under the managed runtime of src/v2/server/runtime-loops.ts:    *)
(* the scheduler, observer and applier loops, the callback, heartbeat and  *)
(* command requests, and the external Tork, interleaved commit by commit.  *)
(* The server may crash between any two commits: every process loses its   *)
(* progress, Postgres and Tork keep theirs.                                *)
(***************************************************************************)
EXTENDS RunnableTaskScheduler, CallbackIngestion, TorkObserver, HandHeartbeat,
        RunLifecycle, RecoveryApplier

CONSTANTS
    Loops,   \* bound: which of "observer", "heartbeat" this instance runs
    Crashes  \* bound: whether the server may crash in this instance

processVars == <<sched, abandoned, ingest, obs, beat, applier>>
vars == <<storeVars, torkVars, processVars>>

TypeOK ==
    /\ StoreTypeOK
    /\ TorkTypeOK
    /\ SchedTypeOK
    /\ IngestTypeOK
    /\ ObsTypeOK
    /\ BeatTypeOK
    /\ ApplierTypeOK

Init ==
    /\ StoreInit
    /\ TorkInit
    /\ SchedInit
    /\ IngestInit
    /\ ObsInit
    /\ BeatInit
    /\ ApplierInit

(* The server process dies and starts again. *)
Crash ==
    /\ Crashes
    /\ abandoned' = abandoned \cup Dispatching
    /\ sched' = IdleSched
    /\ ingest' = [r \in Requests |-> IdleIngest]
    /\ obs' = IdleObs
    /\ beat' = IdleBeat
    /\ applier' = [a \in Appliers |-> IdleApplier]
    /\ UNCHANGED <<storeVars, torkVars>>

Tork == TorkStep /\ UNCHANGED processVars
Scheduler == SchedulerStep /\ UNCHANGED <<ingest, obs, beat, applier>>
Callback(r) == RequestStep(r) /\ UNCHANGED <<sched, abandoned, obs, beat, applier>>
Observer ==
    /\ "observer" \in Loops
    /\ ObserverStep
    /\ UNCHANGED <<sched, abandoned, ingest, beat, applier>>
Heartbeat ==
    /\ "heartbeat" \in Loops
    /\ HeartbeatStep
    /\ UNCHANGED <<sched, abandoned, ingest, obs, applier>>
Operator == LifecycleStep /\ UNCHANGED processVars
Applier(a) == ApplierStep(a) /\ UNCHANGED <<sched, abandoned, ingest, obs, beat>>

Next ==
    \/ Tork
    \/ Scheduler
    \/ \E r \in Requests : Callback(r)
    \/ Observer
    \/ Heartbeat
    \/ Operator
    \/ \E a \in Appliers : Applier(a)
    \/ Crash

Spec == Init /\ [][Next]_vars

-----------------------------------------------------------------------------
(* Fairness: what createRuntimeLoopController guarantees while the server  *)
(* stays up.  A loop ticks again after every pass, so a loop that can step *)
(* does; a request that was received runs to its end.  Every sweep visits  *)
(* every active row, and polling is retried on every sweep, so a row is    *)
(* read and a poll succeeds if each can again and again.  Of Tork only     *)
(* that a job ends; nobody promises that a callback is posted or arrives.  *)
JobEnds(h) == (\E status \in JobStatus : EndJob(h, status)) /\ UNCHANGED processVars

RequestGoesOn(r) == ingest[r].pc # "idle" /\ Callback(r)

Fairness ==
    /\ WF_vars(Scheduler)
    /\ WF_vars(Observer)
    /\ SF_vars(Observer /\ PollTerminal)
    /\ \A h \in Hands : SF_vars(Observer /\ ReadRow(h)) /\ WF_vars(JobEnds(h))
    /\ \A r \in Requests : WF_vars(RequestGoesOn(r))
    /\ \A a \in Appliers : WF_vars(Applier(a))

FairSpec == Spec /\ Fairness

-----------------------------------------------------------------------------
(* Scheduling. *)

(* The tasks the scheduler counts as occupying a slot never exceed         *)
(* effortPolicy.maxParallelTasks, although the cap is read once per pass   *)
(* and heartbeats, callbacks and recovery move tasks in between.           *)
ParallelLimit == EffortCap > 0 => Cardinality(ActiveTasks) <= EffortCap

(* Two tasks that write overlapping resources are never active together,   *)
(* whichever pass claimed them (decideWorkspaceClaim).                     *)
WriterExclusion ==
    \A t, u \in ActiveTasks \ ReadOnly : t # u => ~ ResourcesOverlap(t, u)

(* No attempt exists, and no task occupies a slot, before the artifacts    *)
(* the task depends on are accepted, although a pass dispatches from the   *)
(* ready set it read at its start.                                         *)
DependenciesAccepted ==
    \A t \in Tasks :
        t \in ActiveTasks \/ (\E n \in Attempts : HandExists(<<t, n>>))
            => Deps[t] \subseteq accepted

(* A claimed task is in the hands of the pass that claimed it, unless a    *)
(* crash or an error of that very dispatch cut it short: the failures      *)
(* dispatchTask handles, raced by callbacks and recovery, leave no claim   *)
(* behind, and no process takes a claim back from a later pass.            *)
ClaimHasDispatcher ==
    \A t \in Tasks : taskStatus[t] = "claimed" => t \in Dispatching \cup abandoned

(* Attempts. *)

(* A settled attempt never becomes active again: neither a heartbeat nor a *)
(* provider observation nor a cancel request in flight revives it.         *)
SettledAttemptStaysSettled ==
    [][\A h \in Hands : handStatus[h] \in TerminalHandStatus
                            => handStatus'[h] \in TerminalHandStatus]_vars

(* A completed task is never reset, blocked or failed: a callback that     *)
(* wins the race against a recovery decision keeps its result.             *)
CompletedTaskIsFinal ==
    [][\A t \in Tasks : taskStatus[t] = "completed" => taskStatus'[t] = "completed"]_vars

Newest(t, n) == HandExists(<<t, n>>) /\ ~ StaleAttempt(<<t, n>>)

(* An operator's command is no watch: its number is not of an attempt. *)
Watched(h) ==
    \/ obs.pc = "observe" /\ obs.hand = h
    \/ \E kind \in Kinds \ {"validation_failed"} : exceptions[<<h[1], h[2], kind>>] # "none"

Preparing(t) == sched.pc = "prepare" /\ sched.hand[1] = t

(* A queued or running task whose newest attempt is settled is about to be *)
(* recovered, or to get its next attempt: the attempt has an exception, or *)
(* the observer that settled it is on its way to record one; or the task   *)
(* was claimed again before a late heartbeat or observation set it         *)
(* running, and the pass prepares the next attempt or has failed to.       *)
NoStrandedTask ==
    \A t \in Tasks, n \in Attempts :
        /\ taskStatus[t] \in {"queued", "running"}
        /\ Newest(t, n)
        /\ handStatus[<<t, n>>] \in TerminalHandStatus
        => Preparing(t) \/ \E m \in Attempts : m >= n /\ Watched(<<t, m>>)

(* Runs. *)

(* Once a run is cancelled, it stays cancelled and no result is taken.     *)
CancelledRunIsFrozen ==
    [][runStatus = "cancelled" => runStatus' = "cancelled" /\ accepted' = accepted]_vars

(* Recovery. *)

(* A decision and its execution tell one story at every commit, whoever    *)
(* applies it and wherever an applier crashes: the drain loop of           *)
(* runtime-loops.ts relies on it, since an "applying" decision with a      *)
(* blocked or superseded execution would be picked for ever.               *)
DecisionMatchesExecution ==
    \A d \in Decisions :
        CASE decisions[d] \in {"none", "recorded", "waiting_operator_approval", "approved"}
               -> executions[d] = "none"
          [] decisions[d] = "applying"
               -> executions[d] \in {"none", "succeeded"} \cup StartedExecution
          [] decisions[d] = "applied" -> executions[d] = "succeeded"
          [] decisions[d] = "superseded" -> executions[d] = "superseded"
          [] decisions[d] = "blocked" -> executions[d] \in {"none", "blocked"}

(* An applied decision has resolved its exception and retired the attempt  *)
(* it names.                                                               *)
AppliedDecisionTookEffect ==
    \A d \in Decisions : decisions[d] = "applied" =>
        /\ exceptions[DecException(d)] = "resolved"
        /\ DecPath(d) # "none-observe-only" /\ NamesHand(d)
              => handStatus[DecHand(d)] \in TerminalHandStatus

(* Progress. *)

(* A task that holds a slot gives it up: its container answers, or the     *)
(* observer settles the attempt and the applier puts the task back, even   *)
(* when the callback is lost or races both.                                *)
SlotsAreFreed ==
    \A t \in Tasks : taskStatus[t] \in ActiveTaskStatus ~> taskStatus[t] \notin ActiveTaskStatus

(* The drain loop of the applier ends: a decision that may be applied      *)
(* reaches a terminal status and is not picked again and again.            *)
OpenDecision(d) == decisions[d] \in {"recorded", "approved", "applying"}

DecisionsSettle ==
    \A d \in Decisions : OpenDecision(d) ~> decisions[d] \in TerminalDecisionStatus

(* The run completes after its last task, whichever of the concurrent      *)
(* callbacks was the last to commit: one of them sees all tasks terminal.  *)
(* Recovery may reopen the run by putting a task back.                     *)
RunCompletes == AllTasksTerminal ~> (runStatus = "completed" \/ ~ AllTasksTerminal)

-----------------------------------------------------------------------------
(* What the runtime promises about attempts and artifacts. *)

Contract == INSTANCE DispatchContract WITH
    issued <- {h \in Hands : HandExists(h)},
    ended <- {h \in Hands : handStatus[h] \in TerminalHandStatus}

ImplementsContract == Contract!ContractSpec

=============================================================================
