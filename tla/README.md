# Southstar: TLA+ models of the managed runtime and the protocols around it

Southstar turns a goal into a workflow (a graph of tasks), gives each task to an
agent container under the external executor Tork, and judges from the results
whether the goal was reached. Postgres holds the truth; a server process holds
four loops and answers HTTP requests, and every one of them reads and writes the
same rows in many small commits. Some protocols span two stores (files and
Postgres, Git and Postgres) or wait for a model or an operator between two
commits. This directory models them commit by commit: TLC checks small instances,
and TLAPS proves every safety property that the runs check for every instance.

Paths below are relative to the repository (`src/v2/...` is the TypeScript source).

## 1. The system

### Components and their state

| Component (source under `src/v2`) | State it keeps | Operations | Interacts by |
|---|---|---|---|
| Runtime store (`stores`, `db`) | run, task rows; resources `hand_execution`, `artifact_ref`, `runtime_exception`, `recovery_decision`, `recovery_execution`, receipts, history | upserts, conditional updates, transactions with row locks | shared by all |
| Runnable-task scheduler (`scheduler`, `workspace/concurrency-policy`) | a pass's ready set, cap and current task, in memory only | claim, prepare, record hand, submit, finalize, fail | store, Tork submit |
| Callback ingestion (`executor/postgres-tork-callback`, `attempt-settlement`) | one request's progress | preflight, ingest, resolve exception, repair, completion gate, advance a set | HTTP from containers, store |
| Tork observer (`executor/tork-observer`) | the sweep's row snapshot | poll, settle, mark running, time out, record exception, decide | store, Tork poll |
| Heartbeat (`server/routes`) | one request's progress | write hand, task, run | HTTP from containers, store |
| Run and task commands (`server/run-lifecycle-routes`, `run-execution-controller`, `execution-routes`, `task-command-routes`) | none | start, pause, resume, cancel, cancel job, retry, fork, reset, rollback, approve | HTTP from operators, store |
| Recovery decisions and applier (`exceptions`) | an applier's progress | classify, claim, start execution, apply a path, finalize | store, Tork cancel |
| Session operations (`session-recovery`) | root sessions, operation rows, snapshots | fork, reset, rollback; wake | applier, store, Git |
| Runtime loops (`server/runtime-loops`) | timers, in-flight flags | tick each loop, drain decisions | start the loops above |
| Goal design and confirmation (`orchestration`) | planner draft, package revisions, imports, confirmation; a marker in memory | revise, confirm, resolve, design, compose, hand off | a model, store, scheduler |
| Goal execution sets (`orchestration/goal-execution-set`) | slices of a goal, their runs and approvals | materialize, attach, advance | store, callbacks, approvals |
| Runtime revision (`runtime-revision`) | manifest revisions, repair rounds | add repair tasks to an active run, ask for authority | store, callbacks, approvals |
| Approvals (`approvals`) | approval rows and requests | request, decide, continue | commands, the two above |
| Evaluators, completion gate, goal outcome (`evaluators`) | evidence packets, evaluator results, outcome | judge checks, complete the run, derive an outcome | called by ingestion |
| Workspaces (`workspace`, `session-recovery/workspace-snapshot`) | worktrees, allocations, snapshots | allocate, merge, discard, abandon, restore | called by dispatch, ingestion, rollback; Git |
| Design library (`design-library`) | files, graph, import drafts, publication journals | publish, install, reconcile, recover | files, store |
| Run event stream (`ui-api`, `server`, web hook) | history numbers, a cursor, the list shown | append, poll, stream, reconnect | store, HTTP |
| Work items (`work-items`) | items and their runs | intake, materialize | HTTP, store |
| Manifests, templates, planner, profiles, skills | static documents | validate, one request to a model | files, store |
| Read models, inspection, UI API, web, CLI, MCP | views | project, post commands | HTTP |
| Context, sessions, tool proxy, memory, evolution | context packets, derived records | assemble, policy verdicts, derive | called by dispatch and ingestion |
| Agent runner, harness, brain | none the server reads | run the agent in the container | processes, network |

### What is hard about it

- Nothing holds a lock across a dispatch: a pass reads its cap and ready set once,
  then makes one commit for the claim, one for the hand row, one call to Tork and
  one commit for the result, while callbacks, heartbeats, commands and recovery
  commit in between.
- A callback may be lost, late, duplicated, or posted by a container that was
  cancelled or retried long ago.
- The observer, the heartbeat and ingestion all read a hand row and write it later;
  some of these writes carry no condition.
- The applier loop and the HTTP endpoint may apply one decision together, and a
  crash may fall between any two commits of either.
- What follows a callback (repair, completion gate, the next slice of a set)
  happens in commits of its own after the main one.
- Models are asked outside any transaction and answer minutes later, against
  requirements, packages, libraries or manifests that may have moved on.
- Whether a confirmation is in progress is known only to the memory of the server.
- Approvals arrive late, twice, or for a proposal that was overtaken; an operator
  retries a task whose failure is being repaired.
- A commit in the middle of a pass, a request or a sweep may fail like any other call.
- A publication writes files and rows, a merge writes a repository and rows; either
  may stop in the middle, while an operator edits the files.
- A watcher resumes a history after the last event it saw, while events that have
  no number are mixed in.

`PROJECT.json` lists each of these as a hazard, at the line where it bites.

### What makes each component correct

- Scheduler: no more slots than the cap; writers of overlapping resources
  exclude each other; nothing is issued before its dependencies' artifacts are
  accepted; no claim is left behind by a failure the dispatch handles.
- Ingestion: a result counts once, for the newest attempt only; a cancelled run
  takes none; of concurrent last callbacks one completes the run.
- Observer and heartbeat: a settled attempt is not revived; an attempt they settle
  leads to recovery.
- Recovery and session commands: a decision and its execution agree; an applied
  decision had its effect; a completed task is never reset; open decisions settle.
- Runtime: slots are freed under lost callbacks; together the processes implement
  the dispatch contract.
- Goal: what is under review is of one lineage; one run per package, of exactly the
  package that was confirmed; no draft stays frozen without somebody working on it.
- Execution set: slices start in order and approved; a set waits for somebody; its
  outcome is final.
- Repair: what is delivered was verified after its last repair; repairs form a line;
  authority is used for the manifest it was given for; a waiting run has someone to
  wait for.
- Coverage: satisfied means verified, by evidence of what is covered now; ingestion
  and the gate agree, but for two named cases.
- Library: files and graph converge to what was committed; edits survive.
- Events: a watcher misses nothing its list has room for and sees nothing twice.
- Workspaces: exactly the work of attempts that completed their task is merged.
- Work items: attempts are consecutive, a run belongs to one item.

## 2. Modules

```
RuntimeStore                       rows, exceptions, classification, decisions
  TorkExecutor                     jobs and posted callbacks (external)
    RunnableTaskScheduler  CallbackIngestion  TorkObserver
    HandHeartbeat          RunLifecycle       RecoveryApplier
      SouthstarRuntime             composition, Crash, fairness, properties
        RuntimeClaims              statements of the design documents
          MCRuntime                instances for TLC
        SouthstarRuntimeProofs     types, tasks, slots, hand rows, the contract, run status
          RecoveryProofs           decisions, executions, claims, stranded tasks
DispatchContract                   abstract specification

GoalDraft                          rows of a goal before its run
  GoalReview                       requirements, validation, imports, slices
    GoalConfirmation               confirmation and the one run
      GoalOrchestration            composition, Crash, properties
        GoalProofs
        MCGoal                     with GoalCoverage, TaskWorkspaces, WorkItems
GoalCoverage  TaskWorkspaces  WorkItems
  WorkProofs                       about the three of them

GoalExecutionSet  RunEventStream   a goal in slices; the watcher of a run
  PlatformProofs                   about the two of them
DynamicRepair
  RepairProofs
LibraryPublication
  LibraryProofs
MCPlatform                         GoalExecutionSet, DynamicRepair, LibraryPublication,
                                   RunEventStream for TLC
GreatestElements                   lemmas on the least and the greatest number of a set
```

An action is one commit (a transaction, or an auto-committed statement), one call
to Tork, Git or the file system, or one answer of a model. A process is a record
with a `pc` that names the commit that comes next and the values it read earlier
and will use.

| Module | Variables | Stands for |
|---|---|---|
| `RuntimeStore` | `runStatus`, `taskStatus`, `handStatus`, `handJobId`, `handStarted`, `accepted`, `receipts`, `exceptions`, `decisions`, `executions` | `workflow_runs.status`, `workflow_tasks.status`, the `hand_execution` resources (status, whether the payload has `externalJobId`, whether it has a clock anchor), accepted `artifact_ref`s, receipts, and the three recovery resources. A hand is `<<task, attempt>>`, as in `attempt-identity.ts`; an exception is its fingerprint `<<task, attempt, kind>>`; a decision is `<<exception, path>>` |
| `TorkExecutor` | `job`, `sent` | Tork's jobs, and the callbacks posted. A posted callback stays and may arrive any number of times, at any time, or never |
| `RunnableTaskScheduler` | `sched`, `abandoned` | one pass: `BeginPass` (cap and ready set), `ClaimRunnableTask`, `PreparationFails`..`ReleasePreparation`, `PersistHandExecution`, `SubmitAccepted`/`SubmitFails`, `FinalizeSubmitted`, `MarkTaskDispatchFailed`; `PassFails` is an error the dispatch rethrows, or raises while it handles another |
| `CallbackIngestion` | `ingest` | requests in progress: `Preflight`, one action per outcome of the main transaction (`IngestDuplicate`, `IngestForCancelledRun`, `IngestIgnored`, `IngestResult`, `IngestMergeConflict`), `ResolveTerminalWithoutCallback`, `FinalizeCallbackLifecycle` |
| `TorkObserver` | `obs` | `ReadRow`, `PollTerminal`, `SettleTerminal`, `PatchRunning`, `TimedOut`, `ObserveException`, `DecideException` |
| `HandHeartbeat` | `beat` | the four statements of `patchManagedHandExecutionHeartbeatPg` |
| `RunLifecycle` | none | the commands, each one transaction; `CommandTask` is retry, fork, reset and rollback, which record a decision |
| `RecoveryApplier` | `applier` | `applyDecision`: claim, start the execution, completed-task precondition, then the one transaction of a path (`RecoverSession` and `BlockRollback` among them), or the six commits of a requeue |
| `SouthstarRuntime` | none | `Next`, `Crash`, `Fairness`, the properties and the mapping to the contract |
| `DispatchContract` | `issued`, `ended`, `accepted` | what the runtime promises: attempts are numbered without gaps and issued when dependencies are accepted; an attempt ends once; artifacts come from the newest attempt |
| `GoalDraft` | `draft`, `packageRevisions`, `imports`, `library`, `confirmation`, `active`, `goalRuns` | the planner draft, revisions of its package, library imports, the confirmation and its in-memory marker, the runs. A hash is the number of what it is a hash of |
| `GoalReview` | `resolver`, `designer` | the requests that ask a model: resolving the validation (or resuming it after an import) and designing slices; revisions and confirmation of requirements |
| `GoalConfirmation` | `confirmer` | confirmation requests: prepare, mark composing, compose, commit the run, hand off, and the transaction of each failure |
| `GoalOrchestration` | `goalCrashes`, `takenOver` | the composition and its properties |
| `GoalCoverage` | `coverage`, `coverTasks`, `products`, `results`, `alarms`, `repairsDue`, `judgeDue`, `judged`, `retries` | frozen coverage, producers and evaluators, evaluator results with their evidence packets, one repair, the gate and its outcome |
| `TaskWorkspaces` | `writers`, `dispatching`, `containers`, `head`, `dirty`, `worktrees`, `allocations`, `snapshots` | the repository, worktrees, `workspace_allocation` and `workspace_snapshot` rows, around preparation, callback and recovery of their tasks; a piece of work is the attempt that made it |
| `WorkItems` | `workItems`, `itemRuns`, `submissions` | items by source reference, the runs made from them, requests between their reads and writes |
| `GoalExecutionSet` | `executionSet`, `sliceRuns`, `approvals`, `materializer`, `advances`, `unnoticed`, `interventions`, `setCrashes` | the set, a run per slice and materialization, its approval, who still has to advance the set; `EndByDecision` is a decision on a repair that ends a run, `AdvanceFails` and `StartFails` an advance that fails |
| `DynamicRepair` | `repairRun`, `chainTasks`, `repairs`, `deliver`, `authority`, `callbacks`, `gateDue`, `deciding`, `repairCrashes`, `verificationRetries`, `reopened` | an implementation with its verification (a chain) over rounds of repair, the task that depends on all chains, approvals of more authority, and the operator's `RetryVerification` |
| `LibraryPublication` | `live`, `graph`, `importDraft`, `markers`, `journals`, `manifests`, `request`, `holder`, `server` | files by text and inode, the graph, the journal of a publication, committed markers, requests, the advisory lock and what its holder has moved |
| `RunEventStream` | `history`, `writers`, `stream`, `frames`, `watcher`, ... | numbered events and transactions that append them, the server's side of a stream, frames on their way, the panel with its limited list |

Variables marked "ghost" or "history" in the modules record what happened for a
property and restrict no action: `takenOver`, `overlapped`, `settled`, `replayed`,
`switched`, `finished`, `crossed`, `torn`, `restored`, `answers`, `abandoned`,
`unnoticed`, `reopened`.

Data is abstracted to what the properties tell apart. A callback is its attempt
and its verdict; Tork may retry a failed container, so one job may post both
verdicts. Contents of artifacts, payloads, history events, wording and
timestamps are left out; a timeout may fire whenever the row has the anchor its
clock needs. What `classifyRuntimeException` says of an exception is the operator
`RecoveryPath`; the budget of automatic requeues counts exceptions of the task,
as the code does. What a model answers is a choice.

More abstractions, by module:

- Failures: a transaction that fails writes nothing and ends its process where it is
  (`PassFails`, `RequestFails`, `HeartbeatFails`, `SweepFails`, `ApplyFails`), for the
  processes an instance names `Fallible`. In a pass, what `dispatchTask` catches is
  handled as it does (`PreparationFails`, `SubmitFails`); what it rethrows, or cannot
  handle in turn, ends the pass with the claim in place.
- Session commands: the operation row and the execution complete in one
  transaction, so that the operation's own replay check is never the deciding one.
  Fork, reset and rollback share one mutation and differ in the approval and the
  snapshot a rollback needs; root sessions and rollback markers are left out, and
  the restored workspace is in `TaskWorkspaces`. A command sent again finds its
  decision.
- Goal: an import is keyed by the resolution it came from (a stale one is none); a
  candidate of the library is its version; one request of each kind (resolver,
  designer) is in flight; the recheck of library bindings before a run passes.
- Coverage: identities, lineages and profile versions compare equal, since all are
  frozen at composition; evaluators are disjoint from producers, as composition
  checks; a check has an evidence kind and an artifact contract of its own, and a
  criterion one binding; every evaluator waits for all producers of its requirements,
  not only for those it refers to. Of canonical diagnostics, tool violations and
  stop conditions nothing is modelled, and one requirement is repaired once (the
  rounds are in `DynamicRepair`).
- Repair: of the operator's commands, the retry of a failed verification. The retry of
  a task that is queued or running makes it pending again while its container may still
  report, which leads to states the model has without it. A callback is done before its
  task, retried, reports again.
- Library: the check of a file and the rename that moves it aside are one step, as
  are the last placement and the journal's next phase, and the preflight reads and
  the journal's creation; the lock of the import draft and the advisory lock are
  taken together; the rollback of one request is atomic; a commit does not fail;
  the operator edits files, and neither deletes nor creates them.
- Events: the last read before a stream closes is one more tick.
- Workspaces: one pass at a time; which changes conflict is a choice; a container
  whose worktree is gone fails.
- Work items: items have a source reference; callers that name the same run want
  the same manifest.

Definitions under a comment "Mutant" are plausible mistakes, used only to show
that a property notices them; `PROJECT.json` pairs each with its property.

## 3. What is checked

`goals` and `platform` use `MCGoal` and `MCPlatform`, all other runs `MCRuntime`.
Deadlock is not checked: a run whose tasks have ended, or whose attempts are used
up, really stops, and so does a goal with its run, or a set that is over.

`MCGoal` and `MCPlatform` hold several protocols that share no state. Each
behaviour moves one of them (the variable `focus`, chosen at the start) and leaves
the others in their first state, so their state spaces add up instead of
multiplying, and every property is checked over the full state space of its own
protocol, within the bounds below.

| Run | Instance | Shows |
|---|---|---|
| `dispatch` | three tasks: a writer in a worktree, a shared writer of the same resource, a reader that depends on one of them | `WriterExclusion`, `DependenciesAccepted`, `ClaimHasDispatcher` while preparation fails, policies reject, merges conflict and any commit of the pass may fail |
| `commands` | three tasks, one of them without workspace contract, cap 1, every run command, merges that conflict, callbacks and heartbeats in flight, of which a heartbeat may fail midway | `ParallelLimit`, `SettledAttemptStaysSettled`, `CancelledRunIsFrozen` |
| `recovery` | one task, two attempts, running hangs, failed submissions, rejections by the tool policy, late callbacks, an operator who approves or rejects, failing transactions of the pass, a request, the sweep and the applier, crashes | `TypeOK`, `CompletedTaskIsFinal`, `ImplementsContract` |
| `appliers` | two appliers, a requeue, an approved block, and a rollback by command | `DecisionMatchesExecution`, `AppliedDecisionTookEffect`, `NoStrandedTask`, `SettledAttemptStaysSettled` |
| `liveness` | one task, two attempts, callbacks that may never be posted | `SlotsAreFreed`, `DecisionsSettle` under `Fairness` |
| `completion` | two tasks, two concurrent requests, operator retries that reopen the run | `RunCompletes` under `Fairness` |
| `goals`, focus goal | two requirement drafts, two library versions, two package revisions, two confirmation requests, a crash between any two transactions | `PackageLineage`, `LinkedImportIsCurrent`, `OneRunPerPackage`, `FrozenByItsConfirmation`, `ActiveConfirmationIsOwned`, `RunsOfTheReviewedPackage` |
| `goals`, focus coverage | two requirements with a blocking check each and one that blocks nothing; evidence that fails, is invalid or is missing; a repair of each, one of which has its contracts and checks split over two producers and two evaluators; a retry, a blocked task | `SatisfiedIsVerified`, `AcceptedVerificationCounts` |
| `goals`, focus workspace | a task with a worktree and two attempts, one that writes to the repository; a transaction that fails after its merge, a rollback | `FinishedWorkIsMerged`, `OnlyFinishedWorkIsMerged` |
| `goals`, focus items | two callers that make two runs from two items | `AttemptsAreConsecutive` |
| `platform`, focus set | three slices, the third after the first, two materializations, approvals, decisions that end a run, a command on a run, a crash or a failed advance | `SlicesStartInOrder`, `SetNeverStalls`, `TerminalSetIsFinal` |
| `platform`, focus repair | two chains, two rounds, two approvals of authority, a crash or an operator's retry of a failed verification | `DeliveredIsVerified`, `RepairsFormALine`, `WaitsForSomebody`, `AuthorityIsCurrent` |
| `platform`, focus library | three requests, two of which publish two files, and an edit, or two requests and two edits; a crash | `LibraryConverges`, `GraphShowsTheSettled`, `EditsSurvive` |
| `platform`, focus events | three events of two writers, a live event, a lost connection; a panel that keeps two events, and a client that hands on every one | `EventsAreComplete`, `EventsComeOnce` |

Some properties leave out behaviours in which the code is known to go wrong, named
by a history variable: `OneRunPerPackage` and `FrozenByItsConfirmation` after a
live confirmation was taken over (`takenOver`, gap A), `RepairsFormALine` and
`DeliveredIsVerified` of a chain with a failure that was taken up twice, by an
overtaken approval (`Overtaken`, gap G) or by an operator's retry of a verification
that was repaired or about to be (`reopened`, gap AA), `SetNeverStalls` after a crash,
a failed advance or a command, and between a decision that ends a run and the next
advance (`unnoticed`, gap F), `AcceptedVerificationCounts` for two kinds of evaluations
that ingestion and the gate judge differently (`FlawedOption`, `PartialView`, gaps M
and Z), `ClaimHasDispatcher` for a task whose last dispatch was cut short by a crash or
a rethrown error (`abandoned`, section 5), `LibraryConverges` and
`GraphShowsTheSettled` after two requests, or a request and an edit, met in one of
the ways recovery cannot undo (`overlapped`, gap I), the event properties after the watcher looked
elsewhere, and after a loss that follows a live event (`switched`, `replayed`, gap
K), and `FinishedWorkIsMerged` for an attempt whose successor had its worktree
already, or whose work a rollback threw away (`crossed`, `restored`, gaps U, X).
`EditsSurvive` holds without exception.

Four runs end in a counterexample, each against a sentence of a design document
(under `docs/superpowers/specs`; quoted in `PROJECT.json`):

| Run | Statement | What the code does |
|---|---|---|
| `pause_race` | a paused run gets no new hand | `claimRunnableTask` locks the run row without looking at its status, so a pass that began before the pause goes on to claim and submit |
| `late_callback` | a callback of a superseded or lost attempt is only observed | ingestion asks whether the task is terminal and whether a newer row exists; between a requeue and the next dispatch neither holds, and the result is accepted |
| `stale_decision` | a decision overtaken by a newer attempt becomes superseded | retry and reprovision do not compare the attempt they name with the newest, and reset the task of a live attempt |
| `stranded_task` | a terminal job without a callback forms a recovery chain | the observer settles the row in one commit and records the exception in the next; a crash between them leaves a row no sweep selects again |

### Bounds

| Bound | Meaning | Why it is enough |
|---|---|---|
| `AttemptBound` | dispatch attempts per task | two give an old and a new attempt at once, which is what stale callbacks and decisions need; a task without attempts left is skipped. `appliers`, which is about decisions, has one |
| `Kinds` | exception kinds with rows | kinds with the same path behave alike; each path occurs in some run |
| `Verdicts` | verdicts posted | a failing verdict adds states but no interleaving the accepted one lacks, except in `DispatchContract`, where the theorem covers it |
| `Requests`, `Appliers` | concurrent requests, appliers | two of either are needed for a race, and are given where the property is about one |
| `Commands` | operator commands | those the run asks about; a fork or a reset of a session is applied like a rollback that was approved; `appliers` with forks (1.8 million states) was checked once |
| `Loops`, `Crashes`, `Fallible` | optional processes, crashes, processes whose transactions may fail | on in the runs whose property they threaten: the scheduler in `dispatch`, the heartbeat in `commands`, all but the heartbeat in `recovery`. `OneCutShort` lets one dispatch of a writer be cut short in `dispatch`, before the reader's; without it (2.5 million states) the run was checked once, too. `appliers` (beyond 6 million states with one) and the liveness runs have none |
| `QueueTimeoutLimit` | automatic requeues, 3 in the code | 2 in the runs, which stay on the automatic side of it; the boundary itself is not a property yet |
| `MaxRequirements`, `MaxLibrary`, `MaxRevisions`, `MaxRuns` | revisions of what a goal is made from, runs | two of each give the old and the new at once; a third repeats the move from one to the next. `TwoTurnsOfEvents` lets two of these happen to a goal: a second requirement draft, a second library version, a second run, a crash |
| `MaxGoalCrashes`, `MaxSetCrashes`, `MaxRepairCrashes`, `MaxLibCrashes` | crashes; for a set also advances that fail | one, at every point; what a crash leaves is met by every later request |
| `Reports` (`OneFlaw`), `MaxRetries`, `MaxAlarms` | what evaluators say, retries, blocked tasks | at most one check does not pass in a report, in each of the ways the code tells apart; one retry gives an older and a newer result of one task. Two retries, with one producer and one evaluator in the repair, were checked once, too |
| `MaxWorkTries` (`TwoForks`), `MaxTorn`, `MaxRestores` | attempts, failed transactions, rollbacks | an attempt and its successor; one fault at every point. Two isolated tasks beside a direct one (4.3 million states) were checked once, too |
| `Submissions`, `SourceRefs`, `RunNames`, `Labels` | callers, items, runs | two callers race, each may send any number of requests |
| `MaxGenerations`, `MaxInterventions` | materializations, commands on runs | two: a failed one and its repetition; `RetryIsEarly` lets the first fail at its first slice only, and keeps the repetition apart from the command and from a decision that ends a run |
| `MaxRepairRounds`, `MaxAuthorities` | rounds in a run (2 is the code's default), approvals | two chains compete for the last round, or one is repaired twice; two approvals overtake each other. Three rounds without a retry were checked once, too |
| `MaxVerificationRetries`, `Compositions` | an operator's retries; a failure that is reported again is composed anew | one retry of each failure there may be. `RetryIsAlone` keeps it apart from a crash and from a second approval |
| `MaxPublications`, `MaxEdits`, library `Requests` | publications, edits, requests | two publications and a reconcile overlap in every way; three publications were checked once, too. The second edit comes after a commit (`SecondEditIsLate`), which is when a recovery can publish a file again; two edits without that bound were checked with one publication. Two edits and three requests are not in one behaviour (`EditsOrRequests`); without that bound (1.5 million states) it was checked once, too |
| `MaxEvents`, `MaxLive`, `MaxLosses` | events, live events, losses | an event before, at and after the cursor |
| `PanelLimit` | what a panel keeps, 200 in the code | two of four events: a full list lets go of an event for a live one and for a later one |

`Confirmers` and `Appliers` are symmetric: actions and properties treat their
members alike, and no liveness is checked where they are permuted. So are the
requests to the library; `RequestsInOrder` has them made in one order, which costs
less than permuting them. The theorems of section 4 hold for every value of their constants.

### Fairness

`Fairness` assumes what `createRuntimeLoopController` does while the server stays
up: a loop ticks again after each pass (`WF` of scheduler, observer, appliers); a
request received runs to its end (`WF`); every sweep selects every active row and
polls it, and a failed poll is repeated on the next sweep (`SF` of `ReadRow(h)`
and `PollTerminal`). Of Tork it assumes only that a job ends. Nothing is assumed
of posting or delivering a callback, of timeouts or of commands. The liveness runs
have no crashes, no transactions that fail (`Fallible = {}`) and no heartbeats: with any
of these, the code does leave tasks behind
(section 5).

The protocols of `goals` and `platform` have no fairness and only safety
properties: what would have to be fair there is an operator, a model or a caller,
of whom the code justifies no assumption. That nobody waits for nothing is stated
as an invariant instead (`SetNeverStalls`, `WaitsForSomebody`,
`ActiveConfirmationIsOwned`).

## 4. What is proved

Every safety property that a run checks is a theorem for every value of the
constants: any number of tasks, attempts, requests, appliers, files, chains,
slices, events, retries and crashes. The assumptions on constants are named in the
modules that declare the constants, and TLC evaluates them on every run:
`StoreAssumption`, `KindAssumption`, `VerdictAssumption`, `CommandAssumption` (the
runtime), `GoalBounds`, `GoalCrashBound`, `CoverageBounds`, `FrozenCoverage`,
`WorkspaceBounds`, `LaunchOrderIsTopological`, `SetBounds`, `RepairBounds`,
`LibraryBounds`, `StreamBounds`. Most say that a bound is a number. Those that say
more: `LaunchOrderIsTopological` is what `topologicalSliceOrder` returns;
`FrozenCoverage` is what a coverage is refused without before a run starts (a producer
of the contract of each check of a requirement with a blocking one, an evaluator of each
blocking check, and a check for each evaluator); `LibraryBounds` keeps the names of
requests and of texts apart, and says that the requests are finite in number.

Every proof has the same outline: an invariant that is inductive, one lemma per
group of actions that it is preserved, and the property as a consequence. Below,
for each part, is why the property alone is not inductive.

### The runtime (`SouthstarRuntimeProofs`, `RecoveryProofs`)

With crashes or without, whatever loops run, session commands included:

| Theorem | Property |
|---|---|
| `TypeCorrect` | `TypeOK` |
| `CompletedStays` | `CompletedTaskIsFinal` |
| `WritersExcluded` | `WriterExclusion` |
| `LimitKept` | `ParallelLimit` |
| `RowsExist` | (`RowsInv`, the invariant the next three rest on) |
| `SettledStays` | `SettledAttemptStaysSettled` |
| `DependenciesFirst` | `DependenciesAccepted` |
| `RuntimeImplementsContract` | `ImplementsContract` |
| `CancelledStays` | `CancelledRunIsFrozen` |
| `OneStoryAlways` | `DecisionMatchesExecution` |
| `AppliedTookEffect` | `AppliedDecisionTookEffect` |
| `ClaimsAreHeld` | `ClaimHasDispatcher` |
| `NobodyIsStranded` | `NoStrandedTask`, if `NoInterruption`: no crash, and the scheduler's and the observer's commits succeed |

Types go process by process. `TaskWriters` lists the writers of a task's status
once: a completed task never moves, and a task becomes active only by a claim
(`TaskMoves`). `WriterExclusion` is then inductive, since the claim looks at every
active task. `ParallelLimit` is not: it needs that the cap a pass carries is the
effort policy's cap.

The code writes a hand row's status without a condition in several places, so that
an attempt stays settled only because whatever is written about has a row that is
still active, or is settled again. `RowsInv` says that whatever a pass, a job, a
posted callback, a request, a heartbeat, an observation or a decision speaks of has
a row, and that the attempt a pass prepares is the next one. With it, every write
of a row's status is an insertion by the pass or a move that settles or keeps
settled (`HandMoves`), which gives `SettledStays` and, with the pass's ready set
(`PassIsReady`), `DependenciesFirst` and the refinement: each step is an `Issue`,
an `End`, an `Accept` or a stutter of `DispatchContract`. `CancelledStays` lists
the writers of the run's status.

`OneStory` strengthens `DecisionMatchesExecution` by what an applier that claimed a
decision relies on: two appliers of one decision are the reason it is needed.
`EffectInv` follows a requeue through its commits: the attempt is retired before
the exception is resolved, and both before the execution succeeds, also when the
requeue is replayed.

`ClaimsAreHeld` needs to know why nobody settles the attempt that a pass is
submitting, which would leave the claim behind: its row has no provider id yet, no
observation or heartbeat in flight has read one (`SubmissionIsUnseen`), and without
an id the observer settles nothing. `NobodyIsStranded` adds what a pass and an
observer promise before they let go (`StrandInv`).

`ClaimsAreHeld` needs no hypothesis on crashes or failures: a claim without a pass is
one whose own dispatch was cut short (`abandoned`), and the theorem says that nothing
else makes one, whoever settles, requeues, retries or completes the task meanwhile, and
that a new dispatch of the task is held again. A server that crashes, or whose pass
or sweep fails between two commits, does not keep the promise that `NobodyIsStranded`
rests on: the task it strands is what the run `stranded_task` shows. `Crashes` and
`Fallible` are constants, so that the hypothesis is that of an instance in which these
commits succeed; transactions of callbacks, heartbeats and appliers may fail.

`NoStrandedTask` is weaker than its first statement, which the proof showed to be
wrong and TLC then refuted with two attempts: a late heartbeat or observation of a
settled attempt may set its task running while a pass prepares the next one.

### Goals (`GoalProofs`)

| Theorem | Property |
|---|---|
| `GoalIsTyped` | (`GoalTypeOK`) |
| `ReviewFitsTogether` | `PackageLineage` |
| `LinkIsOfTheReview` | `LinkedImportIsCurrent` |
| `RunIsOfTheReview` | `RunsOfTheReviewedPackage` |
| `PackagesHaveOneRun` | `OneRunPerPackage` |
| `FreezingIsConfirmed` | `FrozenByItsConfirmation` |
| `CompositionIsOwned` | `ActiveConfirmationIsOwned` |

`GoalInv` relates three things that are written by different requests: what is
under review (`ReviewInv`), the packages that confirmations, requests and runs
remember, all of which are the current one or are past for good
(`PackagesArePast`), and the confirmation with its phase, its run and the one
request that works on it (`OneAtWork`). The last part is stated, and holds, only
until a live confirmation is taken over (gap A): two requests then work on one
package. It is why one run per package is a theorem at all: a run of the current
package exists only if its confirmation says so, and a past package never becomes
current again.

### Coverage, workspaces, work items (`WorkProofs`)

| Theorem | Property |
|---|---|
| `SatisfactionIsVerified` | `SatisfiedIsVerified` |
| `AcceptedVerificationIsCounted` | `AcceptedVerificationCounts` |
| `CompletedWorkIsInRepository` | `FinishedWorkIsMerged` |
| `RepositoryHoldsFinishedWork` | `OnlyFinishedWorkIsMerged` |
| `AttemptsOfItems` | `AttemptsAreConsecutive` |

`AcceptedAttemptsCount` says what an accepted attempt leaves behind: a producer its
artifact, an evaluator a passing result, about accepted artifacts, for each
requirement it covers now. A repair changes what covers a requirement, so that the
invariant needs the coverage to be the first one or that of the repair
(`CoverageIsFrozen`), whose tasks start afresh. With `FrozenCoverage` a run whose
tasks all completed then has a result for every blocking check. What ingestion accepts
is about artifacts that carry the contracts of the evaluator's own checks; the gate asks
for all contracts of the requirement (`RefsOfGate`). The two agree for an evaluator of
all checks of its requirement, and for any evaluator that referred to an artifact with
all contracts; the rest is `PartialView` (gap Z).

A callback merges the newest worktree of its task, not its own. `LatestOf` shows
that the newest is that of the callback's attempt or of the next one, which is the
case `crossed` names. `SettledIsGone` says that a settled allocation has neither
worktree nor waiting result, so that nothing is merged twice or after it was given
up; `MergedIsFinished` extends `OnlyFinishedWorkIsMerged` to every commit a
rollback can bring back.

The attempts of an item are `1..n` with `n` the number of its references, since
the next number is computed under the item's lock (`NumberedInTurn`,
`RefsAndRunsAgree`).

### Execution sets and the event stream (`PlatformProofs`)

| Theorem | Property |
|---|---|
| `SetInvariantHolds` | (the invariant the next three rest on) |
| `TerminalSetStaysFinal` | `TerminalSetIsFinal` |
| `SlicesStartOnlyInOrder` | `SlicesStartInOrder` |
| `SetsKeepMoving` | `SetNeverStalls` |
| `HistoryIsComplete` | `EventsAreComplete` |
| `NoEventIsShownTwice` | `EventsComeOnce` |

A set is written by one materialization only, since a repeated one starts when the
one before has failed, and is not written before its runs are complete; a run
attached to a set that may start needs no decision any more; and a run that was
started belongs to the set's own materialization. Without these an advance might
start a run that a failed materialization left behind. That a set never stalls
rests on `SetIsAdvanced`: when nobody is about to advance it and no slice is at
work, the last advance has started all there was to start. The slice with the least
place in the launch order among those that are not over then has its dependencies
satisfied, and would have been started. A decision that ends a run gives it an outcome
which no advance has seen, so that the argument waits for the next one (`unnoticed`).

Numbers are given under the lock of the run's row, so that they are committed in
order (`NumbersInTurn`). `HistoryIsCovered` says of all three cursors (of the
watcher, of each frame on its way, of the stream) that what a cursor has passed was
shown or is on its way before it; `ShownInOrder` that what is shown and what is on
its way ascend together. A panel's list is the newest part of
that: what it has let go of is older than the history events it keeps.

### Repairs (`RepairProofs`)

| Theorem | Property |
|---|---|
| `RepairInvariance` | (`RepairInv`) |
| `RepairIsTyped` | (`RepairTypeOK`) |
| `RepairsAreInLine` | `RepairsFormALine` |
| `DeliveryIsVerified` | `DeliveredIsVerified` |
| `SomebodyCanDecide` | `WaitsForSomebody` |
| `AuthorityIsForItsManifest` | `AuthorityIsCurrent` |

Chains share the numbers of rounds, so that the next round of a chain is the
greatest of the run plus one, not its own plus one. A chain is in order as long as
each failure of it was taken up once (`TakenUpOnce`: no approval was overtaken, and no
verification was retried that was repaired or about to be): each round repaired the
one before, the failure of its last round is in the hands of one callback or of one
proposal (`FailureInHand`), and the delivering task uses the last round
(`DeliveryInLine`). That a failure is in one pair of hands is what keeps a callback
and an approval from both repairing it. A retry of a failure in nobody's hands (its
repair was skipped, or lost in a crash) leaves the chain in order, and the theorems
cover it.

### The library (`LibraryProofs`)

| Theorem | Property |
|---|---|
| `LibraryInvariance` | (`LibraryInv`, whatever overlaps) |
| `LibraryIsTyped` | (`LibraryTypeOK`) |
| `EditsAreKept` | `EditsSurvive` |
| `LibraryStaysSound` | (`SoundUnlessOverlapped`) |
| `LibrarySettles` | `LibraryConverges` |
| `GraphIsOfTheCommits` | `GraphShowsTheSettled` |

`LibraryInv` keeps requests, markers, journals and the lock's holder in step, and
suffices for `EditsSurvive`, which holds without exception: a publication moves a
file aside or replaces it only if it still is the text it was prepared from, and so
do rollback and roll forward.

The other two hold until something overlaps, and need an account of every file
(`FileInStep`). While the server is up, a file is at rest, moved aside by the
holder, placed by it, or edited after that (`FileAtWork`); after a crash, it is at
rest, or moved aside or placed by a publication with a journal (`FileLeft`). What a
committed publication still remembers in its journal may be rolled forward again
without harm (`Replayable`).

Recovery applies all journals to a file one after the other, in an order the
listing does not promise. It is a recursive function over the listing, and its
result is proved without induction over data: among the numbers of journals after
which the file is not as it should be, take the least (`GreatestElements`); its
predecessor is as it should be, and one journal makes no difference, or the
intended one, and then for good (`RecoveredAlong`). So recovery leaves a file at
rest alone (`RecoveryLeaves`) and undoes one that is in the middle
(`RecoveryUndoes`), in every order of the journals.

### What the proofs changed

- Two edits of an operator have the same text. With more than one, a recovery may
  take the second for the file a publication replaced. `overlapped` now records it
  (`PutsBack`), and `EditsSurvive`, which had been stated for one edit, is stated
  for any number.
- A roll forward leaves a file that already has the new text alone
  (`library-file-store.ts:321`), which matters when old and new text are equal.
- The theorem on coverage needs `FrozenCoverage`, which had been implicit in the
  instance.
- `NoStrandedTask` was corrected, as told above.
- `ClaimHasDispatcher`, `SetNeverStalls`, `AcceptedVerificationCounts`,
  `RepairsFormALine`, `DeliveredIsVerified` and `EventsAreComplete` had been proved of
  models without errors that are rethrown, decisions that end a run, coverage split over
  evaluators, retries of failed verifications and the panel's limit. They are stated and
  proved with them now, and each names the case in which the code falls short.

### What is only model-checked

The liveness properties `SlotsAreFreed`, `DecisionsSettle` and `RunCompletes`
(TLAPS does not reason about fairness), and the four counterexamples, of which each
is an instance by nature.

## 5. Known gaps of the code

Behaviour seen in the models that contradicts no quoted document sharply enough for
a run of its own, or that a property therefore leaves out.

Dispatch and recovery:

- A task whose preparation failed is pending again before its retry decision is
  applied; that decision resets it once more, possibly under a live attempt. It
  names no hand, so nothing relates the two. The runtime design of 2026-06-20
  (656-661) asks that such a failure not return silently to pending.
- A claim whose dispatch is cut short stays: no sweep selects a claimed task
  (`scheduler_claim_stale` is declared and never raised). It is cut short by a crash, and
  without one when `finalizeSubmittedHandExecutionPg` throws after Tork took the job,
  which `dispatchTask` rethrows (`runnable-task-scheduler.ts:387`; the row keeps no job
  id, and only the job's own callback, or a heartbeat of it, can move the task on), when
  the preparation failure or a rejection by the tool policy cannot be recorded or
  released (376-404), or when `nextDispatchAttemptId` fails before the `try` (120). When
  `markTaskDispatchFailed` throws, `handRejected` is not set yet, and the dispatch goes
  on as a preparation that failed.
- The completion gate is not evaluated again after a crash between a callback's
  main transaction and its last commit, nor when the last task ends by a missing
  contract, a failed submission or an operator's block.
- (N) The hardening design of 2026-06-21 wants no unresolved recovery decision at
  completion; the gate looks at no decision. An exception decided as a block stays
  unresolved when the operator retries its task (a retry resolves the exception of
  its own command), and the outcome is "blocked" for good.
- A requeue replayed after a crash resets the task even when the next attempt
  already runs: its mutation does not look at the execution's status.
- A heartbeat writes back the payload it read, and may drop an `externalJobId`
  that the scheduler added meanwhile; the job can then be neither polled nor
  cancelled. A hand in `cancel_requested` without a job id is never settled.
- (O) Only a retry reopens a completed run; a requeue, reprovision, fork, reset or
  rollback puts a task back and leaves the run completed, where no pass looks at it.
- (P) Fork, reset and rollback neither cancel nor supersede the attempt in progress;
  its callback counts until the next attempt has its row, since staleness compares
  attempts and not root sessions.
- (Q) A rollback restores the workspace (`git reset --hard`, `git clean`) before its
  transaction commits, under containers that may still run.
- (R) A decision whose application throws stays "applying" and is picked first at
  every tick; later decisions wait behind it.
- (S) Recovery mutations lock the task and then the run, callbacks the run and then
  the task; Postgres may abort one of them. So may a transaction of the pass be: the
  finalization of a submission, with the claim it leaves.
- Cancelling a retired attempt's job is best effort, so two containers of one task
  may run at once; the contract holds because the older one's result is ignored.

Goals and execution sets:

- (A) A retried invalid composition sets no marker, so that a second request takes
  the live confirmation for an orphan (`run-goal-service.ts:655`).
- (B) A designed package is always revision 1; after a requirement revision the
  redesign conflicts with the stored one (`goal-design-draft-service.ts:1229`) and
  the draft stays at validation_ready.
- (C) `materializeGoalExecutionSetPg` returns a set it finds by its draft, whatever
  its status or package, and does not advance it: a crash between the set's commit
  and its first advance leaves it unstarted.
- (D) After a crash between the commit of the run and the handoff, a retry adds its
  marker and throws; later requests answer "processing" for good, and the run stays
  created.
- (E) A requirement revision while the handoff is under way makes the confirmation
  stale; the handoff throws and the run stays created.
- (F) A crash between the gate and the advance, or an advance that fails, loses the
  next slice. So does a run that is ended by a decision on a repair: neither
  `rejectDynamicRepairApprovalPg` (`dynamic-repair-revision.ts:512`) nor a continuation
  that finds no round left (157, 1027) is followed by an advance in
  `postgres-approval-service.ts:169-174`, and the set stays in progress, with no crash,
  until another of its runs ends (`EndByDecision`, `unnoticed`). A cancelled run or a
  rejected slice leaves the set in progress; the recorded outcome of a run that
  was reopened still counts as satisfied; a failed materialization leaves its runs
  behind, and a run is startable between its creation and its approval.
- (H) A goal submission left "processing" by a crash is answered so for good.

Repair and coverage:

- (G) When an approval is overtaken by another repair, its request stays waiting:
  deciding it again repairs the same failure again. A crash between a callback's main
  transaction and its repair loses the repair. A continuation that is skipped leaves
  the run awaiting approval. Applying one repair sets the run running although
  another approval still waits. A rejection ends the run while tasks run. Rounds are
  shared by all chains of a run (`existingDynamicRepairRounds`), although the query
  of the next round is by root.
- (L) A requirement counts as covered when different attempts passed its checks, so
  a task whose newest evaluation failed one may count by an older one.
- (M) A check that blocks nothing and has invalid evidence leaves the packet
  incomplete: the callback is accepted, the gate counts none of its checks, and no
  failed task is there to repair. `AcceptedVerificationCounts` names the case
  (`FlawedOption`).
- (Z) An evaluator with a part of a requirement's checks is judged by the artifacts
  that carry the contracts of those (`requirement-evaluator-results.ts:270-283`), the
  gate counts only artifacts that carry the contracts of all (`completion-gate.ts:288`,
  `acceptedProducerArtifactRefsPg`), and composition asks only that the producers emit
  them together (`composition-validator.ts:267-274`). With two contracts emitted by two
  producers every evaluation is accepted and none counts: the run is unsatisfied, or a
  requirement never covered, with all tasks completed and nothing to repair or retry
  (`PartialView`).
- (AA) An operator may retry a failed verification at any time (`task-recovery.ts:4`,
  `task-command-routes.ts:51`), and `maybeApplyDynamicRepairRevisionPg` does not ask
  whether its failure was repaired. One that was, or is about to be, and fails again is
  repaired again from the same round: the chain forks, `downstreamDependencyChangesFor`
  finds nothing left to reconnect, and the delivering task stays on the first fork, which
  it may use before the second is verified (`reopened`). Any attempt that passes late
  also makes a superseded verification completed.

Library, events, workspaces, work items:

- (I) A reconcile discards the journals it found after its transaction, a live
  request's among them, whose publication then cannot restore what it moved aside;
  a torn journal makes every later reconcile fail. A rollback writes an original
  back that was never moved, when the file is missing; a roll forward writes over a
  file that has its old text again. A failed commit leaves published files until the
  next reconcile. An edit between the check and the rename of a file is lost. An
  operator who puts back the text that a committed publication replaced, while its
  journal is still there, has it published again by the recovery, which takes it for
  the replaced file (`PutsBack`).
- (J) The recovery loop wakes a new brain for each failed brain binding; the
  scheduler goes on with the oldest binding, so that the new one is unused, hand
  bindings are skipped, and two ticks may wake two. Executor bindings: a failed poll
  marks a live job lost, a failed cancel is never repeated, and an upsert revives a
  terminal binding.
- (K) A panel that looked at another task and back has an empty list and its old
  cursor. The id of a live event parses to cursor 0, and a reconnect after it shows
  the whole history again. A stream may close before the terminal event it missed. Of a
  run with more than 200 events the panel keeps the newest 200, live events counted
  (`useRuntimeEventStream.ts:52`), and offers no way back to the others.
- (T) A merge conflict blocks the task and leaves its artifact accepted: dependents
  start on work that is not in the repository.
- (U) A callback settles the newest worktree of its task. That of an attempt that was
  given up, arriving after the next attempt's worktree was allocated and before its
  row, removes the empty new worktree, and its own work is lost though the task
  completes.
- (V) A task that the tool policy rejects keeps its worktree; the same attempt is
  prepared again after a retry, and Git refuses the existing path each time.
- (W) A worktree is merged and removed before the callback's transaction commits. If
  it fails, the merge stays, and the callback posted again may find a conflict.
- (X) A rollback of a task that writes to the repository drops the merges of other
  tasks since its snapshot; a rollback of a task whose worktree is gone throws, which
  is gap R.
- (Y) Labels and other metadata of a work item that another intake wrote between the
  read and the upsert are lost. A materialization sent again after its run has
  started is a conflict instead of the same answer.

## 6. Plan

1. Proofs: a refinement of its own for the goal (a goal gets at most one run, of
   what was confirmed) and for the library (a publication is atomic), on the
   invariants of `GoalProofs` and `LibraryProofs`.
2. Several requirements repaired in turn: `GoalCoverage` with the rounds of
   `DynamicRepair`.
3. The boundary of the automatic requeues (`QueueTimeoutLimit`) as a property.

## 7. What is not modelled, and why

- Planner, manifests, workflow templates, profiles, skills, definitions of the
  library: one request to a model and its parsing, and functions of static documents.
- The loop of the session recovery controller, and the executor binding reconciler:
  what they write decides nothing about which attempt runs (gap J).
- Of the recovery paths, wake-new-brain, repair-artifact, fail-task and fail-run,
  which no classification and no command yields; of the commands, request-revision,
  which stores a request nothing reads.
- Of goal design, staged revisions by chat and UI contracts; of the completion gate,
  canonical diagnostics, tool violations and stop conditions.
- HTTP routing, read models, inspection, UI API, web, CLI and MCP: parsing, views,
  and commands modelled with their components.
- Context assembly, tool proxy, harness, brain and agent runner: what happens inside
  a container, and a pure policy whose verdict is a choice of the scheduler.
- Memory and evolution, which derive from results what dispatch never reads.
- Starting and stopping of infrastructure, schema and provider bindings: I/O and
  tables without transitions of their own.

Within the modelled parts: `sort_order` (a pass tries its tasks in any order);
the owning user and the HTTP envelope of commands; several runs at once, which
share no row; the validation of a callback's body (an invalid body is rejected
before anything is written).
