--------------------------- MODULE GoalExecutionSet ---------------------------
(***************************************************************************)
(* The runs of a goal that is executed slice by slice                      *)
(* (goal-execution-set.ts, postgres-approval-service.ts): a materialization *)
(* composes a run and its approval for each slice, in several commits, then *)
(* writes the set; whoever ends a run or approves one advances the set      *)
(* afterwards, in a commit of its own.  A materialization that fails is     *)
(* repeated from the start, and leaves the runs it made behind.             *)
(***************************************************************************)
EXTENDS Integers, Sequences

CONSTANTS
    Slices,             \* slices of the package
    SliceDeps,          \* dependsOnSliceIds
    LaunchOrder,        \* topologicalSliceOrder
    MaxGenerations,     \* bound: materializations
    MaxInterventions,   \* bound: commands of the operator on the runs
    MaxSetCrashes       \* bound: crashes of the server and advances that fail

ASSUME LaunchOrderIsTopological ==
    /\ LaunchOrder \in Seq(Slices) /\ LaunchOrder # << >>
    /\ \A s \in Slices : \E i \in DOMAIN LaunchOrder : LaunchOrder[i] = s
    /\ \A i, j \in DOMAIN LaunchOrder :
         /\ LaunchOrder[i] = LaunchOrder[j] => i = j
         /\ LaunchOrder[i] \in SliceDeps[LaunchOrder[j]] => i < j

ASSUME SetBounds ==
    /\ SliceDeps \in [Slices -> SUBSET Slices]
    /\ MaxGenerations \in Nat /\ MaxInterventions \in Nat /\ MaxSetCrashes \in Nat

VARIABLES
    executionSet,   \* the goal_execution_set: its status, the generation of its runs
    sliceRuns,      \* status and goal_outcome of the run a generation made of a slice
    approvals,      \* the approval of that run, with its schedulingState
    materializer,   \* the materialization in progress
    advances,       \* runs whose callback or approval still has to advance the set
    unnoticed,      \* history: a decision ended a run, and no advance has come since
    interventions,  \* commands of the operator so far
    setCrashes      \* crashes and failed advances so far

setVars == <<executionSet, sliceRuns, approvals, materializer, advances, unnoticed,
             interventions, setCrashes>>

Generations == 1..MaxGenerations
SliceRuns == Slices \X Generations

(* A run in scheduling is scheduled or running. *)
SliceRunStatus == {"none", "created", "awaiting_approval", "scheduling", "completed",
                   "cancelled"}
Outcomes == {"satisfied", "unsatisfied", "blocked"}

ExecutionSetTypeOK ==
    /\ executionSet \in [status : {"none", "created", "running", "terminal"},
                         generation : 0..MaxGenerations]
    /\ sliceRuns \in [SliceRuns -> [status : SliceRunStatus,
                                    outcome : Outcomes \cup {"none"}]]
    /\ approvals \in [SliceRuns -> {"none", "auto", "pending", "requested", "rejected"}]
    /\ materializer \in [pc : {"idle", "creating", "attaching", "persisting", "advancing"},
                         generation : 0..MaxGenerations, at : 1..Len(LaunchOrder)]
    /\ advances \subseteq SliceRuns
    /\ unnoticed \in BOOLEAN
    /\ interventions \in 0..MaxInterventions
    /\ setCrashes \in 0..MaxSetCrashes

ExecutionSetInit ==
    /\ executionSet = [status |-> "none", generation |-> 0]
    /\ sliceRuns = [r \in SliceRuns |-> [status |-> "none", outcome |-> "none"]]
    /\ approvals = [r \in SliceRuns |-> "none"]
    /\ materializer = [pc |-> "idle", generation |-> 0, at |-> 1]
    /\ advances = {}
    /\ unnoticed = FALSE
    /\ interventions = 0
    /\ setCrashes = 0

EntryRun(s) == <<s, executionSet.generation>>

-----------------------------------------------------------------------------
(* advanceGoalExecutionSetPg, one transaction under the set's row lock. *)

(* Mutant: a dependency that was started is enough. *)
DependenciesStarted(s) ==
    \A d \in SliceDeps[s] : sliceRuns[EntryRun(d)].status = "scheduling"

DependenciesSatisfied(s) ==
    \A d \in SliceDeps[s] : sliceRuns[EntryRun(d)].outcome = "satisfied"

(* evaluateGoalExecutionSetOutcomeLockedPg; a cancelled run has no outcome *)
(* and decides nothing.                                                    *)
SetOutcome ==
    LET reported == {sliceRuns[EntryRun(s)].outcome : s \in Slices}
    IN IF "unsatisfied" \in reported THEN "unsatisfied"
       ELSE IF "blocked" \in reported THEN "needs_input"
       ELSE IF reported = {"satisfied"} THEN "satisfied"
       ELSE "in_progress"

(* refreshExecutionSetEntriesPg: an entry with an outcome is terminal,     *)
(* whatever its run does since.                                            *)
Startable(s) ==
    /\ sliceRuns[EntryRun(s)] = [status |-> "created", outcome |-> "none"]
    /\ DependenciesSatisfied(s)

(* startRunSchedulingPg *)
StartSliceRun(r) == sliceRuns' = [sliceRuns EXCEPT ![r].status = "scheduling"]

(* Mutant: a terminal set is evaluated again. *)
AdvanceAnew ==
    IF SetOutcome # "in_progress"
    THEN executionSet' = [executionSet EXCEPT !.status = "terminal"] /\ UNCHANGED sliceRuns
    ELSE \/ \E i \in DOMAIN LaunchOrder :
              /\ Startable(LaunchOrder[i])
              /\ \A j \in 1..i - 1 : ~ Startable(LaunchOrder[j])
              /\ StartSliceRun(EntryRun(LaunchOrder[i]))
              /\ executionSet' = [executionSet EXCEPT !.status = "running"]
         \/ /\ \A s \in Slices : ~ Startable(s)
            /\ UNCHANGED <<executionSet, sliceRuns>>

Advance ==
    IF executionSet.status = "terminal"
    THEN UNCHANGED <<executionSet, sliceRuns>>
    ELSE IF SetOutcome # "in_progress"
    THEN executionSet' = [executionSet EXCEPT !.status = "terminal"] /\ UNCHANGED sliceRuns
    ELSE \/ \E i \in DOMAIN LaunchOrder :
              /\ Startable(LaunchOrder[i])
              /\ \A j \in 1..i - 1 : ~ Startable(LaunchOrder[j])
              /\ StartSliceRun(EntryRun(LaunchOrder[i]))
              /\ executionSet' = [executionSet EXCEPT !.status = "running"]
         \/ /\ \A s \in Slices : ~ Startable(s)
            /\ UNCHANGED <<executionSet, sliceRuns>>

AdvanceSet(r) ==
    /\ r \in advances
    /\ executionSet.status # "none"
    /\ Advance
    /\ unnoticed' = FALSE
    /\ advances' = advances \ {r}
    /\ UNCHANGED <<approvals, materializer, interventions, setCrashes>>

(* The set of an approved run is not written yet, or a command of the      *)
(* operator changed the run between its refresh and its start: the         *)
(* transaction throws and the request ends.                                *)
AdvanceThrows(r) ==
    /\ r \in advances
    /\ executionSet.status = "none" \/ interventions > 0
    /\ advances' = advances \ {r}
    /\ UNCHANGED <<executionSet, sliceRuns, approvals, materializer, unnoticed, interventions,
                   setCrashes>>

(* The transaction fails, or the one before it that reads the set's name.  *)
AdvanceFails(r) ==
    /\ r \in advances
    /\ setCrashes < MaxSetCrashes
    /\ setCrashes' = setCrashes + 1
    /\ advances' = advances \ {r}
    /\ UNCHANGED <<executionSet, sliceRuns, approvals, materializer, unnoticed, interventions>>

-----------------------------------------------------------------------------
(* materializeGoalExecutionSetPg *)

(* A set that exists is returned as it is. *)
BeginMaterialization ==
    /\ materializer.pc = "idle"
    /\ executionSet.status = "none"
    /\ materializer.generation < MaxGenerations
    /\ materializer' = [pc |-> "creating", generation |-> materializer.generation + 1,
                        at |-> 1]
    /\ UNCHANGED <<executionSet, sliceRuns, approvals, advances, unnoticed, interventions,
                   setCrashes>>

MaterializerRun == <<LaunchOrder[materializer.at], materializer.generation>>

(* createPostgresRunFromDraft *)
CreateSliceRun ==
    /\ materializer.pc = "creating"
    /\ sliceRuns' = [sliceRuns EXCEPT ![MaterializerRun].status = "created"]
    /\ materializer' = [materializer EXCEPT !.pc = "attaching"]
    /\ UNCHANGED <<executionSet, approvals, advances, unnoticed, interventions, setCrashes>>

(* attachExecutionSetRunMetadataPg: the approval, approved by policy       *)
(* unless the run is risky, and the run's status.                          *)
AttachSliceRun(risky) ==
    /\ materializer.pc = "attaching"
    /\ approvals' = [approvals EXCEPT ![MaterializerRun] = IF risky THEN "pending" ELSE "auto"]
    /\ sliceRuns' = [sliceRuns EXCEPT ![MaterializerRun].status =
                       IF risky THEN "awaiting_approval" ELSE "created"]
    /\ materializer' = IF materializer.at < Len(LaunchOrder)
                       THEN [materializer EXCEPT !.pc = "creating", !.at = @ + 1]
                       ELSE [materializer EXCEPT !.pc = "persisting"]
    /\ UNCHANGED <<executionSet, advances, unnoticed, interventions, setCrashes>>

PersistSet ==
    /\ materializer.pc = "persisting"
    /\ executionSet' = [status |-> "created", generation |-> materializer.generation]
    /\ materializer' = [materializer EXCEPT !.pc = "advancing"]
    /\ UNCHANGED <<sliceRuns, approvals, advances, unnoticed, interventions, setCrashes>>

StartSet ==
    /\ materializer.pc = "advancing"
    /\ Advance
    /\ unnoticed' = FALSE
    /\ materializer' = [materializer EXCEPT !.pc = "idle"]
    /\ UNCHANGED <<approvals, advances, interventions, setCrashes>>

(* A set whose first advance fails is found by the next request, which     *)
(* returns it as it is.                                                    *)
StartFails ==
    /\ materializer.pc = "advancing"
    /\ setCrashes < MaxSetCrashes
    /\ setCrashes' = setCrashes + 1
    /\ materializer' = [materializer EXCEPT !.pc = "idle"]
    /\ UNCHANGED <<executionSet, sliceRuns, approvals, advances, unnoticed, interventions>>

(* The model's answer does not validate, or a query fails. *)
MaterializationFails ==
    /\ materializer.pc \in {"creating", "attaching", "persisting"}
    /\ materializer' = [materializer EXCEPT !.pc = "idle"]
    /\ UNCHANGED <<executionSet, sliceRuns, approvals, advances, unnoticed, interventions,
                   setCrashes>>

-----------------------------------------------------------------------------
(* decideApprovalPg of a goal execution. *)

(* Mutant: the approved run waits for somebody else to advance its set. *)
ApproveOnly(r) ==
    /\ approvals[r] = "pending"
    /\ sliceRuns[r].status = "awaiting_approval"
    /\ approvals' = [approvals EXCEPT ![r] = "requested"]
    /\ sliceRuns' = [sliceRuns EXCEPT ![r].status = "created"]
    /\ UNCHANGED <<executionSet, materializer, advances, unnoticed, interventions, setCrashes>>

ApproveSliceRun(r) ==
    /\ approvals[r] = "pending"
    /\ sliceRuns[r].status = "awaiting_approval"
    /\ approvals' = [approvals EXCEPT ![r] = "requested"]
    /\ sliceRuns' = [sliceRuns EXCEPT ![r].status = "created"]
    /\ advances' = advances \cup {r}
    /\ UNCHANGED <<executionSet, materializer, unnoticed, interventions, setCrashes>>

RejectSliceRun(r) ==
    /\ approvals[r] = "pending"
    /\ approvals' = [approvals EXCEPT ![r] = "rejected"]
    /\ UNCHANGED <<executionSet, sliceRuns, materializer, advances, unnoticed, interventions,
                   setCrashes>>

(* The same decision again: scheduling stays requested for a run of a set. *)
ReplayApproval(r) ==
    /\ approvals[r] = "requested"
    /\ advances' = advances \cup {r}
    /\ UNCHANGED <<executionSet, sliceRuns, approvals, materializer, unnoticed, interventions,
                   setCrashes>>

-----------------------------------------------------------------------------
(* What happens to the runs. *)

(* The completion gate, then the callback that ran it advances the set. *)
CompleteSliceRun(r, outcome) ==
    /\ sliceRuns[r].status = "scheduling"
    /\ sliceRuns' = [sliceRuns EXCEPT ![r] = [status |-> "completed", outcome |-> outcome]]
    /\ advances' = advances \cup {r}
    /\ UNCHANGED <<executionSet, approvals, materializer, unnoticed, interventions, setCrashes>>

(* rejectDynamicRepairApprovalPg, also when it comes late or again, or     *)
(* continueDynamicRepairApprovalPg when no round is left: an outcome that  *)
(* nobody advances the set for.  Bound: not of a cancelled run.            *)
EndByDecision(r) ==
    /\ sliceRuns[r].status \in {"scheduling", "completed"}
    /\ sliceRuns' = [sliceRuns EXCEPT ![r] = [status |-> "completed", outcome |-> "unsatisfied"]]
    /\ unnoticed' = TRUE
    /\ UNCHANGED <<executionSet, approvals, materializer, advances, interventions, setCrashes>>

Intervene ==
    /\ interventions < MaxInterventions
    /\ interventions' = interventions + 1
    /\ UNCHANGED <<executionSet, approvals, materializer, advances, unnoticed, setCrashes>>

CancelSliceRun(r) ==
    /\ Intervene
    /\ sliceRuns[r].status \in {"created", "awaiting_approval", "scheduling"}
    /\ sliceRuns' = [sliceRuns EXCEPT ![r].status = "cancelled"]

(* A start, or a retry of a task of a run that has completed; the outcome  *)
(* row stays until the gate writes the next one.                           *)
StartByOperator(r) ==
    /\ Intervene
    /\ sliceRuns[r].status \in {"created", "completed"}
    /\ StartSliceRun(r)

CrashSet ==
    /\ setCrashes < MaxSetCrashes
    /\ setCrashes' = setCrashes + 1
    /\ materializer' = [materializer EXCEPT !.pc = "idle"]
    /\ advances' = {}
    /\ UNCHANGED <<executionSet, sliceRuns, approvals, unnoticed, interventions>>

ExecutionSetNext ==
    \/ BeginMaterialization
    \/ CreateSliceRun
    \/ \E risky \in BOOLEAN : AttachSliceRun(risky)
    \/ PersistSet
    \/ StartSet
    \/ StartFails
    \/ MaterializationFails
    \/ CrashSet
    \/ \E r \in SliceRuns :
         \/ AdvanceSet(r)
         \/ AdvanceThrows(r)
         \/ AdvanceFails(r)
         \/ ApproveSliceRun(r)
         \/ RejectSliceRun(r)
         \/ ReplayApproval(r)
         \/ \E outcome \in Outcomes : CompleteSliceRun(r, outcome)
         \/ EndByDecision(r)
         \/ CancelSliceRun(r)
         \/ StartByOperator(r)

ExecutionSetSpec == ExecutionSetInit /\ [][ExecutionSetNext]_setVars

-----------------------------------------------------------------------------

(* A slice the set starts was approved, its dependencies' runs of the same *)
(* set were satisfied, and the set was not over (advanceGoalExecutionSetPg *)
(* and attachExecutionSetRunMetadataPg).                                   *)
SlicesStartInOrder ==
    [][\A s \in Slices, g \in Generations :
          /\ sliceRuns[<<s, g>>].status = "created"
          /\ sliceRuns'[<<s, g>>].status = "scheduling"
          /\ interventions' = interventions
          => /\ approvals[<<s, g>>] \in {"auto", "requested"}
             /\ executionSet.generation = g
             /\ executionSet.status # "terminal"
             /\ \A d \in SliceDeps[s] : sliceRuns[<<d, g>>].outcome = "satisfied"]_setVars

SomethingIsPending ==
    \/ advances # {}
    \/ materializer.pc # "idle"
    \/ \E s \in Slices : \/ sliceRuns[EntryRun(s)].status = "scheduling"
                         \/ approvals[EntryRun(s)] \in {"pending", "rejected"}

(* A set waits for something as long as it is not over: a run, a decision, *)
(* or somebody who is about to advance it.  Not so after a crash or a      *)
(* failed advance, nor once the operator has taken a hand, nor between a   *)
(* decision on a repair that ended a run and the next advance, which may   *)
(* never come.                                                             *)
SetNeverStalls ==
    /\ executionSet.status \in {"created", "running"}
    /\ setCrashes = 0 /\ interventions = 0 /\ ~unnoticed
    => SomethingIsPending

(* The outcome a set ended with is the last word on it: a run reopened     *)
(* later starts no slice any more.                                         *)
TerminalSetIsFinal ==
    [][executionSet.status = "terminal" => UNCHANGED executionSet]_setVars

=============================================================================
