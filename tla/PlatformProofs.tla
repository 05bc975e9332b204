---------------------------- MODULE PlatformProofs ----------------------------
(***************************************************************************)
(* Two protocols around a run.  A goal execution set, for any slices,      *)
(* dependencies and number of materializations (GoalExecutionSet): it      *)
(* starts its slices in order, ends once, and is always being moved on.    *)
(* The watcher of a run's history, for any number of writers, events, live *)
(* events and lost connections (RunEventStream): the watcher is shown the  *)
(* whole history, each event once, a panel the newest part of it.          *)
(***************************************************************************)
EXTENDS GoalExecutionSet, RunEventStream, GreatestElements, FiniteSetTheorems

-----------------------------------------------------------------------------
(* The materializations of a set. *)

Materializing == materializer.pc \in {"creating", "attaching", "persisting"}

(* A set is written at the end of its materialization, and no other one    *)
(* begins afterwards.                                                      *)
OneMaterialization ==
    /\ Materializing => executionSet.status = "none"
    /\ materializer.pc = "advancing" => executionSet.status # "none"
    /\ executionSet.status # "none" => executionSet.generation = materializer.generation
    /\ materializer.pc # "idle" \/ executionSet.status # "none"
         => materializer.generation \in Generations

(* The materialization has passed the slice, or is over. *)
Attached(s) ==
    \/ executionSet.status # "none"
    \/ materializer.pc = "persisting"
    \/ /\ materializer.pc \in {"creating", "attaching"}
       /\ \E i \in DOMAIN LaunchOrder : i < materializer.at /\ LaunchOrder[i] = s

NewestRun(s) == <<s, materializer.generation>>

(* A run that may start needs no decision any more; as long as the         *)
(* operator takes no hand, one that waits needs a decision, and one that   *)
(* ended has an outcome.                                                   *)
Cleared(r) ==
    /\ sliceRuns[r].status = "created" => approvals[r] \in {"auto", "requested"}
    /\ interventions = 0 =>
         /\ sliceRuns[r].status \in {"created", "awaiting_approval", "scheduling", "completed"}
         /\ sliceRuns[r].status = "awaiting_approval" => approvals[r] \in {"pending", "rejected"}
         /\ sliceRuns[r].status = "completed" => sliceRuns[r].outcome # "none"

AttachedAreCleared == \A s \in Slices : Attached(s) => Cleared(NewestRun(s))

(* When nobody is about to advance the set and no slice is at work, the    *)
(* last advance has started all there was to start.                        *)
NobodyAdvances ==
    /\ advances = {} /\ materializer.pc = "idle"
    /\ \A s \in Slices : sliceRuns[EntryRun(s)].status # "scheduling"

NothingToStart == SetOutcome = "in_progress" /\ \A s \in Slices : ~ Startable(s)

SetIsAdvanced ==
    /\ executionSet.status \in {"created", "running"}
    /\ setCrashes = 0 /\ interventions = 0 /\ ~unnoticed
    /\ NobodyAdvances
    => NothingToStart

SetInvariant ==
    ExecutionSetTypeOK /\ OneMaterialization /\ AttachedAreCleared /\ SetIsAdvanced

-----------------------------------------------------------------------------

LEMMA LaunchIndices ==
  /\ DOMAIN LaunchOrder = 1..Len(LaunchOrder)
  /\ Len(LaunchOrder) \in Nat
  /\ \A i \in 1..Len(LaunchOrder) : LaunchOrder[i] \in Slices
  BY LaunchOrderIsTopological

(* The run the materializer is at. *)
LEMMA MaterializerRunType ==
  ASSUME ExecutionSetTypeOK, OneMaterialization, Materializing
  PROVE  /\ MaterializerRun \in SliceRuns
         /\ materializer.at \in DOMAIN LaunchOrder
         /\ MaterializerRun = NewestRun(LaunchOrder[materializer.at])
  <1>1. materializer.at \in 1..Len(LaunchOrder)
    BY DEF ExecutionSetTypeOK
  <1>2. materializer.generation \in Generations
    BY DEF OneMaterialization, Materializing
  <1>3. QED
    BY <1>1, <1>2, LaunchIndices DEF MaterializerRun, NewestRun, SliceRuns

LEMMA EntryRunType ==
  ASSUME OneMaterialization, executionSet.status # "none", NEW s \in Slices
  PROVE  EntryRun(s) \in SliceRuns /\ EntryRun(s) = NewestRun(s)
  BY DEF OneMaterialization, EntryRun, NewestRun, SliceRuns

(* An advance ends the set, or starts one slice that may start, or leaves  *)
(* everything as it is.                                                    *)
LEMMA AdvanceCases ==
  ASSUME ExecutionSetTypeOK, OneMaterialization, executionSet.status # "none", Advance
  PROVE  \/ /\ UNCHANGED <<executionSet, sliceRuns>>
            /\ executionSet.status = "terminal" \/ NothingToStart
         \/ /\ executionSet.status # "terminal"
            /\ executionSet' = [executionSet EXCEPT !.status = "terminal"]
            /\ UNCHANGED sliceRuns
         \/ /\ executionSet.status # "terminal"
            /\ executionSet' = [executionSet EXCEPT !.status = "running"]
            /\ \E s \in Slices : Startable(s) /\ StartSliceRun(EntryRun(s))
  BY LaunchIndices DEF Advance, NothingToStart

LEMMA StartedRun ==
  ASSUME ExecutionSetTypeOK, NEW r \in SliceRuns, StartSliceRun(r)
  PROVE  /\ sliceRuns' \in [SliceRuns -> [status : SliceRunStatus,
                                          outcome : Outcomes \cup {"none"}]]
         /\ sliceRuns'[r].status = "scheduling"
         /\ \A q \in SliceRuns \ {r} : sliceRuns'[q] = sliceRuns[q]
  BY DEF ExecutionSetTypeOK, StartSliceRun, SliceRunStatus

LEMMA InitEstablishesSetInvariant == ExecutionSetInit => SetInvariant
  <1> SUFFICES ASSUME ExecutionSetInit PROVE SetInvariant
    OBVIOUS
  <1> USE DEF ExecutionSetInit
  <1>0. 1 \in 1..Len(LaunchOrder)
    BY LaunchOrderIsTopological
  <1>1. ExecutionSetTypeOK
    <2>1. /\ executionSet \in [status : {"none", "created", "running", "terminal"},
                              generation : 0..MaxGenerations]
          /\ materializer \in [pc : {"idle", "creating", "attaching", "persisting",
                                    "advancing"},
                              generation : 0..MaxGenerations, at : 1..Len(LaunchOrder)]
          /\ interventions \in 0..MaxInterventions /\ setCrashes \in 0..MaxSetCrashes
      BY <1>0, SetBounds
    <2>2. /\ sliceRuns \in [SliceRuns -> [status : SliceRunStatus,
                                         outcome : Outcomes \cup {"none"}]]
          /\ approvals \in [SliceRuns -> {"none", "auto", "pending", "requested", "rejected"}]
          /\ advances \subseteq SliceRuns
      BY DEF SliceRunStatus
    <2>3. unnoticed \in BOOLEAN
      OBVIOUS
    <2>4. QED
      BY <2>1, <2>2, <2>3 DEF ExecutionSetTypeOK
  <1>2. OneMaterialization
    BY DEF OneMaterialization, Materializing
  <1>3. AttachedAreCleared
    BY DEF AttachedAreCleared, Attached
  <1>4. SetIsAdvanced
    BY DEF SetIsAdvanced
  <1>5. QED
    BY <1>1, <1>2, <1>3, <1>4 DEF SetInvariant

-----------------------------------------------------------------------------
(* The steps, by what they write. *)

(* The materialization moves on, or an advance is lost. *)
MaterializerStep ==
    \/ BeginMaterialization
    \/ CreateSliceRun
    \/ \E risky \in BOOLEAN : AttachSliceRun(risky)
    \/ PersistSet
    \/ MaterializationFails
    \/ StartFails
    \/ \E r \in SliceRuns : AdvanceFails(r)
    \/ CrashSet

(* The set is advanced. *)
AdvancingStep == StartSet \/ \E r \in SliceRuns : AdvanceSet(r)

(* A run goes on by itself or by its operator. *)
RunStep(r) ==
    \/ AdvanceThrows(r)
    \/ ApproveSliceRun(r)
    \/ RejectSliceRun(r)
    \/ ReplayApproval(r)
    \/ \E outcome \in Outcomes : CompleteSliceRun(r, outcome)
    \/ EndByDecision(r)
    \/ CancelSliceRun(r)
    \/ StartByOperator(r)

LEMMA SetSteps ==
  ASSUME [ExecutionSetNext]_setVars
  PROVE  \/ MaterializerStep
         \/ AdvancingStep
         \/ \E r \in SliceRuns : RunStep(r)
         \/ UNCHANGED setVars
  BY DEF ExecutionSetNext, MaterializerStep, AdvancingStep, RunStep

LEMMA RunStepsKeepTheSet ==
  ASSUME NEW r \in SliceRuns, RunStep(r)
  PROVE  UNCHANGED <<executionSet, materializer>>
  BY DEF RunStep, AdvanceThrows, ApproveSliceRun, RejectSliceRun, ReplayApproval,
     CompleteSliceRun, EndByDecision, CancelSliceRun, StartByOperator, Intervene

LEMMA AdvancingSteps ==
  ASSUME OneMaterialization, AdvancingStep
  PROVE  /\ Advance /\ executionSet.status # "none"
         /\ UNCHANGED <<approvals, interventions, setCrashes>>
         /\ advances' \subseteq advances /\ unnoticed' = FALSE
         /\ \/ materializer' = materializer
            \/ materializer' = [materializer EXCEPT !.pc = "idle"]
  BY DEF AdvancingStep, StartSet, AdvanceSet, OneMaterialization

-----------------------------------------------------------------------------
(* Types. *)

LEMMA MaterializerStepType ==
  ASSUME SetInvariant, MaterializerStep
  PROVE  ExecutionSetTypeOK'
  <1> USE DEF SetInvariant, ExecutionSetTypeOK, SliceRunStatus
  <1>1. CASE BeginMaterialization
    <2>1. 1 \in 1..Len(LaunchOrder) /\ materializer.generation + 1 \in 0..MaxGenerations
      BY <1>1, LaunchOrderIsTopological, SetBounds DEF BeginMaterialization
    <2>2. QED
      BY <1>1, <2>1 DEF BeginMaterialization
  <1>2. CASE CreateSliceRun
    BY <1>2 DEF CreateSliceRun
  <1>3. ASSUME NEW risky \in BOOLEAN, AttachSliceRun(risky)
        PROVE  ExecutionSetTypeOK'
    <2>1. materializer.at < Len(LaunchOrder) => materializer.at + 1 \in 1..Len(LaunchOrder)
      BY LaunchIndices
    <2>2. materializer' \in [pc : {"idle", "creating", "attaching", "persisting", "advancing"},
                             generation : 0..MaxGenerations, at : 1..Len(LaunchOrder)]
      BY <1>3, <2>1 DEF AttachSliceRun
    <2>3. approvals' \in [SliceRuns -> {"none", "auto", "pending", "requested", "rejected"}]
      BY <1>3 DEF AttachSliceRun
    <2>4. sliceRuns' \in [SliceRuns -> [status : SliceRunStatus,
                                        outcome : Outcomes \cup {"none"}]]
      <3>1. PICK status \in SliceRunStatus :
              sliceRuns' = [sliceRuns EXCEPT ![MaterializerRun].status = status]
        BY <1>3 DEF AttachSliceRun
      <3>2. QED
        BY <3>1
    <2>5. QED
      BY <1>3, <2>2, <2>3, <2>4 DEF AttachSliceRun
  <1>4. CASE PersistSet
    BY <1>4 DEF PersistSet
  <1>5. CASE MaterializationFails
    BY <1>5 DEF MaterializationFails
  <1>6. CASE StartFails \/ (\E r \in SliceRuns : AdvanceFails(r)) \/ CrashSet
    <2>1. setCrashes' \in 0..MaxSetCrashes
      BY <1>6, SetBounds DEF StartFails, AdvanceFails, CrashSet
    <2>2. QED
      BY <1>6, <2>1 DEF StartFails, AdvanceFails, CrashSet
  <1>7. QED
    BY <1>1, <1>2, <1>3, <1>4, <1>5, <1>6 DEF MaterializerStep

LEMMA AdvancingStepType ==
  ASSUME SetInvariant, AdvancingStep
  PROVE  ExecutionSetTypeOK'
  <1>1. /\ ExecutionSetTypeOK /\ OneMaterialization
        /\ UNCHANGED <<approvals, interventions, setCrashes>>
        /\ advances' \subseteq advances /\ unnoticed' = FALSE
        /\ \/ materializer' = materializer
           \/ materializer' = [materializer EXCEPT !.pc = "idle"]
    BY AdvancingSteps DEF SetInvariant
  <1>2. executionSet' \in [status : {"none", "created", "running", "terminal"},
                           generation : 0..MaxGenerations]
    BY <1>1, AdvancingSteps, AdvanceCases DEF ExecutionSetTypeOK
  <1>3. sliceRuns' \in [SliceRuns -> [status : SliceRunStatus,
                                      outcome : Outcomes \cup {"none"}]]
    <2>1. CASE UNCHANGED sliceRuns
      BY <1>1, <2>1 DEF ExecutionSetTypeOK
    <2>2. CASE \E s \in Slices : StartSliceRun(EntryRun(s))
      BY <1>1, <2>2, AdvancingSteps, EntryRunType, StartedRun
    <2>3. QED
      BY <1>1, <2>1, <2>2, AdvancingSteps, AdvanceCases
  <1>4. QED
    BY <1>1, <1>2, <1>3 DEF ExecutionSetTypeOK

LEMMA RunStepType ==
  ASSUME SetInvariant, NEW r \in SliceRuns, RunStep(r)
  PROVE  ExecutionSetTypeOK'
  <1> USE DEF SetInvariant, ExecutionSetTypeOK, SliceRunStatus
  <1>1. CASE AdvanceThrows(r) \/ ApproveSliceRun(r) \/ RejectSliceRun(r) \/ ReplayApproval(r)
    <2>1. UNCHANGED <<executionSet, materializer, unnoticed, interventions, setCrashes>>
      BY <1>1 DEF AdvanceThrows, ApproveSliceRun, RejectSliceRun, ReplayApproval
    <2>2. /\ advances' \subseteq SliceRuns
          /\ approvals' \in [SliceRuns -> {"none", "auto", "pending", "requested", "rejected"}]
          /\ sliceRuns' \in [SliceRuns -> [status : SliceRunStatus,
                                          outcome : Outcomes \cup {"none"}]]
      BY <1>1 DEF AdvanceThrows, ApproveSliceRun, RejectSliceRun, ReplayApproval
    <2>3. QED
      BY <2>1, <2>2
  <1>2. CASE (\E outcome \in Outcomes : CompleteSliceRun(r, outcome)) \/ EndByDecision(r)
    <2>1. UNCHANGED <<executionSet, approvals, materializer, interventions, setCrashes>>
      BY <1>2 DEF CompleteSliceRun, EndByDecision
    <2>2. advances' \subseteq SliceRuns
      BY <1>2 DEF CompleteSliceRun, EndByDecision
    <2>3. PICK outcome \in Outcomes :
            sliceRuns' = [sliceRuns EXCEPT ![r] = [status |-> "completed", outcome |-> outcome]]
      BY <1>2 DEF CompleteSliceRun, EndByDecision, Outcomes
    <2>4. sliceRuns' \in [SliceRuns -> [status : SliceRunStatus,
                                       outcome : Outcomes \cup {"none"}]]
      BY <2>3
    <2>5. unnoticed' \in BOOLEAN
      <3>1. unnoticed' = unnoticed \/ unnoticed' = TRUE
        BY <1>2, Zenon DEF CompleteSliceRun, EndByDecision
      <3>2. QED
        BY <3>1
    <2>6. QED
      BY <2>1, <2>2, <2>4, <2>5
  <1>3. CASE CancelSliceRun(r) \/ StartByOperator(r)
    <2>1. UNCHANGED <<executionSet, approvals, materializer, advances, unnoticed, setCrashes>>
      BY <1>3 DEF CancelSliceRun, StartByOperator, Intervene
    <2>2. interventions' \in 0..MaxInterventions
      BY <1>3, SetBounds DEF CancelSliceRun, StartByOperator, Intervene
    <2>3. sliceRuns' \in [SliceRuns -> [status : SliceRunStatus,
                                       outcome : Outcomes \cup {"none"}]]
      BY <1>3 DEF CancelSliceRun, StartByOperator, StartSliceRun
    <2>4. QED
      BY <2>1, <2>2, <2>3
  <1>4. QED
    BY <1>1, <1>2, <1>3 DEF RunStep

-----------------------------------------------------------------------------
(* One materialization. *)

LEMMA OneMaterializationIsInvariant ==
  ASSUME SetInvariant, [ExecutionSetNext]_setVars
  PROVE  OneMaterialization'
  <1> USE DEF SetInvariant, OneMaterialization, Materializing
  <1>1. CASE MaterializerStep
    <2> USE DEF ExecutionSetTypeOK
    <2>1. CASE BeginMaterialization
      BY <2>1, SetBounds DEF BeginMaterialization, Generations
    <2>2. CASE CreateSliceRun
      BY <2>2 DEF CreateSliceRun
    <2>3. CASE \E risky \in BOOLEAN : AttachSliceRun(risky)
      BY <2>3 DEF AttachSliceRun
    <2>4. CASE PersistSet
      BY <2>4 DEF PersistSet
    <2>5. CASE MaterializationFails
      BY <2>5 DEF MaterializationFails
    <2>6. CASE StartFails \/ (\E r \in SliceRuns : AdvanceFails(r)) \/ CrashSet
      BY <2>6 DEF StartFails, AdvanceFails, CrashSet
    <2>7. QED
      BY <1>1, <2>1, <2>2, <2>3, <2>4, <2>5, <2>6 DEF MaterializerStep
  <1>2. CASE AdvancingStep
    <2>1. /\ executionSet'.generation = executionSet.generation
          /\ executionSet'.status # "none"
      BY <1>2, AdvancingSteps, AdvanceCases DEF ExecutionSetTypeOK
    <2>2. /\ materializer'.generation = materializer.generation
          /\ materializer'.pc \in {materializer.pc, "idle"}
      BY <1>2, AdvancingSteps DEF ExecutionSetTypeOK
    <2>3. ~ Materializing
      BY <1>2, AdvancingSteps
    <2>4. QED
      BY <1>2, <2>1, <2>2, <2>3, AdvancingSteps
  <1>3. CASE \E r \in SliceRuns : RunStep(r)
    BY <1>3, RunStepsKeepTheSet
  <1>4. CASE UNCHANGED setVars
    BY <1>4 DEF setVars
  <1>5. QED
    BY <1>1, <1>2, <1>3, <1>4, SetSteps

-----------------------------------------------------------------------------
(* Attached runs. *)

LEMMA MaterializerKeepsCleared ==
  ASSUME SetInvariant, MaterializerStep
  PROVE  AttachedAreCleared'
  <1> SUFFICES ASSUME NEW s \in Slices, Attached(s)'
               PROVE  Cleared(NewestRun(s))'
    BY DEF AttachedAreCleared
  <1> USE DEF SetInvariant
  <1>1. CASE BeginMaterialization
    <2>1. ~ Attached(s)'
      BY <1>1, LaunchIndices DEF BeginMaterialization, Attached, ExecutionSetTypeOK
    <2>2. QED
      BY <2>1
  <1>2. CASE CreateSliceRun
    <2>1. Materializing
      BY <1>2 DEF CreateSliceRun, Materializing
    <2>2. /\ Attached(s)
          /\ s # LaunchOrder[materializer.at]
      BY <1>2, <2>1, MaterializerRunType, LaunchOrderIsTopological
         DEF CreateSliceRun, Attached, ExecutionSetTypeOK, OneMaterialization
    <2>3. /\ NewestRun(s)' = NewestRun(s) /\ NewestRun(s) \in SliceRuns
          /\ NewestRun(s) # MaterializerRun
      BY <1>2, <2>1, <2>2, MaterializerRunType
         DEF CreateSliceRun, ExecutionSetTypeOK, NewestRun, SliceRuns, MaterializerRun,
             OneMaterialization
    <2>4. Cleared(NewestRun(s))
      BY <2>2 DEF AttachedAreCleared
    <2>5. QED
      BY <1>2, <2>3, <2>4 DEF CreateSliceRun, Cleared, ExecutionSetTypeOK
  <1>3. ASSUME NEW risky \in BOOLEAN, AttachSliceRun(risky)
        PROVE  Cleared(NewestRun(s))'
    <2>1. Materializing
      BY <1>3 DEF AttachSliceRun, Materializing
    <2>2. /\ NewestRun(s)' = NewestRun(s) /\ NewestRun(s) \in SliceRuns
          /\ MaterializerRun \in SliceRuns
      BY <1>3, <2>1, MaterializerRunType
         DEF AttachSliceRun, ExecutionSetTypeOK, NewestRun, SliceRuns, OneMaterialization
    <2>3. CASE NewestRun(s) = MaterializerRun
      BY <1>3, <2>2, <2>3 DEF AttachSliceRun, Cleared, ExecutionSetTypeOK
    <2>4. CASE NewestRun(s) # MaterializerRun
      <3>1. s # LaunchOrder[materializer.at]
        BY <2>1, <2>4, MaterializerRunType
      <3>2. Attached(s)
        <4>1. PICK i \in DOMAIN LaunchOrder : LaunchOrder[i] = s
          BY LaunchOrderIsTopological
        <4>2. CASE materializer'.pc = "persisting"
          <5>1. i # materializer.at /\ materializer.at = Len(LaunchOrder)
            BY <1>3, <3>1, <4>1, <4>2, LaunchIndices DEF AttachSliceRun, ExecutionSetTypeOK
          <5>2. i < materializer.at
            BY <4>1, <5>1, LaunchIndices DEF ExecutionSetTypeOK
          <5>3. QED
            BY <1>3, <4>1, <5>2 DEF AttachSliceRun, Attached
        <4>3. CASE materializer'.pc # "persisting"
          <5>1. /\ materializer'.at = materializer.at + 1
                /\ executionSet' = executionSet
            BY <1>3, <4>3 DEF AttachSliceRun, ExecutionSetTypeOK
          <5>2. CASE executionSet.status # "none"
            BY <5>2 DEF Attached
          <5>3. CASE executionSet.status = "none"
            <6>1. PICK j \in DOMAIN LaunchOrder :
                    j < materializer'.at /\ LaunchOrder[j] = s
              BY <4>3, <5>1, <5>3 DEF Attached
            <6>2. j # materializer.at
              BY <3>1, <6>1
            <6>3. j < materializer.at
              BY <5>1, <6>1, <6>2, LaunchIndices DEF ExecutionSetTypeOK
            <6>4. QED
              BY <1>3, <6>1, <6>3 DEF AttachSliceRun, Attached
          <5>4. QED
            BY <5>2, <5>3
        <4>4. QED
          BY <4>2, <4>3
      <3>3. QED
        BY <1>3, <2>2, <2>4, <3>2 DEF AttachSliceRun, Cleared, AttachedAreCleared,
           ExecutionSetTypeOK
    <2>5. QED
      BY <2>3, <2>4
  <1>4. CASE PersistSet
    <2>1. Attached(s) /\ NewestRun(s)' = NewestRun(s)
      BY <1>4 DEF PersistSet, Attached, NewestRun, ExecutionSetTypeOK
    <2>2. QED
      BY <1>4, <2>1 DEF PersistSet, Cleared, AttachedAreCleared
  <1>5. CASE \/ MaterializationFails \/ StartFails \/ CrashSet
             \/ \E r \in SliceRuns : AdvanceFails(r)
    <2>1. Attached(s) /\ NewestRun(s)' = NewestRun(s)
      BY <1>5 DEF MaterializationFails, StartFails, CrashSet, AdvanceFails,
          Attached, NewestRun, ExecutionSetTypeOK
    <2>2. QED
      BY <1>5, <2>1 DEF MaterializationFails, StartFails, CrashSet, AdvanceFails,
          Cleared, AttachedAreCleared
  <1>6. QED
    BY <1>1, <1>2, <1>3, <1>4, <1>5 DEF MaterializerStep

LEMMA AdvancingKeepsCleared ==
  ASSUME SetInvariant, AdvancingStep
  PROVE  AttachedAreCleared'
  <1> USE DEF SetInvariant
  <1>1. /\ Advance /\ executionSet.status # "none" /\ approvals' = approvals
        /\ materializer'.generation = materializer.generation
    BY AdvancingSteps DEF ExecutionSetTypeOK
  <1>2. ASSUME NEW r \in SliceRuns
        PROVE  sliceRuns'[r].status = "scheduling" \/ sliceRuns'[r] = sliceRuns[r]
    <2>1. CASE UNCHANGED sliceRuns
      BY <2>1
    <2>2. CASE \E s \in Slices : StartSliceRun(EntryRun(s))
      BY <1>1, <2>2, EntryRunType, StartedRun
    <2>3. QED
      BY <1>1, <2>1, <2>2, AdvanceCases
  <1>3. ASSUME NEW s \in Slices
        PROVE  Cleared(NewestRun(s))'
    <2>1. /\ NewestRun(s)' = NewestRun(s) /\ NewestRun(s) \in SliceRuns
          /\ Cleared(NewestRun(s))
      BY <1>1, EntryRunType DEF NewestRun, AttachedAreCleared, Attached
    <2>2. CASE sliceRuns'[NewestRun(s)].status = "scheduling"
      BY <2>1, <2>2 DEF Cleared
    <2>3. CASE sliceRuns'[NewestRun(s)] = sliceRuns[NewestRun(s)]
      <3>1. interventions' = interventions
        BY AdvancingSteps
      <3>2. QED
        BY <1>1, <2>1, <2>3, <3>1 DEF Cleared
    <2>4. QED
      BY <1>2, <2>1, <2>2, <2>3
  <1>4. QED
    BY <1>3 DEF AttachedAreCleared

LEMMA RunStepsKeepCleared ==
  ASSUME SetInvariant, NEW r \in SliceRuns, RunStep(r)
  PROVE  AttachedAreCleared'
  <1> USE DEF SetInvariant
  <1>1. SUFFICES ASSUME NEW s \in Slices, Attached(s)'
                 PROVE  Cleared(NewestRun(s))'
    BY DEF AttachedAreCleared
  <1>2. /\ Attached(s) /\ NewestRun(s)' = NewestRun(s)
        /\ NewestRun(s) \in SliceRuns
    <2>1. UNCHANGED <<executionSet, materializer>>
      BY RunStepsKeepTheSet
    <2>2. Attached(s) /\ NewestRun(s)' = NewestRun(s)
      BY <1>1, <2>1 DEF Attached, NewestRun
    <2>3. materializer.generation \in Generations
      BY <2>2 DEF Attached, OneMaterialization
    <2>4. QED
      BY <2>2, <2>3 DEF NewestRun, SliceRuns
  <1>3. Cleared(NewestRun(s))
    BY <1>2 DEF AttachedAreCleared
  <1>4. CASE AdvanceThrows(r) \/ ReplayApproval(r)
    BY <1>2, <1>3, <1>4 DEF AdvanceThrows, ReplayApproval, Cleared
  <1>5. CASE ApproveSliceRun(r)
    BY <1>2, <1>3, <1>5 DEF ApproveSliceRun, Cleared, ExecutionSetTypeOK
  <1>6. CASE RejectSliceRun(r)
    BY <1>2, <1>3, <1>6 DEF RejectSliceRun, Cleared, ExecutionSetTypeOK
  <1>7. CASE \E outcome \in Outcomes : CompleteSliceRun(r, outcome)
    <2>1. PICK outcome \in Outcomes : CompleteSliceRun(r, outcome)
      BY <1>7
    <2>2. outcome # "none"
      BY DEF Outcomes
    <2>3. UNCHANGED <<approvals, interventions>>
          /\ \A q \in SliceRuns : \/ sliceRuns'[q] = sliceRuns[q]
                                  \/ sliceRuns'[q] = [status |-> "completed", outcome |-> outcome]
      BY <2>1 DEF CompleteSliceRun, ExecutionSetTypeOK
    <2>4. QED
      BY <1>2, <1>3, <2>2, <2>3 DEF Cleared
  <1>8. CASE EndByDecision(r)
    <2>1. UNCHANGED <<approvals, interventions>>
          /\ \A q \in SliceRuns : \/ sliceRuns'[q] = sliceRuns[q]
                                  \/ sliceRuns'[q] = [status |-> "completed",
                                                      outcome |-> "unsatisfied"]
      BY <1>8 DEF EndByDecision, ExecutionSetTypeOK
    <2>2. QED
      BY <1>2, <1>3, <2>1 DEF Cleared
  <1>9. CASE CancelSliceRun(r) \/ StartByOperator(r)
    <2>1. interventions' # 0 /\ approvals' = approvals
      BY <1>9 DEF CancelSliceRun, StartByOperator, Intervene, ExecutionSetTypeOK
    <2>2. \A q \in SliceRuns : sliceRuns'[q].status = "created" => sliceRuns[q].status = "created"
      BY <1>9 DEF CancelSliceRun, StartByOperator, StartSliceRun, ExecutionSetTypeOK
    <2>3. QED
      BY <1>2, <1>3, <2>1, <2>2 DEF Cleared
  <1>10. QED
    BY <1>4, <1>5, <1>6, <1>7, <1>8, <1>9 DEF RunStep

LEMMA SetStaysAdvanced ==
  ASSUME SetInvariant, [ExecutionSetNext]_setVars
  PROVE  SetIsAdvanced'
  <1> USE DEF SetInvariant
  <1>1. CASE MaterializerStep
    <2>1. /\ setCrashes' # 0 \/ executionSet'.status = "none"
          \/ materializer'.pc # "idle"
      BY <1>1 DEF MaterializerStep, BeginMaterialization, CreateSliceRun, AttachSliceRun,
         PersistSet, MaterializationFails, StartFails, AdvanceFails, CrashSet, OneMaterialization,
         Materializing, ExecutionSetTypeOK
    <2>2. QED
      BY <2>1 DEF SetIsAdvanced, NobodyAdvances
  <1>2. CASE AdvancingStep
    <2>1. Advance /\ executionSet.status # "none"
      BY <1>2, AdvancingSteps
    <2>2. CASE UNCHANGED <<executionSet, sliceRuns>> /\ NothingToStart
      <3>1. NothingToStart'
        BY <2>2 DEF NothingToStart, SetOutcome, Startable, DependenciesSatisfied, EntryRun
      <3>2. QED
        BY <3>1 DEF SetIsAdvanced
    <2>3. CASE executionSet'.status = "terminal"
      BY <2>3 DEF SetIsAdvanced
    <2>4. ASSUME NEW s \in Slices, StartSliceRun(EntryRun(s)),
                 executionSet' = [executionSet EXCEPT !.status = "running"]
          PROVE  SetIsAdvanced'
      <3>1. EntryRun(s)' = EntryRun(s)
        BY <2>4 DEF EntryRun, ExecutionSetTypeOK
      <3>2. sliceRuns'[EntryRun(s)].status = "scheduling"
        BY <2>1, <2>4, EntryRunType, StartedRun
      <3>3. ~ NobodyAdvances'
        BY <3>1, <3>2 DEF NobodyAdvances
      <3>4. QED
        BY <3>3 DEF SetIsAdvanced
    <2>5. QED
      BY <2>1, <2>2, <2>3, <2>4, AdvanceCases DEF ExecutionSetTypeOK
  <1>3. ASSUME NEW r \in SliceRuns, RunStep(r)
        PROVE  SetIsAdvanced'
    <2>1. UNCHANGED <<executionSet, materializer>>
      BY <1>3, RunStepsKeepTheSet
    <2>2. CASE AdvanceThrows(r)
      BY <2>2 DEF AdvanceThrows, SetIsAdvanced
    <2>3. CASE RejectSliceRun(r)
      <3>1. UNCHANGED <<executionSet, sliceRuns, materializer, advances, unnoticed,
                        interventions, setCrashes>>
        BY <2>3 DEF RejectSliceRun
      <3>2. NobodyAdvances' = NobodyAdvances /\ NothingToStart' = NothingToStart
        BY <3>1 DEF NobodyAdvances, NothingToStart, SetOutcome, Startable,
           DependenciesSatisfied, EntryRun
      <3>3. QED
        BY <3>1, <3>2 DEF SetIsAdvanced
    <2>4. CASE ApproveSliceRun(r) \/ ReplayApproval(r)
               \/ \E outcome \in Outcomes : CompleteSliceRun(r, outcome)
      <3>1. r \in advances'
        BY <2>4 DEF ApproveSliceRun, ReplayApproval, CompleteSliceRun
      <3>2. QED
        BY <3>1 DEF SetIsAdvanced, NobodyAdvances
    <2>5. CASE CancelSliceRun(r) \/ StartByOperator(r)
      BY <2>5 DEF CancelSliceRun, StartByOperator, Intervene, SetIsAdvanced, ExecutionSetTypeOK
    <2>6. CASE EndByDecision(r)
      BY <2>6 DEF EndByDecision, SetIsAdvanced
    <2>7. QED
      BY <1>3, <2>2, <2>3, <2>4, <2>5, <2>6 DEF RunStep
  <1>4. CASE UNCHANGED setVars
    <2>1. UNCHANGED <<executionSet, sliceRuns, materializer, advances, unnoticed, interventions,
                      setCrashes>>
      BY <1>4 DEF setVars
    <2>2. NobodyAdvances' = NobodyAdvances /\ NothingToStart' = NothingToStart
      BY <2>1 DEF NobodyAdvances, NothingToStart, SetOutcome, Startable,
         DependenciesSatisfied, EntryRun
    <2>3. QED
      BY <2>1, <2>2 DEF SetIsAdvanced
  <1>5. QED
    BY <1>1, <1>2, <1>3, <1>4, SetSteps

LEMMA StepKeepsSetInvariant ==
  ASSUME SetInvariant, [ExecutionSetNext]_setVars
  PROVE  SetInvariant'
  <1>1. OneMaterialization' /\ SetIsAdvanced'
    BY OneMaterializationIsInvariant, SetStaysAdvanced
  <1>2. CASE MaterializerStep
    BY <1>1, <1>2, MaterializerStepType, MaterializerKeepsCleared DEF SetInvariant
  <1>3. CASE AdvancingStep
    BY <1>1, <1>3, AdvancingStepType, AdvancingKeepsCleared DEF SetInvariant
  <1>4. CASE \E r \in SliceRuns : RunStep(r)
    BY <1>1, <1>4, RunStepType, RunStepsKeepCleared DEF SetInvariant
  <1>5. CASE UNCHANGED setVars
    BY <1>1, <1>5
       DEF SetInvariant, ExecutionSetTypeOK, AttachedAreCleared, Attached, Cleared, NewestRun,
           setVars
  <1>6. QED
    BY <1>2, <1>3, <1>4, <1>5, SetSteps

-----------------------------------------------------------------------------

(* The types, that one materialization alone writes the set, and that an   *)
(* attached run which may start needs no decision.                         *)
THEOREM SetInvariantHolds == ExecutionSetSpec => []SetInvariant
  BY InitEstablishesSetInvariant, StepKeepsSetInvariant, PTL DEF ExecutionSetSpec

(* TerminalSetIsFinal: whoever advances a set, and whatever became of its  *)
(* runs, its outcome is not written twice.                                 *)
THEOREM TerminalSetStaysFinal == ExecutionSetSpec => TerminalSetIsFinal
  <1>1. ASSUME SetInvariant, [ExecutionSetNext]_setVars, executionSet.status = "terminal"
        PROVE  UNCHANGED executionSet
    <2> USE DEF SetInvariant
    <2>1. CASE MaterializerStep
      BY <1>1, <2>1
         DEF MaterializerStep, BeginMaterialization, CreateSliceRun, AttachSliceRun, PersistSet,
             MaterializationFails, StartFails, AdvanceFails, CrashSet, OneMaterialization,
             Materializing
    <2>2. CASE AdvancingStep
      BY <1>1, <2>2, AdvancingSteps DEF Advance
    <2>3. CASE \E r \in SliceRuns : RunStep(r)
      BY <2>3, RunStepsKeepTheSet
    <2>4. CASE UNCHANGED setVars
      BY <2>4 DEF setVars
    <2>5. QED
      BY <1>1, <2>1, <2>2, <2>3, <2>4, SetSteps
  <1>2. QED
    BY <1>1, SetInvariantHolds, PTL DEF ExecutionSetSpec, TerminalSetIsFinal

(* SlicesStartInOrder: approval, dependencies and outcome are all still    *)
(* good when a slice starts, though each is written by somebody else.      *)
THEOREM SlicesStartOnlyInOrder == ExecutionSetSpec => SlicesStartInOrder
  <1> DEFINE InOrder(s, g) ==
        /\ sliceRuns[<<s, g>>].status = "created"
        /\ sliceRuns'[<<s, g>>].status = "scheduling"
        /\ interventions' = interventions
        => /\ approvals[<<s, g>>] \in {"auto", "requested"}
           /\ executionSet.generation = g
           /\ executionSet.status # "terminal"
           /\ \A d \in SliceDeps[s] : sliceRuns[<<d, g>>].outcome = "satisfied"
  <1>1. ASSUME SetInvariant, [ExecutionSetNext]_setVars, NEW s \in Slices, NEW g \in Generations
        PROVE  InOrder(s, g)
    <2> USE DEF SetInvariant
    <2>0. <<s, g>> \in SliceRuns
      BY DEF SliceRuns
    <2>1. CASE MaterializerStep
      <3>1. CASE CreateSliceRun
        <4>1. sliceRuns'[<<s, g>>].status \in {sliceRuns[<<s, g>>].status, "created"}
          BY <2>0, <3>1 DEF CreateSliceRun, ExecutionSetTypeOK
        <4>2. QED
          BY <4>1
      <3>2. CASE \E risky \in BOOLEAN : AttachSliceRun(risky)
        <4>1. PICK risky \in BOOLEAN : AttachSliceRun(risky)
          BY <3>2
        <4>2. sliceRuns'[<<s, g>>].status
                \in {sliceRuns[<<s, g>>].status, "created", "awaiting_approval"}
          BY <2>0, <4>1 DEF AttachSliceRun, ExecutionSetTypeOK
        <4>3. QED
          BY <4>2
      <3>3. CASE \/ BeginMaterialization \/ PersistSet \/ MaterializationFails \/ StartFails
                 \/ (\E r \in SliceRuns : AdvanceFails(r)) \/ CrashSet
        BY <3>3 DEF BeginMaterialization, PersistSet, MaterializationFails, StartFails,
           AdvanceFails, CrashSet
      <3>4. QED
        BY <2>1, <3>1, <3>2, <3>3 DEF MaterializerStep
    <2>2. CASE AdvancingStep
      <3> SUFFICES ASSUME sliceRuns[<<s, g>>].status = "created",
                          sliceRuns'[<<s, g>>].status = "scheduling"
                   PROVE  /\ approvals[<<s, g>>] \in {"auto", "requested"}
                          /\ executionSet.generation = g
                          /\ executionSet.status # "terminal"
                          /\ \A d \in SliceDeps[s] : sliceRuns[<<d, g>>].outcome = "satisfied"
        OBVIOUS
      <3>1. executionSet.status # "none" /\ Advance
        BY <1>1, <2>2, AdvancingSteps
      <3>2. PICK t \in Slices : /\ Startable(t) /\ StartSliceRun(EntryRun(t))
                                /\ executionSet.status # "terminal"
        BY <1>1, <3>1, AdvanceCases
      <3>3. <<s, g>> = EntryRun(t)
        BY <1>1, <2>0, <3>1, <3>2, EntryRunType, StartedRun
      <3>4. s = t /\ g = executionSet.generation
        BY <3>3 DEF EntryRun
      <3>5. Cleared(<<s, g>>)
        BY <1>1, <3>1, <3>3, EntryRunType DEF AttachedAreCleared, Attached
      <3>6. QED
        BY <3>2, <3>4, <3>5 DEF Cleared, Startable, DependenciesSatisfied, EntryRun
    <2>3. CASE \E r \in SliceRuns : RunStep(r)
      BY <1>1, <2>0, <2>3, SetBounds
         DEF RunStep, AdvanceThrows, ApproveSliceRun, RejectSliceRun, ReplayApproval,
             CompleteSliceRun, EndByDecision, CancelSliceRun, StartByOperator, Intervene, ExecutionSetTypeOK
    <2>4. CASE UNCHANGED setVars
      BY <2>4 DEF setVars
    <2>5. QED
      BY <1>1, <2>1, <2>2, <2>3, <2>4, SetSteps
  <1>2. ASSUME SetInvariant, [ExecutionSetNext]_setVars
        PROVE  \A s \in Slices, g \in Generations : InOrder(s, g)
    BY <1>1, <1>2
  <1>3. QED
    BY <1>2, SetInvariantHolds, PTL DEF ExecutionSetSpec, SlicesStartInOrder

(* SetNeverStalls: whatever the slices depend on, when nobody has a reason *)
(* to move and the set is not over, the first slice in launch order that   *)
(* has no outcome could be started, which the last advance would have      *)
(* done; unless a decision on a repair has ended a run since, for which    *)
(* postgres-approval-service advances nothing.                             *)
THEOREM SetsKeepMoving == ExecutionSetSpec => []SetNeverStalls
  <1>1. SetInvariant => SetNeverStalls
    <2> SUFFICES ASSUME SetInvariant, executionSet.status \in {"created", "running"},
                        setCrashes = 0, interventions = 0, ~unnoticed, ~ SomethingIsPending
                 PROVE  FALSE
      BY DEF SetNeverStalls
    <2> USE DEF SetInvariant
    <2>1. NobodyAdvances /\ \A s \in Slices : approvals[EntryRun(s)] \notin {"pending", "rejected"}
      BY DEF SomethingIsPending, NobodyAdvances
    <2>2. NothingToStart
      BY <2>1 DEF SetIsAdvanced
    <2>3. ASSUME NEW s \in Slices
          PROVE  /\ sliceRuns[EntryRun(s)].outcome \in {"satisfied", "none"}
                 /\ sliceRuns[EntryRun(s)].outcome = "none" =>
                       sliceRuns[EntryRun(s)] = [status |-> "created", outcome |-> "none"]
      <3>1. Cleared(EntryRun(s)) /\ EntryRun(s) \in SliceRuns
        BY EntryRunType DEF AttachedAreCleared, Attached
      <3>2. sliceRuns[EntryRun(s)] \in [status : SliceRunStatus, outcome : Outcomes \cup {"none"}]
        BY <3>1 DEF ExecutionSetTypeOK
      <3>3. sliceRuns[EntryRun(s)].outcome \notin {"unsatisfied", "blocked"}
        BY <2>2 DEF NothingToStart, SetOutcome
      <3>4. sliceRuns[EntryRun(s)].outcome = "none" => sliceRuns[EntryRun(s)].status = "created"
        BY <2>1, <3>1 DEF Cleared, NobodyAdvances
      <3>5. QED
        BY <3>2, <3>3, <3>4 DEF Outcomes
    <2> DEFINE open == {i \in DOMAIN LaunchOrder : sliceRuns[EntryRun(LaunchOrder[i])].outcome = "none"}
    <2>4. open # {}
      <3>1. PICK s \in Slices : sliceRuns[EntryRun(s)].outcome = "none"
        <4>1. SUFFICES ASSUME \A s \in Slices : sliceRuns[EntryRun(s)].outcome = "satisfied"
                       PROVE  FALSE
          BY <2>3
        <4>2. Slices # {}
          BY LaunchOrderIsTopological, LaunchIndices
        <4>3. {sliceRuns[EntryRun(s)].outcome : s \in Slices} = {"satisfied"}
          BY <4>1, <4>2
        <4>4. SetOutcome = "satisfied"
          BY <4>3 DEF SetOutcome
        <4>5. QED
          BY <2>2, <4>4 DEF NothingToStart
      <3>2. PICK i \in DOMAIN LaunchOrder : LaunchOrder[i] = s
        BY LaunchOrderIsTopological
      <3>3. QED
        BY <3>1, <3>2
    <2>5. open \in SUBSET Nat
      BY LaunchIndices
    <2>6. PICK i \in open : \A j \in open : i <= j
      BY <2>4, <2>5, LeastNatural
    <2>7. i \in DOMAIN LaunchOrder /\ LaunchOrder[i] \in Slices
          /\ sliceRuns[EntryRun(LaunchOrder[i])].outcome = "none"
      BY LaunchIndices
    <2>8. DependenciesSatisfied(LaunchOrder[i])
      <3>1. SUFFICES ASSUME NEW d \in SliceDeps[LaunchOrder[i]]
                     PROVE  sliceRuns[EntryRun(d)].outcome = "satisfied"
        BY DEF DependenciesSatisfied
      <3>2. d \in Slices
        BY <2>7, SetBounds
      <3>3. PICK j \in DOMAIN LaunchOrder : LaunchOrder[j] = d
        BY <3>2, LaunchOrderIsTopological
      <3>4. j < i
        BY <2>7, <3>3, LaunchOrderIsTopological
      <3>5. j \notin open
        BY <2>6, <2>7, <3>3, <3>4, LaunchIndices
      <3>6. QED
        BY <2>3, <3>2, <3>3, <3>5
    <2>9. Startable(LaunchOrder[i])
      BY <2>3, <2>7, <2>8 DEF Startable
    <2>10. QED
      BY <2>2, <2>7, <2>9 DEF NothingToStart
  <1>2. QED
    BY <1>1, SetInvariantHolds, PTL

-----------------------------------------------------------------------------
(* Numbers and cursors. *)

(* The lock of the run's row: one writer at a time has a number, and it    *)
(* comes after all that are committed.                                     *)
NumbersInTurn ==
    /\ CommittedEvents \subseteq Sequences
    /\ writers \in [Writers -> 0..MaxEvents]
    /\ \A w \in Writers : writers[w] # 0 => \A n \in CommittedEvents : n < writers[w]
    /\ \A v, w \in Writers : writers[v] # 0 /\ writers[w] # 0 => v = w

(* The cursors of the stream and of the watcher are committed numbers. *)
CursorsAreCommitted ==
    /\ stream.after \in {0} \cup CommittedEvents
    /\ \A i \in DOMAIN frames : frames[i] \in {Live} \cup Wanted
    /\ watcher.cursor \in {0, Live} \cup CommittedEvents

StreamInvariant == StreamTypeOK /\ NumbersInTurn /\ CursorsAreCommitted

LEMMA EnumerationIsComplete ==
  ASSUME NEW S \in SUBSET Sequences, NEW s \in InSequence(S)
  PROVE  /\ s \in Seq(S)
         /\ \A n \in S : \E i \in DOMAIN s : s[i] = n
         /\ \A i, j \in DOMAIN s : i < j => s[i] < s[j]
  <1>1. IsFiniteSet(S)
    <2>1. IsFiniteSet(1..MaxEvents)
      BY FS_Interval, StreamBounds
    <2>2. QED
      BY <2>1, FS_Subset DEF Sequences
  <1>2. Cardinality(S) \in Nat
    BY <1>1, FS_CardinalityType
  <1>3. /\ s \in [1..Cardinality(S) -> S]
        /\ \A i, j \in 1..Cardinality(S) : i < j => s[i] < s[j]
    BY DEF InSequence
  <1>4. \A i, j \in 1..Cardinality(S) : s[i] = s[j] => i = j
    <2>0. S \subseteq Nat
      BY StreamBounds DEF Sequences
    <2>1. \A i \in 1..Cardinality(S) : s[i] \in Nat
      BY <1>3, <2>0
    <2>2. QED
      BY <1>2, <1>3, <2>1
  <1>5. s \in Injection(1..Cardinality(S), S)
    BY <1>3, <1>4 DEF Injection, IsInjective
  <1>6. IsFiniteSet(1..Cardinality(S)) /\ Cardinality(1..Cardinality(S)) = Cardinality(S)
    BY <1>2, FS_Interval
  <1>7. s \in Surjection(1..Cardinality(S), S)
    BY <1>1, <1>5, <1>6, FS_Injection
  <1>8. \A n \in S : \E i \in 1..Cardinality(S) : s[i] = n
    BY <1>7 DEF Surjection
  <1>9. QED
    BY <1>2, <1>3, <1>8

(* What a commit adds comes after everything committed before.             *)
LEMMA CommitsInOrder ==
  ASSUME StreamInvariant, NEW w \in Writers, NEW kind \in EventKinds, NEW mine \in BOOLEAN,
         CommitAppend(w, kind, mine)
  PROVE  /\ CommittedEvents' = CommittedEvents \cup {writers[w]}
         /\ writers[w] \in Sequences
         /\ \A n \in CommittedEvents : n < writers[w]
         /\ Wanted \subseteq Wanted'
         /\ Wanted' \subseteq Wanted \cup {writers[w]}
  <1>1. /\ CommittedEvents' = CommittedEvents \cup {writers[w]}
        /\ writers[w] \in Sequences
        /\ \A n \in CommittedEvents : n < writers[w]
    BY StreamBounds DEF CommitAppend, CommittedEvents, StreamInvariant, NumbersInTurn, Sequences
  <1>2. writers[w] \notin CommittedEvents
    BY <1>1, StreamBounds DEF Sequences
  <1>3. \A n \in CommittedEvents : history'[n] = history[n]
    BY <1>2 DEF CommitAppend
  <1>4. QED
    BY <1>1, <1>3 DEF Wanted

(* The steps of the writers, and those of the connection. *)
ConnectionStep ==
    \/ Connect \/ Tick \/ CheckEnded \/ LiveEvent
    \/ Receive \/ EndOfStream \/ LoseConnection \/ LookElsewhere

LEMMA StreamSteps ==
  ASSUME [StreamNext]_streamVars
  PROVE  \/ \E w \in Writers : BeginAppend(w) \/ AbortAppend(w)
         \/ \E w \in Writers, kind \in EventKinds, mine \in BOOLEAN :
               CommitAppend(w, kind, mine)
         \/ ConnectionStep /\ UNCHANGED <<history, writers, ended>>
         \/ UNCHANGED streamVars
  BY DEF StreamNext, ConnectionStep, Connect, Tick, CheckEnded, LiveEvent, Receive,
     EndOfStream, LoseConnection, LookElsewhere

LEMMA NextNumber ==
  ASSUME StreamInvariant, NEW w \in Writers, BeginAppend(w)
  PROVE  /\ writers'[w] \in Sequences
         /\ \A n \in CommittedEvents : n < writers'[w]
         /\ \A v \in Writers \ {w} : writers'[v] = 0
         /\ writers' \in [Writers -> 0..MaxEvents]
  <1>1. /\ Taken = {}
        /\ writers' = [writers EXCEPT ![w] = Max({0} \cup CommittedEvents) + 1]
        /\ Max({0} \cup CommittedEvents \cup Taken) < MaxEvents
    BY DEF BeginAppend, Allocate
  <1>2. /\ Max({0} \cup CommittedEvents) \in Nat
        /\ \A n \in {0} \cup CommittedEvents : n <= Max({0} \cup CommittedEvents)
    <2>1. /\ {0} \cup CommittedEvents \in SUBSET Nat
          /\ {0} \cup CommittedEvents # {}
          /\ MaxEvents \in Nat
          /\ \A n \in {0} \cup CommittedEvents : n <= MaxEvents
      BY StreamBounds DEF StreamInvariant, NumbersInTurn, Sequences
    <2>2. QED
      BY <2>1, GreatestNatural
  <1>3. Max({0} \cup CommittedEvents) < MaxEvents
    <2>1. {0} \cup CommittedEvents \cup Taken = {0} \cup CommittedEvents
      BY <1>1
    <2>2. QED
      BY <1>1, <2>1
  <1>4. writers \in [Writers -> 0..MaxEvents] /\ CommittedEvents \subseteq Nat
    BY StreamBounds DEF StreamInvariant, NumbersInTurn, Sequences
  <1>5. \A v \in Writers : writers[v] = 0
    BY <1>1 DEF Taken
  <1>6. writers'[w] = Max({0} \cup CommittedEvents) + 1
    BY <1>1, <1>4
  <1>7. writers'[w] \in Sequences
    BY <1>2, <1>3, <1>6, StreamBounds DEF Sequences
  <1>8. \A n \in CommittedEvents : n < writers'[w]
    BY <1>2, <1>4, <1>6
  <1>9. /\ \A v \in Writers \ {w} : writers'[v] = 0
        /\ writers' \in [Writers -> 0..MaxEvents]
    <2>1. writers'[w] \in 0..MaxEvents
      BY <1>7, StreamBounds DEF Sequences
    <2>2. QED
      BY <1>1, <1>4, <1>5, <1>6, <2>1
  <1>10. QED
    BY <1>7, <1>8, <1>9

LEMMA NumbersStayInTurn ==
  ASSUME StreamInvariant, [StreamNext]_streamVars
  PROVE  NumbersInTurn'
  <1> USE DEF NumbersInTurn
  <1>1. ASSUME NEW w \in Writers, BeginAppend(w)
        PROVE  NumbersInTurn'
    <2>1. CommittedEvents' = CommittedEvents
      BY <1>1 DEF BeginAppend, CommittedEvents
    <2>2. QED
      BY <1>1, <2>1, NextNumber DEF StreamInvariant, Sequences
  <1>2. ASSUME NEW w \in Writers, AbortAppend(w)
        PROVE  NumbersInTurn'
    BY <1>2, StreamBounds DEF StreamInvariant, AbortAppend, CommittedEvents
  <1>3. ASSUME NEW w \in Writers, NEW kind \in EventKinds, NEW mine \in BOOLEAN,
               CommitAppend(w, kind, mine)
        PROVE  NumbersInTurn'
    <2>1. writers' = [writers EXCEPT ![w] = 0]
      BY <1>3 DEF CommitAppend
    <2>2. \A v \in Writers : writers'[v] = 0
      BY <1>3, <2>1 DEF StreamInvariant, CommitAppend
    <2>3. QED
      BY <1>3, <2>1, <2>2, CommitsInOrder, StreamBounds DEF StreamInvariant
  <1>4. CASE UNCHANGED <<history, writers, ended>>
    BY <1>4 DEF StreamInvariant, CommittedEvents
  <1>5. QED
    BY <1>1, <1>2, <1>3, <1>4, StreamSteps DEF streamVars

LEMMA CursorsStayCommitted ==
  ASSUME StreamInvariant, [StreamNext]_streamVars
  PROVE  CursorsAreCommitted'
  <1> USE DEF CursorsAreCommitted, CommittedEvents, Wanted
  <1>0. /\ frames \in Seq(Frames)
        /\ CursorsAreCommitted
    BY DEF StreamInvariant, StreamTypeOK
  <1>1. ASSUME NEW w \in Writers, BeginAppend(w) \/ AbortAppend(w)
        PROVE  CursorsAreCommitted'
    BY <1>0, <1>1 DEF BeginAppend, AbortAppend
  <1>2. ASSUME NEW w \in Writers, NEW kind \in EventKinds, NEW mine \in BOOLEAN,
               CommitAppend(w, kind, mine)
        PROVE  CursorsAreCommitted'
    <2>1. UNCHANGED <<stream, frames, watcher>>
      BY <1>2 DEF CommitAppend
    <2>2. CommittedEvents \subseteq CommittedEvents' /\ Wanted \subseteq Wanted'
      BY <1>2, CommitsInOrder
    <2>3. QED
      BY <1>0, <2>1, <2>2 DEF Live
  <1>3. CASE Connect
    BY <1>0, <1>3 DEF Connect, ResumeAfter, StreamInvariant, StreamTypeOK
  <1>4. CASE Tick
    <2>1. PICK events \in EventsSince(stream.after) :
            /\ frames' = frames \o events
            /\ stream'.after = CursorAfter(events)
      BY <1>4 DEF Tick
    <2>2. UNCHANGED <<history, watcher>>
      BY <1>4 DEF Tick
    <2>3. events \in Seq(Wanted)
      <3>1. {n \in Wanted : n > stream.after} \in SUBSET Sequences
        BY DEF StreamInvariant, NumbersInTurn
      <3>2. QED
        BY <3>1, EnumerationIsComplete DEF EventsSince
    <2>4. stream'.after \in {0} \cup CommittedEvents
      BY <1>0, <2>1, <2>3 DEF CursorAfter, Last
    <2>5. \A i \in DOMAIN frames' : frames'[i] \in {Live} \cup Wanted
      BY <1>0, <2>1, <2>3
    <2>6. QED
      BY <1>0, <2>2, <2>4, <2>5
  <1>5. CASE CheckEnded
    BY <1>0, <1>5 DEF CheckEnded, StreamInvariant, StreamTypeOK
  <1>6. CASE LiveEvent
    BY <1>0, <1>6 DEF LiveEvent
  <1>7. CASE Receive
    BY <1>0, <1>7 DEF Receive, StreamInvariant, StreamTypeOK
  <1>8. CASE EndOfStream \/ LoseConnection \/ LookElsewhere
    <2>1. /\ UNCHANGED history
          /\ watcher'.cursor = watcher.cursor
          /\ stream'.after = stream.after
          /\ frames' = frames \/ frames' = << >>
      BY <1>8 DEF EndOfStream, LoseConnection, LookElsewhere, StreamInvariant, StreamTypeOK
    <2>2. QED
      BY <1>0, <2>1
  <1>9. CASE UNCHANGED streamVars
    BY <1>0, <1>9 DEF streamVars
  <1>10. QED
    BY <1>1, <1>2, <1>3, <1>4, <1>5, <1>6, <1>7, <1>8, <1>9, StreamSteps DEF ConnectionStep

LEMMA StreamTypesHold ==
  ASSUME StreamInvariant, [StreamNext]_streamVars
  PROVE  StreamTypeOK'
  <1> USE DEF StreamTypeOK
  <1>0. /\ StreamTypeOK
        /\ CommittedEvents \subseteq Sequences
        /\ Sequences \subseteq Nat
        /\ {MaxEvents, MaxLive, MaxLosses} \subseteq Nat /\ PanelLimit \in Nat \ {0}
    BY StreamBounds DEF StreamInvariant, NumbersInTurn, Sequences
  <1>1. ASSUME NEW w \in Writers, BeginAppend(w)
        PROVE  StreamTypeOK'
    <2>1. writers' \in [Writers -> 0..MaxEvents]
      BY <1>1, NextNumber
    <2>2. writers' \in [Writers -> 0..(MaxEvents + 1)]
      BY <1>0, <2>1
    <2>3. QED
      BY <1>0, <1>1, <2>2 DEF BeginAppend
  <1>2. ASSUME NEW w \in Writers, AbortAppend(w)
        PROVE  StreamTypeOK'
    BY <1>0, <1>2 DEF AbortAppend
  <1>3. ASSUME NEW w \in Writers, NEW kind \in EventKinds, NEW mine \in BOOLEAN,
               CommitAppend(w, kind, mine)
        PROVE  StreamTypeOK'
    <2>1. \A n \in DOMAIN history' : history'[n] \in [kind : EventKinds, mine : BOOLEAN]
      BY <1>0, <1>3 DEF CommitAppend, CommittedEvents
    <2>2. writers' \in [Writers -> 0..(MaxEvents + 1)]
      BY <1>0, <1>3 DEF CommitAppend
    <2>3. ended' \in BOOLEAN
      <3>1. ended \in BOOLEAN
        BY <1>0
      <3>2. CASE kind = "end"
        BY <1>3, <3>2 DEF CommitAppend
      <3>3. CASE kind = "reopen"
        BY <1>3, <3>3 DEF CommitAppend
      <3>4. CASE kind \notin {"end", "reopen"}
        BY <1>3, <3>1, <3>4 DEF CommitAppend
      <3>5. QED
        BY <3>2, <3>3, <3>4
    <2>4. QED
      BY <1>0, <1>3, <2>1, <2>2, <2>3 DEF CommitAppend
  <1>4. CASE Connect
    <2>1. ResumeAfter(watcher.cursor) \in 0..MaxEvents
      BY <1>0 DEF ResumeAfter, Frames, Sequences
    <2>2. QED
      BY <1>0, <1>4, <2>1 DEF Connect
  <1>5. CASE Tick
    <2>1. PICK events \in EventsSince(stream.after) :
            /\ frames' = frames \o events
            /\ stream' = [after |-> CursorAfter(events),
                          at |-> IF ~watcher.closes THEN "polling"
                                 ELSE IF Tells(events) THEN "ending" ELSE "checking"]
      BY <1>5 DEF Tick
    <2>2. events \in Seq(Sequences)
      <3>1. {n \in Wanted : n > stream.after} \in SUBSET Sequences
        BY <1>0 DEF Wanted
      <3>2. QED
        BY <3>1, EnumerationIsComplete DEF EventsSince
    <2>3. CursorAfter(events) \in 0..MaxEvents
      BY <1>0, <2>2 DEF CursorAfter, Last, Sequences
    <2>4. frames' \in Seq(Frames)
      BY <1>0, <2>1, <2>2 DEF Frames
    <2>5. QED
      BY <1>0, <1>5, <2>1, <2>3, <2>4 DEF Tick
  <1>6. CASE CheckEnded
    BY <1>0, <1>6 DEF CheckEnded
  <1>7. CASE LiveEvent
    BY <1>0, <1>7 DEF LiveEvent, Frames
  <1>8. CASE Receive
    <2>1. Head(frames) \in Frames /\ frames' \in Seq(Frames)
      BY <1>0, <1>8 DEF Receive
    <2>2. /\ watcher' = [watcher EXCEPT !.cursor = Head(frames),
                                       !.shown = Kept(Append(watcher.shown, Head(frames)))]
          /\ Append(watcher.shown, Head(frames)) \in Seq(Frames)
      BY <1>0, <1>8, <2>1 DEF Receive
    <2>3. /\ watcher'.shown \in Seq(Frames)
          /\ watcher.closes \/ Len(watcher'.shown) <= PanelLimit
      <3>1. watcher'.shown = Kept(Append(watcher.shown, Head(frames)))
        BY <1>0, <2>2
      <3>2. CASE watcher.closes \/ Len(Append(watcher.shown, Head(frames))) <= PanelLimit
        BY <2>2, <3>1, <3>2 DEF Kept
      <3>3. CASE ~ (watcher.closes \/ Len(Append(watcher.shown, Head(frames))) <= PanelLimit)
        <4>1. watcher'.shown = Tail(Append(watcher.shown, Head(frames)))
          BY <3>1, <3>3 DEF Kept
        <4>2. /\ Len(watcher.shown) <= PanelLimit /\ Len(watcher.shown) \in Nat
              /\ Len(Append(watcher.shown, Head(frames))) = Len(watcher.shown) + 1
          BY <1>0, <3>3
        <4>3. /\ Tail(Append(watcher.shown, Head(frames))) \in Seq(Frames)
              /\ Len(Tail(Append(watcher.shown, Head(frames)))) = Len(watcher.shown)
          BY <2>2, <4>2
        <4>4. QED
          BY <4>1, <4>2, <4>3
      <3>4. QED
        BY <3>2, <3>3
    <2>4. /\ watcher' \in [shown : Seq(Frames), cursor : Frames \cup {0}, closes : BOOLEAN]
          /\ watcher'.closes \/ Len(watcher'.shown) <= PanelLimit
      BY <1>0, <2>1, <2>2, <2>3
    <2>5. UNCHANGED <<history, writers, ended, stream, liveEvents, losses, replayed, switched>>
      BY <1>8 DEF Receive
    <2>6. QED
      BY <1>0, <2>1, <2>4, <2>5
  <1>9. CASE EndOfStream \/ LoseConnection \/ LookElsewhere
    <2>1. CASE EndOfStream
      BY <1>0, <2>1 DEF EndOfStream
    <2>2. CASE LoseConnection
      <3>1. stream' \in [at : {"closed", "polling", "checking", "ending"}, after : 0..MaxEvents]
        BY <1>0, <2>2 DEF LoseConnection
      <3>2. losses' \in 0..MaxLosses /\ frames' \in Seq(Frames)
        BY <1>0, <2>2 DEF LoseConnection
      <3>3. UNCHANGED <<history, writers, ended, watcher, liveEvents, replayed, switched>>
        BY <2>2 DEF LoseConnection
      <3>4. QED
        BY <1>0, <3>1, <3>2, <3>3
    <2>3. CASE LookElsewhere
      <3>1. /\ watcher' \in [shown : Seq(Frames), cursor : Frames \cup {0}, closes : BOOLEAN]
            /\ Len(watcher'.shown) <= PanelLimit
        <4>1. << >> \in Seq(Frames) /\ Len(<< >>) = 0
          OBVIOUS
        <4>2. watcher' = [watcher EXCEPT !.shown = << >>]
          BY <2>3 DEF LookElsewhere
        <4>3. watcher'.shown = << >>
          BY <1>0, <4>2
        <4>4. watcher' \in [shown : Seq(Frames), cursor : Frames \cup {0}, closes : BOOLEAN]
          BY <1>0, <4>1, <4>2
        <4>5. PanelLimit \in Nat \ {0}
          BY <1>0
        <4>6. QED
          BY <4>1, <4>3, <4>4, <4>5
      <3>2. stream' \in [at : {"closed", "polling", "checking", "ending"}, after : 0..MaxEvents]
        BY <1>0, <2>3 DEF LookElsewhere
      <3>3. QED
        BY <1>0, <2>3, <3>1, <3>2 DEF LookElsewhere
    <2>4. QED
      BY <1>9, <2>1, <2>2, <2>3
  <1>10. CASE UNCHANGED streamVars
    BY <1>0, <1>10 DEF streamVars
  <1>11. QED
    BY <1>1, <1>2, <1>3, <1>4, <1>5, <1>6, <1>7, <1>8, <1>9, <1>10, StreamSteps
       DEF ConnectionStep

LEMMA StreamInvariantHolds == StreamSpec => []StreamInvariant
  <1>1. StreamInit => StreamInvariant
    <2>1. StreamInit => StreamTypeOK
      <3> SUFFICES ASSUME StreamInit PROVE StreamTypeOK
        OBVIOUS
      <3> USE DEF StreamInit
      <3>1. /\ watcher \in [shown : Seq(Frames), cursor : Frames \cup {0}, closes : BOOLEAN]
            /\ Len(watcher.shown) <= PanelLimit
        <4>1. << >> \in Seq(Frames) /\ Len(<< >>) = 0
          OBVIOUS
        <4>2. {<< >>} \subseteq Seq(Frames) /\ {0} \subseteq Frames \cup {0}
          BY <4>1
        <4>3. watcher \in [shown : {<< >>}, cursor : {0}, closes : BOOLEAN]
          OBVIOUS
        <4>4. watcher \in [shown : Seq(Frames), cursor : Frames \cup {0}, closes : BOOLEAN]
          BY <4>2, <4>3
        <4>5. watcher.shown = << >>
          BY <4>3
        <4>6. QED
          BY <4>1, <4>4, <4>5, StreamBounds
      <3>2. /\ DOMAIN history = {}
            /\ frames \in Seq(Frames)
            /\ stream \in [at : {"closed", "polling", "checking", "ending"}, after : 0..MaxEvents]
        BY StreamBounds
      <3>3. /\ writers \in [Writers -> 0..(MaxEvents + 1)]
            /\ liveEvents \in 0..MaxLive
            /\ losses \in 0..MaxLosses
        BY StreamBounds
      <3>4. QED
        BY <3>1, <3>2, <3>3 DEF StreamTypeOK
    <2>2. StreamInit => NumbersInTurn /\ CursorsAreCommitted
      BY StreamBounds DEF StreamInit, NumbersInTurn, CursorsAreCommitted, CommittedEvents, Wanted
    <2>3. QED
      BY <2>1, <2>2 DEF StreamInvariant
  <1>2. StreamInvariant /\ [StreamNext]_streamVars => StreamInvariant'
    BY StreamTypesHold, NumbersStayInTurn, CursorsStayCommitted DEF StreamInvariant
  <1>3. QED
    BY <1>1, <1>2, PTL DEF StreamSpec

(* What a step does to a connection, whatever the writers do meanwhile: a  *)
(* received frame comes to the end of the list, and if the list is full    *)
(* the first one goes.                                                     *)
LEMMA ReceiveShows ==
  ASSUME StreamInvariant, Receive
  PROVE  /\ Len(frames) > 0
         /\ frames' = Tail(frames)
         /\ UNCHANGED <<history, stream, switched, replayed>>
         /\ watcher'.cursor = frames[1] /\ watcher'.closes = watcher.closes
         /\ frames \in Seq(Frames)
         /\ \E gone \in {0, 1} :
              /\ Len(watcher'.shown) = (Len(watcher.shown) + 1) - gone
              /\ \A k \in 1..Len(watcher'.shown) :
                   watcher'.shown[k] = IF k + gone <= Len(watcher.shown)
                                       THEN watcher.shown[k + gone] ELSE frames[1]
              /\ IF gone = 1 THEN ~watcher.closes /\ Len(watcher.shown) = PanelLimit
                 ELSE watcher.closes \/ Len(watcher.shown) < PanelLimit
  <1> DEFINE list == Append(watcher.shown, frames[1])
  <1>0. PanelLimit \in Nat \ {0}
    BY StreamBounds
  <1>1. /\ frames \in Seq(Frames) /\ Len(frames) > 0
        /\ watcher \in [shown : Seq(Frames), cursor : Frames \cup {0}, closes : BOOLEAN]
        /\ watcher.closes \/ Len(watcher.shown) <= PanelLimit
        /\ frames[1] \in Frames
    BY DEF StreamInvariant, StreamTypeOK, Receive
  <1>2. /\ frames' = Tail(frames)
        /\ UNCHANGED <<history, stream, switched, replayed>>
        /\ watcher' = [watcher EXCEPT !.cursor = frames[1], !.shown = Kept(list)]
    BY DEF Receive
  <1>3. /\ watcher'.cursor = frames[1] /\ watcher'.closes = watcher.closes
        /\ watcher'.shown = Kept(list)
    BY <1>1, <1>2
  <1>4. /\ list \in Seq(Frames) /\ Len(list) = Len(watcher.shown) + 1
        /\ Len(watcher.shown) \in Nat
        /\ \A k \in 1..Len(list) :
             list[k] = IF k <= Len(watcher.shown) THEN watcher.shown[k] ELSE frames[1]
    BY <1>1
  <1> HIDE DEF list
  <1>5. CASE watcher.closes \/ Len(list) <= PanelLimit
    <2>1. watcher'.shown = list
      BY <1>3, <1>5 DEF Kept
    <2>2. watcher.closes \/ Len(watcher.shown) < PanelLimit
      BY <1>0, <1>4, <1>5
    <2>3. \A k \in 1..Len(list) : k + 0 = k
      OBVIOUS
    <2>4. QED
      BY <1>1, <1>2, <1>3, <1>4, <2>1, <2>2, <2>3
  <1>6. CASE ~ (watcher.closes \/ Len(list) <= PanelLimit)
    <2>1. watcher'.shown = Tail(list) /\ Len(watcher.shown) = PanelLimit
      BY <1>0, <1>1, <1>3, <1>4, <1>6 DEF Kept
    <2>2. /\ Len(watcher'.shown) = (Len(watcher.shown) + 1) - 1
          /\ \A k \in 1..Len(watcher'.shown) :
               k + 1 \in 1..Len(list) /\ watcher'.shown[k] = list[k + 1]
      BY <1>4, <2>1
    <2>3. QED
      BY <1>1, <1>2, <1>3, <1>4, <1>6, <2>1, <2>2
  <1>7. QED
    BY <1>5, <1>6

LEMMA TickSends ==
  ASSUME StreamInvariant, Tick
  PROVE  \E events \in Seq(Wanted) :
           /\ frames' = frames \o events
           /\ UNCHANGED <<history, watcher, switched, replayed>>
           /\ stream.at # "closed"
           /\ stream'.at # "closed"
           /\ \A n \in Wanted : n > stream.after => \E i \in DOMAIN events : events[i] = n
           /\ \A i \in DOMAIN events : events[i] > stream.after
           /\ \A i, j \in DOMAIN events : i < j => events[i] < events[j]
           /\ stream'.after = IF events = << >> THEN stream.after ELSE events[Len(events)]
  <1>1. PICK events \in EventsSince(stream.after) :
          /\ frames' = frames \o events
          /\ stream' = [after |-> CursorAfter(events),
                        at |-> IF ~watcher.closes THEN "polling"
                               ELSE IF Tells(events) THEN "ending" ELSE "checking"]
    BY DEF Tick
  <1> DEFINE News == {n \in Wanted : n > stream.after}
  <1>2. News \in SUBSET Sequences
    BY DEF StreamInvariant, NumbersInTurn, Wanted
  <1>3. /\ events \in Seq(News)
        /\ \A n \in News : \E i \in DOMAIN events : events[i] = n
        /\ \A i, j \in DOMAIN events : i < j => events[i] < events[j]
    BY <1>2, EnumerationIsComplete DEF EventsSince
  <1>4. events \in Seq(Wanted) /\ \A i \in DOMAIN events : events[i] > stream.after
    BY <1>3
  <1>5. stream'.after = IF events = << >> THEN stream.after ELSE events[Len(events)]
    BY <1>1 DEF CursorAfter, Last
  <1>6. stream.at # "closed" /\ stream'.at # "closed"
    BY <1>1 DEF Tick
  <1>7. UNCHANGED <<history, watcher, switched, replayed>>
    BY DEF Tick
  <1>8. QED
    BY <1>1, <1>3, <1>4, <1>5, <1>6, <1>7

LEMMA StreamFacts ==
  ASSUME StreamInvariant
  PROVE  /\ frames \in Seq(Frames)
         /\ watcher.shown \in Seq(Frames)
         /\ CommittedEvents \subseteq Nat /\ Wanted \subseteq Nat
         /\ watcher.cursor \in Int /\ stream.after \in Nat
         /\ \A i \in 1..Len(frames) : frames[i] \in {Live} \cup Wanted
         /\ CursorsAreCommitted
         /\ Sequences \subseteq Nat \ {0}
  <1>1. frames \in Seq(Frames) /\ watcher.shown \in Seq(Frames) /\ CursorsAreCommitted
    BY DEF StreamInvariant, StreamTypeOK
  <1>2. Sequences \subseteq Nat \ {0} /\ CommittedEvents \subseteq Nat
    BY StreamBounds DEF StreamInvariant, NumbersInTurn, Sequences
  <1>3. \A i \in 1..Len(frames) : frames[i] \in {Live} \cup Wanted
    BY <1>1 DEF CursorsAreCommitted
  <1>4. watcher.cursor \in Int /\ stream.after \in Nat
    <2>1. stream.after = 0 \/ stream.after \in CommittedEvents
      BY <1>1 DEF CursorsAreCommitted
    <2>2. watcher.cursor = 0 \/ watcher.cursor = -1 \/ watcher.cursor \in CommittedEvents
      BY <1>1 DEF CursorsAreCommitted, Live
    <2>3. \A n \in CommittedEvents : n \in Nat
      BY <1>2
    <2>4. QED
      BY <2>1, <2>2, <2>3
  <1>5. QED
    BY <1>1, <1>2, <1>3, <1>4 DEF Wanted

Later(id, n) == id = Live \/ n <= id

(* Event n is on the list, or was pushed off it, and nothing before n has  *)
(* come since.                                                             *)
OnList(w, n) ==
    \/ \E k \in 1..Len(w.shown) :
         w.shown[k] = n /\ \A j \in k..Len(w.shown) : Later(w.shown[j], n)
    \/ /\ ~w.closes /\ Len(w.shown) = PanelLimit
       /\ \A j \in 1..Len(w.shown) : Later(w.shown[j], n)

(* Event n is on the list, or is on its way before the i-th frame, and     *)
(* nothing before n comes between it and that frame.                       *)
Reached(w, queue, n, i) ==
    \/ \E k \in 1..(i - 1) : queue[k] = n /\ \A j \in k..(i - 1) : Later(queue[j], n)
    \/ OnList(w, n) /\ \A j \in 1..(i - 1) : Later(queue[j], n)

(* Whatever a cursor has passed was shown or is on its way before it: the  *)
(* cursor of the watcher, of each frame, and of the stream.                *)
HistoryIsCovered ==
    ~switched =>
        /\ watcher.cursor # Live =>
              \A n \in Wanted : n <= watcher.cursor => Reached(watcher, frames, n, 1)
        /\ \A i \in 1..Len(frames) : frames[i] # Live =>
              \A n \in Wanted : n <= frames[i] => Reached(watcher, frames, n, i + 1)
        /\ stream.at # "closed" =>
              \A n \in Wanted : n <= stream.after => Reached(watcher, frames, n, Len(frames) + 1)

(* A received frame that is n or comes after n leaves n on the list.       *)
LEMMA ReceiveKeepsOnList ==
  ASSUME StreamInvariant, Receive, NEW n \in Nat, Later(frames[1], n),
         OnList(watcher, n) \/ frames[1] = n
  PROVE  OnList(watcher', n)
  <1>1. PICK gone \in {0, 1} :
          /\ Len(watcher'.shown) = (Len(watcher.shown) + 1) - gone
          /\ \A k \in 1..Len(watcher'.shown) :
               watcher'.shown[k] = IF k + gone <= Len(watcher.shown)
                                   THEN watcher.shown[k + gone] ELSE frames[1]
          /\ IF gone = 1 THEN ~watcher.closes /\ Len(watcher.shown) = PanelLimit
             ELSE watcher.closes \/ Len(watcher.shown) < PanelLimit
    BY ReceiveShows
  <1>2. Len(watcher.shown) \in Nat /\ watcher'.closes = watcher.closes
    BY StreamFacts, ReceiveShows
  <1>3. CASE frames[1] = n
    <2>1. Len(watcher'.shown) \in 1..Len(watcher'.shown)
          \/ Len(watcher'.shown) = 0
      BY <1>1, <1>2
    <2>2. Len(watcher'.shown) # 0
      <3>1. gone = 1 => Len(watcher.shown) # 0
        BY <1>1, StreamBounds
      <3>2. QED
        BY <1>1, <1>2, <3>1
    <2>3. watcher'.shown[Len(watcher'.shown)] = n
      BY <1>1, <1>2, <1>3, <2>1, <2>2
    <2>4. \A j \in Len(watcher'.shown)..Len(watcher'.shown) : Later(watcher'.shown[j], n)
      BY <1>1, <1>2, <2>3 DEF Later
    <2>5. QED
      BY <2>1, <2>2, <2>3, <2>4 DEF OnList
  <1>4. ASSUME NEW k \in 1..Len(watcher.shown), watcher.shown[k] = n,
               \A j \in k..Len(watcher.shown) : Later(watcher.shown[j], n)
        PROVE  OnList(watcher', n)
    <2>1. CASE k > gone
      <3>1. k - gone \in 1..Len(watcher'.shown) /\ watcher'.shown[k - gone] = n
        BY <1>1, <1>2, <1>4, <2>1
      <3>2. ASSUME NEW j \in (k - gone)..Len(watcher'.shown)
            PROVE  Later(watcher'.shown[j], n)
        <4>1. /\ j \in 1..Len(watcher'.shown)
              /\ j + gone <= Len(watcher.shown) => j + gone \in k..Len(watcher.shown)
          BY <1>1, <1>2, <2>1
        <4>2. QED
          BY <1>1, <1>4, <4>1
      <3>3. QED
        BY <3>1, <3>2 DEF OnList
    <2>2. CASE ~ (k > gone)
      <3>1. gone = 1 /\ k = 1
        BY <1>1, <2>2
      <3>2. /\ ~watcher'.closes /\ Len(watcher'.shown) = PanelLimit
            /\ \A j \in 1..Len(watcher'.shown) : Later(watcher'.shown[j], n)
        <4>1. \A j \in 1..Len(watcher'.shown) :
                 j + gone <= Len(watcher.shown) => j + gone \in k..Len(watcher.shown)
          BY <1>2, <3>1
        <4>2. QED
          BY <1>1, <1>2, <1>4, <3>1, <4>1
      <3>3. QED
        BY <3>2 DEF OnList
    <2>3. QED
      BY <2>1, <2>2
  <1>5. ASSUME ~watcher.closes, Len(watcher.shown) = PanelLimit,
               \A j \in 1..Len(watcher.shown) : Later(watcher.shown[j], n)
        PROVE  OnList(watcher', n)
    <2>1. gone = 1
      BY <1>1, <1>2, <1>5
    <2>2. \A j \in 1..Len(watcher'.shown) :
             j + gone <= Len(watcher.shown) => j + gone \in 1..Len(watcher.shown)
      BY <1>2, <2>1
    <2>3. QED
      BY <1>1, <1>2, <1>5, <2>1, <2>2 DEF OnList
  <1>6. QED
    BY <1>3, <1>4, <1>5 DEF OnList

LEMMA HistoryStaysCovered ==
  ASSUME StreamInvariant, HistoryIsCovered, [StreamNext]_streamVars
  PROVE  HistoryIsCovered'
  <1> DEFINE Before(n, i) == Reached(watcher, frames, n, i)
             After(n, i) == Reached(watcher', frames', n, i)
  <1>0. /\ frames \in Seq(Frames)
        /\ CommittedEvents \subseteq Nat /\ Wanted \subseteq Nat
        /\ watcher.cursor \in Int /\ stream.after \in Nat
        /\ \A i \in 1..Len(frames) : frames[i] \in {Live} \cup Wanted
        /\ CursorsAreCommitted
        /\ Sequences \subseteq Nat \ {0}
    BY StreamFacts
  <1>a. \/ switched
        \/ /\ watcher.cursor # Live => \A n \in Wanted : n <= watcher.cursor => Before(n, 1)
           /\ \A i \in 1..Len(frames) : frames[i] # Live =>
                 \A n \in Wanted : n <= frames[i] => Before(n, i + 1)
           /\ stream.at # "closed" =>
                 \A n \in Wanted : n <= stream.after => Before(n, Len(frames) + 1)
    BY DEF HistoryIsCovered
  <1>b. ASSUME watcher'.cursor # Live =>
                 \A n \in Wanted' : n <= watcher'.cursor => After(n, 1),
               \A i \in 1..Len(frames') : frames'[i] # Live =>
                 \A n \in Wanted' : n <= frames'[i] => After(n, i + 1),
               stream'.at # "closed" =>
                 \A n \in Wanted' : n <= stream'.after => After(n, Len(frames') + 1)
        PROVE  HistoryIsCovered'
    BY <1>b DEF HistoryIsCovered, Live
  <1>c. UNCHANGED <<frames, watcher>> => \A n, i : Before(n, i) => After(n, i)
    OBVIOUS
  <1>d. UNCHANGED history => Wanted' = Wanted
    BY DEF Wanted, CommittedEvents
  <1>e. switched' => HistoryIsCovered'
    BY DEF HistoryIsCovered
  <1>f. switched => switched'
    BY DEF StreamNext, BeginAppend, AbortAppend, CommitAppend, Connect, Tick, CheckEnded,
       LiveEvent, Receive, EndOfStream, LoseConnection, LookElsewhere, streamVars
  <1> HIDE DEF Before, After
  <1>1. ASSUME NEW w \in Writers, BeginAppend(w) \/ AbortAppend(w)
        PROVE  HistoryIsCovered'
    <2>1. UNCHANGED <<history, stream, frames, watcher, switched>>
      BY <1>1 DEF BeginAppend, AbortAppend
    <2>2. QED
      BY <2>1, <1>a, <1>b, <1>c, <1>d, <1>e
  <1>2. ASSUME NEW w \in Writers, NEW kind \in EventKinds, NEW mine \in BOOLEAN,
               CommitAppend(w, kind, mine)
        PROVE  HistoryIsCovered'
    <2>1. UNCHANGED <<stream, frames, watcher, switched>>
      BY <1>2 DEF CommitAppend
    <2>2. /\ writers[w] \in Nat \ {0}
          /\ \A n \in CommittedEvents : n < writers[w]
          /\ Wanted' \subseteq Wanted \cup {writers[w]}
      BY <1>0, <1>2, CommitsInOrder
    <2>3. watcher.cursor < writers[w]
      <3>1. watcher.cursor = 0 \/ watcher.cursor = -1 \/ watcher.cursor \in CommittedEvents
        BY <1>0 DEF CursorsAreCommitted, Live
      <3>2. QED
        BY <2>2, <3>1
    <2>4. stream.after < writers[w]
      <3>1. stream.after = 0 \/ stream.after \in CommittedEvents
        BY <1>0 DEF CursorsAreCommitted
      <3>2. QED
        BY <2>2, <3>1
    <2>5. \A i \in 1..Len(frames) : frames[i] \in Int /\ frames[i] < writers[w]
      <3>1. \A i \in 1..Len(frames) : frames[i] = -1 \/ frames[i] \in CommittedEvents
        BY <1>0 DEF Live, Wanted
      <3>2. \A n \in CommittedEvents : n \in Int /\ n < writers[w]
        BY <1>0, <2>2
      <3>3. QED
        BY <2>2, <3>1, <3>2
    <2>6. \A n \in Wanted' \ Wanted :
             /\ ~ (n <= watcher.cursor)
             /\ ~ (n <= stream.after)
             /\ \A i \in 1..Len(frames) : ~ (n <= frames[i])
      BY <1>0, <2>2, <2>3, <2>4, <2>5
    <2>7. QED
      BY <2>1, <2>6, <1>a, <1>b, <1>c, <1>e
  <1>3. CASE Connect
    <2>1. /\ UNCHANGED <<history, frames, watcher, switched>>
          /\ frames = << >>
          /\ stream'.after = IF watcher.cursor = Live THEN 0 ELSE watcher.cursor
      BY <1>3 DEF Connect, ResumeAfter
    <2>2. \A n \in Wanted : ~ (n <= 0)
      BY <1>0 DEF StreamInvariant, NumbersInTurn, Wanted
    <2>3. \/ switched
          \/ \A n \in Wanted : n <= stream'.after => Before(n, 1)
      BY <2>1, <2>2, <1>a
    <2>4. Len(frames') + 1 = 1
      BY <2>1
    <2>5. QED
      BY <2>1, <2>3, <2>4, <1>a, <1>b, <1>c, <1>d, <1>e
  <1>4. CASE Tick
    <2>1. PICK events \in Seq(Wanted) :
           /\ frames' = frames \o events
           /\ UNCHANGED <<history, watcher, switched, replayed>>
           /\ stream.at # "closed"
           /\ stream'.at # "closed"
           /\ \A n \in Wanted : n > stream.after => \E i \in DOMAIN events : events[i] = n
           /\ \A i \in DOMAIN events : events[i] > stream.after
           /\ \A i, j \in DOMAIN events : i < j => events[i] < events[j]
           /\ stream'.after = IF events = << >> THEN stream.after ELSE events[Len(events)]
      BY <1>4, TickSends
    <2> SUFFICES ASSUME ~switched PROVE HistoryIsCovered'
      BY <1>e, <2>1
    <2>2. Wanted' = Wanted
      BY <1>d, <2>1
    <2>3. /\ \A i \in 1..Len(frames) : frames'[i] = frames[i]
          /\ \A i \in 1..Len(events) : frames'[Len(frames) + i] = events[i]
          /\ Len(frames') = Len(frames) + Len(events)
          /\ Len(frames) \in Nat /\ Len(events) \in Nat
          /\ \A i \in 1..Len(events) : events[i] \in Nat
          /\ DOMAIN events = 1..Len(events)
      <3>1. /\ Len(frames) \in Nat /\ Len(events) \in Nat
            /\ DOMAIN events = 1..Len(events)
            /\ \A i \in 1..Len(events) : events[i] \in Wanted
        BY <1>0
      <3>2. frames \in Seq(Frames \cup Wanted) /\ events \in Seq(Frames \cup Wanted)
        BY <1>0
      <3>3. /\ \A i \in 1..Len(frames) : frames'[i] = frames[i]
            /\ \A i \in 1..Len(events) : frames'[Len(frames) + i] = events[i]
            /\ Len(frames') = Len(frames) + Len(events)
        BY <2>1, <3>2
      <3>4. QED
        BY <1>0, <3>1, <3>3
    <2>4. \A n \in Wanted, i \in 1..(Len(frames) + 1) : Before(n, i) => After(n, i)
      BY <2>1, <2>3 DEF Before, After, Reached
    <2>5. ASSUME NEW n \in Wanted, NEW j \in 1..Len(events), n <= events[j]
          PROVE  After(n, Len(frames) + j + 1)
      <3>0. n \in Nat /\ events[j] \in Nat /\ stream.after \in Nat
        BY <1>0, <2>3
      <3>1. CASE n <= stream.after
        <4>1. Before(n, Len(frames) + 1)
          BY <2>1, <3>1, <1>a
        <4>2. After(n, Len(frames) + 1)
          BY <2>3, <2>4, <4>1
        <4>3. ASSUME NEW m \in (Len(frames) + 1)..(Len(frames) + j)
              PROVE  Later(frames'[m], n)
          <5>1. /\ m - Len(frames) \in 1..Len(events)
                /\ m = Len(frames) + (m - Len(frames))
            BY <2>3
          <5>2. /\ frames'[m] = events[m - Len(frames)]
                /\ events[m - Len(frames)] > stream.after
                /\ events[m - Len(frames)] \in Nat
            BY <2>1, <2>3, <5>1
          <5>3. QED
            BY <3>0, <3>1, <5>2 DEF Later
        <4>4. /\ (Len(frames) + 1) - 1 = Len(frames)
              /\ (Len(frames) + j + 1) - 1 = Len(frames) + j
              /\ \A m \in 1..(Len(frames) + j) :
                   m \in 1..Len(frames) \/ m \in (Len(frames) + 1)..(Len(frames) + j)
              /\ 1..Len(frames) \subseteq 1..(Len(frames) + j)
              /\ \A k \in 1..Len(frames) : \A m \in k..(Len(frames) + j) :
                   m \in k..Len(frames) \/ m \in (Len(frames) + 1)..(Len(frames) + j)
          BY <2>3
        <4>5. QED
          BY <4>2, <4>3, <4>4 DEF After, Reached
      <3>2. CASE ~ (n <= stream.after)
        <4>1. PICK k \in DOMAIN events : events[k] = n
          BY <2>1, <3>0, <3>2
        <4>2. ~ (j < k)
          <5>1. j < k => events[j] < n
            BY <2>1, <2>3, <4>1
          <5>2. QED
            BY <2>5, <3>0, <5>1
        <4>3. frames'[Len(frames) + k] = n /\ Len(frames) + k \in 1..(Len(frames) + j)
          BY <2>3, <4>1, <4>2
        <4>4. ASSUME NEW m \in (Len(frames) + k)..(Len(frames) + j)
              PROVE  Later(frames'[m], n)
          <5>1. /\ m - Len(frames) \in 1..Len(events) /\ k <= m - Len(frames)
                /\ m = Len(frames) + (m - Len(frames))
            BY <2>3, <4>1
          <5>2. frames'[m] = events[m - Len(frames)] /\ events[m - Len(frames)] \in Nat
            BY <2>3, <5>1
          <5>3. n <= events[m - Len(frames)]
            <6> DEFINE l == m - Len(frames)
            <6>0. /\ k \in 1..Len(events) /\ l \in 1..Len(events) /\ k <= l
                  /\ events[k] = n /\ events[l] \in Nat
              BY <2>3, <4>1, <5>1, <5>2
            <6> HIDE DEF l
            <6>1. k = l => n <= events[l]
              BY <3>0, <6>0
            <6>2. k < l => n <= events[l]
              <7>1. k < l => events[k] < events[l]
                BY <2>1, <2>3, <6>0
              <7>2. QED
                BY <3>0, <6>0, <7>1
            <6>3. n <= events[l]
              <7>1. k \in Nat /\ l \in Nat
                BY <2>3, <6>0
              <7>2. QED
                BY <6>0, <6>1, <6>2, <7>1
            <6>4. QED
              BY <6>3 DEF l
          <5>4. QED
            BY <5>2, <5>3 DEF Later
        <4>5. (Len(frames) + j + 1) - 1 = Len(frames) + j
          BY <2>3
        <4>6. QED
          BY <4>3, <4>4, <4>5 DEF After, Reached
      <3>3. QED
        BY <3>1, <3>2
    <2>6. ASSUME watcher'.cursor # Live, NEW n \in Wanted, n <= watcher'.cursor
          PROVE  After(n, 1)
      <3>1. Before(n, 1)
        BY <1>a, <2>1, <2>6
      <3>2. QED
        BY <2>3, <2>4, <3>1
    <2>7. ASSUME NEW i \in 1..Len(frames'), frames'[i] # Live, NEW n \in Wanted, n <= frames'[i]
          PROVE  After(n, i + 1)
      <3>1. CASE i \in 1..Len(frames)
        <4>1. Before(n, i + 1)
          BY <1>a, <2>3, <2>7, <3>1
        <4>2. QED
          BY <2>3, <2>4, <3>1, <4>1
      <3>2. CASE i \notin 1..Len(frames)
        <4>1. PICK j \in 1..Len(events) : i = Len(frames) + j
          <5>1. i - Len(frames) \in 1..Len(events) /\ i = Len(frames) + (i - Len(frames))
            BY <2>3, <3>2
          <5>2. QED
            BY <5>1
        <4>2. n <= events[j]
          BY <2>3, <2>7, <4>1
        <4>3. QED
          BY <2>5, <4>1, <4>2
      <3>3. QED
        BY <3>1, <3>2
    <2>8. ASSUME NEW n \in Wanted, n <= stream'.after
          PROVE  After(n, Len(frames') + 1)
      <3>1. CASE events = << >>
        <4>1. Before(n, Len(frames) + 1)
          BY <1>a, <2>1, <2>8, <3>1
        <4>2. Len(frames') = Len(frames)
          BY <2>3, <3>1
        <4>3. QED
          BY <2>3, <2>4, <4>1, <4>2
      <3>2. CASE events # << >>
        <4>1. Len(events) \in 1..Len(events) /\ n <= events[Len(events)]
          BY <2>1, <2>8, <3>2
        <4>2. QED
          BY <2>3, <2>5, <4>1
      <3>3. QED
        BY <3>1, <3>2
    <2>9. QED
      BY <2>2, <2>6, <2>7, <2>8, <1>b
  <1>5. CASE CheckEnded
    <2>1. /\ UNCHANGED <<history, frames, watcher, switched>>
          /\ stream'.after = stream.after
          /\ stream.at # "closed"
      BY <1>5 DEF CheckEnded, StreamInvariant, StreamTypeOK
    <2>2. QED
      BY <2>1, <1>a, <1>b, <1>c, <1>d, <1>e
  <1>6. CASE LiveEvent
    <2>1. /\ UNCHANGED <<history, stream, watcher, switched>>
          /\ frames' = Append(frames, Live)
      BY <1>6 DEF LiveEvent
    <2>2. /\ \A i \in 1..Len(frames) : frames'[i] = frames[i]
          /\ Len(frames') = Len(frames) + 1
          /\ \A i \in 1..Len(frames') : frames'[i] # Live => i \in 1..Len(frames)
          /\ Len(frames) \in Nat
      BY <1>0, <2>1
    <2>3. \A n \in Wanted, i \in 1..(Len(frames) + 1) : Before(n, i) => After(n, i)
      BY <2>1, <2>2 DEF Before, After, Reached
    <2>4. ASSUME NEW n \in Wanted, After(n, Len(frames) + 1)
          PROVE  After(n, Len(frames') + 1)
      <3>1. frames'[Len(frames) + 1] = Live /\ Later(Live, n)
        BY <1>0, <2>1 DEF Later
      <3>2. /\ (Len(frames) + 1) - 1 = Len(frames)
            /\ (Len(frames') + 1) - 1 = Len(frames) + 1
            /\ \A k \in 1..Len(frames) : \A m \in k..(Len(frames) + 1) :
                 m \in k..Len(frames) \/ m = Len(frames) + 1
            /\ \A m \in 1..(Len(frames) + 1) : m \in 1..Len(frames) \/ m = Len(frames) + 1
            /\ 1..Len(frames) \subseteq 1..(Len(frames) + 1)
        BY <2>2
      <3>3. QED
        BY <2>4, <3>1, <3>2 DEF After, Reached
    <2>5. \A i \in 1..Len(frames) : i + 1 \in 1..(Len(frames) + 1)
      BY <2>2
    <2>6. 1 \in 1..(Len(frames) + 1) /\ Len(frames) + 1 \in 1..(Len(frames) + 1)
      BY <2>2
    <2>7. QED
      BY <2>1, <2>2, <2>3, <2>4, <2>5, <2>6, <1>a, <1>b, <1>d, <1>e
  <1>7. CASE Receive
    <2>1. /\ Len(frames) > 0
          /\ frames' = Tail(frames)
          /\ UNCHANGED <<history, stream, switched, replayed>>
          /\ watcher'.cursor = frames[1]
          /\ frames \in Seq(Frames)
      BY <1>7, ReceiveShows
    <2>2. /\ Len(frames) \in Nat
          /\ Len(frames') = Len(frames) - 1
          /\ \A i \in 1..Len(frames') : frames'[i] = frames[i + 1]
      BY <2>1
    <2>3. ASSUME NEW n \in Wanted, NEW i \in 1..Len(frames), Before(n, i + 1)
          PROVE  After(n, i)
      <3>0. (i + 1) - 1 = i /\ n \in Nat
        BY <1>0, <2>2
      <3>1. ASSUME NEW k \in 1..i, frames[k] = n,
                   \A j \in k..i : Later(frames[j], n)
            PROVE  After(n, i)
        <4>1. CASE k = 1
          <5>1. OnList(watcher', n)
            BY <1>7, <3>0, <3>1, <4>1, ReceiveKeepsOnList
          <5>2. \A j \in 1..(i - 1) : j + 1 \in k..i /\ frames'[j] = frames[j + 1]
            BY <2>2, <4>1
          <5>3. QED
            BY <3>1, <5>1, <5>2 DEF After, Reached
        <4>2. CASE k # 1
          <5>1. k - 1 \in 1..(i - 1) /\ frames'[k - 1] = n
            BY <2>2, <3>1, <4>2
          <5>2. \A j \in (k - 1)..(i - 1) : j + 1 \in k..i /\ frames'[j] = frames[j + 1]
            BY <2>2, <4>2
          <5>3. QED
            BY <3>1, <5>1, <5>2 DEF After, Reached
        <4>3. QED
          BY <4>1, <4>2
      <3>2. ASSUME OnList(watcher, n), \A j \in 1..i : Later(frames[j], n)
            PROVE  After(n, i)
        <4>1. OnList(watcher', n)
          BY <1>7, <3>0, <3>2, ReceiveKeepsOnList
        <4>2. \A j \in 1..(i - 1) : j + 1 \in 1..i /\ frames'[j] = frames[j + 1]
          BY <2>2
        <4>3. QED
          BY <3>2, <4>1, <4>2 DEF After, Reached
      <3>3. QED
        BY <2>3, <3>0, <3>1, <3>2 DEF Before, Reached
    <2>4. QED
      <3> SUFFICES ASSUME ~switched PROVE HistoryIsCovered'
        BY <1>e, <2>1
      <3>1. Wanted' = Wanted
        BY <1>d, <2>1
      <3>2. ASSUME watcher'.cursor # Live, NEW n \in Wanted, n <= watcher'.cursor
            PROVE  After(n, 1)
        <4>1. 1 \in 1..Len(frames)
          BY <2>1, <2>2
        <4>2. Before(n, 1 + 1)
          BY <1>a, <2>1, <3>2, <4>1
        <4>3. QED
          BY <2>3, <4>1, <4>2
      <3>3. ASSUME NEW i \in 1..Len(frames'), frames'[i] # Live, NEW n \in Wanted, n <= frames'[i]
            PROVE  After(n, i + 1)
        <4>1. i + 1 \in 1..Len(frames) /\ frames'[i] = frames[i + 1]
          BY <2>2
        <4>2. Before(n, (i + 1) + 1)
          BY <1>a, <3>3, <4>1
        <4>3. QED
          BY <2>3, <4>1, <4>2
      <3>4. ASSUME stream'.at # "closed", NEW n \in Wanted, n <= stream'.after
            PROVE  After(n, Len(frames') + 1)
        <4>1. Before(n, Len(frames) + 1)
          BY <1>a, <2>1, <3>4
        <4>2. Len(frames') + 1 = Len(frames) /\ Len(frames) \in 1..Len(frames)
          BY <2>1, <2>2
        <4>3. QED
          BY <2>3, <4>1, <4>2
      <3>5. QED
        BY <1>b, <3>1, <3>2, <3>3, <3>4
  <1>8. CASE EndOfStream \/ LoseConnection
    <2>1. /\ UNCHANGED <<history, watcher, switched>>
          /\ stream'.at = "closed"
          /\ Len(frames') = 0
      BY <1>8 DEF EndOfStream, LoseConnection, StreamInvariant, StreamTypeOK
    <2>2. \A n : Before(n, 1) => After(n, 1)
      BY <2>1 DEF Before, After, Reached
    <2>3. QED
      BY <2>1, <2>2, <1>a, <1>b, <1>d, <1>e
  <1>9. CASE LookElsewhere
    BY <1>9, <1>e DEF LookElsewhere
  <1>10. CASE UNCHANGED streamVars
    <2>1. UNCHANGED <<history, stream, frames, watcher, switched>>
      BY <1>10 DEF streamVars
    <2>2. QED
      BY <2>1, <1>a, <1>b, <1>c, <1>d, <1>e
  <1>11. QED
    BY <1>1, <1>2, <1>3, <1>4, <1>5, <1>6, <1>7, <1>8, <1>9, <1>10, StreamSteps
       DEF ConnectionStep

(* A watcher that has received event n has been shown every event of its   *)
(* task before n, for any number of writers, events, live events and lost  *)
(* connections; a panel, whatever its limit, has let go of an event only   *)
(* for live events and events after it (appendHistoryEventPg,              *)
(* createRuntimeEventStream, useRuntimeEventStream).                       *)
THEOREM HistoryIsComplete == StreamSpec => []EventsAreComplete
  <1>1. StreamInit => HistoryIsCovered
    BY DEF StreamInit, HistoryIsCovered, Wanted, CommittedEvents
  <1>2. StreamInvariant /\ HistoryIsCovered /\ [StreamNext]_streamVars => HistoryIsCovered'
    BY HistoryStaysCovered
  <1>3. StreamInvariant /\ HistoryIsCovered => EventsAreComplete
    <2> SUFFICES ASSUME StreamInvariant, HistoryIsCovered, ~switched, watcher.cursor # Live,
                        NEW n \in Wanted, n <= watcher.cursor,
                        \A i \in DOMAIN watcher.shown : watcher.shown[i] # n
                 PROVE  /\ ~watcher.closes /\ Len(watcher.shown) = PanelLimit
                        /\ \A i \in DOMAIN watcher.shown :
                             watcher.shown[i] = Live \/ watcher.shown[i] > n
      BY DEF EventsAreComplete
    <2>1. OnList(watcher, n)
      BY DEF HistoryIsCovered, Reached
    <2>2. /\ DOMAIN watcher.shown = 1..Len(watcher.shown) /\ n \in Nat
          /\ \A i \in 1..Len(watcher.shown) :
               watcher.shown[i] = Live \/ watcher.shown[i] \in Nat
      <3>1. watcher.shown \in Seq(Frames) /\ n \in Nat /\ \A m \in Sequences : m \in Nat
        BY StreamFacts
      <3>2. \A i \in 1..Len(watcher.shown) : watcher.shown[i] \in Sequences \cup {Live}
        BY <3>1 DEF Frames
      <3>3. QED
        BY <3>1, <3>2
    <2>3. QED
      BY <2>1, <2>2 DEF OnList, Later
  <1>4. QED
    BY <1>1, <1>2, <1>3, StreamInvariantHolds, PTL DEF StreamSpec

(* What is shown and what is on its way stand in the order of the history, *)
(* and neither is after the cursor of its reader; nothing is on its way on *)
(* a closed connection.                                                    *)
Ascending(shown, queue) ==
    /\ \A i, j \in 1..Len(shown) : i < j /\ shown[i] # Live /\ shown[j] # Live =>
          shown[i] < shown[j]
    /\ \A i, j \in 1..Len(queue) : i < j /\ queue[i] # Live /\ queue[j] # Live =>
          queue[i] < queue[j]
    /\ \A i \in 1..Len(shown), j \in 1..Len(queue) : shown[i] # Live /\ queue[j] # Live =>
          shown[i] < queue[j]

ShownInOrder ==
    ~replayed =>
        /\ Ascending(watcher.shown, frames)
        /\ stream.at = "closed" => Len(frames) = 0
        /\ stream.at # "closed" =>
              /\ \A i \in 1..Len(watcher.shown) : watcher.shown[i] <= stream.after
              /\ \A j \in 1..Len(frames) : frames[j] <= stream.after
        /\ watcher.cursor # Live =>
              \A i \in 1..Len(watcher.shown) : watcher.shown[i] <= watcher.cursor

LEMMA ShownStaysInOrder ==
  ASSUME StreamInvariant, ShownInOrder, [StreamNext]_streamVars
  PROVE  ShownInOrder'
  <1>0. /\ frames \in Seq(Frames)
        /\ watcher.shown \in Seq(Frames)
        /\ Wanted \subseteq Nat
        /\ watcher.cursor \in Int /\ stream.after \in Nat
        /\ \A i \in 1..Len(frames) : frames[i] \in {Live} \cup Wanted
        /\ Sequences \subseteq Nat \ {0}
    BY StreamFacts
  <1>a. /\ Len(frames) \in Nat /\ Len(watcher.shown) \in Nat
        /\ \A i \in 1..Len(watcher.shown) : watcher.shown[i] = Live \/ watcher.shown[i] \in Nat
        /\ \A i \in 1..Len(frames) : frames[i] \in Int
    <2>1. \A i \in 1..Len(frames) : frames[i] = -1 \/ frames[i] \in Wanted
      BY <1>0 DEF Live
    <2>2. \A i \in 1..Len(watcher.shown) : watcher.shown[i] \in Sequences \cup {Live}
      BY <1>0 DEF Frames
    <2>3. Len(frames) \in Nat /\ Len(watcher.shown) \in Nat
      BY <1>0
    <2>4. /\ \A n \in Sequences : n \in Nat
          /\ \A n \in Wanted : n \in Int
      BY <1>0
    <2>5. QED
      BY <2>1, <2>2, <2>3, <2>4
  <1>b. \/ replayed
        \/ /\ Ascending(watcher.shown, frames)
           /\ stream.at = "closed" => Len(frames) = 0
           /\ stream.at # "closed" =>
                 /\ \A i \in 1..Len(watcher.shown) : watcher.shown[i] <= stream.after
                 /\ \A j \in 1..Len(frames) : frames[j] <= stream.after
           /\ watcher.cursor # Live =>
                 \A i \in 1..Len(watcher.shown) : watcher.shown[i] <= watcher.cursor
    BY DEF ShownInOrder
  <1>c. ASSUME Ascending(watcher'.shown, frames'),
               stream'.at = "closed" => Len(frames') = 0,
               stream'.at # "closed" =>
                 /\ \A i \in 1..Len(watcher'.shown) : watcher'.shown[i] <= stream'.after
                 /\ \A j \in 1..Len(frames') : frames'[j] <= stream'.after,
               watcher'.cursor # Live =>
                 \A i \in 1..Len(watcher'.shown) : watcher'.shown[i] <= watcher'.cursor
        PROVE  ShownInOrder'
    BY <1>c DEF ShownInOrder, Ascending, Live
  <1>d. replayed' => ShownInOrder'
    BY DEF ShownInOrder
  <1>e. UNCHANGED <<stream, frames, watcher, replayed>> => ShownInOrder'
    BY <1>b, <1>c, <1>d
  <1>1. ASSUME NEW w \in Writers, NEW kind \in EventKinds, NEW mine \in BOOLEAN,
               BeginAppend(w) \/ AbortAppend(w) \/ CommitAppend(w, kind, mine)
        PROVE  ShownInOrder'
    BY <1>1, <1>e DEF BeginAppend, AbortAppend, CommitAppend
  <1>2. CASE Connect
    <2>1. /\ UNCHANGED <<frames, watcher>>
          /\ Len(frames) = 0
          /\ stream'.at # "closed"
          /\ replayed' = (replayed \/ watcher.cursor = Live)
          /\ watcher.cursor # Live => stream'.after = watcher.cursor
      BY <1>2 DEF Connect, ResumeAfter
    <2>2. CASE replayed \/ watcher.cursor = Live
      BY <2>1, <2>2, <1>d
    <2>3. CASE ~ (replayed \/ watcher.cursor = Live)
      <3>1. stream'.after = watcher.cursor
        BY <2>1, <2>3
      <3>2. \A j \in 1..Len(frames') : frames'[j] <= stream'.after
        BY <2>1
      <3>3. QED
        BY <2>1, <2>3, <3>1, <3>2, <1>b, <1>c
    <2>4. QED
      BY <2>2, <2>3
  <1>3. CASE Tick
    <2>1. PICK events \in Seq(Wanted) :
           /\ frames' = frames \o events
           /\ UNCHANGED <<history, watcher, switched, replayed>>
           /\ stream.at # "closed"
           /\ stream'.at # "closed"
           /\ \A n \in Wanted : n > stream.after => \E i \in DOMAIN events : events[i] = n
           /\ \A i \in DOMAIN events : events[i] > stream.after
           /\ \A i, j \in DOMAIN events : i < j => events[i] < events[j]
           /\ stream'.after = IF events = << >> THEN stream.after ELSE events[Len(events)]
      BY <1>3, TickSends
    <2> SUFFICES ASSUME ~replayed PROVE ShownInOrder'
      BY <1>d, <2>1
    <2>2. /\ \A i \in 1..Len(frames) : frames'[i] = frames[i]
          /\ \A i \in 1..Len(events) : frames'[Len(frames) + i] = events[i]
          /\ Len(frames') = Len(frames) + Len(events)
          /\ Len(events) \in Nat
          /\ \A i \in 1..Len(events) : events[i] \in Nat
          /\ DOMAIN events = 1..Len(events)
      <3>1. /\ Len(events) \in Nat
            /\ DOMAIN events = 1..Len(events)
            /\ \A i \in 1..Len(events) : events[i] \in Wanted
        OBVIOUS
      <3>2. frames \in Seq(Frames \cup Wanted) /\ events \in Seq(Frames \cup Wanted)
        BY <1>0
      <3>3. /\ \A i \in 1..Len(frames) : frames'[i] = frames[i]
            /\ \A i \in 1..Len(events) : frames'[Len(frames) + i] = events[i]
            /\ Len(frames') = Len(frames) + Len(events)
        BY <2>1, <3>2
      <3>4. QED
        BY <1>0, <3>1, <3>3
    <2>3. ASSUME NEW j \in 1..Len(frames')
          PROVE  \/ j \in 1..Len(frames) /\ frames'[j] = frames[j]
                 \/ /\ j > Len(frames)
                    /\ j - Len(frames) \in 1..Len(events)
                    /\ frames'[j] = events[j - Len(frames)]
      <3>1. CASE j <= Len(frames)
        BY <1>a, <2>2, <3>1
      <3>2. CASE ~ (j <= Len(frames))
        <4>1. /\ j - Len(frames) \in 1..Len(events)
              /\ Len(frames) + (j - Len(frames)) = j
              /\ j > Len(frames)
          BY <1>a, <2>2, <3>2
        <4>2. frames'[Len(frames) + (j - Len(frames))] = events[j - Len(frames)]
          BY <2>2, <4>1
        <4>3. QED
          BY <4>1, <4>2
      <3>3. QED
        BY <3>1, <3>2
    <2>4. stream.after <= stream'.after /\ \A j \in 1..Len(events) : events[j] <= stream'.after
      <3>1. CASE events = << >>
        <4>1. Len(events) = 0 /\ stream'.after = stream.after
          BY <2>1, <3>1
        <4>2. QED
          BY <1>0, <4>1
      <3>2. CASE events # << >>
        <4>1. Len(events) \in 1..Len(events) /\ stream'.after = events[Len(events)]
          BY <2>1, <2>2, <3>2
        <4>2. ASSUME NEW j \in 1..Len(events)
              PROVE  events[j] <= events[Len(events)]
          <5>1. Len(events) \in Nat /\ j \in Nat /\ j <= Len(events)
            BY <2>2
          <5>2. j < Len(events) => events[j] < events[Len(events)]
            BY <2>1, <2>2, <4>1
          <5>3. events[j] \in Nat /\ events[Len(events)] \in Nat
            BY <2>2, <4>1
          <5>4. CASE j = Len(events)
            BY <5>3, <5>4
          <5>5. CASE j < Len(events)
            BY <5>2, <5>3, <5>5
          <5>6. QED
            BY <5>1, <5>4, <5>5
        <4>3. stream.after <= events[Len(events)]
          BY <1>0, <2>1, <2>2, <4>1
        <4>4. QED
          BY <4>1, <4>2, <4>3
      <3>3. QED
        BY <3>1, <3>2
    <2>5. stream'.after \in Nat
      BY <1>0, <2>1, <2>2
    <2>6. /\ \A i \in 1..Len(watcher.shown) : watcher.shown[i] <= stream.after
          /\ \A j \in 1..Len(frames) : frames[j] <= stream.after
          /\ Ascending(watcher.shown, frames)
      BY <1>b, <2>1
    <2>7. \A j \in 1..Len(events) : events[j] > stream.after
      BY <2>1, <2>2
    <2>8. Ascending(watcher'.shown, frames')
      <3>1. \A i, j \in 1..Len(watcher'.shown) :
               i < j /\ watcher'.shown[i] # Live /\ watcher'.shown[j] # Live =>
               watcher'.shown[i] < watcher'.shown[j]
        BY <2>1, <2>6 DEF Ascending
      <3>2. ASSUME NEW i \in 1..Len(frames'), NEW j \in 1..Len(frames'), i < j,
                   frames'[i] # Live, frames'[j] # Live
            PROVE  frames'[i] < frames'[j]
        <4>1. CASE j \in 1..Len(frames) /\ frames'[j] = frames[j]
          <5>1. i \in 1..Len(frames) /\ frames'[i] = frames[i]
            BY <1>a, <2>2, <3>2, <4>1
          <5>2. QED
            BY <2>6, <3>2, <4>1, <5>1 DEF Ascending
        <4>2. ASSUME j - Len(frames) \in 1..Len(events), frames'[j] = events[j - Len(frames)]
              PROVE  frames'[i] < frames'[j]
          <5>1. CASE i \in 1..Len(frames) /\ frames'[i] = frames[i]
            <6>1. frames[i] <= stream.after /\ frames[i] \in Int /\ stream.after \in Int
              BY <1>0, <1>a, <2>6, <5>1
            <6>2. /\ events[j - Len(frames)] > stream.after
                  /\ events[j - Len(frames)] \in Int
              BY <2>2, <2>7, <4>2
            <6>3. QED
              BY <4>2, <5>1, <6>1, <6>2
          <5>2. CASE i - Len(frames) \in 1..Len(events) /\ frames'[i] = events[i - Len(frames)]
            <6>1. i - Len(frames) < j - Len(frames)
              BY <1>a, <3>2, <2>2
            <6>2. events[i - Len(frames)] < events[j - Len(frames)]
              BY <2>1, <2>2, <4>2, <5>2, <6>1
            <6>3. QED
              BY <4>2, <5>2, <6>2
          <5>3. QED
            BY <2>3, <5>1, <5>2
        <4>3. QED
          BY <2>3, <4>1, <4>2
      <3>3. ASSUME NEW i \in 1..Len(watcher.shown), NEW j \in 1..Len(frames'),
                   watcher.shown[i] # Live, frames'[j] # Live
            PROVE  watcher.shown[i] < frames'[j]
        <4>1. CASE j \in 1..Len(frames) /\ frames'[j] = frames[j]
          BY <2>6, <3>3, <4>1 DEF Ascending
        <4>2. CASE j - Len(frames) \in 1..Len(events) /\ frames'[j] = events[j - Len(frames)]
          BY <1>0, <1>a, <2>2, <2>6, <2>7, <3>3, <4>2
        <4>3. QED
          BY <2>3, <4>1, <4>2
      <3>4. QED
        BY <2>1, <3>1, <3>2, <3>3 DEF Ascending
    <2>9. ASSUME NEW i \in 1..Len(watcher'.shown)
          PROVE  watcher'.shown[i] <= stream'.after
      <3>1. /\ watcher'.shown[i] \in Int /\ stream.after \in Int /\ stream'.after \in Int
            /\ watcher'.shown[i] <= stream.after /\ stream.after <= stream'.after
        BY <1>0, <1>a, <2>1, <2>4, <2>5, <2>6 DEF Live
      <3>2. QED
        BY <3>1
    <2>10. ASSUME NEW j \in 1..Len(frames')
           PROVE  frames'[j] <= stream'.after
      <3>1. CASE j \in 1..Len(frames) /\ frames'[j] = frames[j]
        BY <1>0, <1>a, <2>4, <2>5, <2>6, <3>1
      <3>2. CASE j - Len(frames) \in 1..Len(events) /\ frames'[j] = events[j - Len(frames)]
        BY <2>4, <3>2
      <3>3. QED
        BY <2>3, <3>1, <3>2
    <2>11. watcher'.cursor # Live =>
                 \A i \in 1..Len(watcher'.shown) : watcher'.shown[i] <= watcher'.cursor
      BY <1>b, <2>1
    <2>12. QED
      BY <1>c, <2>1, <2>8, <2>9, <2>10, <2>11
  <1>4. CASE CheckEnded
    <2>1. /\ UNCHANGED <<frames, watcher, replayed>>
          /\ stream'.after = stream.after
          /\ stream.at # "closed" /\ stream'.at # "closed"
      BY <1>4 DEF CheckEnded, StreamInvariant, StreamTypeOK
    <2>2. QED
      BY <2>1, <1>b, <1>c, <1>d
  <1>5. CASE LiveEvent
    <2>1. /\ UNCHANGED <<stream, watcher, replayed>>
          /\ frames' = Append(frames, Live)
          /\ stream.at # "closed"
      BY <1>5 DEF LiveEvent
    <2>2. /\ \A i \in 1..Len(frames) : frames'[i] = frames[i]
          /\ Len(frames') = Len(frames) + 1
          /\ frames'[Len(frames) + 1] = Live
      BY <1>0, <2>1
    <2>3. \A j \in 1..Len(frames') : j \in 1..Len(frames) \/ j = Len(frames) + 1
      BY <1>a, <2>2
    <2> SUFFICES ASSUME ~replayed PROVE ShownInOrder'
      BY <1>d, <2>1
    <2>4. Ascending(watcher'.shown, frames')
      BY <1>b, <2>1, <2>2, <2>3 DEF Ascending
    <2>5. \A j \in 1..Len(frames') : frames'[j] <= stream'.after
      <3>1. -1 <= stream.after
        BY <1>0
      <3>2. QED
        BY <1>b, <2>1, <2>2, <2>3, <3>1 DEF Live
    <2>6. QED
      BY <1>b, <1>c, <2>1, <2>4, <2>5
  <1>6. CASE Receive
    <2>1. /\ Len(frames) > 0
          /\ frames' = Tail(frames)
          /\ UNCHANGED <<history, stream, switched, replayed>>
          /\ watcher'.cursor = frames[1]
          /\ frames \in Seq(Frames)
      BY <1>6, ReceiveShows
    <2>2. /\ Len(frames') = Len(frames) - 1
          /\ \A i \in 1..Len(frames') : i + 1 \in 1..Len(frames) /\ frames'[i] = frames[i + 1]
          /\ 1 \in 1..Len(frames)
      BY <1>a, <2>1
    <2> SUFFICES ASSUME ~replayed PROVE ShownInOrder'
      BY <1>d, <2>1
    <2>3. stream.at # "closed"
      BY <1>b, <2>1
    <2>4. \A j \in 1..Len(frames') : frames'[j] <= stream'.after
      BY <1>b, <2>1, <2>2, <2>3
    <2>5. \A i, j \in 1..Len(frames') : i < j /\ frames'[i] # Live /\ frames'[j] # Live =>
             frames'[i] < frames'[j]
      <3>1. \A i, j \in 1..Len(frames') : i < j => i + 1 < j + 1
        OBVIOUS
      <3>2. QED
        BY <1>b, <2>2, <3>1 DEF Ascending
    <2>6. PICK gone \in {0, 1} :
            /\ Len(watcher'.shown) = (Len(watcher.shown) + 1) - gone
            /\ \A k \in 1..Len(watcher'.shown) :
                 watcher'.shown[k] = IF k + gone <= Len(watcher.shown)
                                     THEN watcher.shown[k + gone] ELSE frames[1]
      BY <1>6, ReceiveShows
    <2>7. ASSUME NEW i \in 1..Len(watcher'.shown)
          PROVE  \/ /\ i + gone \in 1..Len(watcher.shown)
                    /\ watcher'.shown[i] = watcher.shown[i + gone]
                 \/ /\ i = Len(watcher'.shown)
                    /\ watcher'.shown[i] = frames[1]
      BY <1>a, <2>6
    <2>8. frames[1] = Live \/ frames[1] \in Nat
      BY <1>0, <2>2
    <2>9. /\ \A k \in 1..Len(watcher.shown) :
               watcher.shown[k] # Live /\ frames[1] # Live => watcher.shown[k] < frames[1]
          /\ \A k, l \in 1..Len(watcher.shown) :
               k < l /\ watcher.shown[k] # Live /\ watcher.shown[l] # Live =>
               watcher.shown[k] < watcher.shown[l]
          /\ \A k \in 1..Len(watcher.shown), j \in 1..Len(frames') :
               watcher.shown[k] # Live /\ frames'[j] # Live => watcher.shown[k] < frames'[j]
      BY <1>b, <2>2 DEF Ascending
    <2>10. \A j \in 1..Len(frames') : frames[1] # Live /\ frames'[j] # Live =>
              frames[1] < frames'[j]
      <3>1. \A j \in 1..Len(frames') : 1 < j + 1
        OBVIOUS
      <3>2. QED
        BY <1>b, <2>2, <3>1 DEF Ascending
    <2>11. Ascending(watcher'.shown, frames')
      <3>1. ASSUME NEW i \in 1..Len(watcher'.shown), NEW j \in 1..Len(watcher'.shown), i < j,
                   watcher'.shown[i] # Live, watcher'.shown[j] # Live
            PROVE  watcher'.shown[i] < watcher'.shown[j]
        <4>1. i # Len(watcher'.shown) /\ i + gone < j + gone
          BY <1>a, <2>6, <3>1
        <4>2. QED
          BY <2>7, <2>9, <3>1, <4>1
      <3>2. ASSUME NEW i \in 1..Len(watcher'.shown), NEW j \in 1..Len(frames'),
                   watcher'.shown[i] # Live, frames'[j] # Live
            PROVE  watcher'.shown[i] < frames'[j]
        BY <2>7, <2>9, <2>10, <3>2
      <3>3. QED
        BY <2>5, <3>1, <3>2 DEF Ascending
    <2>12. frames[1] <= stream.after
      BY <1>b, <2>2, <2>3
    <2>13. \A i \in 1..Len(watcher'.shown) : watcher'.shown[i] <= stream'.after
      BY <1>b, <2>1, <2>3, <2>7, <2>12
    <2>14. ASSUME frames[1] # Live, NEW i \in 1..Len(watcher'.shown)
           PROVE  watcher'.shown[i] <= frames[1]
      <3>1. \A k \in 1..Len(watcher.shown) : watcher.shown[k] <= frames[1]
        BY <1>a, <2>8, <2>9, <2>14 DEF Live
      <3>2. frames[1] <= frames[1]
        BY <2>8, <2>14
      <3>3. QED
        BY <2>7, <3>1, <3>2
    <2>15. QED
      BY <1>c, <2>1, <2>3, <2>4, <2>11, <2>13, <2>14
  <1>7. CASE EndOfStream \/ LoseConnection \/ LookElsewhere
    <2>1. /\ UNCHANGED replayed
          /\ stream'.at = "closed"
          /\ Len(frames') = 0
          /\ watcher'.cursor = watcher.cursor
          /\ watcher'.shown = watcher.shown \/ Len(watcher'.shown) = 0
      BY <1>7 DEF EndOfStream, LoseConnection, LookElsewhere, StreamInvariant, StreamTypeOK
    <2> SUFFICES ASSUME ~replayed PROVE ShownInOrder'
      BY <1>d, <2>1
    <2>2. Ascending(watcher'.shown, frames')
      BY <1>b, <2>1 DEF Ascending
    <2>3. watcher'.cursor # Live =>
                 \A i \in 1..Len(watcher'.shown) : watcher'.shown[i] <= watcher'.cursor
      BY <1>b, <2>1
    <2>4. QED
      BY <1>c, <2>1, <2>2, <2>3
  <1>8. CASE UNCHANGED streamVars
    BY <1>8, <1>e DEF streamVars
  <1>9. EventKinds # {} /\ BOOLEAN # {}
    BY DEF EventKinds
  <1>10. QED
    BY <1>1, <1>2, <1>3, <1>4, <1>5, <1>6, <1>7, <1>8, <1>9, StreamSteps DEF ConnectionStep

(* No event is shown twice unless the connection was lost right after a    *)
(* live event, whatever else is lost or written in between.                *)
THEOREM NoEventIsShownTwice == StreamSpec => []EventsComeOnce
  <1>1. StreamInit => ShownInOrder
    BY DEF StreamInit, ShownInOrder, Ascending
  <1>2. StreamInvariant /\ ShownInOrder /\ [StreamNext]_streamVars => ShownInOrder'
    BY ShownStaysInOrder
  <1>3. StreamInvariant /\ ShownInOrder => EventsComeOnce
    <2> SUFFICES ASSUME StreamInvariant, ShownInOrder, ~replayed,
                        NEW i \in DOMAIN watcher.shown, NEW j \in DOMAIN watcher.shown,
                        watcher.shown[i] = watcher.shown[j], watcher.shown[i] # Live
                 PROVE  i = j
      BY DEF EventsComeOnce
    <2>1. /\ watcher.shown \in Seq(Frames)
          /\ \A k \in 1..Len(watcher.shown) : watcher.shown[k] # Live => watcher.shown[k] \in Nat
      <3>1. watcher.shown \in Seq(Frames) /\ \A n \in Sequences : n \in Nat
        BY StreamFacts
      <3>2. \A k \in 1..Len(watcher.shown) : watcher.shown[k] \in Sequences \cup {Live}
        BY <3>1 DEF Frames
      <3>3. QED
        BY <3>1, <3>2
    <2>2. i \in 1..Len(watcher.shown) /\ j \in 1..Len(watcher.shown)
      BY <2>1
    <2>3. \A k, l \in 1..Len(watcher.shown) :
             k < l /\ watcher.shown[k] # Live /\ watcher.shown[l] # Live =>
             watcher.shown[k] < watcher.shown[l]
      BY DEF ShownInOrder, Ascending
    <2>4. ~ (i < j) /\ ~ (j < i)
      BY <2>1, <2>2, <2>3
    <2>5. QED
      BY <2>2, <2>4
  <1>4. QED
    BY <1>1, <1>2, <1>3, StreamInvariantHolds, PTL DEF StreamSpec

===============================================================================
