------------------------------ MODULE GoalProofs ------------------------------
(***************************************************************************)
(* A goal before its run (GoalOrchestration): for any number of concurrent *)
(* confirmation requests, revisions, imports, runs and crashes, what is    *)
(* under review fits together, and as long as no live request is taken     *)
(* over, a package is confirmed into one run.                              *)
(***************************************************************************)
EXTENDS GoalOrchestration, FiniteSetTheorems, TLAPS

-----------------------------------------------------------------------------
(* The inductive invariant. *)

(* What is under review is of the requirements under review. *)
PackageOfDraft ==
    draft.package # NoPackage =>
        /\ draft.package.req = draft.req
        /\ draft.package.library = draft.resolution.library
        /\ draft.resolution.ready
        /\ packageRevisions[draft.package.revision] = draft.package

DraftInOrder ==
    /\ draft.phase = "requirements_review" <=> draft.contract = 0
    /\ draft.contract # 0 => draft.contract = draft.req
    /\ draft.resolution # NoResolution =>
          draft.resolution.req = draft.req /\ draft.contract = draft.req
    /\ draft.package # NoPackage <=> ReadyForReview
    /\ PackageOfDraft

(* The link to an import, and the import that is about to be linked. *)
LinkInOrder ==
    /\ draft.linked =>
          /\ draft.phase = "library_review"
          /\ draft.resolution # NoResolution
          /\ ~ draft.resolution.ready
          /\ imports[draft.resolution] \in {"draft", "installed"}
    /\ resolver.pc # "idle" =>
          /\ resolver.resolution \in Resolutions
          /\ ~ resolver.resolution.ready
          /\ resolver.resolution.req = resolver.contract
          /\ resolver.contract <= draft.req
    /\ resolver.pc = "attaching" /\ resolver.contract = draft.req =>
          imports[resolver.resolution] \in {"draft", "installed"}

ReviewInv == GoalTypeOK /\ DraftInOrder /\ LinkInOrder

(* Packages are superseded in one direction, and never come back. *)
Past(now, package) ==
    /\ package \in Packages
    /\ \/ package.req < now.req
       \/ /\ package.req = now.req
          /\ now.package # NoPackage
          /\ package.revision <= now.package.revision

PackagesArePast ==
    /\ \A c \in Confirmers : confirmer[c].pc # "idle" => Past(draft, confirmer[c].package)
    /\ \A n \in 1..MaxRuns : goalRuns[n].package # NoPackage => Past(draft, goalRuns[n].package)
    /\ confirmation.status # "none" => Past(draft, confirmation.package)

Over == confirmation.status \in {"none", "stale"}

(* A request at work on the package under review. *)
WorkPcs == {"prepared", "composing", "validated", "invalid", "failing"}
Working(c) == confirmer[c].pc \in WorkPcs /\ PackageCurrent(confirmer[c].package)

ConfirmationInOrder ==
    /\ ~ Over => PackageCurrent(confirmation.package)
    /\ \A c \in Confirmers : Working(c) => ~ Over
    /\ confirmation.scheduling =>
          /\ confirmation.run \in 1..MaxRuns
          /\ goalRuns[confirmation.run].status # "none"

(* The confirmation has its run. *)
Made ==
    \/ confirmation.status = "completed" /\ confirmation.result = "run"
    \/ confirmation.status = "composing" /\ confirmation.scheduling

WorkInOrder ==
    /\ \A c \in Confirmers : Working(c) =>
          /\ confirmation.status = "composing"
          /\ ~ confirmation.scheduling
          /\ confirmer[c].pc = "prepared" => draft.phase = "ready_to_compose"
          /\ confirmer[c].pc \in {"composing", "validated", "invalid"}
                => draft.phase = "composing"
    /\ \A c, d \in Confirmers : Working(c) /\ Working(d) => c = d

PhaseInOrder ==
    /\ draft.phase = "composing" => confirmation.status = "composing" /\ ~ confirmation.scheduling
    /\ draft.phase = "dag_validated" <=> Made
    /\ confirmation.status = "failed" => ~ confirmation.scheduling

RunsInOrder ==
    /\ \A n \in 1..MaxRuns : PackageCurrent(goalRuns[n].package) => Made
    /\ \A m, n \in 1..MaxRuns :
          goalRuns[m].package = goalRuns[n].package /\ goalRuns[n].package # NoPackage => m = n

WorkIsOwned ==
    goalCrashes = 0 /\ confirmation.status = "composing" =>
        IF confirmation.scheduling THEN \E c \in Confirmers : confirmer[c].pc = "handoff"
        ELSE \E c \in Confirmers : Working(c)

OneAtWork == WorkInOrder /\ PhaseInOrder /\ RunsInOrder /\ WorkIsOwned

GoalInv ==
    /\ ReviewInv
    /\ PackagesArePast
    /\ ConfirmationInOrder
    /\ ~ takenOver => OneAtWork

-----------------------------------------------------------------------------
(* Types. *)

DraftRecords ==
    [req : Requirements, phase : Phases, contract : 0..MaxRequirements,
     resolution : Resolutions \cup {NoResolution}, linked : BOOLEAN,
     package : Packages \cup {NoPackage}]

RequestRecords ==
    [pc : {"idle", "resolving", "resuming", "importing", "attaching", "designing"},
     contract : 0..MaxRequirements, resolution : Resolutions \cup {NoResolution}]

ConfirmationRecords ==
    [status : {"none", "composing", "completed", "failed", "stale"},
     package : Packages \cup {NoPackage}, result : {"none", "invalid", "run"},
     scheduling : BOOLEAN, run : 0..MaxRuns]

RunRecords ==
    [package : Packages \cup {NoPackage},
     status : {"none", "created", "awaiting_approval", "scheduling"}]

ConfirmerRecords ==
    [pc : {"idle", "prepared", "composing", "validated", "invalid", "failing", "handoff"},
     package : Packages \cup {NoPackage}]

ImportStatus == {"none", "draft", "installed"}

DraftTyped ==
    /\ draft \in DraftRecords
    /\ packageRevisions \in [1..MaxRevisions -> Packages \cup {NoPackage}]
    /\ imports \in [Resolutions -> ImportStatus]
    /\ library \in 1..MaxLibrary

ConfirmationTyped ==
    /\ confirmation \in ConfirmationRecords
    /\ active \in BOOLEAN
    /\ goalRuns \in [1..MaxRuns -> RunRecords]
    /\ confirmer \in [Confirmers -> ConfirmerRecords]

RequestsTyped == resolver \in RequestRecords /\ designer \in RequestRecords

LEMMA TypeParts ==
  GoalTypeOK <=> /\ DraftTyped /\ ConfirmationTyped /\ RequestsTyped
                 /\ goalCrashes \in 0..MaxGoalCrashes
                 /\ takenOver \in BOOLEAN
  BY DEF GoalTypeOK, GoalDraftTypeOK, GoalReviewTypeOK, GoalConfirmationTypeOK, DraftTyped,
     ConfirmationTyped, RequestsTyped, DraftRecords, RequestRecords, ConfirmationRecords,
     RunRecords, ConfirmerRecords, ImportStatus

LEMMA Nothing == /\ NoPackage \notin Packages /\ NoResolution \notin Resolutions
                 /\ NoPackage.revision = 0 /\ ~ NoResolution.ready
  BY DEF Requirements, Packages, NoPackage, Resolutions, NoResolution

LEMMA DraftUpdates ==
  ASSUME draft \in DraftRecords
  PROVE  /\ \A phase \in Phases : [draft EXCEPT !.phase = phase] \in DraftRecords
         /\ \A phase \in Phases, package \in Packages :
               [draft EXCEPT !.phase = phase, !.package = package] \in DraftRecords
         /\ \A phase \in Phases, resolution \in Resolutions, linked \in BOOLEAN :
               [draft EXCEPT !.phase = phase, !.resolution = resolution,
                             !.linked = linked] \in DraftRecords
         /\ [draft EXCEPT !.linked = TRUE] \in DraftRecords
         /\ [draft EXCEPT !.phase = "validation_resolving", !.contract = draft.req]
               \in DraftRecords
  <1> USE DEF DraftRecords, Phases
  <1>1. \A phase \in Phases : [draft EXCEPT !.phase = phase] \in DraftRecords
    OBVIOUS
  <1>2. \A phase \in Phases, package \in Packages :
           [draft EXCEPT !.phase = phase, !.package = package] \in DraftRecords
    OBVIOUS
  <1>3. ASSUME NEW phase \in Phases, NEW resolution \in Resolutions, NEW linked \in BOOLEAN
        PROVE  [draft EXCEPT !.phase = phase, !.resolution = resolution, !.linked = linked]
                  \in DraftRecords
    BY <1>3
  <1>4. [draft EXCEPT !.linked = TRUE] \in DraftRecords
    OBVIOUS
  <1>5. [draft EXCEPT !.phase = "validation_resolving", !.contract = draft.req] \in DraftRecords
    <2>1. draft.req \in 0..MaxRequirements
      BY GoalBounds DEF Requirements
    <2>2. QED
      BY <2>1
  <1>6. QED
    BY <1>1, <1>2, <1>3, <1>4, <1>5

LEMMA DraftFields ==
  ASSUME draft \in DraftRecords
  PROVE  /\ draft.req \in Requirements /\ draft.phase \in Phases
         /\ draft.contract \in 0..MaxRequirements
         /\ draft.resolution \in Resolutions \cup {NoResolution}
         /\ draft.linked \in BOOLEAN
         /\ draft.package \in Packages \cup {NoPackage}
  BY DEF DraftRecords

LEMMA RequestUpdates ==
  /\ Idle \in RequestRecords
  /\ \A request \in RequestRecords, pc \in {"importing", "attaching"} :
        [request EXCEPT !.pc = pc] \in RequestRecords
  /\ \A pc \in {"resolving", "resuming", "designing"}, contract \in 0..MaxRequirements,
        resolution \in Resolutions \cup {NoResolution} :
           [pc |-> pc, contract |-> contract, resolution |-> resolution] \in RequestRecords
  BY GoalBounds DEF RequestRecords, Idle

LEMMA RequestFields ==
  \A request \in RequestRecords : /\ request.contract \in 0..MaxRequirements
                                  /\ request.resolution \in Resolutions \cup {NoResolution}
  BY DEF RequestRecords

LEMMA ReviewTypes ==
  ASSUME ReviewInv, ReviewStep
  PROVE  DraftTyped' /\ RequestsTyped' /\ confirmation' \in ConfirmationRecords
         /\ UNCHANGED <<active, goalRuns>>
  <1>0. /\ DraftTyped /\ RequestsTyped /\ ConfirmationTyped
        /\ DraftInOrder /\ LinkInOrder
    BY TypeParts DEF ReviewInv
  <1> USE <1>0, DraftFields DEF draftVars, confirmationVars, reviewVars, DraftTyped,
      RequestsTyped, ConfirmationTyped
  <1>1. CASE ReviseGoalRequirement
    <2>1. draft' \in DraftRecords
      BY <1>1, GoalBounds DEF ReviseGoalRequirement, Requirements, Phases, DraftRecords
    <2>2. imports' \in [Resolutions -> ImportStatus]
      BY <1>1 DEF ReviseGoalRequirement, StaleImportsOf, ImportStatus
    <2>3. confirmation' \in ConfirmationRecords
      BY <1>1 DEF ReviseGoalRequirement, MarkConfirmationStale, ConfirmationRecords
    <2>4. QED
      BY <1>1, <2>1, <2>2, <2>3 DEF ReviseGoalRequirement
  <1>2. CASE ConfirmGoalRequirements
    BY <1>2, DraftUpdates DEF ConfirmGoalRequirements
  <1>3. CASE BeginResolution \/ \E origin \in Resolutions : BeginResume(origin)
    <2>1. draft.contract \in Requirements
      BY <1>3, GoalBounds DEF BeginResolution, BeginResume, ValidationPhases, DraftInOrder,
         Requirements
    <2>2. [req |-> draft.contract, library |-> library, ready |-> FALSE] \in Resolutions
      BY <2>1 DEF Resolutions
    <2> DEFINE read == [req |-> draft.contract, library |-> library, ready |-> FALSE]
    <2>3. PICK pc \in {"resolving", "resuming"} :
             resolver' = [pc |-> pc, contract |-> draft.contract, resolution |-> read]
      BY <1>3 DEF BeginResolution, BeginResume
    <2>4. read \in Resolutions \cup {NoResolution} /\ draft.contract \in 0..MaxRequirements
      BY <2>2
    <2> HIDE DEF read
    <2>5. resolver' \in RequestRecords
      BY <2>3, <2>4, RequestUpdates
    <2>6. UNCHANGED <<draftVars, confirmationVars, designer>>
      BY <1>3 DEF BeginResolution, BeginResume
    <2>7. QED
      BY <2>5, <2>6
  <1>4. CASE \E ready \in BOOLEAN : PersistResolution(ready)
    <2>1. PICK ready \in BOOLEAN : PersistResolution(ready)
      BY <1>4
    <2> DEFINE resolution == [resolver.resolution EXCEPT !.ready = ready]
    <2>2. resolution \in Resolutions
      BY <2>1 DEF PersistResolution, LinkInOrder, Resolutions
    <2>3. KeepsLink(resolution) \in BOOLEAN
      BY DEF KeepsLink
    <2>4. PICK phase \in Phases :
             draft' = [draft EXCEPT !.phase = phase, !.resolution = resolution,
                                    !.linked = KeepsLink(resolution)]
      BY <2>1 DEF PersistResolution, Phases
    <2>5. draft' \in DraftRecords
      BY <2>2, <2>3, <2>4, DraftUpdates
    <2>6. resolver' = Idle \/ resolver' = [resolver EXCEPT !.pc = "importing"]
      BY <2>1 DEF PersistResolution
    <2>7. QED
      BY <2>1, <2>5, <2>6, RequestUpdates DEF PersistResolution
  <1>5. CASE ResolutionRejected \/ RequestFails \/ SlicesRejected
    BY <1>5, RequestUpdates DEF ResolutionRejected, RequestFails, SlicesRejected
  <1>6. CASE CreateImport
    BY <1>6, RequestUpdates DEF CreateImport, LinkInOrder, ImportStatus
  <1>7. CASE AttachImport
    <2>1. draft' = draft \/ draft' = [draft EXCEPT !.linked = TRUE]
      BY <1>7 DEF AttachImport
    <2>2. imports' \in [Resolutions -> ImportStatus]
      BY <1>7 DEF AttachImport, ImportStatus
    <2>3. QED
      BY <1>7, <2>1, <2>2, DraftUpdates, RequestUpdates DEF AttachImport
  <1>8. CASE \E origin \in Resolutions : InstallImport(origin)
    <2>1. imports' \in [Resolutions -> ImportStatus]
      BY <1>8 DEF InstallImport, ImportStatus
    <2>2. library' \in 1..MaxLibrary
      BY <1>8, GoalBounds DEF InstallImport
    <2>3. QED
      BY <1>8, <2>1, <2>2 DEF InstallImport
  <1>9. CASE BeginSliceDesign
    BY <1>9, RequestUpdates DEF BeginSliceDesign
  <1>10. CASE PersistSlices
    <2>1. designer.resolution \in Resolutions
      BY <1>10, Nothing, RequestFields DEF PersistSlices, SlicesDesignable
    <2>2. DesignedPackage(designer.resolution) \in Packages
      BY <2>1, GoalBounds DEF DesignedPackage, Packages, Resolutions
    <2>3. draft' \in DraftRecords
      BY <1>10, <2>2, DraftUpdates DEF PersistSlices, Phases
    <2>4. packageRevisions' \in [1..MaxRevisions -> Packages \cup {NoPackage}]
      BY <1>10, <2>2 DEF PersistSlices, StoreRevision
    <2>5. QED
      BY <1>10, <2>3, <2>4, RequestUpdates DEF PersistSlices
  <1>11. CASE ReviseGoalDesign
    <2> DEFINE next == [draft.package EXCEPT !.revision = @ + 1]
    <2>1. draft.package \in Packages
      BY <1>11 DEF ReviseGoalDesign, DraftInOrder
    <2>2. next \in Packages
      <3>1. draft.package.revision + 1 \in 1..MaxRevisions
        BY <1>11, <2>1, GoalBounds DEF ReviseGoalDesign, Packages
      <3>2. QED
        BY <2>1, <3>1 DEF Packages
    <2>3. draft' \in DraftRecords
      BY <1>11, <2>2, DraftUpdates DEF ReviseGoalDesign, Phases
    <2>4. packageRevisions' \in [1..MaxRevisions -> Packages \cup {NoPackage}]
      BY <1>11, <2>2 DEF ReviseGoalDesign, StoreRevision
    <2>5. confirmation' \in ConfirmationRecords
      BY <1>11 DEF ReviseGoalDesign, MarkConfirmationStale, ConfirmationRecords
    <2>6. QED
      BY <1>11, <2>3, <2>4, <2>5 DEF ReviseGoalDesign
  <1>12. QED
    BY <1>1, <1>2, <1>3, <1>4, <1>5, <1>6, <1>7, <1>8, <1>9, <1>10, <1>11 DEF ReviewStep

-----------------------------------------------------------------------------
(* What a step of a confirmation request touches. *)

RequestStep(c) ==
    \/ StartConfirmation(c)
    \/ StartConfirmationThrows(c)
    \/ RetryInvalid(c)
    \/ ReplayCompleted(c)
    \/ ConfirmationProgress(c)

At(pc, package) == [pc |-> pc, package |-> package]
WorkerPcs == {"idle", "prepared", "composing", "validated", "invalid", "failing", "handoff"}
MovedPhases == {"ready_to_compose", "composing", "dag_validated"}

LEMMA AtFields ==
  \A pc, package : At(pc, package).pc = pc /\ At(pc, package).package = package
  BY DEF At

LEMMA GotoMoves ==
  ASSUME ConfirmationTyped, NEW c \in Confirmers, NEW pc \in WorkerPcs
  PROVE  /\ Goto(c, pc) => confirmer' = [confirmer EXCEPT ![c] = At(pc, confirmer[c].package)]
         /\ Leave(c) => confirmer' = [confirmer EXCEPT ![c] = At("idle", NoPackage)]
  <1>1. [confirmer[c] EXCEPT !.pc = pc] = At(pc, confirmer[c].package)
    BY DEF ConfirmationTyped, ConfirmerRecords, At
  <1>2. QED
    BY <1>1 DEF Goto, Leave, IdleConfirmer, At

LEMMA ConfirmerFields ==
  ASSUME ConfirmationTyped, NEW c \in Confirmers
  PROVE  confirmer[c].pc \in WorkerPcs /\ confirmer[c].package \in Packages \cup {NoPackage}
  BY DEF ConfirmationTyped, ConfirmerRecords, WorkerPcs

LEMMA RequestMovesDraft ==
  ASSUME NEW c \in Confirmers, RequestStep(c)
  PROVE  /\ \/ draft' = draft
            \/ /\ ReadyForReview
               /\ \E phase \in MovedPhases : draft' = [draft EXCEPT !.phase = phase]
         /\ UNCHANGED <<packageRevisions, imports, library, reviewVars>>
  <1> DEFINE Moved == \/ draft' = draft
                      \/ /\ ReadyForReview
                         /\ \E phase \in MovedPhases : draft' = [draft EXCEPT !.phase = phase]
  <1> USE DEF MovedPhases, MovePhase, draftVars, confirmationVars, MayMovePhase, ReadyForReview
  <1>1. CASE StartConfirmation(c)
    BY <1>1 DEF StartConfirmation
  <1>2. CASE StartConfirmationThrows(c) \/ RetryInvalid(c)
    BY <1>2 DEF StartConfirmationThrows, RetryInvalid
  <1>3. CASE ReplayCompleted(c)
    BY <1>3 DEF ReplayCompleted
  <1>4. CASE BeginComposition(c)
    BY <1>4 DEF BeginComposition
  <1>5. CASE \E outcome \in {"validated", "invalid", "failing"} : Compose(c, outcome)
    BY <1>5 DEF Compose
  <1>6. CASE CompleteInvalid(c)
    BY <1>6 DEF CompleteInvalid
  <1>7. CASE AnswerCompleted(c) \/ CreateRunThrows(c)
    BY <1>7 DEF AnswerCompleted, CreateRunThrows
  <1>8. CASE \E approved \in BOOLEAN : CreateRun(c, approved)
    BY <1>8 DEF CreateRun
  <1>9. CASE FailConfirmation(c)
    BY <1>9 DEF FailConfirmation, FailurePhases
  <1>10. CASE \E started \in BOOLEAN : HandOff(c, started)
    BY <1>10 DEF HandOff
  <1>11. QED
    BY <1>1, <1>2, <1>3, <1>4, <1>5, <1>6, <1>7, <1>8, <1>9, <1>10
       DEF RequestStep, ConfirmationProgress

(* A request only ever works on its own package. *)
LEMMA RequestMovesItself ==
  ASSUME ConfirmationTyped, NEW c \in Confirmers, RequestStep(c)
  PROVE  \/ confirmer' = confirmer
         \/ confirmer' = [confirmer EXCEPT ![c] = At("idle", NoPackage)]
         \/ \E pc \in WorkerPcs \ {"idle"} :
               /\ ReadyForReview /\ confirmer[c].pc = "idle"
               /\ confirmer' = [confirmer EXCEPT ![c] = At(pc, draft.package)]
         \/ \E pc \in WorkerPcs \ {"idle"} :
               /\ confirmer[c].pc # "idle"
               /\ confirmer' = [confirmer EXCEPT ![c] = At(pc, confirmer[c].package)]
  <1>1. CASE StartConfirmation(c) \/ RetryInvalid(c)
    BY <1>1 DEF StartConfirmation, RetryInvalid, At, WorkerPcs
  <1>2. CASE StartConfirmationThrows(c)
    BY <1>2 DEF StartConfirmationThrows
  <1>3. CASE ReplayCompleted(c)
    BY <1>3 DEF ReplayCompleted, At, WorkerPcs
  <1>4. CASE BeginComposition(c)
    <2>1. confirmer[c].pc = "prepared" /\ (Goto(c, "composing") \/ Goto(c, "failing"))
      BY <1>4 DEF BeginComposition
    <2>2. QED
      BY <2>1, GotoMoves DEF WorkerPcs
  <1>5. CASE \E outcome \in {"validated", "invalid", "failing"} : Compose(c, outcome)
    BY <1>5, GotoMoves DEF Compose, WorkerPcs
  <1>6. CASE CompleteInvalid(c) \/ FailConfirmation(c) \/ \E started \in BOOLEAN : HandOff(c, started)
    <2>1. Leave(c)
      BY <1>6 DEF CompleteInvalid, FailConfirmation, HandOff
    <2>2. "idle" \in WorkerPcs
      BY DEF WorkerPcs
    <2>3. QED
      BY <2>1, <2>2, GotoMoves
  <1>7. CASE AnswerCompleted(c)
    <2>1. confirmer[c].pc = "validated" /\ (Goto(c, "handoff") \/ Leave(c))
      BY <1>7 DEF AnswerCompleted
    <2>2. QED
      BY <2>1, GotoMoves DEF WorkerPcs
  <1>8. CASE \E approved \in BOOLEAN : CreateRun(c, approved)
    <2>1. confirmer[c].pc = "validated" /\ (Goto(c, "handoff") \/ Leave(c))
      BY <1>8 DEF CreateRun
    <2>2. QED
      BY <2>1, GotoMoves DEF WorkerPcs
  <1>9. CASE CreateRunThrows(c)
    BY <1>9, GotoMoves DEF CreateRunThrows, WorkerPcs
  <1>10. QED
    BY <1>1, <1>2, <1>3, <1>4, <1>5, <1>6, <1>7, <1>8, <1>9
       DEF RequestStep, ConfirmationProgress

LEMMA ConfirmationUpdates ==
  ASSUME confirmation \in ConfirmationRecords, draft \in DraftRecords
  PROVE  /\ NewConfirmation \in ConfirmationRecords
         /\ [confirmation EXCEPT !.status = "stale"] \in ConfirmationRecords
         /\ [confirmation EXCEPT !.status = "composing", !.result = "none"]
               \in ConfirmationRecords
         /\ [confirmation EXCEPT !.status = "composing", !.result = "none", !.scheduling = FALSE]
               \in ConfirmationRecords
         /\ \A result \in {"invalid", "run"} :
               [confirmation EXCEPT !.status = "completed", !.result = result]
                  \in ConfirmationRecords
         /\ [confirmation EXCEPT !.status = "failed", !.result = "none"] \in ConfirmationRecords
         /\ \A n \in 1..MaxRuns :
               /\ [confirmation EXCEPT !.scheduling = TRUE, !.run = n] \in ConfirmationRecords
               /\ [confirmation EXCEPT !.status = "completed", !.result = "run", !.run = n]
                     \in ConfirmationRecords
  <1>1. draft.package \in Packages \cup {NoPackage} /\ 0 \in 0..MaxRuns
    BY GoalBounds, DraftFields
  <1>2. NewConfirmation \in ConfirmationRecords
    BY <1>1 DEF NewConfirmation, ConfirmationRecords
  <1>3. ASSUME NEW n \in 1..MaxRuns
        PROVE  /\ [confirmation EXCEPT !.scheduling = TRUE, !.run = n] \in ConfirmationRecords
               /\ [confirmation EXCEPT !.status = "completed", !.result = "run", !.run = n]
                     \in ConfirmationRecords
    <2>1. n \in 0..MaxRuns
      BY <1>3
    <2>2. QED
      BY <2>1 DEF ConfirmationRecords
  <1>4. QED
    BY <1>2, <1>3 DEF ConfirmationRecords

(* A run is committed for the package of the request, and a handoff is of  *)
(* the run its confirmation has.                                           *)
LEMMA RequestMovesRuns ==
  ASSUME GoalInv, NEW c \in Confirmers, RequestStep(c)
  PROVE  \/ goalRuns' = goalRuns
         \/ \E n \in FreeRun, status \in {"created", "awaiting_approval"} :
               /\ confirmer[c].pc = "validated"
               /\ PackageCurrent(confirmer[c].package)
               /\ confirmation.status = "composing"
               /\ goalRuns' = [goalRuns EXCEPT ![n] = [package |-> confirmer[c].package,
                                                       status  |-> status]]
         \/ \E status \in {"created", "scheduling"} :
               /\ confirmation.run \in 1..MaxRuns
               /\ goalRuns[confirmation.run].status # "none"
               /\ goalRuns' = [goalRuns EXCEPT ![confirmation.run] =
                                 [package |-> goalRuns[confirmation.run].package,
                                  status  |-> status]]
  <1> USE DEF confirmationVars
  <1>1. CASE StartConfirmation(c) \/ StartConfirmationThrows(c)
    BY <1>1 DEF StartConfirmation, StartConfirmationThrows
  <1>2. CASE RetryInvalid(c) \/ ReplayCompleted(c)
    BY <1>2 DEF RetryInvalid, ReplayCompleted
  <1>3. CASE BeginComposition(c) \/ CompleteInvalid(c)
    BY <1>3 DEF BeginComposition, CompleteInvalid
  <1>4. CASE \/ \E outcome \in {"validated", "invalid", "failing"} : Compose(c, outcome)
             \/ AnswerCompleted(c)
    BY <1>4 DEF Compose, AnswerCompleted
  <1>5. CASE CreateRunThrows(c) \/ FailConfirmation(c)
    BY <1>5 DEF CreateRunThrows, FailConfirmation
  <1>6. CASE \E approved \in BOOLEAN : CreateRun(c, approved)
    <2>1. PICK approved \in BOOLEAN : CreateRun(c, approved)
      BY <1>6
    <2>2. PICK n \in FreeRun : goalRuns' = [goalRuns EXCEPT ![n] =
                           [package |-> confirmer[c].package,
                            status |-> IF approved THEN "created" ELSE "awaiting_approval"]]
      BY <2>1 DEF CreateRun
    <2>3. PICK status \in {"created", "awaiting_approval"} :
             status = IF approved THEN "created" ELSE "awaiting_approval"
      OBVIOUS
    <2>4. PackageCurrent(confirmer[c].package) /\ confirmer[c].pc = "validated"
          /\ confirmation.status = "composing"
      BY <2>1 DEF CreateRun, MayMovePhase
    <2>5. QED
      BY <2>2, <2>3, <2>4
  <1>7. CASE \E started \in BOOLEAN : HandOff(c, started)
    <2>1. PICK started \in BOOLEAN : HandOff(c, started)
      BY <1>7
    <2>2. CASE confirmation.status = "composing" /\ confirmation.scheduling
      <3>1. PICK status \in {"created", "scheduling"} :
               goalRuns' = [goalRuns EXCEPT ![confirmation.run].status = status]
        BY <2>1, <2>2 DEF HandOff
      <3>2. PICK n \in 1..MaxRuns : n = confirmation.run /\ goalRuns[n].status # "none"
        BY <2>2 DEF GoalInv, ConfirmationInOrder
      <3>3. [goalRuns[n] EXCEPT !.status = status]
               = [package |-> goalRuns[n].package, status |-> status]
        BY TypeParts DEF GoalInv, ReviewInv, ConfirmationTyped, RunRecords
      <3>4. QED
        BY <3>1, <3>2, <3>3
    <2>3. CASE ~ (confirmation.status = "composing" /\ confirmation.scheduling)
      BY <2>1, <2>3 DEF HandOff
    <2>4. QED
      BY <2>2, <2>3
  <1>8. QED
    BY <1>1, <1>2, <1>3, <1>4, <1>5, <1>6, <1>7 DEF RequestStep, ConfirmationProgress

LEMMA RequestTypes ==
  ASSUME GoalInv, NEW c \in Confirmers, RequestStep(c)
  PROVE  DraftTyped' /\ RequestsTyped' /\ ConfirmationTyped'
  <1>0. /\ DraftTyped /\ RequestsTyped /\ ConfirmationTyped
        /\ DraftInOrder /\ ConfirmationInOrder
    BY TypeParts DEF GoalInv, ReviewInv
  <1>1. DraftTyped' /\ RequestsTyped'
    BY <1>0, RequestMovesDraft, DraftUpdates
       DEF DraftTyped, RequestsTyped, reviewVars, MovedPhases, Phases
  <1>2. confirmer' \in [Confirmers -> ConfirmerRecords]
    <2>1. \A pc \in WorkerPcs, package \in Packages \cup {NoPackage} :
             At(pc, package) \in ConfirmerRecords
      BY DEF At, WorkerPcs, ConfirmerRecords
    <2>2. /\ draft.package \in Packages \cup {NoPackage}
          /\ confirmer[c].package \in Packages \cup {NoPackage}
          /\ confirmer \in [Confirmers -> ConfirmerRecords]
      BY <1>0, DraftFields, ConfirmerFields DEF DraftTyped, ConfirmationTyped
    <2>3. \/ confirmer' = confirmer
          \/ \E pc \in WorkerPcs, package \in Packages \cup {NoPackage} :
                confirmer' = [confirmer EXCEPT ![c] = At(pc, package)]
      BY <1>0, <2>2, RequestMovesItself DEF WorkerPcs
    <2>4. QED
      BY <2>1, <2>2, <2>3
  <1>3. goalRuns' \in [1..MaxRuns -> RunRecords]
    <2>1. \A status \in {"created", "awaiting_approval", "scheduling"},
             package \in Packages \cup {NoPackage} :
                [package |-> package, status |-> status] \in RunRecords
      BY DEF RunRecords
    <2>2. /\ confirmer[c].package \in Packages \cup {NoPackage}
          /\ \A n \in 1..MaxRuns : goalRuns[n].package \in Packages \cup {NoPackage}
          /\ goalRuns \in [1..MaxRuns -> RunRecords]
      BY <1>0, ConfirmerFields DEF ConfirmationTyped, RunRecords
    <2>3. CASE goalRuns' = goalRuns
      BY <2>2, <2>3
    <2>4. CASE \E n \in FreeRun, status \in {"created", "awaiting_approval"} :
             goalRuns' = [goalRuns EXCEPT ![n] = [package |-> confirmer[c].package,
                                                  status  |-> status]]
      BY <2>1, <2>2, <2>4 DEF FreeRun
    <2>5. CASE \E status \in {"created", "scheduling"} :
               /\ confirmation.run \in 1..MaxRuns
               /\ goalRuns' = [goalRuns EXCEPT ![confirmation.run] =
                                 [package |-> goalRuns[confirmation.run].package,
                                  status  |-> status]]
      BY <2>1, <2>2, <2>5
    <2>6. QED
      BY <2>3, <2>4, <2>5, RequestMovesRuns
  <1>4. confirmation' \in ConfirmationRecords /\ active' \in BOOLEAN
    <2> USE <1>0, ConfirmationUpdates DEF DraftTyped, ConfirmationTyped, confirmationVars
    <2>1. CASE StartConfirmation(c) \/ StartConfirmationThrows(c)
      BY <2>1 DEF StartConfirmation, StartConfirmationThrows
    <2>2. CASE RetryInvalid(c) \/ ReplayCompleted(c)
      BY <2>2 DEF RetryInvalid, ReplayCompleted
    <2>3. CASE BeginComposition(c) \/ CompleteInvalid(c)
      BY <2>3 DEF BeginComposition, CompleteInvalid, Complete
    <2>4. CASE \/ \E outcome \in {"validated", "invalid", "failing"} : Compose(c, outcome)
               \/ AnswerCompleted(c)
      BY <2>4 DEF Compose, AnswerCompleted
    <2>5. CASE CreateRunThrows(c) \/ FailConfirmation(c)
      BY <2>5 DEF CreateRunThrows, FailConfirmation
    <2>6. CASE \E approved \in BOOLEAN : CreateRun(c, approved)
      BY <2>6 DEF CreateRun, FreeRun
    <2>7. CASE \E started \in BOOLEAN : HandOff(c, started)
      BY <2>7 DEF HandOff, Complete
    <2>8. QED
      BY <2>1, <2>2, <2>3, <2>4, <2>5, <2>6, <2>7 DEF RequestStep, ConfirmationProgress
  <1>5. QED
    BY <1>1, <1>2, <1>3, <1>4 DEF ConfirmationTyped

LEMMA NextTypeParts ==
  /\ DraftTyped' /\ ConfirmationTyped' /\ RequestsTyped'
  /\ goalCrashes' \in 0..MaxGoalCrashes
  /\ takenOver' \in BOOLEAN
  => GoalTypeOK'
  BY DEF GoalTypeOK, GoalDraftTypeOK, GoalReviewTypeOK, GoalConfirmationTypeOK, DraftTyped,
     ConfirmationTyped, RequestsTyped, DraftRecords, RequestRecords, ConfirmationRecords,
     RunRecords, ConfirmerRecords, ImportStatus

(* What a crash leaves of a goal is of the right form. *)
LEMMA CrashTypes ==
  ASSUME GoalTypeOK, CrashGoal
  PROVE  GoalTypeOK'
  <1>1. DraftTyped /\ ConfirmationTyped
    BY TypeParts
  <1>2. DraftTyped' /\ RequestsTyped'
    BY <1>1, RequestUpdates DEF CrashGoal, DraftTyped, RequestsTyped, draftVars
  <1>3. IdleConfirmer \in ConfirmerRecords
    BY DEF IdleConfirmer, ConfirmerRecords
  <1>4. ConfirmationTyped'
    BY <1>1, <1>3 DEF CrashGoal, ConfirmationTyped
  <1>5. goalCrashes' \in 0..MaxGoalCrashes /\ takenOver' \in BOOLEAN
    BY TypeParts, GoalCrashBound DEF CrashGoal
  <1>6. QED
    BY <1>2, <1>4, <1>5, NextTypeParts

LEMMA GoalTypes ==
  ASSUME GoalInv, [GoalNext]_goalVars
  PROVE  GoalTypeOK'
  <1> USE DEF GoalInv
  <1>1. CASE ReviewStep /\ UNCHANGED <<confirmer, goalCrashes, takenOver>>
    BY <1>1, ReviewTypes, TypeParts, NextTypeParts DEF ReviewInv, ConfirmationTyped
  <1>2. CASE ConfirmationStep /\ UNCHANGED goalCrashes /\ TakeOver
    <2>1. PICK c \in Confirmers : RequestStep(c)
      BY <1>2 DEF ConfirmationStep, RequestStep
    <2>2. takenOver' \in BOOLEAN
      BY <1>2, TypeParts, NextTypeParts DEF TakeOver, ReviewInv
    <2>3. QED
      BY <1>2, <2>1, <2>2, RequestTypes, TypeParts, NextTypeParts DEF ReviewInv
  <1>3. CASE CrashGoal
    BY <1>3, CrashTypes DEF ReviewInv
  <1>4. CASE UNCHANGED goalVars
    BY <1>4, TypeParts, NextTypeParts DEF ReviewInv, goalVars, draftVars, confirmationVars, reviewVars,
       DraftTyped, ConfirmationTyped, RequestsTyped
  <1>5. QED
    BY <1>1, <1>2, <1>3, <1>4 DEF GoalNext

-----------------------------------------------------------------------------
(* What is under review fits together. *)

LEMMA DraftStaysInOrder ==
  ASSUME ReviewInv, ReviewStep
  PROVE  DraftInOrder'
  <1>0. DraftTyped /\ RequestsTyped /\ DraftInOrder /\ LinkInOrder
    BY TypeParts DEF ReviewInv
  <1>1. draft \in DraftRecords /\ packageRevisions \in [1..MaxRevisions -> Packages \cup {NoPackage}]
    BY <1>0 DEF DraftTyped
  <1>2. CASE UNCHANGED <<draft, packageRevisions>>
    BY <1>0, <1>2 DEF DraftInOrder, PackageOfDraft, ReadyForReview
  <1>3. CASE ReviseGoalRequirement
    BY <1>3 DEF ReviseGoalRequirement, DraftInOrder, PackageOfDraft, ReadyForReview
  <1>4. CASE ConfirmGoalRequirements
    <2>1. draft.resolution = NoResolution /\ draft.package = NoPackage /\ draft.req # 0
      BY <1>0, <1>1, <1>4, DraftFields, GoalBounds
         DEF ConfirmGoalRequirements, DraftInOrder, ReadyForReview, Requirements
    <2>2. /\ draft'.phase = "validation_resolving" /\ draft'.contract = draft.req
          /\ draft'.req = draft.req /\ draft'.resolution = NoResolution
          /\ draft'.package = NoPackage
      BY <1>1, <1>4, <2>1 DEF ConfirmGoalRequirements, DraftRecords
    <2>3. QED
      BY <2>1, <2>2 DEF DraftInOrder, PackageOfDraft, ReadyForReview
  <1>5. CASE \E ready \in BOOLEAN : PersistResolution(ready)
    <2>1. PICK ready \in BOOLEAN : PersistResolution(ready)
      BY <1>5
    <2>2. /\ draft.contract # 0 /\ draft.contract = draft.req
          /\ resolver.resolution \in Resolutions
          /\ resolver.resolution.req = draft.req
          /\ draft.package = NoPackage
      BY <1>0, <2>1 DEF PersistResolution, ResolutionPersistable, ValidationPhases,
         DraftInOrder, LinkInOrder, ReadyForReview
    <2>3. /\ draft'.req = draft.req /\ draft'.contract = draft.contract
          /\ draft'.phase \in {"validation_ready", "library_review"}
          /\ draft'.resolution.req = resolver.resolution.req
          /\ draft'.package = draft.package
      BY <1>1, <2>1, <2>2 DEF PersistResolution, DraftRecords, Resolutions
    <2>4. QED
      BY <2>2, <2>3 DEF DraftInOrder, PackageOfDraft, ReadyForReview
  <1>6. CASE AttachImport
    <2>1. /\ draft'.req = draft.req /\ draft'.contract = draft.contract
          /\ draft'.phase = draft.phase /\ draft'.resolution = draft.resolution
          /\ draft'.package = draft.package /\ packageRevisions' = packageRevisions
      BY <1>1, <1>6 DEF AttachImport, DraftRecords
    <2>2. QED
      BY <1>0, <2>1 DEF DraftInOrder, PackageOfDraft, ReadyForReview
  <1>7. CASE PersistSlices
    <2>1. /\ draft.phase = "validation_ready" /\ draft.resolution = designer.resolution
          /\ draft.resolution.ready
      BY <1>7 DEF PersistSlices, SlicesDesignable
    <2>2. draft.resolution \in Resolutions
      BY <1>1, <2>1, Nothing, DraftFields
    <2>3. draft.resolution.req = draft.req /\ draft.contract = draft.req /\ draft.contract # 0
      BY <1>0, <2>1, <2>2, Nothing DEF DraftInOrder
    <2> DEFINE package == DesignedPackage(draft.resolution)
    <2>4. /\ package \in Packages /\ package.req = draft.req
          /\ package.library = draft.resolution.library /\ package.revision = 1
      BY <2>2, <2>3, GoalBounds DEF DesignedPackage, Packages, Resolutions
    <2> HIDE DEF package
    <2>5. /\ draft' = [draft EXCEPT !.phase = "slice_review", !.package = package]
          /\ packageRevisions' = [packageRevisions EXCEPT ![package.revision] = package]
      BY <1>7, <2>1 DEF PersistSlices, StoreRevision, package
    <2>6. /\ draft'.req = draft.req /\ draft'.contract = draft.contract
          /\ draft'.phase = "slice_review" /\ draft'.resolution = draft.resolution
          /\ draft'.package = package
      BY <1>1, <2>5 DEF DraftRecords
    <2>7. packageRevisions'[package.revision] = package
      BY <1>1, <2>4, <2>5, GoalBounds
    <2>8. QED
      BY <2>1, <2>2, <2>3, <2>4, <2>6, <2>7, Nothing DEF DraftInOrder, PackageOfDraft, ReadyForReview
  <1>8. CASE ReviseGoalDesign
    <2> DEFINE next == [draft.package EXCEPT !.revision = @ + 1]
    <2>1. /\ ReadyForReview /\ draft.package \in Packages /\ PackageOfDraft
          /\ draft.package.revision + 1 \in 1..MaxRevisions
      <3>1. ReadyForReview /\ draft.package # NoPackage /\ PackageOfDraft
        BY <1>0, <1>8 DEF ReviseGoalDesign, DraftInOrder
      <3>2. draft.package \in Packages
        BY <1>1, <3>1, DraftFields
      <3>3. QED
        BY <1>8, <3>1, <3>2, GoalBounds DEF ReviseGoalDesign, Packages
    <2>2. /\ next \in Packages /\ next.req = draft.package.req
          /\ next.library = draft.package.library
          /\ next.revision \in 1..MaxRevisions
      BY <2>1 DEF Packages
    <2>3. /\ draft' = [draft EXCEPT !.phase = "slice_review", !.package = next]
          /\ packageRevisions' = [packageRevisions EXCEPT ![next.revision] = next]
      BY <1>8 DEF ReviseGoalDesign, StoreRevision
    <2> HIDE DEF next
    <2>4. /\ draft'.req = draft.req /\ draft'.contract = draft.contract
          /\ draft'.phase = "slice_review" /\ draft'.resolution = draft.resolution
          /\ draft'.package = next
      BY <1>1, <2>3 DEF DraftRecords
    <2>5. packageRevisions'[next.revision] = next
      BY <1>1, <2>2, <2>3
    <2>6. QED
      BY <1>0, <2>1, <2>2, <2>4, <2>5, Nothing DEF DraftInOrder, PackageOfDraft, ReadyForReview
  <1>9. QED
    BY <1>2, <1>3, <1>4, <1>5, <1>6, <1>7, <1>8 DEF ReviewStep, BeginResolution, BeginResume,
       ResolutionRejected, RequestFails, CreateImport, InstallImport, BeginSliceDesign,
       SlicesRejected, draftVars

LEMMA LinkStaysInOrder ==
  ASSUME ReviewInv, ReviewStep
  PROVE  LinkInOrder'
  <1>0. DraftTyped /\ RequestsTyped /\ DraftInOrder /\ LinkInOrder
    BY TypeParts DEF ReviewInv
  <1>1. /\ draft \in DraftRecords /\ resolver \in RequestRecords
        /\ imports \in [Resolutions -> ImportStatus]
    BY <1>0 DEF DraftTyped, RequestsTyped
  <1>2. Idle.pc = "idle"
    BY DEF Idle
  <1>3. CASE UNCHANGED <<draft, imports>> /\ (resolver' = resolver \/ resolver' = Idle)
    BY <1>0, <1>2, <1>3 DEF LinkInOrder
  <1>4. CASE ReviseGoalRequirement
    <2>1. draft'.req = draft.req + 1 /\ draft'.linked = FALSE /\ resolver' = resolver
      BY <1>4 DEF ReviseGoalRequirement, reviewVars
    <2>2. draft.req \in Nat /\ resolver.contract \in Nat
      BY <1>1, DraftFields, RequestFields, GoalBounds DEF Requirements
    <2>3. QED
      BY <1>0, <2>1, <2>2 DEF LinkInOrder
  <1>5. CASE ConfirmGoalRequirements
    <2>1. /\ draft'.req = draft.req /\ draft'.linked = draft.linked
          /\ draft.phase = "requirements_review"
          /\ UNCHANGED <<resolver, imports>>
      BY <1>1, <1>5 DEF ConfirmGoalRequirements, DraftRecords, reviewVars
    <2>2. QED
      BY <1>0, <2>1 DEF LinkInOrder
  <1>6. CASE BeginResolution \/ \E origin \in Resolutions : BeginResume(origin)
    <2>1. PICK pc \in {"resolving", "resuming"} :
             resolver' = [pc |-> pc, contract |-> draft.contract,
                          resolution |-> [req |-> draft.contract, library |-> library,
                                          ready |-> FALSE]]
      BY <1>6 DEF BeginResolution, BeginResume
    <2>2. draft.contract # 0 /\ draft.contract = draft.req /\ draft.req \in Requirements
      BY <1>0, <1>1, <1>6, DraftFields DEF BeginResolution, BeginResume, ValidationPhases, DraftInOrder
    <2>3. UNCHANGED <<draft, imports>> /\ library \in 1..MaxLibrary /\ draft.req <= draft.req
      BY <1>0, <1>6, <2>2, GoalBounds
         DEF BeginResolution, BeginResume, draftVars, DraftTyped, Requirements
    <2>4. /\ resolver'.resolution \in Resolutions /\ ~ resolver'.resolution.ready
          /\ resolver'.resolution.req = resolver'.contract /\ resolver'.contract = draft.req
          /\ resolver'.pc # "attaching"
      BY <2>1, <2>2, <2>3 DEF Resolutions
    <2>5. QED
      BY <1>0, <2>3, <2>4 DEF LinkInOrder
  <1>7. CASE \E ready \in BOOLEAN : PersistResolution(ready)
    <2>1. PICK ready \in BOOLEAN : PersistResolution(ready)
      BY <1>7
    <2> DEFINE resolution == [resolver.resolution EXCEPT !.ready = ready]
    <2>2. resolver.pc # "idle" /\ UNCHANGED imports /\ resolution.ready = ready
      BY <1>0, <2>1 DEF PersistResolution, LinkInOrder, Resolutions
    <2>3. /\ draft'.phase = IF ready THEN "validation_ready" ELSE "library_review"
          /\ draft'.resolution = resolution
          /\ draft'.linked = KeepsLink(resolution)
          /\ draft'.req = draft.req
      BY <1>1, <2>1 DEF PersistResolution, DraftRecords
    <2>4. draft'.linked => draft.linked /\ draft.resolution = resolution
      BY <2>3 DEF KeepsLink
    <2>5. \/ resolver' = Idle
          \/ /\ resolver'.pc = "importing" /\ resolver'.contract = resolver.contract
             /\ resolver'.resolution = resolver.resolution
      BY <1>1, <2>1 DEF PersistResolution, RequestRecords
    <2> HIDE DEF resolution
    <2>6. draft'.linked => /\ draft'.phase = "library_review"
                           /\ draft'.resolution # NoResolution
                           /\ ~ draft'.resolution.ready
                           /\ imports'[draft'.resolution] \in {"draft", "installed"}
      BY <1>0, <2>2, <2>3, <2>4 DEF LinkInOrder
    <2>7. QED
      BY <1>0, <1>2, <2>2, <2>3, <2>5, <2>6 DEF LinkInOrder
  <1>8. CASE CreateImport
    <2>1. /\ resolver'.pc = "attaching" /\ resolver'.contract = resolver.contract
          /\ resolver'.resolution = resolver.resolution /\ resolver.pc # "idle"
      BY <1>1, <1>8 DEF CreateImport, RequestRecords
    <2>2. /\ draft' = draft
          /\ imports' = [imports EXCEPT ![resolver.resolution] = "draft"]
          /\ resolver.resolution \in Resolutions
      BY <1>0, <1>8 DEF CreateImport, LinkInOrder
    <2>3. /\ imports'[resolver.resolution] = "draft"
          /\ \A r \in Resolutions : imports[r] \in {"draft", "installed"}
                => imports'[r] \in {"draft", "installed"}
      BY <1>1, <2>2
    <2>4. draft.linked => draft.resolution \in Resolutions
      BY <1>0, <1>1, DraftFields DEF LinkInOrder
    <2>5. QED
      BY <1>0, <2>1, <2>2, <2>3, <2>4 DEF LinkInOrder
  <1>9. CASE AttachImport
    <2> DEFINE current == /\ draft.contract = resolver.contract
                          /\ draft.phase = "library_review"
                          /\ draft.resolution = resolver.resolution
    <2>1. /\ resolver.pc = "attaching" /\ resolver' = Idle
          /\ resolver.resolution \in Resolutions /\ ~ resolver.resolution.ready
          /\ resolver.resolution.req = resolver.contract
      BY <1>0, <1>9 DEF AttachImport, LinkInOrder
    <2>2. CASE current
      <3>1. /\ draft'.linked = TRUE /\ draft'.phase = draft.phase /\ UNCHANGED imports
            /\ draft'.resolution = draft.resolution /\ draft'.req = draft.req
        BY <1>1, <1>9, <2>2 DEF AttachImport, DraftRecords
      <3>2. draft.contract = draft.req
        BY <1>0, <2>1, <2>2, Nothing DEF DraftInOrder
      <3>3. imports[draft.resolution] \in {"draft", "installed"}
        BY <1>0, <2>1, <2>2, <3>2 DEF LinkInOrder
      <3>4. QED
        BY <1>2, <2>1, <2>2, <3>1, <3>3, Nothing DEF LinkInOrder
    <2>3. CASE ~ current
      <3>1. /\ draft' = draft
            /\ \A r \in Resolutions : r # resolver.resolution => imports'[r] = imports[r]
        BY <1>1, <1>9, <2>3 DEF AttachImport
      <3>2. draft.linked => /\ draft.resolution \in Resolutions
                            /\ draft.resolution # resolver.resolution
        BY <1>0, <1>1, <2>1, <2>3, DraftFields DEF LinkInOrder, DraftInOrder
      <3>3. QED
        BY <1>0, <1>2, <2>1, <3>1, <3>2 DEF LinkInOrder
    <2>4. QED
      BY <2>2, <2>3
  <1>10. CASE \E origin \in Resolutions : InstallImport(origin)
    <2>1. PICK origin \in Resolutions : InstallImport(origin)
      BY <1>10
    <2>2. UNCHANGED <<draft, resolver>>
      BY <2>1 DEF InstallImport, reviewVars
    <2>3. \A r \in Resolutions : imports[r] \in {"draft", "installed"}
             => imports'[r] \in {"draft", "installed"}
      BY <1>1, <2>1 DEF InstallImport
    <2>4. draft.linked => draft.resolution \in Resolutions
      BY <1>0, <1>1, DraftFields DEF LinkInOrder
    <2>5. QED
      BY <1>0, <2>2, <2>3, <2>4 DEF LinkInOrder
  <1>11. CASE PersistSlices \/ ReviseGoalDesign
    <2>1. /\ ~ (draft.phase = "library_review") /\ UNCHANGED <<imports, resolver>>
      BY <1>11 DEF PersistSlices, SlicesDesignable, ReviseGoalDesign, ReadyForReview, reviewVars
    <2>2. draft'.linked = draft.linked /\ draft'.req = draft.req
      BY <1>1, <1>11 DEF PersistSlices, ReviseGoalDesign, DraftRecords
    <2>3. QED
      BY <1>0, <2>1, <2>2 DEF LinkInOrder
  <1>12. QED
    <2>1. ASSUME \/ ResolutionRejected \/ RequestFails \/ BeginSliceDesign \/ SlicesRejected
          PROVE  UNCHANGED <<draft, imports>> /\ (resolver' = resolver \/ resolver' = Idle)
      BY <2>1 DEF ResolutionRejected, RequestFails, BeginSliceDesign, SlicesRejected, draftVars
    <2>2. QED
      BY <2>1, <1>3, <1>4, <1>5, <1>6, <1>7, <1>8, <1>9, <1>10, <1>11 DEF ReviewStep

(* A request that confirms a package leaves its validation alone. *)
LEMMA RequestKeepsReview ==
  ASSUME ReviewInv, NEW c \in Confirmers, RequestStep(c)
  PROVE  DraftInOrder' /\ LinkInOrder'
  <1>0. draft \in DraftRecords /\ DraftInOrder /\ LinkInOrder
    BY TypeParts DEF ReviewInv, DraftTyped
  <1>1. UNCHANGED <<packageRevisions, imports, resolver>>
    BY RequestMovesDraft DEF reviewVars
  <1>2. CASE draft' = draft
    BY <1>0, <1>1, <1>2 DEF DraftInOrder, PackageOfDraft, ReadyForReview, LinkInOrder
  <1>3. CASE /\ ReadyForReview
             /\ \E phase \in MovedPhases : draft' = [draft EXCEPT !.phase = phase]
    <2>1. PICK phase \in MovedPhases : draft' = [draft EXCEPT !.phase = phase]
      BY <1>3
    <2>2. /\ draft'.phase = phase /\ draft'.req = draft.req
          /\ draft'.contract = draft.contract /\ draft'.resolution = draft.resolution
          /\ draft'.package = draft.package /\ draft'.linked = draft.linked
      BY <1>0, <2>1 DEF DraftRecords
    <2>3. ~ draft.linked /\ draft.phase # "requirements_review"
      BY <1>0, <1>3 DEF LinkInOrder, ReadyForReview
    <2>4. ReadyForReview' /\ phase # "requirements_review"
      BY <2>2 DEF MovedPhases, ReadyForReview
    <2>5. DraftInOrder'
      BY <1>0, <1>1, <1>3, <2>2, <2>3, <2>4 DEF DraftInOrder, PackageOfDraft
    <2>6. LinkInOrder'
      BY <1>0, <1>1, <2>2, <2>3 DEF LinkInOrder
    <2>7. QED
      BY <2>5, <2>6
  <1>4. QED
    BY <1>2, <1>3, RequestMovesDraft

LEMMA ReviewInductive ==
  ASSUME GoalInv, [GoalNext]_goalVars
  PROVE  ReviewInv'
  <1>0. GoalTypeOK' /\ ReviewInv /\ DraftInOrder /\ LinkInOrder
    BY GoalTypes DEF GoalInv, ReviewInv
  <1>1. CASE ReviewStep
    BY <1>0, <1>1, DraftStaysInOrder, LinkStaysInOrder DEF ReviewInv
  <1>2. CASE ConfirmationStep
    <2>1. PICK c \in Confirmers : RequestStep(c)
      BY <1>2 DEF ConfirmationStep, RequestStep
    <2>2. QED
      BY <1>0, <2>1, RequestKeepsReview DEF ReviewInv
  <1>3. CASE CrashGoal \/ UNCHANGED goalVars
    <2>1. UNCHANGED <<draft, packageRevisions, imports>> /\ (resolver' = resolver \/ resolver' = Idle)
      BY <1>3 DEF CrashGoal, goalVars, draftVars, reviewVars
    <2>2. QED
      BY <1>0, <2>1 DEF ReviewInv, DraftInOrder, PackageOfDraft, ReadyForReview, LinkInOrder, Idle
  <1>4. QED
    BY <1>1, <1>2, <1>3 DEF GoalNext

-----------------------------------------------------------------------------
(* Packages are superseded in one direction. *)

(* How a review moves the package: not at all, or the requirements are     *)
(* revised, or there is a new one that no earlier one is.                  *)
SamePackage ==
    /\ draft'.req = draft.req /\ draft'.package = draft.package
    /\ confirmation' = confirmation
    /\ draft'.phase = draft.phase \/ (~ ReadyForReview /\ ~ ReadyForReview')

NoMorePackage ==
    /\ draft'.req = draft.req + 1 /\ draft'.package = NoPackage
    /\ MarkConfirmationStale
    /\ draft.phase # "composing" /\ draft'.phase = "requirements_review"

NextPackage ==
    /\ draft'.package \in Packages /\ draft'.package.req = draft.req /\ draft'.req = draft.req
    /\ draft.package # NoPackage =>
          /\ draft.package \in Packages
          /\ draft'.package.revision = draft.package.revision + 1
    /\ IF PackageCurrent(confirmation.package) THEN MarkConfirmationStale
       ELSE confirmation' = confirmation
    /\ draft.phase \notin {"composing", "dag_validated"} /\ draft'.phase = "slice_review"

LEMMA ReviewMoves ==
  ASSUME ReviewInv, ReviewStep
  PROVE  SamePackage \/ NoMorePackage \/ NextPackage
  <1>0. DraftTyped /\ RequestsTyped /\ DraftInOrder /\ LinkInOrder
    BY TypeParts DEF ReviewInv
  <1>1. draft \in DraftRecords
    BY <1>0 DEF DraftTyped
  <1>2. CASE ReviseGoalRequirement
    <2>1. NoMorePackage
      BY <1>2 DEF ReviseGoalRequirement, NoMorePackage
    <2>2. QED
      BY <2>1
  <1>3. CASE ConfirmGoalRequirements
    <2>1. SamePackage
      BY <1>1, <1>3 DEF ConfirmGoalRequirements, SamePackage, DraftRecords, ReadyForReview,
         confirmationVars
    <2>2. QED
      BY <2>1
  <1>4. CASE \E ready \in BOOLEAN : PersistResolution(ready)
    <2>1. /\ draft'.req = draft.req /\ draft'.package = draft.package
          /\ confirmation' = confirmation
          /\ draft.phase \in ValidationPhases
          /\ draft'.phase \in {"validation_ready", "library_review"}
      BY <1>1, <1>4
         DEF PersistResolution, ResolutionPersistable, DraftRecords, confirmationVars
    <2>2. SamePackage
      BY <2>1 DEF SamePackage, ReadyForReview, ValidationPhases
    <2>3. QED
      BY <2>2
  <1>5. CASE AttachImport
    <2>1. /\ draft'.req = draft.req /\ draft'.package = draft.package
          /\ confirmation' = confirmation /\ draft'.phase = draft.phase
      BY <1>1, <1>5 DEF AttachImport, DraftRecords, confirmationVars
    <2>2. QED
      BY <2>1 DEF SamePackage
  <1>6. CASE PersistSlices
    <2>1. /\ draft.phase = "validation_ready" /\ draft.resolution = designer.resolution
          /\ draft.resolution.ready
      BY <1>6 DEF PersistSlices, SlicesDesignable
    <2>2. draft.resolution \in Resolutions /\ draft.package = NoPackage
      BY <1>0, <1>1, <2>1, Nothing, DraftFields DEF DraftInOrder, ReadyForReview
    <2>3. draft.resolution.req = draft.req
      BY <1>0, <2>2, Nothing DEF DraftInOrder
    <2> DEFINE package == DesignedPackage(draft.resolution)
    <2>4. package \in Packages /\ package.req = draft.req
      BY <2>2, <2>3, GoalBounds DEF DesignedPackage, Packages, Resolutions
    <2> HIDE DEF package
    <2>5. /\ draft' = [draft EXCEPT !.phase = "slice_review", !.package = package]
          /\ confirmation' = confirmation
      BY <1>6, <2>1 DEF PersistSlices, package, confirmationVars
    <2>6. draft'.req = draft.req /\ draft'.phase = "slice_review" /\ draft'.package = package
      BY <1>1, <2>5 DEF DraftRecords
    <2>7. ~ PackageCurrent(confirmation.package)
      BY <2>2 DEF PackageCurrent
    <2>8. NextPackage
      BY <2>1, <2>2, <2>4, <2>5, <2>6, <2>7 DEF NextPackage
    <2>9. QED
      BY <2>8
  <1>7. CASE ReviseGoalDesign
    <2> DEFINE next == [draft.package EXCEPT !.revision = @ + 1]
    <2>1. /\ draft.package \in Packages /\ draft.package # NoPackage
          /\ draft.package.req = draft.req
      BY <1>0, <1>1, <1>7, DraftFields DEF ReviseGoalDesign, DraftInOrder, PackageOfDraft
    <2>2. /\ next \in Packages /\ next.req = draft.req
          /\ next.revision = draft.package.revision + 1
      <3>1. draft.package.revision + 1 \in 1..MaxRevisions
        BY <1>7, <2>1, GoalBounds DEF ReviseGoalDesign, Packages
      <3>2. QED
        BY <2>1, <3>1 DEF Packages
    <2>3. /\ draft' = [draft EXCEPT !.phase = "slice_review", !.package = next]
          /\ IF confirmation.package = draft.package THEN MarkConfirmationStale
             ELSE UNCHANGED confirmation
          /\ draft.phase \notin {"composing", "dag_validated"}
      BY <1>7 DEF ReviseGoalDesign
    <2> HIDE DEF next
    <2>4. draft'.req = draft.req /\ draft'.phase = "slice_review" /\ draft'.package = next
      BY <1>1, <2>3 DEF DraftRecords
    <2>5. NextPackage
      BY <2>1, <2>2, <2>3, <2>4 DEF NextPackage, PackageCurrent
    <2>6. QED
      BY <2>5
  <1>8. ASSUME UNCHANGED <<draft, confirmation>>
        PROVE  SamePackage
    BY <1>8 DEF SamePackage
  <1>9. QED
    BY <1>2, <1>3, <1>4, <1>5, <1>6, <1>7, <1>8 DEF ReviewStep, BeginResolution, BeginResume,
       ResolutionRejected, RequestFails, CreateImport, InstallImport, BeginSliceDesign,
       SlicesRejected, draftVars, confirmationVars

LEMMA PackageNumbers ==
  \A package \in Packages : package.req \in Nat /\ package.revision \in Nat
  BY GoalBounds DEF Packages, Requirements

LEMMA PastStays ==
  ASSUME ReviewInv, SamePackage \/ NoMorePackage \/ NextPackage,
         NEW package, Past(draft, package)
  PROVE  Past(draft', package)
  <1>0. draft.req \in Nat
    BY TypeParts, DraftFields, GoalBounds DEF ReviewInv, DraftTyped, Requirements
  <1>1. package \in Packages /\ package.req \in Nat /\ package.revision \in Nat
    BY PackageNumbers DEF Past
  <1>2. CASE SamePackage
    BY <1>2 DEF SamePackage, Past
  <1>3. CASE NoMorePackage
    <2>1. package.req <= draft.req
      BY <1>0, <1>1 DEF Past
    <2>2. QED
      BY <1>0, <1>1, <1>3, <2>1 DEF NoMorePackage, Past
  <1>4. CASE NextPackage
    <2>1. CASE package.req < draft.req
      BY <1>1, <1>4, <2>1 DEF NextPackage, Past
    <2>2. CASE ~ (package.req < draft.req)
      <3>1. /\ package.req = draft.req /\ draft.package # NoPackage
            /\ package.revision <= draft.package.revision
        BY <2>2 DEF Past
      <3>2. draft.package.revision \in Nat /\ draft'.package.revision = draft.package.revision + 1
            /\ draft'.package \in Packages /\ draft'.req = draft.req
        BY <1>4, <3>1, PackageNumbers DEF NextPackage
      <3>3. QED
        BY <1>1, <3>1, <3>2, Nothing DEF Past
    <2>3. QED
      BY <2>1, <2>2
  <1>5. QED
    BY <1>2, <1>3, <1>4

LEMMA NextPackageIsFresh ==
  ASSUME ReviewInv, NextPackage
  PROVE  ~ Past(draft, draft'.package)
  BY PackageNumbers, TypeParts, DraftFields, GoalBounds
     DEF NextPackage, Past, ReviewInv, DraftTyped, Requirements

LEMMA CurrentIsPast ==
  ASSUME ReviewInv, ReadyForReview
  PROVE  Past(draft, draft.package) /\ PackageCurrent(draft.package)
  <1>1. draft.package \in Packages \cup {NoPackage} /\ draft.package # NoPackage
    BY TypeParts, DraftFields DEF ReviewInv, DraftTyped, DraftInOrder
  <1>2. draft.package.req = draft.req /\ draft.package.revision \in Nat
    BY <1>1, PackageNumbers DEF ReviewInv, DraftInOrder, PackageOfDraft
  <1>3. QED
    BY <1>1, <1>2 DEF Past, PackageCurrent

(* A package that is current with a request at work on it. *)
LEMMA WorkIsOnTheConfirmation ==
  ASSUME GoalInv, NEW c \in Confirmers, confirmer[c].pc \in WorkPcs,
         PackageCurrent(confirmer[c].package)
  PROVE  ~ Over /\ confirmation.package = draft.package
  BY DEF GoalInv, ConfirmationInOrder, Working, PackageCurrent

LEMMA RequestMovesConfirmation ==
  ASSUME GoalInv, NEW c \in Confirmers, RequestStep(c)
  PROVE  \/ confirmation' = confirmation
         \/ ReadyForReview /\ confirmation' = NewConfirmation
         \/ /\ ~ Over /\ ~ Over'
            /\ confirmation'.package = confirmation.package
            /\ \/ confirmation'.scheduling =>
                     confirmation.scheduling /\ confirmation'.run = confirmation.run
               \/ /\ confirmation'.run \in 1..MaxRuns
                  /\ goalRuns'[confirmation'.run].status # "none"
  <1>0. /\ confirmation \in ConfirmationRecords
        /\ goalRuns \in [1..MaxRuns -> RunRecords]
    BY TypeParts DEF GoalInv, ReviewInv, ConfirmationTyped
  <1> USE DEF Over
  <1>1. CASE StartConfirmation(c)
    <2>1. CASE confirmation' = NewConfirmation
      BY <1>1, <2>1 DEF StartConfirmation
    <2>2. CASE confirmation.status = "failed" /\ confirmation' =
                  [confirmation EXCEPT !.status = "composing", !.result = "none"]
      BY <1>0, <2>2 DEF ConfirmationRecords
    <2>3. QED
      BY <1>1, <2>1, <2>2 DEF StartConfirmation
  <1>2. CASE RetryInvalid(c)
    BY <1>0, <1>2 DEF RetryInvalid, ConfirmationRecords
  <1>3. CASE StartConfirmationThrows(c) \/ ReplayCompleted(c)
    BY <1>3 DEF StartConfirmationThrows, ReplayCompleted, confirmationVars
  <1>4. CASE \/ \E outcome \in {"validated", "invalid", "failing"} : Compose(c, outcome)
             \/ BeginComposition(c) \/ AnswerCompleted(c) \/ CreateRunThrows(c)
    BY <1>4 DEF BeginComposition, Compose, AnswerCompleted, CreateRunThrows, confirmationVars
  <1>5. CASE CompleteInvalid(c)
    <2>1. CASE MayMovePhase(confirmer[c].package, {"composing"}, "ready_to_compose")
      <3>1. ~ Over
        BY <1>5, <2>1, WorkIsOnTheConfirmation DEF CompleteInvalid, MayMovePhase, WorkPcs
      <3>2. confirmation' = [confirmation EXCEPT !.status = "completed", !.result = "invalid"]
        BY <1>5, <2>1 DEF CompleteInvalid, Complete
      <3>3. QED
        BY <1>0, <3>1, <3>2 DEF ConfirmationRecords
    <2>2. CASE ~ MayMovePhase(confirmer[c].package, {"composing"}, "ready_to_compose")
      BY <1>5, <2>2 DEF CompleteInvalid
    <2>3. QED
      BY <2>1, <2>2
  <1>6. CASE FailConfirmation(c)
    <2>1. CASE MayMovePhase(confirmer[c].package, FailurePhases, "ready_to_compose")
      <3>1. ~ Over
        BY <1>6, <2>1, WorkIsOnTheConfirmation DEF FailConfirmation, MayMovePhase, WorkPcs
      <3>2. confirmation' = [confirmation EXCEPT !.status = "failed", !.result = "none"]
        BY <1>6, <2>1 DEF FailConfirmation
      <3>3. QED
        BY <1>0, <3>1, <3>2 DEF ConfirmationRecords
    <2>2. CASE ~ MayMovePhase(confirmer[c].package, FailurePhases, "ready_to_compose")
      BY <1>6, <2>2 DEF FailConfirmation
    <2>3. QED
      BY <2>1, <2>2
  <1>7. CASE \E approved \in BOOLEAN : CreateRun(c, approved)
    <2>1. PICK approved \in BOOLEAN : CreateRun(c, approved)
      BY <1>7
    <2>2. confirmation.status = "composing"
      BY <2>1 DEF CreateRun
    <2>3. PICK n \in FreeRun, status \in {"created", "awaiting_approval"} :
             /\ goalRuns' = [goalRuns EXCEPT ![n] =
                               [package |-> confirmer[c].package, status |-> status]]
             /\ \/ confirmation' = [confirmation EXCEPT !.scheduling = TRUE, !.run = n]
                \/ confirmation' = [confirmation EXCEPT !.status = "completed",
                                                        !.result = "run", !.run = n]
      BY <2>1 DEF CreateRun
    <2>4. n \in 1..MaxRuns /\ goalRuns'[n].status # "none"
      BY <1>0, <2>3 DEF FreeRun
    <2>5. /\ confirmation'.run = n /\ confirmation'.package = confirmation.package
          /\ confirmation'.status \in {"composing", "completed"}
      BY <1>0, <2>2, <2>3 DEF ConfirmationRecords
    <2>6. QED
      BY <2>2, <2>4, <2>5
  <1>8. CASE \E started \in BOOLEAN : HandOff(c, started)
    <2>1. CASE confirmation.status = "composing" /\ confirmation.scheduling
      <3>1. confirmation' = [confirmation EXCEPT !.status = "completed", !.result = "run"]
        BY <1>8, <2>1 DEF HandOff, Complete
      <3>2. QED
        BY <1>0, <2>1, <3>1 DEF ConfirmationRecords
    <2>2. CASE ~ (confirmation.status = "composing" /\ confirmation.scheduling)
      BY <1>8, <2>2 DEF HandOff, confirmationVars
    <2>3. QED
      BY <2>1, <2>2
  <1>9. QED
    BY <1>1, <1>2, <1>3, <1>4, <1>5, <1>6, <1>7, <1>8 DEF RequestStep, ConfirmationProgress

LEMMA StaleOnlyChangesStatus ==
  ASSUME confirmation \in ConfirmationRecords, MarkConfirmationStale
  PROVE  /\ Over' /\ (confirmation'.status = "none" <=> confirmation.status = "none")
         /\ confirmation'.package = confirmation.package
         /\ confirmation'.scheduling = confirmation.scheduling
         /\ confirmation'.run = confirmation.run
         /\ confirmation'.result = confirmation.result
  BY DEF MarkConfirmationStale, ConfirmationRecords, Over

LEMMA RequestKeepsPackage ==
  ASSUME GoalInv, NEW c \in Confirmers, RequestStep(c)
  PROVE  /\ draft'.package = draft.package /\ draft'.req = draft.req
         /\ \A package : Past(draft', package) <=> Past(draft, package)
         /\ \A package : PackageCurrent(package)' <=> PackageCurrent(package)
  <1>1. draft \in DraftRecords
    BY TypeParts DEF GoalInv, ReviewInv, DraftTyped
  <1>2. draft'.package = draft.package /\ draft'.req = draft.req
    BY <1>1, RequestMovesDraft DEF DraftRecords
  <1>3. QED
    BY <1>2 DEF Past, PackageCurrent

LEMMA PastInductive ==
  ASSUME GoalInv, [GoalNext]_goalVars
  PROVE  PackagesArePast'
  <1>0. ReviewInv /\ PackagesArePast /\ ConfirmationTyped
    BY TypeParts DEF GoalInv, ReviewInv
  <1>1. CASE ReviewStep /\ UNCHANGED <<confirmer, goalCrashes, takenOver>>
    <2>1. SamePackage \/ NoMorePackage \/ NextPackage
      BY <1>0, <1>1, ReviewMoves
    <2>2. \A package : Past(draft, package) => Past(draft', package)
      BY <1>0, <2>1, PastStays
    <2>3. UNCHANGED <<confirmer, goalRuns>>
      BY <1>0, <1>1, ReviewTypes
    <2>4. \/ confirmation' = confirmation
          \/ MarkConfirmationStale
      BY <2>1 DEF SamePackage, NoMorePackage, NextPackage
    <2>5. /\ confirmation'.status = "none" <=> confirmation.status = "none"
          /\ confirmation'.package = confirmation.package
      BY <1>0, <2>4, StaleOnlyChangesStatus DEF ConfirmationTyped
    <2>6. QED
      BY <1>0, <2>2, <2>3, <2>5 DEF PackagesArePast
  <1>2. CASE ConfirmationStep /\ UNCHANGED goalCrashes /\ TakeOver
    <2>1. PICK c \in Confirmers : RequestStep(c)
      BY <1>2 DEF ConfirmationStep, RequestStep
    <2>2. \A package : Past(draft, package) => Past(draft', package)
      BY <2>1, RequestKeepsPackage
    <2>3. ReadyForReview => Past(draft', draft.package)
      BY <1>0, <2>1, <2>2, CurrentIsPast, RequestKeepsPackage
    <2>4. ASSUME NEW d \in Confirmers, confirmer'[d].pc # "idle"
          PROVE  Past(draft', confirmer'[d].package)
      <3>1. CASE confirmer'[d] = confirmer[d]
        BY <1>0, <2>2, <2>4, <3>1 DEF PackagesArePast
      <3>2. CASE confirmer'[d] # confirmer[d]
        <4>1. confirmer \in [Confirmers -> ConfirmerRecords]
          BY <1>0 DEF ConfirmationTyped
        <4>2. d = c /\ \A request : [confirmer EXCEPT ![c] = request][c] = request
          BY <1>0, <2>1, <3>2, <4>1, RequestMovesItself
        <4>3. confirmer' # [confirmer EXCEPT ![c] = At("idle", NoPackage)]
          BY <2>4, <4>2 DEF At
        <4>4. \/ \E pc \in WorkerPcs : ReadyForReview /\ confirmer'[d] = At(pc, draft.package)
              \/ \E pc \in WorkerPcs : /\ confirmer[d].pc # "idle"
                                       /\ confirmer'[d] = At(pc, confirmer[d].package)
          BY <1>0, <2>1, <3>2, <4>2, <4>3, RequestMovesItself
        <4>5. \/ ReadyForReview /\ confirmer'[d].package = draft.package
              \/ confirmer[d].pc # "idle" /\ confirmer'[d].package = confirmer[d].package
          BY <4>4, AtFields
        <4>6. QED
          BY <1>0, <2>2, <2>3, <4>5 DEF PackagesArePast
      <3>3. QED
        BY <3>1, <3>2
    <2>5. ASSUME NEW n \in 1..MaxRuns, goalRuns'[n].package # NoPackage
          PROVE  Past(draft', goalRuns'[n].package)
      <3>1. goalRuns \in [1..MaxRuns -> RunRecords]
        BY <1>0 DEF ConfirmationTyped
      <3>2. \/ goalRuns'[n].package = goalRuns[n].package
            \/ confirmer[c].pc # "idle" /\ goalRuns'[n].package = confirmer[c].package
        <4>1. CASE goalRuns' = goalRuns
          BY <4>1
        <4>2. CASE \E m \in FreeRun, status \in {"created", "awaiting_approval"} :
                 /\ confirmer[c].pc = "validated"
                 /\ goalRuns' = [goalRuns EXCEPT ![m] = [package |-> confirmer[c].package,
                                                        status  |-> status]]
          BY <3>1, <4>2 DEF FreeRun
        <4>3. CASE \E status \in {"created", "scheduling"} :
                 /\ confirmation.run \in 1..MaxRuns
                 /\ goalRuns' = [goalRuns EXCEPT ![confirmation.run] =
                                   [package |-> goalRuns[confirmation.run].package,
                                    status  |-> status]]
          BY <3>1, <4>3
        <4>4. QED
          BY <2>1, <4>1, <4>2, <4>3, RequestMovesRuns
      <3>3. QED
        BY <1>0, <2>2, <2>5, <3>2 DEF PackagesArePast
    <2>6. ASSUME confirmation'.status # "none"
          PROVE  Past(draft', confirmation'.package)
      <3>1. \/ confirmation' = confirmation
            \/ ReadyForReview /\ confirmation'.package = draft.package
            \/ confirmation.status # "none" /\ confirmation'.package = confirmation.package
        BY <2>1, RequestMovesConfirmation DEF NewConfirmation, Over
      <3>2. QED
        BY <1>0, <2>1, <2>2, <2>6, <3>1, CurrentIsPast, RequestKeepsPackage DEF PackagesArePast
    <2>7. QED
      BY <2>4, <2>5, <2>6 DEF PackagesArePast
  <1>3. CASE CrashGoal
    BY <1>0, <1>3 DEF CrashGoal, PackagesArePast, Past, IdleConfirmer, draftVars
  <1>4. CASE UNCHANGED goalVars
    BY <1>0, <1>4 DEF goalVars, draftVars, confirmationVars, PackagesArePast, Past
  <1>5. QED
    BY <1>1, <1>2, <1>3, <1>4 DEF GoalNext

(* A request at work after its step was at work before it, unless it has   *)
(* just begun.                                                             *)
LEMMA WorkBegins ==
  ASSUME GoalInv, NEW c \in Confirmers, RequestStep(c), NEW d \in Confirmers, Working(d)'
  PROVE  Working(d) \/ (d = c /\ (StartConfirmation(c) \/ RetryInvalid(c)))
  <1>1. confirmer \in [Confirmers -> ConfirmerRecords] /\ ConfirmationTyped
    BY TypeParts DEF GoalInv, ReviewInv, ConfirmationTyped
  <1>2. PackageCurrent(confirmer'[d].package)
    BY RequestKeepsPackage DEF Working, PackageCurrent
  <1>3. CASE confirmer'[d] = confirmer[d]
    BY <1>2, <1>3 DEF Working
  <1>4. CASE confirmer'[d] # confirmer[d]
    <2>1. d = c
      BY <1>1, <1>4, RequestMovesItself
    <2>2. confirmer[c].pc # "handoff" \/ confirmer'[c] = At("idle", NoPackage)
      <3>1. CASE confirmer[c].pc = "handoff"
        <4>1. \E started \in BOOLEAN : HandOff(c, started)
          BY <1>4, <2>1, <3>1 DEF RequestStep, ConfirmationProgress, StartConfirmation,
             StartConfirmationThrows, RetryInvalid, ReplayCompleted, BeginComposition, Compose,
             CompleteInvalid, AnswerCompleted, CreateRun, CreateRunThrows, FailConfirmation
        <4>2. Leave(c) /\ "idle" \in WorkerPcs
          BY <4>1 DEF HandOff, WorkerPcs
        <4>3. QED
          BY <1>1, <4>2, GotoMoves
      <3>2. QED
        BY <3>1
    <2>3. confirmer'[c].pc \in WorkPcs
      BY <2>1 DEF Working
    <2>4. CASE StartConfirmation(c) \/ RetryInvalid(c)
      BY <2>1, <2>4
    <2>5. CASE ReplayCompleted(c)
      BY <1>1, <2>1, <2>3, <2>5, <1>4 DEF ReplayCompleted, WorkPcs
    <2>6. CASE StartConfirmationThrows(c)
      BY <1>4, <2>1, <2>6 DEF StartConfirmationThrows
    <2>7. CASE ConfirmationProgress(c)
      <3>1. confirmer[c].pc # "idle"
        BY <2>7 DEF ConfirmationProgress, BeginComposition, Compose, CompleteInvalid,
           AnswerCompleted, CreateRun, CreateRunThrows, FailConfirmation, HandOff
      <3>2. confirmer'[c].package = confirmer[c].package
        BY <1>1, <1>4, <2>1, <2>3, <3>1, RequestMovesItself DEF At, WorkPcs
      <3>3. confirmer[c].pc \in WorkPcs
        BY <1>1, <2>2, <2>3, <3>1, ConfirmerFields DEF WorkerPcs, WorkPcs, At
      <3>4. QED
        BY <1>2, <2>1, <3>2, <3>3 DEF Working
    <2>8. QED
      BY <2>4, <2>5, <2>6, <2>7 DEF RequestStep
  <1>5. QED
    BY <1>3, <1>4

(* A new package has neither a request at work nor a confirmation. *)
LEMMA NextPackageEndsWork ==
  ASSUME GoalInv, NextPackage, UNCHANGED confirmer
  PROVE  Over' /\ \A c \in Confirmers : ~ Working(c)'
  <1>0. ReviewInv /\ PackagesArePast /\ ConfirmationInOrder /\ confirmation \in ConfirmationRecords
    BY TypeParts DEF GoalInv, ReviewInv, ConfirmationTyped
  <1>1. ASSUME NEW c \in Confirmers, Working(c)'
        PROVE  FALSE
    <2>1. confirmer[c].pc # "idle" /\ confirmer[c].package = draft'.package
      BY <1>1 DEF Working, WorkPcs, PackageCurrent
    <2>2. QED
      BY <1>0, <2>1, NextPackageIsFresh DEF PackagesArePast
  <1>2. CASE PackageCurrent(confirmation.package)
    BY <1>0, <1>1, <1>2, StaleOnlyChangesStatus DEF NextPackage
  <1>3. CASE ~ PackageCurrent(confirmation.package)
    BY <1>0, <1>1, <1>3 DEF NextPackage, ConfirmationInOrder, Over
  <1>4. QED
    BY <1>2, <1>3

LEMMA ConfirmationInductive ==
  ASSUME GoalInv, [GoalNext]_goalVars
  PROVE  ConfirmationInOrder'
  <1>0. /\ ReviewInv /\ PackagesArePast /\ ConfirmationInOrder /\ ConfirmationTyped
        /\ confirmation \in ConfirmationRecords
    BY TypeParts DEF GoalInv, ReviewInv, ConfirmationTyped
  <1>1. CASE ReviewStep /\ UNCHANGED <<confirmer, goalCrashes, takenOver>>
    <2>1. UNCHANGED <<confirmer, goalRuns>>
      BY <1>0, <1>1, ReviewTypes
    <2>2. CASE SamePackage
      BY <1>0, <2>1, <2>2 DEF SamePackage, ConfirmationInOrder, Over, Working, PackageCurrent
    <2>3. CASE NoMorePackage
      <3>1. \A package : ~ PackageCurrent(package)'
        BY <2>3 DEF NoMorePackage, PackageCurrent
      <3>2. QED
        BY <1>0, <2>1, <2>3, <3>1, StaleOnlyChangesStatus
           DEF NoMorePackage, ConfirmationInOrder, Working
    <2>4. CASE NextPackage
      <3>1. Over' /\ \A c \in Confirmers : ~ Working(c)'
        BY <1>1, <2>4, NextPackageEndsWork
      <3>2. /\ confirmation'.scheduling = confirmation.scheduling
            /\ confirmation'.run = confirmation.run
        BY <1>0, <2>4, StaleOnlyChangesStatus DEF NextPackage
      <3>3. QED
        BY <1>0, <2>1, <3>1, <3>2 DEF ConfirmationInOrder
    <2>5. QED
      BY <1>0, <1>1, <2>2, <2>3, <2>4, ReviewMoves
  <1>2. CASE ConfirmationStep /\ UNCHANGED goalCrashes /\ TakeOver
    <2>1. PICK c \in Confirmers : RequestStep(c)
      BY <1>2 DEF ConfirmationStep, RequestStep
    <2>2. ~ Over => ~ Over'
      BY <2>1, RequestMovesConfirmation DEF NewConfirmation, Over
    <2>3. ~ Over' => PackageCurrent(confirmation.package)'
      <3>1. \/ confirmation' = confirmation
            \/ ReadyForReview /\ confirmation'.package = draft.package
            \/ ~ Over /\ confirmation'.package = confirmation.package
        BY <2>1, RequestMovesConfirmation DEF NewConfirmation
      <3>2. PackageCurrent(confirmation'.package) => PackageCurrent(confirmation.package)'
        BY <2>1, RequestKeepsPackage DEF PackageCurrent
      <3>3. QED
        BY <1>0, <3>1, <3>2, CurrentIsPast DEF ConfirmationInOrder, Over
    <2>4. ASSUME NEW d \in Confirmers, Working(d)'
          PROVE  ~ Over'
      <3>1. CASE Working(d)
        BY <1>0, <2>2, <3>1 DEF ConfirmationInOrder
      <3>2. CASE StartConfirmation(c)
        <4>1. \/ confirmation' = NewConfirmation
              \/ confirmation' = [confirmation EXCEPT !.status = "composing", !.result = "none"]
          BY <3>2 DEF StartConfirmation
        <4>2. confirmation'.status = "composing"
          <5>1. NewConfirmation.status = "composing"
            BY DEF NewConfirmation
          <5>2. [confirmation EXCEPT !.status = "composing", !.result = "none"].status = "composing"
            BY <1>0 DEF ConfirmationRecords
          <5>3. QED
            BY <4>1, <5>1, <5>2
        <4>3. QED
          BY <4>2 DEF Over
      <3>3. CASE RetryInvalid(c)
        BY <1>0, <3>3 DEF RetryInvalid, ConfirmationRecords, Over
      <3>4. QED
        BY <2>1, <2>4, <3>1, <3>2, <3>3, WorkBegins
    <2>5. ASSUME confirmation'.scheduling
          PROVE  /\ confirmation'.run \in 1..MaxRuns
                 /\ goalRuns'[confirmation'.run].status # "none"
      <3>1. ASSUME NEW n \in 1..MaxRuns, goalRuns[n].status # "none"
            PROVE  goalRuns'[n].status # "none"
        <4>1. goalRuns \in [1..MaxRuns -> RunRecords]
          BY <1>0 DEF ConfirmationTyped
        <4>2. CASE \E m \in FreeRun, status \in {"created", "awaiting_approval"} :
                 goalRuns' = [goalRuns EXCEPT ![m] = [package |-> confirmer[c].package,
                                                      status  |-> status]]
          BY <3>1, <4>1, <4>2 DEF FreeRun
        <4>3. CASE \E status \in {"created", "scheduling"} :
                 /\ confirmation.run \in 1..MaxRuns
                 /\ goalRuns' = [goalRuns EXCEPT ![confirmation.run] =
                                   [package |-> goalRuns[confirmation.run].package,
                                    status  |-> status]]
          BY <3>1, <4>1, <4>3
        <4>4. QED
          BY <2>1, <3>1, <4>2, <4>3, RequestMovesRuns
      <3>2. CASE confirmation.scheduling /\ confirmation'.run = confirmation.run
        BY <1>0, <3>1, <3>2 DEF ConfirmationInOrder
      <3>3. CASE ~ (confirmation.scheduling /\ confirmation'.run = confirmation.run)
        BY <2>1, <2>5, <3>3, RequestMovesConfirmation DEF NewConfirmation
      <3>4. QED
        BY <3>2, <3>3
    <2>6. QED
      BY <2>3, <2>4, <2>5 DEF ConfirmationInOrder
  <1>3. CASE CrashGoal
    BY <1>0, <1>3 DEF CrashGoal, ConfirmationInOrder, Over, Working, WorkPcs, PackageCurrent,
       IdleConfirmer, draftVars
  <1>4. CASE UNCHANGED goalVars
    BY <1>0, <1>4 DEF goalVars, draftVars, confirmationVars, ConfirmationInOrder, Over, Working,
       PackageCurrent
  <1>5. QED
    BY <1>1, <1>2, <1>3, <1>4 DEF GoalNext

-----------------------------------------------------------------------------
(* As long as no live request is taken over, one request works on the      *)
(* package under review.                                                   *)

LEMMA ReviewKeepsOrder ==
  ASSUME GoalInv, OneAtWork, ReviewStep, UNCHANGED <<confirmer, goalCrashes>>
  PROVE  OneAtWork'
  <1>0. /\ ReviewInv /\ PackagesArePast /\ ConfirmationInOrder /\ DraftInOrder
        /\ confirmation \in ConfirmationRecords
        /\ WorkInOrder /\ PhaseInOrder /\ RunsInOrder /\ WorkIsOwned
    BY TypeParts DEF GoalInv, ReviewInv, ConfirmationTyped, OneAtWork
  <1>1. UNCHANGED goalRuns
    BY <1>0, ReviewTypes
  <1>2. CASE SamePackage
    <2>1. /\ \A package : PackageCurrent(package)' <=> PackageCurrent(package)
          /\ \A c \in Confirmers : Working(c)' <=> Working(c)
          /\ Made' <=> Made
          /\ UNCHANGED confirmation
      BY <1>2 DEF SamePackage, PackageCurrent, Working, Made
    <2>2. ~ ReadyForReview => \A c \in Confirmers : ~ Working(c)
      BY <1>0 DEF Working, PackageCurrent, DraftInOrder
    <2>3. RunsInOrder' /\ WorkIsOwned'
      BY <1>0, <1>1, <2>1 DEF RunsInOrder, WorkIsOwned
    <2>4. CASE draft'.phase = draft.phase
      BY <1>0, <2>1, <2>3, <2>4 DEF OneAtWork, WorkInOrder, PhaseInOrder
    <2>5. CASE ~ ReadyForReview /\ ~ ReadyForReview'
      <3>1. WorkInOrder'
        BY <2>1, <2>2, <2>5 DEF WorkInOrder
      <3>2. PhaseInOrder'
        BY <1>0, <2>1, <2>5 DEF PhaseInOrder, ReadyForReview
      <3>3. QED
        BY <2>3, <3>1, <3>2 DEF OneAtWork
    <2>6. QED
      BY <1>2, <2>4, <2>5 DEF SamePackage
  <1>3. CASE NoMorePackage \/ NextPackage
    <2>1. Over' /\ \A c \in Confirmers : ~ Working(c)'
      <3>1. CASE NoMorePackage
        BY <1>0, <3>1, StaleOnlyChangesStatus DEF NoMorePackage, Working, PackageCurrent
      <3>2. CASE NextPackage
        BY <3>2, NextPackageEndsWork
      <3>3. QED
        BY <1>3, <3>1, <3>2
    <2>2. draft'.phase \in {"requirements_review", "slice_review"}
      BY <1>3 DEF NoMorePackage, NextPackage
    <2>3. ~ Made' /\ confirmation'.status \notin {"composing", "failed"}
      BY <2>1 DEF Over, Made
    <2>4. \A n \in 1..MaxRuns : ~ PackageCurrent(goalRuns[n].package)'
      <3>1. CASE NoMorePackage
        BY <3>1 DEF NoMorePackage, PackageCurrent
      <3>2. CASE NextPackage
        BY <1>0, <1>1, <3>2, NextPackageIsFresh DEF PackagesArePast, PackageCurrent
      <3>3. QED
        BY <1>3, <3>1, <3>2
    <2>5. WorkInOrder'
      BY <2>1 DEF WorkInOrder
    <2>6. PhaseInOrder'
      BY <2>2, <2>3 DEF PhaseInOrder
    <2>7. RunsInOrder' /\ WorkIsOwned'
      BY <1>0, <1>1, <2>3, <2>4 DEF RunsInOrder, WorkIsOwned
    <2>8. QED
      BY <2>5, <2>6, <2>7 DEF OneAtWork
  <1>4. QED
    BY <1>0, <1>2, <1>3, ReviewMoves

(* What is true of the other requests while one of them makes its step. *)
LEMMA OthersStay ==
  ASSUME GoalInv, NEW c \in Confirmers, RequestStep(c), NEW d \in Confirmers, d # c
  PROVE  confirmer'[d] = confirmer[d] /\ (Working(d)' <=> Working(d))
  <1>1. confirmer \in [Confirmers -> ConfirmerRecords] /\ ConfirmationTyped
    BY TypeParts DEF GoalInv, ReviewInv, ConfirmationTyped
  <1>2. confirmer'[d] = confirmer[d]
    BY <1>1, RequestMovesItself
  <1>3. QED
    BY <1>2, RequestKeepsPackage DEF Working, PackageCurrent

(* A request that goes on, or that ends without having been at work. *)
LEMMA GoingOn ==
  ASSUME OneAtWork, NEW c \in Confirmers,
         UNCHANGED <<draft, confirmation, goalRuns, goalCrashes>>,
         \A d \in Confirmers : d # c =>
             confirmer'[d] = confirmer[d] /\ (Working(d)' <=> Working(d)),
         Working(c)' <=> Working(c),
         Working(c) => /\ confirmer'[c].pc # "prepared"
                       /\ draft.phase = "composing",
         confirmation.status = "composing" /\ confirmation.scheduling =>
             confirmer[c].pc # "handoff"
  PROVE  OneAtWork'
  <1>0. WorkInOrder /\ PhaseInOrder /\ RunsInOrder /\ WorkIsOwned
    BY DEF OneAtWork
  <1>1. \A d \in Confirmers : Working(d)' <=> Working(d)
    OBVIOUS
  <1>2. WorkInOrder'
    BY <1>0, <1>1 DEF WorkInOrder
  <1>3. PhaseInOrder' /\ RunsInOrder'
    BY <1>0 DEF PhaseInOrder, RunsInOrder, Made, PackageCurrent
  <1>4. WorkIsOwned'
    <2>1. confirmation.scheduling /\ confirmation.status = "composing" =>
             \A d \in Confirmers : confirmer[d].pc = "handoff" => confirmer'[d].pc = "handoff"
      OBVIOUS
    <2>2. QED
      BY <1>0, <1>1, <2>1 DEF WorkIsOwned
  <1>5. QED
    BY <1>2, <1>3, <1>4 DEF OneAtWork

(* A request that begins. *)
LEMMA Beginning ==
  ASSUME GoalInv, OneAtWork, NEW c \in Confirmers, RequestStep(c),
         ReadyForReview, UNCHANGED goalRuns,
         \A d \in Confirmers : ~ Working(d),
         ~ Made,
         confirmer' = [confirmer EXCEPT ![c] = At("prepared", draft.package)],
         confirmation'.status = "composing", ~ confirmation'.scheduling,
         draft'.phase = "ready_to_compose"
  PROVE  OneAtWork'
  <1>0. /\ RunsInOrder /\ confirmer \in [Confirmers -> ConfirmerRecords]
        /\ ReviewInv
    BY TypeParts DEF OneAtWork, GoalInv, ReviewInv, ConfirmationTyped
  <1>1. confirmer'[c].pc = "prepared" /\ confirmer'[c].package = draft.package
    BY <1>0, AtFields
  <1>2. Working(c)'
    BY <1>0, <1>1, CurrentIsPast, RequestKeepsPackage DEF Working, WorkPcs, PackageCurrent
  <1>3. \A d \in Confirmers : Working(d)' => d = c
    BY OthersStay
  <1>4. WorkInOrder'
    BY <1>1, <1>3 DEF WorkInOrder
  <1>5. PhaseInOrder' /\ ~ Made'
    BY DEF PhaseInOrder, Made
  <1>6. RunsInOrder'
    BY <1>0, RequestKeepsPackage DEF RunsInOrder, PackageCurrent
  <1>7. WorkIsOwned'
    BY <1>2 DEF WorkIsOwned
  <1>8. QED
    BY <1>4, <1>5, <1>6, <1>7 DEF OneAtWork

(* A request at work that ends without a run. *)
LEMMA EndingWithoutARun ==
  ASSUME GoalInv, OneAtWork, NEW c \in Confirmers, RequestStep(c),
         Working(c), UNCHANGED goalRuns, Leave(c),
         confirmation'.status \in {"completed", "failed"}, confirmation'.result # "run",
         confirmation'.scheduling = confirmation.scheduling,
         draft'.phase = "ready_to_compose"
  PROVE  OneAtWork'
  <1>0. /\ WorkInOrder /\ PhaseInOrder /\ RunsInOrder
        /\ confirmer \in [Confirmers -> ConfirmerRecords]
    BY TypeParts DEF OneAtWork, GoalInv, ReviewInv, ConfirmationTyped
  <1>1. ~ Working(c)'
    BY <1>0 DEF Leave, IdleConfirmer, Working, WorkPcs
  <1>2. \A d \in Confirmers : ~ Working(d)'
    BY <1>0, <1>1, OthersStay DEF WorkInOrder
  <1>3. ~ Made /\ ~ confirmation.scheduling
    BY <1>0 DEF WorkInOrder, Made
  <1>4. WorkInOrder' /\ PhaseInOrder' /\ WorkIsOwned'
    BY <1>2, <1>3 DEF WorkInOrder, PhaseInOrder, WorkIsOwned, Made
  <1>5. RunsInOrder'
    BY <1>0, <1>3, RequestKeepsPackage DEF RunsInOrder, PackageCurrent
  <1>6. QED
    BY <1>4, <1>5 DEF OneAtWork

LEMMA RequestKeepsOrder ==
  ASSUME GoalInv, OneAtWork, NEW c \in Confirmers, RequestStep(c), UNCHANGED goalCrashes,
         TakeOver, ~ takenOver'
  PROVE  OneAtWork'
  <1>0. /\ WorkInOrder /\ PhaseInOrder /\ RunsInOrder /\ WorkIsOwned
        /\ ReviewInv /\ DraftInOrder /\ ConfirmationInOrder /\ DraftTyped /\ ConfirmationTyped
    BY TypeParts DEF OneAtWork, GoalInv, ReviewInv
  <1>1. /\ draft \in DraftRecords
        /\ confirmation \in ConfirmationRecords
        /\ goalRuns \in [1..MaxRuns -> RunRecords]
        /\ confirmer \in [Confirmers -> ConfirmerRecords]
    BY <1>0 DEF DraftTyped, ConfirmationTyped
  <1>2. \A d \in Confirmers : d # c =>
           confirmer'[d] = confirmer[d] /\ (Working(d)' <=> Working(d))
    BY OthersStay
  <1>3. \A pc, package : [confirmer EXCEPT ![c] = At(pc, package)][c] = At(pc, package)
    BY <1>1
  <1>4. Working(c)' <=> confirmer'[c].pc \in WorkPcs /\ PackageCurrent(confirmer'[c].package)
    BY RequestKeepsPackage DEF Working, PackageCurrent
  <1>5. \A phase : [draft EXCEPT !.phase = phase].phase = phase
    BY <1>1 DEF DraftRecords
  <1>6. CASE StartConfirmation(c)
    <2>1. /\ ReadyForReview
          /\ draft.phase \in {"slice_review", "ready_to_compose", "composing"}
          /\ \/ Restartable /\ confirmation' = NewConfirmation
             \/ /\ confirmation.status = "failed"
                /\ confirmation' = [confirmation EXCEPT !.status = "composing", !.result = "none"]
          /\ active' = TRUE /\ UNCHANGED goalRuns
          /\ draft' = [draft EXCEPT !.phase = "ready_to_compose"]
          /\ confirmer' = [confirmer EXCEPT ![c] = At("prepared", draft.package)]
      BY <1>6 DEF StartConfirmation, MayMovePhase, RestartPhases, MovePhase, At
    <2>2. \A d \in Confirmers : ~ Working(d)
      <3>1. CASE Orphaned
        <4>1. InFlight = {}
          BY <2>1, <3>1 DEF TakeOver, Orphaned
        <4>2. QED
          BY <4>1 DEF InFlight, Working, WorkPcs
      <3>2. CASE confirmation.status \in {"none", "stale", "failed"}
        BY <1>0, <3>2 DEF WorkInOrder
      <3>3. QED
        BY <2>1, <3>1, <3>2 DEF Restartable
    <2>3. ~ Made
      BY <1>0, <2>1 DEF PhaseInOrder
    <2>4. confirmation'.status = "composing" /\ ~ confirmation'.scheduling
      <3>1. NewConfirmation.status = "composing" /\ ~ NewConfirmation.scheduling
        BY DEF NewConfirmation
      <3>2. CASE confirmation.status = "failed" /\ confirmation' =
                    [confirmation EXCEPT !.status = "composing", !.result = "none"]
        <4>1. confirmation'.status = "composing"
              /\ confirmation'.scheduling = confirmation.scheduling
          BY <1>1, <3>2 DEF ConfirmationRecords
        <4>2. QED
          BY <1>0, <3>2, <4>1 DEF PhaseInOrder
      <3>3. QED
        BY <2>1, <3>1, <3>2
    <2>5. QED
      BY <1>5, <2>1, <2>2, <2>3, <2>4, Beginning
  <1>7. CASE RetryInvalid(c)
    <2>1. /\ ReadyForReview /\ confirmation.status = "completed"
          /\ confirmation.result = "invalid" /\ draft.phase = "ready_to_compose"
          /\ confirmation' = [confirmation EXCEPT !.status = "composing", !.result = "none",
                                                  !.scheduling = FALSE]
          /\ UNCHANGED <<draft, goalRuns>>
          /\ confirmer' = [confirmer EXCEPT ![c] = At("prepared", draft.package)]
      BY <1>7 DEF RetryInvalid, At, draftVars
    <2>2. \A d \in Confirmers : ~ Working(d)
      BY <1>0, <2>1 DEF WorkInOrder
    <2>3. ~ Made
      BY <2>1 DEF Made
    <2>4. confirmation'.status = "composing" /\ confirmation'.scheduling = FALSE
      BY <1>1, <2>1 DEF ConfirmationRecords
    <2>5. QED
      BY <2>1, <2>2, <2>3, <2>4, Beginning
  <1>8. CASE StartConfirmationThrows(c)
    <2>1. UNCHANGED <<draft, confirmation, goalRuns, confirmer>>
      BY <1>8 DEF StartConfirmationThrows, draftVars
    <2>2. QED
      BY <1>0, <2>1 DEF OneAtWork, WorkInOrder, PhaseInOrder, RunsInOrder, WorkIsOwned, Working,
         PackageCurrent, Made
  <1>9. CASE ReplayCompleted(c)
    <2>1. /\ confirmation.status = "completed" /\ confirmation.result = "run"
          /\ confirmer[c].pc = "idle"
          /\ draft' = [draft EXCEPT !.phase = "dag_validated"]
          /\ UNCHANGED <<confirmation, goalRuns>>
          /\ confirmer' = confirmer
             \/ confirmer' = [confirmer EXCEPT ![c] = At("handoff", draft.package)]
      BY <1>9 DEF ReplayCompleted, MovePhase, At, confirmationVars
    <2>2. draft.phase = "dag_validated" /\ \A d \in Confirmers : ~ Working(d)
      BY <1>0, <2>1 DEF PhaseInOrder, Made, WorkInOrder
    <2>3. draft' = draft
      BY <1>1, <2>1, <2>2 DEF DraftRecords
    <2>4. ~ Working(c)'
      BY <1>3, <1>4, <2>1, AtFields DEF WorkPcs
    <2>5. QED
      BY <1>2, <2>1, <2>2, <2>3, <2>4, GoingOn
  <1>10. CASE BeginComposition(c)
    <2>1. CASE MayMovePhase(confirmer[c].package, {"ready_to_compose"}, "composing")
      <3>1. /\ Working(c) /\ draft' = [draft EXCEPT !.phase = "composing"]
            /\ UNCHANGED <<confirmation, goalRuns>>
            /\ confirmer' = [confirmer EXCEPT ![c] = At("composing", confirmer[c].package)]
        <4>1. "composing" \in WorkerPcs
          BY DEF WorkerPcs
        <4>2. QED
          BY <1>0, <1>10, <2>1, <4>1, GotoMoves
             DEF BeginComposition, MayMovePhase, MovePhase, Working, WorkPcs, confirmationVars
      <3>2. confirmer'[c].pc = "composing" /\ confirmer'[c].package = confirmer[c].package
        BY <1>3, <3>1, AtFields
      <3>3. draft'.phase = "composing" /\ draft.phase = "ready_to_compose"
        BY <1>0, <1>5, <1>10, <3>1 DEF WorkInOrder, BeginComposition
      <3>4. confirmation.status = "composing" /\ ~ confirmation.scheduling
            /\ \A d \in Confirmers : Working(d) => d = c
        BY <1>0, <3>1 DEF WorkInOrder
      <3>5. Working(c)' /\ \A d \in Confirmers : Working(d)' => d = c
        BY <1>2, <1>4, <3>1, <3>2, <3>4 DEF Working, WorkPcs
      <3>6. ~ Made /\ ~ Made'
        BY <3>1, <3>4 DEF Made
      <3>7. WorkInOrder'
        BY <3>1, <3>2, <3>3, <3>4, <3>5 DEF WorkInOrder
      <3>8. PhaseInOrder'
        BY <1>0, <3>1, <3>3, <3>4, <3>6 DEF PhaseInOrder
      <3>9. RunsInOrder'
        BY <1>0, <3>1, <3>6, RequestKeepsPackage DEF RunsInOrder, PackageCurrent
      <3>10. WorkIsOwned'
        BY <3>1, <3>4, <3>5 DEF WorkIsOwned
      <3>11. QED
        BY <3>7, <3>8, <3>9, <3>10 DEF OneAtWork
    <2>2. CASE ~ MayMovePhase(confirmer[c].package, {"ready_to_compose"}, "composing")
      <3>1. /\ confirmer[c].pc = "prepared" /\ UNCHANGED <<draft, confirmation, goalRuns>>
            /\ confirmer' = [confirmer EXCEPT ![c] = At("failing", confirmer[c].package)]
        <4>1. "failing" \in WorkerPcs
          BY DEF WorkerPcs
        <4>2. QED
          BY <1>0, <1>10, <2>2, <4>1, GotoMoves DEF BeginComposition, confirmationVars
      <3>2. ~ PackageCurrent(confirmer[c].package)
        BY <1>0, <2>2, <3>1 DEF MayMovePhase, Working, WorkPcs, WorkInOrder
      <3>3. ~ Working(c) /\ ~ Working(c)'
        BY <1>3, <1>4, <3>1, <3>2, AtFields DEF Working
      <3>4. QED
        BY <1>2, <3>1, <3>3, GoingOn
    <2>3. QED
      BY <2>1, <2>2
  <1>11. CASE \E outcome \in {"validated", "invalid", "failing"} : Compose(c, outcome)
    <2>1. PICK outcome \in {"validated", "invalid", "failing"} : Compose(c, outcome)
      BY <1>11
    <2>2. /\ confirmer[c].pc = "composing" /\ UNCHANGED <<draft, confirmation, goalRuns>>
          /\ confirmer' = [confirmer EXCEPT ![c] = At(outcome, confirmer[c].package)]
      BY <1>0, <2>1, GotoMoves DEF Compose, WorkerPcs, draftVars, confirmationVars
    <2>3. confirmer'[c].pc = outcome /\ confirmer'[c].package = confirmer[c].package
      BY <1>3, <2>2, AtFields
    <2>4. Working(c)' <=> Working(c)
      BY <1>4, <2>2, <2>3 DEF Working, WorkPcs
    <2>5. Working(c) => draft.phase = "composing"
      BY <1>0, <2>2 DEF WorkInOrder
    <2>6. QED
      BY <1>2, <2>2, <2>3, <2>4, <2>5, GoingOn
  <1>12. CASE CompleteInvalid(c)
    <2>1. confirmer[c].pc = "invalid" /\ Leave(c) /\ UNCHANGED goalRuns
      BY <1>12 DEF CompleteInvalid
    <2>2. CASE MayMovePhase(confirmer[c].package, {"composing"}, "ready_to_compose")
      <3>1. /\ Working(c) /\ draft'.phase = "ready_to_compose"
            /\ confirmation' = [confirmation EXCEPT !.status = "completed", !.result = "invalid"]
        BY <1>5, <1>12, <2>1, <2>2
           DEF CompleteInvalid, Complete, MovePhase, MayMovePhase, Working, WorkPcs
      <3>2. /\ confirmation'.status = "completed" /\ confirmation'.result = "invalid"
            /\ confirmation'.scheduling = confirmation.scheduling
        BY <1>1, <3>1 DEF ConfirmationRecords
      <3>3. QED
        BY <2>1, <3>1, <3>2, EndingWithoutARun
    <2>3. CASE ~ MayMovePhase(confirmer[c].package, {"composing"}, "ready_to_compose")
      <3>1. UNCHANGED <<draft, confirmation>>
        BY <1>12, <2>3 DEF CompleteInvalid
      <3>2. ~ Working(c)
        BY <1>0, <2>1, <2>3 DEF MayMovePhase, Working, WorkInOrder
      <3>3. ~ Working(c)'
        BY <1>1, <2>1 DEF Leave, IdleConfirmer, Working, WorkPcs
      <3>4. QED
        BY <1>2, <2>1, <3>1, <3>2, <3>3, GoingOn
    <2>4. QED
      BY <2>2, <2>3
  <1>13. CASE AnswerCompleted(c)
    BY <1>0, <1>13 DEF AnswerCompleted, WorkInOrder, Working, WorkPcs
  <1>14. CASE \E approved \in BOOLEAN : CreateRun(c, approved)
    <2>1. PICK approved \in BOOLEAN : CreateRun(c, approved)
      BY <1>14
    <2>2. /\ Working(c) /\ PackageCurrent(confirmer[c].package)
          /\ confirmer[c].package = draft.package
      BY <2>1 DEF CreateRun, MayMovePhase, Working, WorkPcs, PackageCurrent
    <2>3. /\ draft.phase = "composing" /\ confirmation.status = "composing"
          /\ ~ confirmation.scheduling /\ \A d \in Confirmers : Working(d) => d = c
      BY <1>0, <2>1, <2>2 DEF WorkInOrder, CreateRun
    <2>4. ~ Made /\ \A m \in 1..MaxRuns : goalRuns[m].package # draft.package
      BY <1>0, <2>2, <2>3 DEF Made, RunsInOrder, PackageCurrent
    <2>5. PICK n \in FreeRun, status \in {"created", "awaiting_approval"} :
             /\ goalRuns' = [goalRuns EXCEPT ![n] =
                               [package |-> confirmer[c].package, status |-> status]]
             /\ \/ /\ confirmation' = [confirmation EXCEPT !.scheduling = TRUE, !.run = n]
                   /\ Goto(c, "handoff")
                \/ /\ confirmation' = [confirmation EXCEPT !.status = "completed",
                                                           !.result = "run", !.run = n]
                   /\ Leave(c)
      BY <2>1 DEF CreateRun
    <2>6. /\ n \in 1..MaxRuns /\ goalRuns'[n].package = draft.package
          /\ \A m \in 1..MaxRuns : m # n => goalRuns'[m].package = goalRuns[m].package
      BY <1>1, <2>2, <2>5 DEF FreeRun
    <2>7. \/ /\ confirmation'.status = "composing" /\ confirmation'.scheduling = TRUE
             /\ Goto(c, "handoff")
          \/ /\ confirmation'.status = "completed" /\ confirmation'.result = "run"
             /\ Leave(c)
      BY <1>1, <2>3, <2>5 DEF ConfirmationRecords
    <2>8. draft'.phase = "dag_validated" /\ draft'.package = draft.package
      BY <1>5, <2>1, RequestKeepsPackage DEF CreateRun, MovePhase
    <2>9. Made'
      BY <2>7 DEF Made
    <2>10. /\ Goto(c, "handoff") => confirmer'[c].pc = "handoff"
           /\ Leave(c) => confirmer'[c].pc = "idle"
      <3>1. "handoff" \in WorkerPcs
        BY DEF WorkerPcs
      <3>2. QED
        BY <1>0, <1>3, <3>1, GotoMoves, AtFields
    <2>11. \A d \in Confirmers : ~ Working(d)'
      BY <1>2, <1>4, <2>3, <2>7, <2>10 DEF WorkPcs
    <2>12. WorkInOrder' /\ PhaseInOrder'
      BY <2>7, <2>8, <2>9, <2>11 DEF WorkInOrder, PhaseInOrder
    <2>13. RunsInOrder'
      <3>1. ASSUME NEW m \in 1..MaxRuns, NEW k \in 1..MaxRuns,
                   goalRuns'[m].package = goalRuns'[k].package,
                   goalRuns'[k].package # NoPackage
            PROVE  m = k
        BY <1>0, <2>4, <2>6, <3>1 DEF RunsInOrder
      <3>2. QED
        BY <2>9, <3>1 DEF RunsInOrder
    <2>14. WorkIsOwned'
      BY <2>7, <2>10 DEF WorkIsOwned
    <2>15. QED
      BY <2>12, <2>13, <2>14 DEF OneAtWork
  <1>15. CASE CreateRunThrows(c)
    <2>1. /\ confirmer[c].pc = "validated" /\ UNCHANGED <<draft, confirmation, goalRuns>>
          /\ confirmer' = [confirmer EXCEPT ![c] = At("failing", confirmer[c].package)]
      BY <1>0, <1>15, GotoMoves DEF CreateRunThrows, WorkerPcs, draftVars, confirmationVars
    <2>2. ~ Working(c)
      BY <1>0, <1>15, <2>1 DEF CreateRunThrows, MayMovePhase, WorkInOrder, Working, WorkPcs
    <2>3. ~ Working(c)'
      BY <1>3, <1>4, <2>1, <2>2, AtFields DEF Working, WorkPcs
    <2>4. QED
      BY <1>2, <2>1, <2>2, <2>3, GoingOn
  <1>16. CASE FailConfirmation(c)
    <2>1. confirmer[c].pc = "failing" /\ Leave(c) /\ UNCHANGED goalRuns
      BY <1>16 DEF FailConfirmation
    <2>2. CASE MayMovePhase(confirmer[c].package, FailurePhases, "ready_to_compose")
      <3>1. /\ Working(c) /\ draft'.phase = "ready_to_compose"
            /\ confirmation' = [confirmation EXCEPT !.status = "failed", !.result = "none"]
        BY <1>5, <1>16, <2>1, <2>2
           DEF FailConfirmation, MovePhase, MayMovePhase, Working, WorkPcs
      <3>2. /\ confirmation'.status = "failed" /\ confirmation'.result = "none"
            /\ confirmation'.scheduling = confirmation.scheduling
        BY <1>1, <3>1 DEF ConfirmationRecords
      <3>3. QED
        BY <2>1, <3>1, <3>2, EndingWithoutARun
    <2>3. CASE ~ MayMovePhase(confirmer[c].package, FailurePhases, "ready_to_compose")
      <3>1. UNCHANGED <<draft, confirmation>>
        BY <1>16, <2>3 DEF FailConfirmation
      <3>2. ~ Working(c)
        BY <1>0, <2>1, <2>3 DEF MayMovePhase, Working, DraftInOrder, PackageCurrent,
           ReadyForReview, FailurePhases
      <3>3. ~ Working(c)'
        BY <1>1, <2>1 DEF Leave, IdleConfirmer, Working, WorkPcs
      <3>4. QED
        BY <1>2, <2>1, <3>1, <3>2, <3>3, GoingOn
    <2>4. QED
      BY <2>2, <2>3
  <1>17. CASE \E started \in BOOLEAN : HandOff(c, started)
    <2>1. PICK started \in BOOLEAN : HandOff(c, started)
      BY <1>17
    <2>2. /\ confirmer[c].pc = "handoff" /\ Leave(c) /\ UNCHANGED draft
      BY <2>1 DEF HandOff, draftVars
    <2>3. ~ Working(c) /\ ~ Working(c)'
      BY <1>1, <2>2 DEF Leave, IdleConfirmer, Working, WorkPcs
    <2>4. CASE confirmation.status = "composing" /\ confirmation.scheduling
      <3>1. /\ confirmation' = [confirmation EXCEPT !.status = "completed", !.result = "run"]
            /\ \E status : goalRuns' = [goalRuns EXCEPT ![confirmation.run].status = status]
        BY <2>1, <2>4 DEF HandOff, Complete
      <3>2. confirmation'.status = "completed" /\ confirmation'.result = "run"
        BY <1>1, <3>1 DEF ConfirmationRecords
      <3>3. \A m \in 1..MaxRuns : goalRuns'[m].package = goalRuns[m].package
        BY <1>1, <3>1 DEF RunRecords
      <3>4. Made /\ Made'
        BY <2>4, <3>2 DEF Made
      <3>5. \A d \in Confirmers : ~ Working(d)'
        BY <1>0, <1>2, <2>3, <2>4 DEF WorkInOrder
      <3>6. WorkInOrder' /\ PhaseInOrder' /\ WorkIsOwned'
        BY <1>0, <2>2, <3>2, <3>4, <3>5 DEF WorkInOrder, PhaseInOrder, WorkIsOwned
      <3>7. RunsInOrder'
        BY <1>0, <3>3, <3>4 DEF RunsInOrder
      <3>8. QED
        BY <3>6, <3>7 DEF OneAtWork
    <2>5. CASE ~ (confirmation.status = "composing" /\ confirmation.scheduling)
      <3>1. UNCHANGED <<confirmation, goalRuns>>
        BY <2>1, <2>5 DEF HandOff, confirmationVars
      <3>2. QED
        BY <1>2, <2>2, <2>3, <2>5, <3>1, GoingOn
    <2>6. QED
      BY <2>4, <2>5
  <1>18. QED
    BY <1>6, <1>7, <1>8, <1>9, <1>10, <1>11, <1>12, <1>13, <1>14, <1>15, <1>16, <1>17
       DEF RequestStep, ConfirmationProgress

LEMMA OrderInductive ==
  ASSUME GoalInv, [GoalNext]_goalVars, ~ takenOver'
  PROVE  OneAtWork'
  <1>1. CASE ReviewStep /\ UNCHANGED <<confirmer, goalCrashes, takenOver>>
    BY <1>1, ReviewKeepsOrder DEF GoalInv
  <1>2. CASE ConfirmationStep /\ UNCHANGED goalCrashes /\ TakeOver
    <2>1. PICK c \in Confirmers : RequestStep(c)
      BY <1>2 DEF ConfirmationStep, RequestStep
    <2>2. OneAtWork
      BY <1>2 DEF TakeOver, GoalInv
    <2>3. QED
      BY <1>2, <2>1, <2>2, RequestKeepsOrder
  <1>3. CASE CrashGoal
    <2>1. /\ UNCHANGED <<draft, confirmation, goalRuns, takenOver>> /\ goalCrashes' # 0
          /\ confirmer' = [c \in Confirmers |-> IdleConfirmer]
      BY <1>3, TypeParts, GoalCrashBound DEF CrashGoal, draftVars, GoalInv, ReviewInv
    <2>2. \A c \in Confirmers : ~ Working(c)'
      BY <2>1 DEF Working, WorkPcs, IdleConfirmer
    <2>3. WorkInOrder /\ PhaseInOrder /\ RunsInOrder
      BY <2>1 DEF GoalInv, OneAtWork
    <2>4. QED
      BY <2>1, <2>2, <2>3 DEF OneAtWork, WorkInOrder, PhaseInOrder, RunsInOrder, WorkIsOwned,
         Made, PackageCurrent
  <1>4. CASE UNCHANGED goalVars
    BY <1>4 DEF GoalInv, goalVars, draftVars, confirmationVars, OneAtWork, WorkInOrder,
       PhaseInOrder, RunsInOrder, WorkIsOwned, Made, Working, PackageCurrent
  <1>5. QED
    BY <1>1, <1>2, <1>3, <1>4 DEF GoalNext

-----------------------------------------------------------------------------
(* The theorems. *)

LEMMA GoalInitially == GoalInit => GoalInv
  <1> SUFFICES ASSUME GoalInit PROVE GoalInv
    OBVIOUS
  <1> USE DEF GoalInit, GoalDraftInit, GoalReviewInit, GoalConfirmationInit
  <1>1. /\ draft.req = 1 /\ draft.phase = "requirements_review" /\ draft.contract = 0
        /\ draft.resolution = NoResolution /\ draft.linked = FALSE /\ draft.package = NoPackage
        /\ confirmation.status = "none" /\ confirmation.scheduling = FALSE
        /\ \A n \in 1..MaxRuns : goalRuns[n].package = NoPackage
        /\ \A c \in Confirmers : confirmer[c].pc = "idle"
        /\ resolver.pc = "idle"
    BY DEF Idle, IdleConfirmer
  <1>2. GoalTypeOK
    <2>1. DraftTyped
      BY GoalBounds DEF DraftTyped, DraftRecords, Requirements, Phases, ImportStatus
    <2>2. RequestsTyped
      BY RequestUpdates DEF RequestsTyped
    <2>3. confirmation \in ConfirmationRecords /\ active \in BOOLEAN
      <3>1. 0 \in 0..MaxRuns
        BY GoalBounds
      <3>2. confirmation = [status |-> "none", package |-> NoPackage, result |-> "none",
                            scheduling |-> FALSE, run |-> 0]
        OBVIOUS
      <3>3. confirmation \in ConfirmationRecords
        BY <3>1, <3>2 DEF ConfirmationRecords
      <3>4. active \in BOOLEAN
        OBVIOUS
      <3>5. QED
        BY <3>3, <3>4
    <2>4. /\ [package |-> NoPackage, status |-> "none"] \in RunRecords
          /\ IdleConfirmer \in ConfirmerRecords
      BY DEF RunRecords, ConfirmerRecords, IdleConfirmer
    <2>5. goalRuns \in [1..MaxRuns -> RunRecords] /\ confirmer \in [Confirmers -> ConfirmerRecords]
      BY <2>4
    <2>6. goalCrashes \in 0..MaxGoalCrashes /\ takenOver \in BOOLEAN
      <3>1. goalCrashes \in 0..MaxGoalCrashes
        BY GoalCrashBound
      <3>2. takenOver \in BOOLEAN
        OBVIOUS
      <3>3. QED
        BY <3>1, <3>2
    <2>7. QED
      BY <2>1, <2>2, <2>3, <2>5, <2>6, TypeParts DEF ConfirmationTyped
  <1>3. DraftInOrder /\ LinkInOrder
    BY <1>1 DEF DraftInOrder, LinkInOrder, PackageOfDraft, ReadyForReview
  <1>4. PackagesArePast
    BY <1>1 DEF PackagesArePast
  <1>5. \A c \in Confirmers : ~ Working(c)
    BY <1>1 DEF Working, WorkPcs
  <1>6. ConfirmationInOrder
    BY <1>1, <1>5 DEF ConfirmationInOrder, Over
  <1>7. OneAtWork
    BY <1>1, <1>5 DEF OneAtWork, WorkInOrder, PhaseInOrder, RunsInOrder, WorkIsOwned, Made,
       PackageCurrent
  <1>8. QED
    BY <1>2, <1>3, <1>4, <1>6, <1>7 DEF GoalInv, ReviewInv

LEMMA GoalInductive == GoalInv /\ [GoalNext]_goalVars => GoalInv'
  BY ReviewInductive, PastInductive, ConfirmationInductive, OrderInductive DEF GoalInv

LEMMA GoalInvariant == GoalSpec => []GoalInv
  BY GoalInitially, GoalInductive, PTL DEF GoalSpec

(* Every row of a goal, and every request in flight, is of the declared    *)
(* form.                                                                   *)
THEOREM GoalIsTyped == GoalSpec => []GoalTypeOK
  <1>1. GoalInv => GoalTypeOK
    BY DEF GoalInv, ReviewInv
  <1>2. QED
    BY <1>1, GoalInvariant, PTL

(* The package under review is of the validation and the requirements      *)
(* under review, and is the stored revision of its number                  *)
(* (persistGoalValidationResolutionPg, designAndPersistGoalSlicesPg).      *)
THEOREM ReviewFitsTogether == GoalSpec => []PackageLineage
  <1>1. GoalInv => PackageLineage
    BY DEF GoalInv, ReviewInv, DraftInOrder, PackageOfDraft, PackageLineage
  <1>2. QED
    BY <1>1, GoalInvariant, PTL

(* A linked import is open, or installed, and was asked for by the         *)
(* validation that is under review (attachGoalValidationImportDraftPg).    *)
THEOREM LinkIsOfTheReview == GoalSpec => []LinkedImportIsCurrent
  <1>1. GoalInv => LinkedImportIsCurrent
    BY DEF GoalInv, ReviewInv, LinkInOrder, LinkedImportIsCurrent
  <1>2. QED
    BY <1>1, GoalInvariant, PTL

(* Whatever was reviewed or confirmed meanwhile, a run is committed for    *)
(* the package under review and for the one its confirmation has           *)
(* (createRunRequestFromValidatedDraftTx).                                 *)
THEOREM RunIsOfTheReview == GoalSpec => RunsOfTheReviewedPackage
  <1>1. ASSUME GoalInv, [GoalNext]_goalVars, NEW n \in 1..MaxRuns,
               goalRuns[n].status = "none", goalRuns'[n].status # "none"
        PROVE  goalRuns'[n].package = draft.package
               /\ goalRuns'[n].package = confirmation.package
    <2>1. goalRuns # goalRuns' /\ ReviewInv /\ goalRuns \in [1..MaxRuns -> RunRecords]
      BY <1>1, TypeParts DEF GoalInv, ReviewInv, ConfirmationTyped
    <2>2. PICK c \in Confirmers : RequestStep(c)
      BY <1>1, <2>1, ReviewTypes
         DEF GoalNext, CrashGoal, goalVars, confirmationVars, ConfirmationStep, RequestStep
    <2>3. PICK m \in FreeRun, status \in {"created", "awaiting_approval"} :
             /\ PackageCurrent(confirmer[c].package) /\ confirmation.status = "composing"
             /\ goalRuns' = [goalRuns EXCEPT ![m] = [package |-> confirmer[c].package,
                                                     status  |-> status]]
      <3>1. ASSUME NEW status \in {"created", "scheduling"},
                   confirmation.run \in 1..MaxRuns,
                   goalRuns[confirmation.run].status # "none",
                   goalRuns' = [goalRuns EXCEPT ![confirmation.run] =
                                  [package |-> goalRuns[confirmation.run].package,
                                   status  |-> status]]
            PROVE  FALSE
        BY <1>1, <2>1, <3>1
      <3>2. QED
        BY <1>1, <2>1, <2>2, <3>1, RequestMovesRuns
    <2>4. goalRuns'[n].package = confirmer[c].package
      BY <1>1, <2>1, <2>3 DEF FreeRun
    <2>5. confirmation.package = draft.package
      BY <1>1, <2>3 DEF GoalInv, ConfirmationInOrder, Over, PackageCurrent
    <2>6. QED
      BY <2>3, <2>4, <2>5 DEF PackageCurrent
  <1>2. GoalInv /\ [GoalNext]_goalVars =>
           [\A n \in 1..MaxRuns : goalRuns[n].status = "none" /\ goalRuns'[n].status # "none" =>
                /\ goalRuns'[n].package = draft.package
                /\ goalRuns'[n].package = confirmation.package]_goalVars
    BY <1>1
  <1>3. QED
    BY <1>2, GoalInvariant, PTL DEF GoalSpec, RunsOfTheReviewedPackage

(* Concurrent, repeated and retried confirmations of a package, and those  *)
(* after a crash, make at most one run of it as long as no live request is *)
(* taken for an orphan (prepareGoalDesignConfirmationPg).                  *)
THEOREM PackagesHaveOneRun == GoalSpec => []OneRunPerPackage
  <1>1. ASSUME GoalInv, ~ takenOver, NEW package \in Packages
        PROVE  Cardinality(RunsOf(package)) <= 1
    <2>1. \A m, n \in RunsOf(package) : m = n
      BY <1>1, Nothing DEF GoalInv, OneAtWork, RunsInOrder, RunsOf
    <2>2. CASE RunsOf(package) = {}
      BY <2>2, FS_EmptySet
    <2>3. CASE RunsOf(package) # {}
      <3>1. PICK n \in RunsOf(package) : TRUE
        BY <2>3
      <3>2. RunsOf(package) = {n}
        BY <2>1, <3>1
      <3>3. QED
        BY <3>2, FS_Singleton
    <2>4. QED
      BY <2>2, <2>3
  <1>2. GoalInv => OneRunPerPackage
    BY <1>1 DEF OneRunPerPackage
  <1>3. QED
    BY <1>2, GoalInvariant, PTL

(* A draft that nobody may revise is being composed by, or has the run of, *)
(* a confirmation of its own package (transitionGoalDesignPhaseTx).        *)
THEOREM FreezingIsConfirmed == GoalSpec => []FrozenByItsConfirmation
  <1>1. GoalInv => FrozenByItsConfirmation
    BY DEF GoalInv, ConfirmationInOrder, Over, OneAtWork, PhaseInOrder, Made, PackageCurrent,
       FrozenByItsConfirmation
  <1>2. QED
    BY <1>1, GoalInvariant, PTL

(* Unless the server crashed, a confirmation that is composing has a       *)
(* request in flight, marker or not (continueGoalDesignToRunPg).           *)
THEOREM CompositionIsOwned == GoalSpec => []ActiveConfirmationIsOwned
  <1>1. ASSUME GoalInv
        PROVE  ActiveConfirmationIsOwned
    <2>1. \A c \in Confirmers : confirmer[c].pc = "handoff" \/ Working(c) => c \in InFlight
      BY DEF Working, WorkPcs, InFlight
    <2>2. ~ takenOver => WorkIsOwned
      BY <1>1 DEF GoalInv, OneAtWork
    <2>3. QED
      BY <2>1, <2>2 DEF WorkIsOwned, ActiveConfirmationIsOwned
  <1>2. QED
    BY <1>1, GoalInvariant, PTL

=============================================================================
