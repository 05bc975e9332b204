----------------------------- MODULE GoalReview ------------------------------
(***************************************************************************)
(* Reviewing a goal (goal-design-draft-service.ts and                      *)
(* goal-validation-lifecycle.ts): revising and confirming its              *)
(* requirements, resolving how they are validated, importing what the      *)
(* library lacks, designing the slices and revising the package.           *)
(* Resolving and designing call a model outside any transaction, so each   *)
(* is a request that reads the draft, waits, and commits against what it   *)
(* read.  One request of each kind is in flight at a time.                 *)
(***************************************************************************)
EXTENDS GoalDraft

VARIABLES
    resolver,  \* resolveAndPersistGoalValidationPg, or a resume after an import
    designer   \* designAndPersistGoalSlicesPg

reviewVars == <<resolver, designer>>

Idle == [pc |-> "idle", contract |-> 0, resolution |-> NoResolution]

GoalReviewInit == resolver = Idle /\ designer = Idle

GoalReviewTypeOK ==
    \A request \in {resolver, designer} :
        request \in [pc : {"idle", "resolving", "resuming", "importing", "attaching",
                           "designing"},
                     contract : 0..MaxRequirements,
                     resolution : Resolutions \cup {NoResolution}]

(* Every derived row is dropped or marked stale; runs already made stay. *)
ReviseGoalRequirement ==
    /\ draft.phase # "composing"
    /\ draft.req < MaxRequirements
    /\ draft' = [req |-> draft.req + 1, phase |-> "requirements_review", contract |-> 0,
                 resolution |-> NoResolution, linked |-> FALSE, package |-> NoPackage]
    /\ imports' = StaleImportsOf(draft.req)
    /\ MarkConfirmationStale
    /\ UNCHANGED <<packageRevisions, library, active, goalRuns, reviewVars>>

ConfirmGoalRequirements ==
    /\ draft.phase = "requirements_review"
    /\ draft' = [draft EXCEPT !.phase = "validation_resolving", !.contract = draft.req]
    /\ UNCHANGED <<packageRevisions, imports, library, confirmationVars, reviewVars>>

-----------------------------------------------------------------------------
(* Validation. *)

StartRequest(request) == request.pc = "idle"

(* The request that confirms the requirements goes on to resolve them. *)
BeginResolution ==
    /\ StartRequest(resolver)
    /\ draft.phase \in ValidationPhases
    /\ resolver' = [pc |-> "resolving", contract |-> draft.contract,
                    resolution |-> [req |-> draft.contract, library |-> library,
                                    ready |-> FALSE]]
    /\ UNCHANGED <<draftVars, confirmationVars, designer>>

(* assertGoalValidationImportCurrentPg with the reconciliation of an       *)
(* installed import: its requirement is still the current one.             *)
BeginResume(origin) ==
    /\ StartRequest(resolver)
    /\ imports[origin] = "installed"
    /\ origin.req = draft.req
    /\ draft.resolution # NoResolution
    /\ draft.phase \in ValidationPhases
    /\ resolver' = [pc |-> "resuming", contract |-> draft.contract,
                    resolution |-> [req |-> draft.contract, library |-> library,
                                    ready |-> FALSE]]
    /\ UNCHANGED <<draftVars, confirmationVars, designer>>

(* Mutant: only the phase is looked at. *)
ResolutionPersistableInPhase == draft.phase \in ValidationPhases

(* persistGoalValidationResolutionPg: what was resolved is for the         *)
(* contract the draft still has.                                           *)
ResolutionPersistable ==
    /\ draft.contract = resolver.contract
    /\ draft.phase \in ValidationPhases

(* Mutant: the link survives every resolution. *)
KeepsAnyLink(resolution) == draft.linked

(* The link to an import survives only a resolution that did not change. *)
KeepsLink(resolution) == draft.linked /\ draft.resolution = resolution

PersistResolution(ready) ==
    LET resolution == [resolver.resolution EXCEPT !.ready = ready]
        linked == KeepsLink(resolution)
    IN /\ resolver.pc \in {"resolving", "resuming"}
       /\ ResolutionPersistable
       /\ draft' = [draft EXCEPT
                      !.phase = IF ready THEN "validation_ready" ELSE "library_review",
                      !.resolution = resolution,
                      !.linked = linked]
       /\ resolver' = IF ready \/ resolver.pc = "resuming"
                         \/ (linked /\ imports[resolution] = "draft")
                      THEN Idle
                      ELSE [resolver EXCEPT !.pc = "importing"]
       /\ UNCHANGED <<packageRevisions, imports, library, confirmationVars, designer>>

(* The draft moved on while the resolver ran. *)
ResolutionRejected ==
    /\ resolver.pc \in {"resolving", "resuming"}
    /\ ~ ResolutionPersistable
    /\ resolver' = Idle
    /\ UNCHANGED <<draftVars, confirmationVars, designer>>

(* createLibraryImportDraft asks the model for what is missing and commits *)
(* the import before the goal refers to it.                                *)
CreateImport ==
    /\ resolver.pc = "importing"
    /\ imports[resolver.resolution] # "installed"
    /\ imports' = [imports EXCEPT ![resolver.resolution] = "draft"]
    /\ resolver' = [resolver EXCEPT !.pc = "attaching"]
    /\ UNCHANGED <<draft, packageRevisions, library, confirmationVars, designer>>

RequestFails ==
    /\ resolver.pc \in {"resolving", "resuming", "importing"}
    /\ resolver' = Idle
    /\ UNCHANGED <<draftVars, confirmationVars, designer>>

(* attachGoalValidationImportDraftPg gives the import up when the goal has *)
(* moved on.                                                               *)
AttachImport ==
    LET current == /\ draft.contract = resolver.contract
                   /\ draft.phase = "library_review"
                   /\ draft.resolution = resolver.resolution
    IN /\ resolver.pc = "attaching"
       /\ IF current
          THEN draft' = [draft EXCEPT !.linked = TRUE] /\ UNCHANGED imports
          ELSE /\ imports' = [imports EXCEPT ![resolver.resolution] =
                                 IF @ = "draft" THEN "none" ELSE @]
               /\ UNCHANGED draft
       /\ resolver' = Idle
       /\ UNCHANGED <<packageRevisions, library, confirmationVars, designer>>

(* The reviewer installs an import; the install's transaction locks the    *)
(* goal and checks that the import's origin is still its resolution.       *)
ImportCurrent(origin) ==
    /\ draft.contract = origin.req
    /\ draft.phase = "library_review"
    /\ draft.resolution = origin

InstallImport(origin) ==
    /\ imports[origin] = "draft"
    /\ ImportCurrent(origin)
    /\ library < MaxLibrary
    /\ imports' = [imports EXCEPT ![origin] = "installed"]
    /\ library' = library + 1
    /\ UNCHANGED <<draft, packageRevisions, confirmationVars, reviewVars>>

-----------------------------------------------------------------------------
(* Slices and package revisions. *)

(* sliceDesignSourceFromPlannerRow *)
SlicesDesignable(resolution) ==
    /\ draft.phase = "validation_ready"
    /\ draft.resolution = resolution
    /\ resolution.ready

BeginSliceDesign ==
    /\ StartRequest(designer)
    /\ SlicesDesignable(draft.resolution)
    /\ designer' = [pc |-> "designing", contract |-> draft.contract,
                    resolution |-> draft.resolution]
    /\ UNCHANGED <<draftVars, confirmationVars, resolver>>

(* A design is always revision 1 (designGoalSlicesWithLlm). *)
DesignedPackage(resolution) ==
    [req |-> resolution.req, library |-> resolution.library, revision |-> 1]

PersistSlices ==
    LET package == DesignedPackage(designer.resolution)
    IN /\ designer.pc = "designing"
       /\ SlicesDesignable(designer.resolution)
       /\ RevisionFree(package)
       /\ StoreRevision(package)
       /\ draft' = [draft EXCEPT !.phase = "slice_review", !.package = package]
       /\ designer' = Idle
       /\ UNCHANGED <<imports, library, confirmationVars, resolver>>

SlicesRejected ==
    /\ designer.pc = "designing"
    /\ ~ (SlicesDesignable(designer.resolution)
          /\ RevisionFree(DesignedPackage(designer.resolution)))
    /\ designer' = Idle
    /\ UNCHANGED <<draftVars, confirmationVars, resolver>>

(* assertNoMaterializedGoalDesignRunTx *)
Materialized(package) ==
    confirmation.status = "completed" /\ confirmation.result = "run"
        /\ confirmation.package = package

(* Revising a slice, the template policy or an assurance risk, by hand or  *)
(* from the chat: one transaction against the expected package.            *)
ReviseGoalDesign ==
    LET next == [draft.package EXCEPT !.revision = @ + 1]
    IN /\ ReadyForReview
       /\ draft.phase \notin {"composing", "dag_validated"}
       /\ ~ Materialized(draft.package)
       /\ draft.package.revision < MaxRevisions
       /\ RevisionFree(next)
       /\ StoreRevision(next)
       /\ draft' = [draft EXCEPT !.phase = "slice_review", !.package = next]
       /\ IF confirmation.package = draft.package THEN MarkConfirmationStale
          ELSE UNCHANGED confirmation
       /\ UNCHANGED <<imports, library, active, goalRuns, reviewVars>>

ReviewStep ==
    \/ ReviseGoalRequirement
    \/ ConfirmGoalRequirements
    \/ BeginResolution
    \/ \E origin \in Resolutions : BeginResume(origin)
    \/ \E ready \in BOOLEAN : PersistResolution(ready)
    \/ ResolutionRejected
    \/ RequestFails
    \/ CreateImport
    \/ AttachImport
    \/ \E origin \in Resolutions : InstallImport(origin)
    \/ BeginSliceDesign
    \/ PersistSlices
    \/ SlicesRejected
    \/ ReviseGoalDesign

=============================================================================
