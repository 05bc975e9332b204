------------------------------ MODULE GoalDraft ------------------------------
(***************************************************************************)
(* The rows of one goal before it becomes a run: its planner_draft, the    *)
(* revisions of its Goal Design package, the library imports its           *)
(* validation gaps asked for, its goal_design_confirmation and the runs    *)
(* made from it; and the marker of a confirmation in progress, which lives *)
(* in the memory of the server.  Hashes are abstracted to what they are    *)
(* hashes of: a requirement draft is its number, a Goal Contract is the    *)
(* number of the requirement draft it was confirmed from.                  *)
(***************************************************************************)
EXTENDS Integers, FiniteSets

CONSTANTS
    Confirmers,       \* confirmation requests that can be in flight at a time
    MaxRequirements,  \* bound: revisions of the requirement draft
    MaxLibrary,       \* bound: library versions (installs of imports)
    MaxRevisions,     \* bound: revisions of the Goal Design package
    MaxRuns           \* bound: runs made from the goal

ASSUME GoalBounds ==
    /\ MaxRequirements \in Nat \ {0}
    /\ MaxLibrary \in Nat \ {0}
    /\ MaxRevisions \in Nat \ {0}
    /\ MaxRuns \in Nat \ {0}

VARIABLES
    draft,             \* planner_draft
    packageRevisions,  \* goal_design_package_revision rows
    imports,           \* library_import_draft rows by origin; a stale one is none
    library,           \* the version of the approved library
    confirmation,      \* goal_design_confirmation
    active,            \* activeGoalDesignConfirmations has the confirmation
    goalRuns           \* workflow_runs made from this goal

draftVars == <<draft, packageRevisions, imports, library>>
confirmationVars == <<confirmation, active, goalRuns>>

Requirements == 1..MaxRequirements
Resolutions == [req : Requirements, library : 1..MaxLibrary, ready : BOOLEAN]
NoResolution == [req |-> 0, library |-> 0, ready |-> FALSE]
Packages == [req : Requirements, library : 1..MaxLibrary, revision : 1..MaxRevisions]
NoPackage == [req |-> 0, library |-> 0, revision |-> 0]

Phases == {"requirements_review", "validation_resolving", "library_review",
           "validation_ready", "slice_review", "ready_to_compose", "composing",
           "dag_validated"}

ValidationPhases == {"validation_resolving", "library_review", "validation_ready"}

(* The row's status is ready_for_review from the design of the slices on.  *)
ReadyForReview == draft.phase \in {"slice_review", "ready_to_compose", "composing",
                                   "dag_validated"}

GoalDraftTypeOK ==
    /\ draft \in [req : Requirements, phase : Phases, contract : 0..MaxRequirements,
                  resolution : Resolutions \cup {NoResolution}, linked : BOOLEAN,
                  package : Packages \cup {NoPackage}]
    /\ packageRevisions \in [1..MaxRevisions -> Packages \cup {NoPackage}]
    /\ imports \in [Resolutions -> {"none", "draft", "installed"}]
    /\ library \in 1..MaxLibrary
    /\ confirmation \in
         [status : {"none", "composing", "completed", "failed", "stale"},
          package : Packages \cup {NoPackage}, result : {"none", "invalid", "run"},
          scheduling : BOOLEAN, run : 0..MaxRuns]
    /\ active \in BOOLEAN
    /\ goalRuns \in [1..MaxRuns ->
         [package : Packages \cup {NoPackage},
          status : {"none", "created", "awaiting_approval", "scheduling"}]]

(* preparePostgresGoalRequirementDraft *)
GoalDraftInit ==
    /\ draft = [req |-> 1, phase |-> "requirements_review", contract |-> 0,
                resolution |-> NoResolution, linked |-> FALSE, package |-> NoPackage]
    /\ packageRevisions = [n \in 1..MaxRevisions |-> NoPackage]
    /\ imports = [r \in Resolutions |-> "none"]
    /\ library = 1
    /\ confirmation = [status |-> "none", package |-> NoPackage, result |-> "none",
                       scheduling |-> FALSE, run |-> 0]
    /\ active = FALSE
    /\ goalRuns = [n \in 1..MaxRuns |-> [package |-> NoPackage, status |-> "none"]]

(* Mutant: any package will do. *)
AnyPackageCurrent(package) == package # NoPackage /\ draft.package # NoPackage

(* The current package is the one the caller expects: the package hash of  *)
(* every guarded write.                                                    *)
PackageCurrent(package) == package # NoPackage /\ draft.package = package

(* persistGoalDesignPackageRevisionPg: a revision number belongs to one    *)
(* package for good; another package of that number is a conflict.         *)
RevisionFree(package) ==
    packageRevisions[package.revision] \in {NoPackage, package}

StoreRevision(package) ==
    packageRevisions' = [packageRevisions EXCEPT ![package.revision] = package]

(* A confirmation of a superseded package, whatever its state. *)
MarkConfirmationStale ==
    confirmation' = IF confirmation.status = "none" THEN confirmation
                    ELSE [confirmation EXCEPT !.status = "stale"]

(* The open imports of a superseded requirement draft. *)
StaleImportsOf(req) ==
    [r \in Resolutions |-> IF r.req = req /\ imports[r] = "draft" THEN "none"
                           ELSE imports[r]]

=============================================================================
