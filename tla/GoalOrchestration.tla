-------------------------- MODULE GoalOrchestration --------------------------
(***************************************************************************)
(* A goal from its first requirement draft to a scheduled run: the review  *)
(* and the confirmation of one goal, with a server that may crash between  *)
(* any two transactions and then loses its requests and its marker.        *)
(***************************************************************************)
EXTENDS GoalConfirmation

CONSTANT MaxGoalCrashes  \* bound: crashes of the server

ASSUME GoalCrashBound == MaxGoalCrashes \in Nat

VARIABLES
    goalCrashes,  \* crashes so far
    takenOver     \* history: a live request's confirmation was taken for an orphan

goalVars == <<draftVars, confirmationVars, reviewVars, confirmer, goalCrashes, takenOver>>

GoalTypeOK ==
    /\ GoalDraftTypeOK
    /\ GoalReviewTypeOK
    /\ GoalConfirmationTypeOK
    /\ goalCrashes \in 0..MaxGoalCrashes
    /\ takenOver \in BOOLEAN

GoalInit ==
    /\ GoalDraftInit
    /\ GoalReviewInit
    /\ GoalConfirmationInit
    /\ goalCrashes = 0
    /\ takenOver = FALSE

CrashGoal ==
    /\ goalCrashes < MaxGoalCrashes
    /\ goalCrashes' = goalCrashes + 1
    /\ active' = FALSE
    /\ resolver' = Idle
    /\ designer' = Idle
    /\ confirmer' = [c \in Confirmers |-> IdleConfirmer]
    /\ UNCHANGED <<draftVars, confirmation, goalRuns, takenOver>>

(* A retried invalid composition has no marker, so the next request takes  *)
(* the confirmation over from the request that is composing it.            *)
TakeOver ==
    takenOver' = (takenOver \/ (/\ confirmation.status = "composing" /\ ~active
                               /\ active' /\ InFlight # {}))

GoalNext ==
    \/ ReviewStep /\ UNCHANGED <<confirmer, goalCrashes, takenOver>>
    \/ ConfirmationStep /\ UNCHANGED goalCrashes /\ TakeOver
    \/ CrashGoal

GoalSpec == GoalInit /\ [][GoalNext]_goalVars

-----------------------------------------------------------------------------

(* Whatever the models were asked meanwhile, the slices under review are   *)
(* of the requirements, the contract and the validation under review       *)
(* (designAndPersistGoalSlicesPg, persistGoalValidationResolutionPg and    *)
(* reviseGoalRequirementPg each commit against what they read).            *)
PackageLineage ==
    /\ draft.resolution # NoResolution =>
         draft.resolution.req = draft.req /\ draft.contract = draft.req
    /\ draft.package # NoPackage =>
         /\ draft.package.req = draft.req
         /\ draft.package.library = draft.resolution.library
         /\ draft.resolution.ready
         /\ packageRevisions[draft.package.revision] = draft.package

(* An open import a goal waits for was asked for by the validation the     *)
(* goal shows (attachGoalValidationImportDraftPg,                          *)
(* persistGoalValidationResolutionPg).                                     *)
LinkedImportIsCurrent ==
    draft.linked => /\ draft.resolution # NoResolution
                    /\ ~draft.resolution.ready
                    /\ imports[draft.resolution] \in {"draft", "installed"}

(* A run is made of exactly the package that is under review when it is    *)
(* committed, and of the one its confirmation was given for.               *)
RunsOfTheReviewedPackage ==
    [][\A n \in 1..MaxRuns : goalRuns[n].status = "none" /\ goalRuns'[n].status # "none" =>
          /\ goalRuns'[n].package = draft.package
          /\ goalRuns'[n].package = confirmation.package]_goalVars

RunsOf(package) == {n \in 1..MaxRuns : goalRuns[n].package = package}

(* Two confirmations of a package, at once or one after the other, with    *)
(* crashes between their transactions, make at most one run of it.  Not so *)
(* once a live confirmation was taken over.                                *)
OneRunPerPackage ==
    ~takenOver => \A package \in Packages : Cardinality(RunsOf(package)) <= 1

(* A draft is frozen only while a confirmation of its own package is being *)
(* composed or has its run, or nobody could revise it any more.            *)
FrozenByItsConfirmation ==
    ~takenOver =>
        /\ draft.phase = "composing" =>
             confirmation.status = "composing" /\ confirmation.package = draft.package
        /\ draft.phase = "dag_validated" =>
             /\ confirmation.package = draft.package
             /\ \/ confirmation.status = "completed" /\ confirmation.result = "run"
                \/ confirmation.status = "composing" /\ confirmation.scheduling

(* A confirmation that answers "processing" has a request working on it:   *)
(* every path of a request that leaves the confirmation composing gives    *)
(* its marker up.  Not so after a crash, see StartConfirmationThrows.      *)
ActiveConfirmationIsOwned ==
    ~takenOver /\ goalCrashes = 0 /\ confirmation.status = "composing" /\ active => InFlight # {}

=============================================================================
