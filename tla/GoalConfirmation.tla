-------------------------- MODULE GoalConfirmation ---------------------------
(***************************************************************************)
(* Confirming a Goal Design package and making one run of it               *)
(* (run-goal-service.ts).  A confirmation request prepares in one          *)
(* transaction, marks the draft composing in a second, asks a model to     *)
(* compose the workflow, commits the run in a third and hands it to the    *)
(* scheduler in a fourth; every failure in between has a transaction of    *)
(* its own.  The confirmation row is one per goal; who is working on it is *)
(* known only from the in-memory marker.                                   *)
(***************************************************************************)
EXTENDS GoalReview

VARIABLE confirmer  \* the requests in flight: where each is, and its expected package

IdleConfirmer == [pc |-> "idle", package |-> NoPackage]

GoalConfirmationInit == confirmer = [c \in Confirmers |-> IdleConfirmer]

GoalConfirmationTypeOK ==
    confirmer \in [Confirmers ->
        [pc : {"idle", "prepared", "composing", "validated", "invalid", "failing", "handoff"},
         package : Packages \cup {NoPackage}]]

InFlight == {c \in Confirmers : confirmer[c].pc # "idle"}

Goto(c, pc) ==
    confirmer' = [confirmer EXCEPT ![c].pc = pc]

Leave(c) ==
    confirmer' = [confirmer EXCEPT ![c] = IdleConfirmer]

(* transitionGoalDesignPhaseTx; a throw rolls its transaction back. *)
MayMovePhase(package, allowedFrom, to) ==
    /\ PackageCurrent(package)
    /\ draft.phase \in allowedFrom \cup {to}

MovePhase(to) == draft' = [draft EXCEPT !.phase = to]

-----------------------------------------------------------------------------
(* prepareGoalDesignConfirmationPg *)

(* Mutant: a confirmation in progress is taken for an orphan. *)
AnyComposing == confirmation.status = "composing"

(* A confirmation found composing without a marker was left by a process   *)
(* that is gone.                                                           *)
Orphaned == confirmation.status = "composing" /\ ~active

Restartable == confirmation.status \in {"none", "stale"} \/ Orphaned

(* Where the draft may be for the confirmation to start over. *)
RestartPhases ==
    IF confirmation.status = "none" THEN {"slice_review"}
    ELSE {"slice_review", "ready_to_compose", "composing"}

NewConfirmation ==
    [status |-> "composing", package |-> draft.package, result |-> "none",
     scheduling |-> FALSE, run |-> 0]

StartConfirmation(c) ==
    /\ confirmer[c].pc = "idle"
    /\ ReadyForReview
    /\ MayMovePhase(draft.package, RestartPhases, "ready_to_compose")
    /\ \/ Restartable /\ confirmation' = NewConfirmation
       \/ /\ confirmation.status = "failed"
          /\ confirmation.package = draft.package
          /\ confirmation' = [confirmation EXCEPT !.status = "composing", !.result = "none"]
    /\ active' = TRUE
    /\ MovePhase("ready_to_compose")
    /\ confirmer' = [confirmer EXCEPT ![c] = [pc |-> "prepared", package |-> draft.package]]
    /\ UNCHANGED <<packageRevisions, imports, library, goalRuns, reviewVars>>

(* The marker is set before the phase is checked, and a rolled back        *)
(* transaction does not take it back.                                      *)
StartConfirmationThrows(c) ==
    /\ confirmer[c].pc = "idle"
    /\ ReadyForReview
    /\ \/ Restartable
       \/ confirmation.status = "failed" /\ confirmation.package = draft.package
    /\ ~ MayMovePhase(draft.package, RestartPhases, "ready_to_compose")
    /\ active' = TRUE
    /\ UNCHANGED <<draftVars, confirmation, goalRuns, reviewVars, confirmer>>

(* A composition that did not validate is composed again; nothing sets the *)
(* marker.                                                                 *)
RetryInvalid(c) ==
    /\ confirmer[c].pc = "idle"
    /\ ReadyForReview
    /\ confirmation.status = "completed"
    /\ confirmation.result = "invalid"
    /\ confirmation.package = draft.package
    /\ draft.phase = "ready_to_compose"
    /\ confirmation' = [confirmation EXCEPT !.status = "composing", !.result = "none",
                                            !.scheduling = FALSE]
    /\ confirmer' = [confirmer EXCEPT ![c] = [pc |-> "prepared", package |-> draft.package]]
    /\ UNCHANGED <<draftVars, active, goalRuns, reviewVars>>

(* A completed confirmation answers with its run, and asks for the handoff *)
(* when one was requested.                                                 *)
ReplayCompleted(c) ==
    /\ confirmer[c].pc = "idle"
    /\ ReadyForReview
    /\ confirmation.status = "completed"
    /\ confirmation.result = "run"
    /\ confirmation.package = draft.package
    /\ MovePhase("dag_validated")
    /\ confirmer' = IF confirmation.scheduling
                    THEN [confirmer EXCEPT ![c] = [pc |-> "handoff", package |-> draft.package]]
                    ELSE confirmer
    /\ UNCHANGED <<packageRevisions, imports, library, confirmationVars, reviewVars>>

-----------------------------------------------------------------------------
(* continueGoalDesignToRunPg *)

BeginComposition(c) ==
    /\ confirmer[c].pc = "prepared"
    /\ IF MayMovePhase(confirmer[c].package, {"ready_to_compose"}, "composing")
       THEN MovePhase("composing") /\ Goto(c, "composing")
       ELSE Goto(c, "failing") /\ UNCHANGED draft
    /\ UNCHANGED <<packageRevisions, imports, library, confirmationVars, reviewVars>>

FreeRun == {n \in 1..MaxRuns : goalRuns[n].status = "none"}

(* Mutant: an error of the composer is not caught. *)
ComposeUncaught(c, outcome) ==
    /\ confirmer[c].pc = "composing"
    /\ outcome = "validated" => FreeRun # {}
    /\ IF outcome = "failing" THEN Leave(c) ELSE Goto(c, outcome)
    /\ UNCHANGED <<draftVars, confirmationVars, reviewVars>>

Compose(c, outcome) ==
    /\ confirmer[c].pc = "composing"
    /\ outcome = "validated" => FreeRun # {}
    /\ Goto(c, outcome)
    /\ UNCHANGED <<draftVars, confirmationVars, reviewVars>>

Complete(result) ==
    /\ confirmation' = [confirmation EXCEPT !.status = "completed", !.result = result]
    /\ active' = FALSE

(* Outside of any catch: when it throws, only the request ends. *)
CompleteInvalid(c) ==
    /\ confirmer[c].pc = "invalid"
    /\ IF MayMovePhase(confirmer[c].package, {"composing"}, "ready_to_compose")
       THEN MovePhase("ready_to_compose") /\ Complete("invalid")
       ELSE UNCHANGED <<draft, confirmation, active>>
    /\ Leave(c)
    /\ UNCHANGED <<packageRevisions, imports, library, goalRuns, reviewVars>>

(* Another request has completed the confirmation in the meantime. *)
AnswerCompleted(c) ==
    /\ confirmer[c].pc = "validated"
    /\ PackageCurrent(confirmer[c].package)
    /\ confirmation.status = "completed"
    /\ IF confirmation.scheduling /\ confirmation.result = "run" THEN Goto(c, "handoff")
       ELSE Leave(c)
    /\ UNCHANGED <<draftVars, confirmationVars, reviewVars>>

(* createRunRequestFromValidatedDraftTx: the run, its approval and the     *)
(* request to schedule it are one transaction.                             *)
CreateRun(c, approved) ==
    /\ confirmer[c].pc = "validated"
    /\ confirmation.status = "composing"
    /\ MayMovePhase(confirmer[c].package, {"composing"}, "dag_validated")
    /\ MovePhase("dag_validated")
    /\ \E n \in FreeRun :
         /\ \A m \in FreeRun : n <= m
         /\ goalRuns' = [goalRuns EXCEPT ![n] =
                           [package |-> confirmer[c].package,
                            status |-> IF approved THEN "created" ELSE "awaiting_approval"]]
         /\ IF approved
            THEN /\ confirmation' = [confirmation EXCEPT !.scheduling = TRUE, !.run = n]
                 /\ Goto(c, "handoff")
                 /\ UNCHANGED active
            ELSE /\ confirmation' = [confirmation EXCEPT !.status = "completed",
                                                         !.result = "run", !.run = n]
                 /\ active' = FALSE
                 /\ Leave(c)
    /\ UNCHANGED <<packageRevisions, imports, library, reviewVars>>

CreateRunThrows(c) ==
    /\ confirmer[c].pc = "validated"
    /\ \/ ~ PackageCurrent(confirmer[c].package)
       \/ confirmation.status \notin {"composing", "completed"}
       \/ /\ confirmation.status = "composing"
          /\ ~ MayMovePhase(confirmer[c].package, {"composing"}, "dag_validated")
    /\ Goto(c, "failing")
    /\ UNCHANGED <<draftVars, confirmationVars, reviewVars>>

(* failGoalDesignConfirmationPg; for a package that is no longer current   *)
(* it throws too, and the marker stays.                                    *)
FailurePhases == {"slice_review", "ready_to_compose", "composing", "dag_validated"}

(* Mutant: the phase stays. *)
FailConfirmationOnly(c) ==
    /\ confirmer[c].pc = "failing"
    /\ IF MayMovePhase(confirmer[c].package, FailurePhases, "ready_to_compose")
       THEN confirmation' = [confirmation EXCEPT !.status = "failed", !.result = "none"]
            /\ active' = FALSE
       ELSE UNCHANGED <<confirmation, active>>
    /\ Leave(c)
    /\ UNCHANGED <<draftVars, goalRuns, reviewVars>>

FailConfirmation(c) ==
    /\ confirmer[c].pc = "failing"
    /\ IF MayMovePhase(confirmer[c].package, FailurePhases, "ready_to_compose")
       THEN /\ MovePhase("ready_to_compose")
            /\ confirmation' = [confirmation EXCEPT !.status = "failed", !.result = "none"]
            /\ active' = FALSE
       ELSE UNCHANGED <<draft, confirmation, active>>
    /\ Leave(c)
    /\ UNCHANGED <<packageRevisions, imports, library, goalRuns, reviewVars>>

(* completeGoalSchedulingHandoffPg; when scheduling cannot start the run   *)
(* stays created and an exception is recorded.                             *)
HandOff(c, started) ==
    /\ confirmer[c].pc = "handoff"
    /\ IF confirmation.status = "composing" /\ confirmation.scheduling
       THEN /\ goalRuns' = [goalRuns EXCEPT ![confirmation.run].status =
                              IF started THEN "scheduling" ELSE "created"]
            /\ Complete("run")
       ELSE UNCHANGED confirmationVars
    /\ Leave(c)
    /\ UNCHANGED <<draftVars, reviewVars>>

ConfirmationProgress(c) ==
    \/ BeginComposition(c)
    \/ \E outcome \in {"validated", "invalid", "failing"} : Compose(c, outcome)
    \/ CompleteInvalid(c)
    \/ AnswerCompleted(c)
    \/ \E approved \in BOOLEAN : CreateRun(c, approved)
    \/ CreateRunThrows(c)
    \/ FailConfirmation(c)
    \/ \E started \in BOOLEAN : HandOff(c, started)

ConfirmationStep ==
    \E c \in Confirmers :
        \/ StartConfirmation(c)
        \/ StartConfirmationThrows(c)
        \/ RetryInvalid(c)
        \/ ReplayCompleted(c)
        \/ ConfirmationProgress(c)

=============================================================================
