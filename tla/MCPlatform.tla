------------------------------ MODULE MCPlatform ------------------------------
(***************************************************************************)
(* Instances of the protocols around a run for TLC: the execution set of a *)
(* goal in slices, the repairs of a run, the publications of the library,  *)
(* the watchers of a run's history.                                        *)
(* They share no state, so each behaviour runs one of them, its focus, and *)
(* the others keep their first state.                                      *)
(***************************************************************************)
EXTENDS GoalExecutionSet, DynamicRepair, LibraryPublication, RunEventStream

CONSTANTS
    left, right,  \* model values: two chains of a run
    r1, r2, r3,   \* model values: three requests to the library
    w1, w2        \* model values: two writers of a run's history

VARIABLE focus

(* Three slices, of which the third depends on the first. *)
ThreeSlices == {1, 2, 3}
ThirdAfterFirst == [s \in ThreeSlices |-> IF s = 3 THEN {1} ELSE {}]
ThreeInOrder == <<1, 2, 3>>

(* Bound: the first materialization fails at its first slice if it fails,  *)
(* and the runs of the second one are then left alone by the operator.     *)
RetryIsEarly ==
    materializer.generation > 1 =>
        /\ interventions = 0 /\ ~unnoticed
        /\ \A s \in ThreeSlices \ {1} : sliceRuns[<<s, 1>>].status = "none"

(* Bound: an operator's retry and a crash during a repair are not in one   *)
(* behaviour, nor a retry and two approvals.                               *)
RetryIsAlone ==
    /\ verificationRetries + repairCrashes <= 1
    /\ verificationRetries > 0 => Cardinality(DOMAIN authority) <= 1

(* Two files of an import. *)
TwoFiles == <<1, 2>>

(* The requests to the library differ in name only: they are made in one   *)
(* order.                                                                  *)
RequestsInOrder ==
    /\ request[r2].kind # "none" => request[r1].kind # "none"
    /\ request[r3].kind # "none" => request[r2].kind # "none"

(* Bound: the operator edits again only after a commit, which is when a    *)
(* recovery can publish a file once more.                                  *)
SecondEditIsLate == server.edits = 2 => markers # {}

(* Bound: three requests, or two edits. *)
EditsOrRequests == server.edits = 2 => request[r3].kind = "none"

PlatformInit ==
    /\ ExecutionSetInit /\ RepairInit /\ LibraryInit /\ StreamInit
    /\ focus \in {"set", "repair", "library", "events"}
    /\ focus # "library" => settled = [f \in Files |-> "absent"]
    /\ focus # "events" => ~watcher.closes

PlatformNext ==
    /\ UNCHANGED focus
    /\ \/ focus = "set" /\ ExecutionSetNext
          /\ UNCHANGED <<repairVars, libraryVars, streamVars>>
       \/ focus = "repair" /\ RepairNext
          /\ UNCHANGED <<setVars, libraryVars, streamVars>>
       \/ focus = "library" /\ LibraryNext
          /\ UNCHANGED <<setVars, repairVars, streamVars>>
       \/ focus = "events" /\ StreamNext
          /\ UNCHANGED <<setVars, repairVars, libraryVars>>

platformVars == <<focus, setVars, repairVars, libraryVars, streamVars>>

PlatformSpec == PlatformInit /\ [][PlatformNext]_platformVars
===============================================================================
