-------------------------------- MODULE MCGoal --------------------------------
(***************************************************************************)
(* Instances for TLC of a goal before its run (GoalOrchestration), of work *)
(* items and their runs (WorkItems), of the repository the tasks of a run  *)
(* work in (TaskWorkspaces) and of the judgement of the run on its goal    *)
(* (GoalCoverage).                                                         *)
(* They share no state, so each behaviour runs one of them, its focus, and *)
(* the others keep their first state.                                      *)
(***************************************************************************)
EXTENDS GoalOrchestration, GoalCoverage, TaskWorkspaces, WorkItems, TLC

CONSTANTS
    first, second,   \* model values: two confirmation requests
    build, rebuild,  \* model values: a producer, and one of its repair
    retell,          \* model value: another producer of a repair
    check, recheck,  \* model values: an evaluator, and one of a repair
    review,          \* model value: another evaluator of a repair
    code, text,      \* model values: artifact contracts
    main, side,      \* model values: two requirements
    a, b,            \* model values: a blocking check of each requirement
    option,          \* model value: a check of the first that blocks nothing
    fork, base,      \* model values: a task with a worktree, and one without
    caller, other    \* model values: two callers with work items

VARIABLE focus

ConfirmerSymmetry == Permutations(Confirmers)

(* Bound: at most two of these happen to a goal: another requirement draft *)
(* is made, another library version, another run, a crash.                 *)
TwoTurnsOfEvents ==
    LET happened == <<draft.req > 1, library > 1, goalRuns[2].status # "none",
                      goalCrashes > 0>>
    IN Cardinality({i \in DOMAIN happened : happened[i]}) <= 2

OptionOfMain == [c \in Checks |-> IF c = b THEN side ELSE main]
CoveredBy(p, e) == [producers |-> p, evaluators |-> e]

(* One task produces what a requirement is checked on, or the repair has   *)
(* two tasks for the two contracts of the first requirement.               *)
FirstTasks == [r \in RequirementIds |-> CoveredBy({build}, {check})]
RepairTasks ==
    [r \in RequirementIds |->
       IF r = main THEN CoveredBy({rebuild, retell}, {recheck, review})
       ELSE CoveredBy({rebuild}, {recheck})]
ShareOfChecks ==
    [e \in Evaluators |->
       CASE e = check -> Checks [] e = recheck -> {a, b} [] e = review -> {option}]
TextOfOption == [c \in Checks |-> IF c = option THEN text ELSE code]
ShareOfContracts ==
    [p \in Producers |->
       CASE p = build -> {code, text} [] p = rebuild -> {code} [] p = retell -> {text}]

(* Bound: at most one check does not pass. *)
OneFlaw ==
    LET flaw(c, kind) == [d \in Checks |-> IF d = c THEN kind ELSE "passed"]
    IN {flaw(a, "passed"), flaw(a, "failed"), flaw(b, "failed"),
        flaw(option, "invalid"), flaw(option, "missing")}

(* Bound: the attempt without a worktree is the only one of its task. *)
TwoForks == [t \in Isolated \cup Direct |-> IF t = fork THEN 2 ELSE 1]

MCInit ==
    /\ GoalInit /\ CoverageInit /\ WorkspaceInit /\ WorkItemsInit
    /\ focus \in {"goal", "coverage", "workspace", "items"}

MCNext ==
    /\ UNCHANGED focus
    /\ \/ focus = "goal" /\ GoalNext
          /\ UNCHANGED <<coverageVars, workspaceVars, workItemVars>>
       \/ focus = "coverage" /\ CoverageNext
          /\ UNCHANGED <<goalVars, workspaceVars, workItemVars>>
       \/ focus = "workspace" /\ WorkspaceNext
          /\ UNCHANGED <<goalVars, coverageVars, workItemVars>>
       \/ focus = "items" /\ WorkItemsNext
          /\ UNCHANGED <<goalVars, coverageVars, workspaceVars>>

MCVars == <<focus, goalVars, coverageVars, workspaceVars, workItemVars>>

MCSpec == MCInit /\ [][MCNext]_MCVars
=============================================================================
