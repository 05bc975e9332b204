SPECIFICATION Spec
CONSTANTS
    build = build
    test = test
    docs = docs
    extra = extra
    repo = repo
    Tasks = {build}
    Deps <- NoDeps
    EffortCap = 0
    Contracted = {build}
    ReadOnly = {}
    Worktree = {}
    ResourceKeys <- WholeWorkspace
    AttemptBound = 1
    Kinds = {"tork_terminal_without_callback","tork_queue_timeout","validation_failed"}
    QueueTimeoutLimit = 2
    Verdicts = {TRUE}
    Requests = {r1}
    Commands = {"start","approve","rollback_session"}
    Appliers = {a1,a2}
    Loops = {"observer"}
    Crashes = FALSE
    Fallible = {}
SYMMETRY ApplierSymmetry
CHECK_DEADLOCK FALSE
INVARIANTS DecisionMatchesExecution AppliedDecisionTookEffect NoStrandedTask
PROPERTY SettledAttemptStaysSettled
