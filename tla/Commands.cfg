SPECIFICATION Spec
CONSTANTS
    build = build
    test = test
    docs = docs
    extra = extra
    repo = repo
    Tasks = {build, test, extra}
    Deps <- NoDeps
    EffortCap = 1
    Contracted = {build, test}
    ReadOnly = {test}
    Worktree = {build}
    ResourceKeys <- WholeWorkspace
    AttemptBound = 1
    Kinds = {"late_callback","workspace_merge_conflict"}
    QueueTimeoutLimit = 2
    Verdicts = {TRUE}
    Requests = {r1}
    Commands = {"start","pause","pause_cancelling","resume","cancel","cancel_job"}
    Appliers = {}
    Loops = {"heartbeat"}
    Crashes = FALSE
    Fallible = {"heartbeat"}
CHECK_DEADLOCK FALSE
INVARIANTS ParallelLimit
PROPERTIES SettledAttemptStaysSettled CancelledRunIsFrozen
