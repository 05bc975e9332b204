SPECIFICATION Spec
CONSTANTS
    build = build
    test = test
    docs = docs
    extra = extra
    repo = repo
    Tasks = {build}
    Deps <- NoDeps
    EffortCap = 0
    Contracted = {build}
    ReadOnly = {}
    Worktree = {}
    ResourceKeys <- WholeWorkspace
    AttemptBound = 2
    Kinds = {"tork_queue_timeout","tork_running_hang"}
    QueueTimeoutLimit = 2
    Verdicts = {TRUE}
    Requests = {r1}
    Commands = {"start"}
    Appliers = {a1}
    Loops = {"observer"}
    Crashes = FALSE
    Fallible = {}
CHECK_DEADLOCK FALSE
PROPERTY StaleDecisionIsNotApplied
