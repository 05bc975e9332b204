SPECIFICATION Spec
CONSTANTS
    build = build
    test = test
    docs = docs
    extra = extra
    repo = repo
    Tasks = {build}
    Deps <- NoDeps
    EffortCap = 0
    Contracted = {build}
    ReadOnly = {}
    Worktree = {}
    ResourceKeys <- WholeWorkspace
    AttemptBound = 1
    Kinds = {"late_callback"}
    QueueTimeoutLimit = 2
    Verdicts = {TRUE}
    Requests = {r1}
    Commands = {"start","pause"}
    Appliers = {}
    Loops = {}
    Crashes = FALSE
    Fallible = {}
CHECK_DEADLOCK FALSE
PROPERTY PausedRunGetsNoHand
