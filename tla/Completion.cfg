SPECIFICATION FairSpec
CONSTANTS
    build = build
    test = test
    docs = docs
    extra = extra
    repo = repo
    Tasks = {build,test}
    Deps <- NoDeps
    EffortCap = 0
    Contracted = {build,test}
    ReadOnly = {build,test}
    Worktree = {}
    ResourceKeys <- WholeWorkspace
    AttemptBound = 1
    Kinds = {"validation_failed"}
    QueueTimeoutLimit = 2
    Verdicts = {TRUE}
    Requests = {r1,r2}
    Commands = {"start","retry_task"}
    Appliers = {a1}
    Loops = {}
    Crashes = FALSE
    Fallible = {}
CHECK_DEADLOCK FALSE
PROPERTIES RunCompletes
