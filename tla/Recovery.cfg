SPECIFICATION Spec
CONSTANTS
    build = build
    test = test
    docs = docs
    extra = extra
    repo = repo
    Tasks = {build}
    Deps <- NoDeps
    EffortCap = 0
    Contracted = {build}
    ReadOnly = {}
    Worktree = {}
    ResourceKeys <- WholeWorkspace
    AttemptBound = 2
    Kinds = {"tork_running_hang", "hand_submit_failed","late_callback","tool_proxy_violation"}
    QueueTimeoutLimit = 2
    Verdicts = {TRUE}
    Requests = {r1}
    Commands = {"start","approve","reject"}
    Appliers = {a1}
    Loops = {"observer"}
    Crashes = TRUE
    Fallible = {"scheduler", "callback", "observer", "applier"}
CHECK_DEADLOCK FALSE
INVARIANTS TypeOK
PROPERTIES CompletedTaskIsFinal ImplementsContract
