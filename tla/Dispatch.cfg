SPECIFICATION Spec
CONSTANTS
    build = build
    test = test
    docs = docs
    extra = extra
    repo = repo
    Tasks = {build, test, docs}
    Deps <- DocsAfterBuild
    EffortCap = 0
    Contracted = {build, test, docs}
    ReadOnly = {docs}
    Worktree = {build}
    ResourceKeys <- OneResource
    AttemptBound = 1
    Kinds = {"dispatch_preparation_failed", "hand_submit_failed"}
    QueueTimeoutLimit = 2
    Verdicts = {TRUE}
    Requests = {r1}
    Commands = {"start"}
    Appliers = {}
    Loops = {}
    Crashes = FALSE
    Fallible = {"scheduler"}
CONSTRAINT OneCutShort
CHECK_DEADLOCK FALSE
INVARIANTS
    WriterExclusion
    DependenciesAccepted
    ClaimHasDispatcher
