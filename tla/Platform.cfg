SPECIFICATION PlatformSpec
CONSTANTS
    Slices <- ThreeSlices
    SliceDeps <- ThirdAfterFirst
    LaunchOrder <- ThreeInOrder
    MaxGenerations = 2
    MaxInterventions = 1
    MaxSetCrashes = 1
    left = left
    right = right
    Chains = {left, right}
    MaxRepairRounds = 2
    MaxAuthorities = 2
    MaxRepairCrashes = 1
    MaxVerificationRetries = 1
    r1 = r1
    r2 = r2
    r3 = r3
    Requests = {r1, r2, r3}
    Files = {1, 2}
    FileOrder <- TwoFiles
    MaxPublications = 2
    MaxEdits = 2
    MaxLibCrashes = 1
    w1 = w1
    w2 = w2
    Writers = {w1, w2}
    PanelLimit = 2
    MaxEvents = 3
    MaxLive = 1
    MaxLosses = 1
CONSTRAINTS RetryIsEarly RetryIsAlone RequestsInOrder SecondEditIsLate
            EditsOrRequests
CHECK_DEADLOCK FALSE
INVARIANTS
    SetNeverStalls
    DeliveredIsVerified
    RepairsFormALine
    WaitsForSomebody
    LibraryConverges
    EventsAreComplete
    EventsComeOnce
PROPERTIES
    SlicesStartInOrder
    TerminalSetIsFinal
    AuthorityIsCurrent
    GraphShowsTheSettled
    EditsSurvive
