SPECIFICATION MCSpec
CONSTANTS
    first = first
    second = second
    Confirmers = {first, second}
    MaxRequirements = 2
    MaxLibrary = 2
    MaxRevisions = 2
    MaxRuns = 2
    MaxGoalCrashes = 1
    build = build
    rebuild = rebuild
    retell = retell
    Producers = {build, rebuild, retell}
    check = check
    recheck = recheck
    review = review
    code = code
    text = text
    Evaluators = {check, recheck, review}
    main = main
    side = side
    RequirementIds = {main, side}
    a = a
    b = b
    option = option
    Checks = {a, b, option}
    BlockingChecks = {a, b}
    RequirementOf <- OptionOfMain
    ChecksOf <- ShareOfChecks
    ContractOf <- TextOfOption
    Emits <- ShareOfContracts
    FirstCoverage <- FirstTasks
    RepairCoverage <- RepairTasks
    Reports <- OneFlaw
    MaxRetries = 1
    MaxAlarms = 1
    fork = fork
    base = base
    Isolated = {fork}
    Direct = {base}
    MaxWorkTries <- TwoForks
    MaxTorn = 1
    MaxRestores = 1
    caller = caller
    other = other
    Submissions = {caller, other}
    SourceRefs = {"issue", "ticket"}
    RunNames = {"nightly", "weekly"}
    Labels = {"bug"}
SYMMETRY ConfirmerSymmetry
CONSTRAINT TwoTurnsOfEvents
CHECK_DEADLOCK FALSE
INVARIANTS
    PackageLineage
    LinkedImportIsCurrent
    OneRunPerPackage
    FrozenByItsConfirmation
    ActiveConfirmationIsOwned
    SatisfiedIsVerified
    AcceptedVerificationCounts
    FinishedWorkIsMerged
    OnlyFinishedWorkIsMerged
    AttemptsAreConsecutive
PROPERTIES RunsOfTheReviewedPackage
