SPECIFICATION HostSpec
CONSTANTS
    Items = {i1, i2}
    Tilings <- MCTilings
    MaxSize = 2
    ClassA = ClassA
    ClassB = ClassB
    ClassC = ClassC
    Priorities = {1, 2, 3, 4}
    Registrations <- MCRegistrations
    MaxCalls = 2
    MaxListed = 2
    NoClass = NoClass
    None = None
    Threads = {t1, t2}
    ArgumentLists <- MCArgumentLists
    Deployments <- MCDeployments
    Installations <- MCInstallations
    Arch = "arch"
    Requests <- MCRequests
    Questions <- MCQuestions
    MAX_SUPPORT_DIMS_NUMS = 2
    MAX_MASK_LEN64 = 3
    Processes = {p1, p2, p3}
    Files = {f1, f2, f3, f4}
    Nothing = Nothing
SYMMETRY MCSymmetry
INVARIANTS
    LoadsWhatWasMeant
    FirstCapableWins
    KeyIffSuccess
    FailureAbortsUnlessListedNew
    ApiSeesItsArguments
    HandlesReleasedOnce
    OutcomeIsOwn
    ForwardsToOwnLegacy
    OutputAsRequested
    AnswersMatchReference
    QuietDirectoryIsClean
PROPERTIES
    RefusedOnlyWhileAnotherWorks
CHECK_DEADLOCK FALSE
