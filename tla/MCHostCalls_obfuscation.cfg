SPECIFICATION HostSpec
CONSTANTS
    Items = {}
    Tilings <- MCTilings
    MaxSize = 2
    ClassA = ClassA
    ClassB = ClassB
    ClassC = ClassC
    Priorities = {1, 2, 3, 4}
    Registrations = {}
    MaxCalls = 0
    MaxListed = 2
    NoClass = NoClass
    None = None
    Threads = {}
    ArgumentLists <- MCArgumentLists
    Deployments <- MCDeployments
    Installations = {}
    Arch = "arch"
    Requests <- MCRequests
    Questions = {}
    MAX_SUPPORT_DIMS_NUMS = 2
    MAX_MASK_LEN64 = 3
    Processes = {}
    Files = {f1, f2, f3, f4}
    Nothing = Nothing
INVARIANT ShapesRefused
CHECK_DEADLOCK FALSE
