SPECIFICATION Spec
CONSTANTS
    n1 = n1
    n2 = n2
    Node = {n1, n2}
    maxPacketSize = 2
    Sizes = {0, 1, 3}
    Callers = {"c1", "c2"}
    Funcs <- SomeFuncs
    Roles <- SomeRoles
    Adapters = {1, 2}
    Renders = {1, 2}
    MaxPending = 2
    Rates = {3, 5}
    Scenes = {"s1"}
    Periods = {2, 4}
    ERROR_LOG_MAX_NUM = 2
    SEC_TO_NSEC = 10
    MaxMoves = 2
    MaxErrors = 3
    MaxMaps = 1
    Configs <- SoundCards
    SUPPORT_ADAPTER_NUM_MAX = 2
    MaxAddr = 4
    Thread <- AudioThreads
    Priorities = {0, 1}
    StreamId = {1, 2}
    AdapterId = {1}
    Units <- AllUnits
    EntriesOf <- AllEntries
    LivesOf <- AllLives
CONSTRAINT Bound
INVARIANTS
    ToldOnce
    ToldRight
    NodesAccounted
    ReportedIsTrue
    AudioIsTrue
    NothingLeaks
    NoMisuse
CHECK_DEADLOCK FALSE
