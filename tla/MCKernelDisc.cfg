SPECIFICATION FairSpec
CONSTANTS
    THREAD_MAX = 3
    PROCESS_MAX = 2
    Status = {0, 1}
    Env = {}
    MaxTid = 5
    MaxPid = 4
INVARIANTS
    NoLostThread
    OwnAddressSpace
    PromptIdle
    UndefinedOnlyWhenFull
PROPERTIES
    JoinReapsAsked
    JoinReturns
    ImplementsThreadLife
CHECK_DEADLOCK FALSE
