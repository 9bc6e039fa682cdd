SPECIFICATION Spec
CONSTANTS
    THREAD_MAX = 3
    PROCESS_MAX = 2
    Status = {0}
    Env = {"orphan"}
    MaxTid = 5
    MaxPid = 4
INVARIANT ExitEndsThreads
CHECK_DEADLOCK FALSE
