SPECIFICATION Spec
CONSTANTS
    THREAD_MAX = 3
    PROCESS_MAX = 2
    Status = {0}
    Env = {"fault"}
    MaxTid = 5
    MaxPid = 4
PROPERTY OnlyRunningRequeued
CHECK_DEADLOCK FALSE
