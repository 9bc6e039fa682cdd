SPECIFICATION FairSpec
CONSTANTS
    THREAD_MAX = 3
    PROCESS_MAX = 2
    Status = {0}
    Env = {"fault", "orphan", "rejoin", "lastexit", "badload", "earlytick"}
    MaxTid = 4
    MaxPid = 3
INVARIANTS
    TypeOK
    QueueSound
    RunningSound
    TidsUnique
    ProcessAllocSucceeds
    Cr3Open
PROPERTIES
    NoOvertaking
    QueuedRuns
CHECK_DEADLOCK FALSE
