CONSTANTS
    THRD_MAX = 2
    MaxTid = 5
    MaxThreads = 3
    Status <- MCStatus
SPECIFICATION TSpec
INVARIANTS TypeOK StacksApart HandleJoinsOwn SlotsAccounted ResultsDoubled
CHECK_DEADLOCK FALSE
