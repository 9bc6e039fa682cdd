SPECIFICATION Spec
CONSTANTS
    nthreads = 2
    MaxCount = 4
    SHR_RANGE = 7
INVARIANTS
    ExactCounters
    RacyBounds
CHECK_DEADLOCK FALSE
