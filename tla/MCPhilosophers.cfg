SPECIFICATION FairSpec
CONSTANTS
    nthreads = 3
    phl_loops = 2
INVARIANTS
    TypeOK
    EatExclusive
    StuckOnlyInCircle
PROPERTY LeftHandedEnds
CHECK_DEADLOCK FALSE
