SPECIFICATION Spec
CONSTANTS
    LThreads = {1, 2, 3}
    LProcs = {1, 2}
    CharBits = 4
    ShortBits = 6
    IntBits = 8
    LLBits = 10
    DEFAULT_BUFSZ = 6
    Calls <- MCCalls
    IThreads = {1, 2, 3}
INVARIANTS
    ListsExact
    PrintedExact
    InterruptsServed
CHECK_DEADLOCK FALSE
