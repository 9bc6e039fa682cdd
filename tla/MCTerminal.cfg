CONSTANTS
    PortMax = 2
    IBUFSZ = 4
    COLS = 5
    TABSZ = 3
    SH_LINEBUFSZ = 4
    SH_ARGVSZ = 2
    MaxKeys = 6
    Keys <- MCKeys
SPECIFICATION Spec
INVARIANTS  LineByLine EchoShowsLine
 
CHECK_DEADLOCK FALSE
