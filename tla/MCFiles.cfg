CONSTANTS
    RAMDISKS_MAX = 4
    SB_MAX = 4
    MAX_CPIO_OPEN = 4
    PATH_MAX = 8
    MaxCommands = 3
    Archives <- MCArchives
    Names <- MCNames
    HeaderOff <- MCHeaderOff
SPECIFICATION Spec
INVARIANTS OpenFilesBounded ListingExact BytesExact
CHECK_DEADLOCK FALSE
