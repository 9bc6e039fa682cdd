CONSTANTS
    PHYSPAGES_MAX = 5
    Entries = 8
    PAGESZ = 4
    KMAP_MAX = 8
    USTACK_DFLT = 12
    StackPages = 2
    MaxLoads = 4
    Programs <- MCPrograms
SPECIFICATION Spec
INVARIANTS KernelMapped PagesApart TablesAccounted PermissionsExact
CHECK_DEADLOCK FALSE
