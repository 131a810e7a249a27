CONSTANTS
    Machines <- ManyMachines
    MAX_ENTRIES = 2
    Room = 3
    TestCount = 4
    WordMod = 65536
    Pages <- LookedAt
    KernelPages <- CodeAndScreen
    Indices <- FirstEntries
    page_directory = 32
    page_directory_ptr = 33
    pml4 = 34
    Cpus <- AllButOne
SPECIFICATION FairSpec
INVARIANTS TypeOK HeapGetsUsable RefusesTooMany OnlyIdentity SegmentsSuitMode StopsOnlyFor
PROPERTIES Ends
CHECK_DEADLOCK FALSE
