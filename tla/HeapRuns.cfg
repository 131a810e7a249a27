CONSTANTS
    Regions <- FromZeroUp
    Requests <- SmallRequests
    WordMod <- Word16
    head = 1000
SPECIFICATION FairSpec
INVARIANTS TypeOK RingCloses NoOverlap FillsRegions GrantsEnough ListExact PassMerges
PROPERTIES ListRefines Refines FreeReturns
CHECK_DEADLOCK FALSE
