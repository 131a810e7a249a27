CONSTANTS
    Regions <- Ascending
    Requests <- SmallRequests
    WordMod <- Word16
SPECIFICATION Spec
INVARIANT Coalesced
CHECK_DEADLOCK FALSE
