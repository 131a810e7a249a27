SPECIFICATION FairSpec
CONSTANTS
    ScanCodes <- SomeKeys
    MaxScans = 4
INVARIANTS TypeOK
PROPERTIES Refines QuietDelivered
