SPECIFICATION FairSpec
CONSTANTS
    ScanCodes <- OneKey
    MaxScans = 1
PROPERTIES GrabsWhatComesIn
