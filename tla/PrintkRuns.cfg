CONSTANTS
    LongMod <- TwoBytes
    IntMod = 256
    Formats <- ShortFormats
    ArgLists <- Words
    Ticks <- SomeTicks
SPECIFICATION FairSpec
INVARIANTS TypeOK PaddedAsFlagged ReadsBack TimeReadsBack
PROPERTIES Ends
CHECK_DEADLOCK FALSE
