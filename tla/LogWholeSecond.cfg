CONSTANTS
    LongMod <- TwoBytes
    IntMod = 256
    Formats <- ShortFormats
    ArgLists <- Words
    Ticks <- WholeSeconds
SPECIFICATION Spec
INVARIANT TimeReadsBack
CHECK_DEADLOCK FALSE
