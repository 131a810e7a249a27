CONSTANTS
    Lines <- BusyLines
    SpuriousLines <- BothPics
    Exceptions <- SomeFaults
    BiosMasks <- UsualMasks
    Rates <- UsualRates
    Requests <- ShortSleeps
    TickMod = 2
SPECIFICATION FairSpec
INVARIANTS TypeOK NoneLeftInService HandlersDoNotNest DiesOnlyOf CountsDown NotEarly AtMostOneTickLate
PROPERTIES LinesServed SleepReturns
CHECK_DEADLOCK FALSE
