CONSTANTS
    Lines <- TimerAndKeyboard
    SpuriousLines <- SecondPic
    Exceptions <- None
    BiosMasks <- UsualMasks
SPECIFICATION Spec
INVARIANTS Spurious15Returns
CHECK_DEADLOCK FALSE
