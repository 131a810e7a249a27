--------------------------- MODULE InterruptLines ---------------------------
(***************************************************************************)
(* What interrupts the kernel: the parameters of Interrupts.               *)
(***************************************************************************)
EXTENDS Integers

CONSTANTS
    Lines,          \* the lines devices raise
    SpuriousLines,  \* 7, 15: lines on which a request may vanish
    Exceptions,     \* exceptions the code may run into
    BiosMasks       \* the lines masked when the kernel starts

ASSUME LinesAssumption == Lines \subseteq (0 .. 15) \ {2}
ASSUME SpuriousAssumption == SpuriousLines \subseteq {7, 15}
ASSUME ExceptionsAssumption == Exceptions \subseteq 0 .. 30
ASSUME MasksAssumption == BiosMasks \subseteq 0 .. 15
=============================================================================
