---------------------------- MODULE MCInterrupts ----------------------------
(***************************************************************************)
(* A machine for TLC with the devices the kernel drives, and spurious      *)
(* requests at the second PIC.                                             *)
(***************************************************************************)
EXTENDS Interrupts

TimerAndKeyboard == {0, 1}

SecondPic == {15}

None == {}

\* As a BIOS leaves them: the timer, the keyboard, the cascade on.
UsualMasks == (0 .. 15) \ {0, 1, 2}
=============================================================================
