------------------------------ MODULE MCKernel ------------------------------
(***************************************************************************)
(* A machine for TLC: devices on lines of every kind.                      *)
(***************************************************************************)
EXTENDS Kernel

\* Timer, keyboard, printer, RTC.
BusyLines == {0, 1, 7, 8}

\* The last line of each PIC.
BothPics == {7, 15}

SomeFaults == {0, 13}

\* As a BIOS leaves them: the timer, the keyboard, the cascade on.
UsualMasks == (0 .. 15) \ {2, 1, 0}

\* The rate of init_kernel, and none at all.
UsualRates == {1000, 0}

ShortSleeps == {0, 1, 3}
=============================================================================
