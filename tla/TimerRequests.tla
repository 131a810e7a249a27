---------------------------- MODULE TimerRequests ---------------------------
(***************************************************************************)
(* What the timer is asked for: the parameters of Sleep.                   *)
(***************************************************************************)
EXTENDS Integers

CONSTANTS
    Rates,      \* arguments of reprogram_timer, a uint16_t
    Requests,   \* arguments of millisleep
    TickMod     \* 2^64 in the kernel: timer_ticks wraps at TickMod

UINT16_MAX == 65535

ASSUME RatesAssumption == Rates \subseteq 0 .. UINT16_MAX
ASSUME RequestsAssumption == Requests \subseteq Nat
ASSUME TickModAssumption == TickMod \in Nat \ {0}
=============================================================================
