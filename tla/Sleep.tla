-------------------------------- MODULE Sleep -------------------------------
(***************************************************************************)
(* The timer: channel 0 of the PIT as reprogram_timer (util/pit.c) sets    *)
(* it, the counter countdown that timer_handler (util/idt.c) decrements at *)
(* every tick, and millisleep (util/pit.c), which stores the time to wait  *)
(* in countdown and halts the CPU until the counter is 0.                  *)
(*                                                                         *)
(* The test of countdown and the hlt are two steps, and an interrupt may   *)
(* fall between them.  Interrupts are on, as they are when the kernel      *)
(* first calls reprogram_timer and millisleep.                             *)
(***************************************************************************)
EXTENDS TimerRequests

VARIABLES
    enabled,        \* enabled of pit.c
    divisor,        \* the reload value of channel 0
    countdown,
    timer_ticks,
    pc,             \* of millisleep: "away", "test", "hlt" or "halted"; "dead"
    ticked,         \* a tick has come since the CPU was last halted
    rate,           \* history: hz of the last reprogram_timer
    asked,          \* history: millis of the last millisleep
    ticks           \* history: ticks since it stored countdown

pit == <<enabled, divisor, rate>>
sleeper == <<countdown, pc, ticked, asked, ticks>>
vars == <<pit, timer_ticks, sleeper>>

-----------------------------------------------------------------------------
PIT_FREQUENCY == 1193182

Sleeping == pc \in {"test", "hlt", "halted"}

\* (uint16_t)(PIT_FREQUENCY / hz)
Divisor(hz) == (PIT_FREQUENCY \div hz) % (UINT16_MAX + 1)

\* Mutant: only ticks that wake the CPU are counted.
CountIfHalted ==
    countdown' = IF pc = "halted" /\ countdown > 0 THEN countdown - 1 ELSE countdown

\* timer_handler's if.
CountOnce == countdown' = IF countdown > 0 THEN countdown - 1 ELSE countdown

\* Mutant: one tick more, for the one that has begun.
SetCountdownForOneMore(m) == countdown' = m + 1

\* millisleep stores the time to wait.
SetCountdown(m) == countdown' = m

\* Mutant: the last tick is not waited for.
MustWaitUntilOne == countdown > 1

\* The loop condition of millisleep.
MustWait == countdown > 0

Init ==
    /\ enabled = FALSE /\ divisor = 0 /\ rate = 0
    /\ countdown = 0 /\ timer_ticks = 0
    /\ pc = "away" /\ ticked = FALSE
    /\ asked = 0 /\ ticks = 0

\* reprogram_timer.  Writing the mode stops the channel until both bytes of
\* the reload value are there: no tick comes from a half-written one.
ReprogramTimer(hz) ==
    /\ pc = "away"
    /\ hz # 0
    /\ divisor' = Divisor(hz)
    /\ enabled' = TRUE
    /\ rate' = hz
    /\ UNCHANGED <<timer_ticks, sleeper>>

\* reprogram_timer(0) divides before it tests.  The division is undefined: it
\* traps, and exception_handler halts for good (the Makefile's -O0), or an
\* optimising compiler has moved it behind the test, and the call returns.
ReprogramTimerZero ==
    /\ pc = "away"
    /\ 0 \in Rates
    /\ pc' \in {"dead", "away"}
    /\ UNCHANGED <<pit, countdown, timer_ticks, ticked, asked, ticks>>

\* millisleep up to its loop.  init_kernel has called reprogram_timer before
\* anybody sleeps.
StartSleep(m) ==
    /\ pc = "away"
    /\ enabled
    /\ SetCountdown(m)
    /\ pc' = "test"
    /\ ticked' = FALSE
    /\ asked' = m
    /\ ticks' = 0
    /\ UNCHANGED <<pit, timer_ticks>>

\* The loop goes on to hlt.
TestWait ==
    /\ pc = "test"
    /\ MustWait
    /\ pc' = "hlt"
    /\ UNCHANGED <<pit, countdown, timer_ticks, ticked, asked, ticks>>

\* The loop ends: millisleep returns.
TestReturn ==
    /\ pc = "test"
    /\ ~MustWait
    /\ pc' = "away"
    /\ UNCHANGED <<pit, countdown, timer_ticks, ticked, asked, ticks>>

\* Mutant: with interrupts off, nothing ends the hlt.
HaltWithInterruptsOff ==
    /\ pc = "hlt"
    /\ pc' = "dead"
    /\ UNCHANGED <<pit, countdown, timer_ticks, ticked, asked, ticks>>

\* hlt: the CPU waits for an interrupt.
Halt ==
    /\ pc = "hlt"
    /\ pc' = "halted"
    /\ ticked' = FALSE
    /\ UNCHANGED <<pit, countdown, timer_ticks, asked, ticks>>

\* timer_handler.  An interrupt takes the CPU out of hlt.  A period is long
\* for a CPU: two ticks do not come between one hlt and the next.
Tick ==
    /\ pc # "dead"
    /\ Sleeping => ~ticked
    /\ CountOnce
    /\ timer_ticks' = (timer_ticks + 1) % TickMod
    /\ pc' = IF pc = "halted" THEN "test" ELSE pc
    /\ ticked' = Sleeping
    /\ ticks' = IF Sleeping THEN ticks + 1 ELSE ticks
    /\ UNCHANGED <<pit, asked>>

\* Any other interrupt wakes the CPU as well.
OtherIrq ==
    /\ pc = "halted"
    /\ pc' = "test"
    /\ UNCHANGED <<pit, countdown, timer_ticks, ticked, asked, ticks>>

Cpu == TestWait \/ TestReturn \/ Halt

Next ==
    \/ \E hz \in Rates : ReprogramTimer(hz)
    \/ ReprogramTimerZero
    \/ \E m \in Requests : StartSleep(m)
    \/ Cpu
    \/ Tick
    \/ OtherIrq

Spec == Init /\ [][Next]_vars

-----------------------------------------------------------------------------
\* The variables have their types.
TypeOK ==
    /\ enabled \in BOOLEAN
    /\ divisor \in 0 .. UINT16_MAX
    /\ rate \in Rates \cup {0}
    /\ timer_ticks \in 0 .. (TickMod - 1)
    /\ pc \in {"away", "test", "hlt", "halted", "dead"}
    /\ ticked \in BOOLEAN
    /\ asked \in Requests \cup {0}
    /\ {countdown, ticks} \subseteq Nat

\* countdown is what is left of the ticks asked for: the store of millisleep
\* and the decrements of timer_handler never lose one another's effect.
CountsDown ==
    Sleeping => countdown = IF asked > ticks THEN asked - ticks ELSE 0

\* millisleep does not return before it has seen as many ticks as it was
\* asked to wait milliseconds, whatever other interrupts wake it.
NotEarly == pc = "away" => ticks >= asked

\* The tick that ends the wait may come between the test of countdown and the
\* hlt; then millisleep sleeps for one tick more, and never for two.
AtMostOneTickLate == ticks <= asked + 1
=============================================================================
