------------------------------- MODULE Kernel -------------------------------
(***************************************************************************)
(* The kernel's thread and its interrupts: init_kernel (kernel.c) boots    *)
(* the interrupt system, sets the timer and sleeps (Sleep), on a machine   *)
(* whose PICs deliver the timer's ticks among other interrupts, spurious   *)
(* ones and exceptions (Interrupts).  Here a tick is a request that has to *)
(* find its way through PIC, gate, exception_handler and acknowledgement   *)
(* before timer_handler counts it, and the thread runs only while no       *)
(* handler does.                                                           *)
(*                                                                         *)
(* Every step is one of Interrupts or leaves it alone, and one of Sleep or *)
(* leaves it alone, so what is proved of either holds here (KernelProofs). *)
(***************************************************************************)
EXTENDS InterruptLines, TimerRequests, Sequences

\* The division in reprogram_timer(0) may raise exception 0.
ASSUME DivisionAssumption == 0 \in Rates => 0 \in Exceptions

\* The timer is line 0 of the first PIC.
ASSUME TimerAssumption == 0 \in Lines

VARIABLES
    irr, isr, imr, remapped, interrupt_flag, gates, irq_handlers, boot, frames,
    vector, dead,                                   \* Interrupts
    enabled, divisor, countdown, timer_ticks, pc, ticked, rate, asked, ticks
                                                    \* Sleep

I == INSTANCE Interrupts
T == INSTANCE Sleep

interrupts == <<irr, isr, imr, remapped, interrupt_flag, gates, irq_handlers,
                boot, frames, vector, dead>>
timer == <<enabled, divisor, countdown, timer_ticks, pc, ticked, rate, asked,
           ticks>>
vars == <<interrupts, timer>>

-----------------------------------------------------------------------------
Init == I!Init /\ T!Init

\* init_kernel up to enable_interrupts.
Boot == I!Boot /\ UNCHANGED timer

\* init_kernel runs, behind enable_interrupts.
Thread == I!NoHandler /\ boot = "done"

Reprogram(hz) ==
    /\ Thread
    /\ T!ReprogramTimer(hz)
    /\ UNCHANGED interrupts

\* The division in reprogram_timer(0), if it traps, is exception 0.
ReprogramZero ==
    /\ Thread
    /\ T!ReprogramTimerZero
    /\ IF pc' = "dead" THEN I!Fault(0) ELSE UNCHANGED interrupts

StartSleep(m) == Thread /\ T!StartSleep(m) /\ UNCHANGED interrupts

\* The loop of millisleep.
Millisleep == Thread /\ T!Cpu /\ UNCHANGED interrupts

\* An interrupt ends a hlt, whichever it is and whatever its handler does.
WakeUp == IF pc = "halted" THEN T!OtherIrq ELSE UNCHANGED timer

Deliver(l) == I!Deliver(l) /\ WakeUp

Spurious(l) == I!Spurious(l) /\ WakeUp

\* The code runs into an exception; a halted CPU runs into none.
Fault(v) == I!Fault(v) /\ pc # "halted" /\ UNCHANGED timer

\* The request of the timer that is not counted yet.
TickPending ==
    \/ 0 \in irr
    \/ frames # << >> /\ frames[1] = [irq |-> 32, at |-> "entry"]

\* The PIT's period is long for a CPU: it is over only when the last tick has
\* been counted and a thread that sleeps has come back to its hlt.
RaiseTimer ==
    /\ ~TickPending
    /\ T!Sleeping => ~ticked
    /\ I!Raise(0)
    /\ UNCHANGED timer

Raise(l) == l # 0 /\ I!Raise(l) /\ UNCHANGED timer

\* exception_handler calls timer_handler.
TimerHandler ==
    /\ I!CallHandler
    /\ frames[1].irq = 32
    /\ T!Tick

OtherHandler ==
    /\ I!CallHandler
    /\ frames[1].irq # 32
    /\ UNCHANGED timer

Rest ==
    /\ I!SpuriousCheck \/ I!PanicIrq \/ I!Acknowledge \/ I!Iretq
    /\ UNCHANGED timer

Handler == TimerHandler \/ OtherHandler \/ Rest

Next ==
    \/ Boot
    \/ \E hz \in Rates : Reprogram(hz)
    \/ ReprogramZero
    \/ \E m \in Requests : StartSleep(m)
    \/ Millisleep
    \/ RaiseTimer
    \/ \E l \in Lines : Raise(l)
    \/ \E l \in Lines : Deliver(l)
    \/ \E l \in SpuriousLines : Spurious(l)
    \/ \E v \in Exceptions : Fault(v)
    \/ Handler

Spec == Init /\ [][Next]_vars

\* The CPU goes on, and takes a request it is often enough free to take; lines
\* ahead of another do not come back to back for ever (Lull of Interrupts); the
\* thread gets on between them; the timer goes on ticking.
FairSpec ==
    /\ Spec
    /\ WF_vars(Boot) /\ WF_vars(Handler)
    /\ \A l \in I!DrivenLines : SF_vars(Deliver(l)) /\ I!Lull(l)
    /\ SF_vars(Millisleep)
    /\ WF_vars(RaiseTimer)

-----------------------------------------------------------------------------
\* The variables of both parts have their types.
TypeOK == I!TypeOK /\ T!TypeOK

\* Between interrupts nothing is in service at either PIC: whichever way
\* exception_handler takes, its acknowledgements match what the PICs hold.  A
\* line left in service would silence itself and all behind it for ever.
NoneLeftInService == I!NoneLeftInService

\* No handler is interrupted: the kernel's handlers share countdown and
\* most_recent_char without a lock, and the stack holds one frame at most.
HandlersDoNotNest == I!HandlersDoNotNest

\* Once the lines have the vectors of PIC_remap, the timer, the keyboard and
\* line 7, spurious or not, are never the end of the machine.
DiesOnlyOf == I!DiesOnlyOf

\* countdown is what is left of the ticks asked for: the store of millisleep
\* and the decrements of timer_handler never lose one another's effect.
CountsDown == T!CountsDown

\* millisleep does not return before timer_handler has run as often as it was
\* asked to wait milliseconds, whatever else wakes the CPU.
NotEarly == T!NotEarly

\* The tick that ends the wait may come between the test of countdown and the
\* hlt; then millisleep sleeps for one tick more, and never for two.
AtMostOneTickLate == T!AtMostOneTickLate

\* With interrupts on, a request on a line the kernel drives reaches its
\* handler, unless a line it does not drive stops the machine.
LinesServed == I!LinesServed

\* Every millisleep returns, unless the machine has died: no request of any
\* line leaves the PICs so that the timer is not heard any more.
SleepReturns == T!Sleeping ~> pc = "away" \/ dead
=============================================================================
