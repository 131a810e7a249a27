---------------------------- MODULE KernelProofs ----------------------------
(***************************************************************************)
(* The interrupt system and the sleep, and the kernel of both: it is a     *)
(* kernel of Interrupts and one of Sleep, so that what is proved here of   *)
(* each part alone holds of both together.                                 *)
(***************************************************************************)
EXTENDS Kernel, TLAPS

\* What a step may do to the interrupt system.
InterruptStep == I!Next \/ UNCHANGED interrupts

\* What a step may do to the timer and its sleeper.
SleepStep == T!Next \/ UNCHANGED timer

-----------------------------------------------------------------------------
\* An interrupt that wakes the CPU does to the sleeper what Sleep lets any
\* interrupt do.
LEMMA WakeUpIsASleepStep == ASSUME WakeUp PROVE SleepStep
BY DEF WakeUp, SleepStep, T!Next

\* Each step of Kernel is a step of Interrupts or none.
LEMMA NextIsAnInterruptStep == ASSUME Next PROVE InterruptStep
<1>1. CASE Boot
  BY <1>1 DEF Boot, InterruptStep, I!Next
<1>2. CASE \E hz \in Rates : Reprogram(hz)
  BY <1>2 DEF Reprogram, InterruptStep
<1>3. CASE ReprogramZero
  <2>1. 0 \in Exceptions
    BY <1>3, DivisionAssumption DEF ReprogramZero, T!ReprogramTimerZero
  <2>2. I!Fault(0) \/ UNCHANGED interrupts
    BY <1>3 DEF ReprogramZero
  <2> QED BY <2>1, <2>2 DEF InterruptStep, I!Next
<1>4. CASE \E m \in Requests : StartSleep(m)
  BY <1>4 DEF StartSleep, InterruptStep
<1>5. CASE Millisleep
  BY <1>5 DEF Millisleep, InterruptStep
<1>6. CASE RaiseTimer
  BY <1>6, TimerAssumption DEF RaiseTimer, InterruptStep, I!Next
<1>7. CASE \E l \in Lines : Raise(l)
  BY <1>7 DEF Raise, InterruptStep, I!Next
<1>8. CASE \E l \in Lines : Deliver(l)
  BY <1>8 DEF Deliver, InterruptStep, I!Next
<1>9. CASE \E l \in SpuriousLines : Spurious(l)
  BY <1>9 DEF Spurious, InterruptStep, I!Next
<1>10. CASE \E v \in Exceptions : Fault(v)
  BY <1>10 DEF Fault, InterruptStep, I!Next
<1>11. CASE Handler
  BY <1>11 DEF Handler, TimerHandler, OtherHandler, Rest, InterruptStep, I!Next,
               I!Handler
<1> QED BY <1>1, <1>2, <1>3, <1>4, <1>5, <1>6, <1>7, <1>8, <1>9, <1>10, <1>11
        DEF Next

\* Each step of Kernel is a step of Sleep or none.
LEMMA NextIsASleepStep == ASSUME Next PROVE SleepStep
<1>1. CASE Boot
  BY <1>1 DEF Boot, SleepStep
<1>2. CASE \E hz \in Rates : Reprogram(hz)
  BY <1>2 DEF Reprogram, SleepStep, T!Next
<1>3. CASE ReprogramZero
  BY <1>3 DEF ReprogramZero, SleepStep, T!Next
<1>4. CASE \E m \in Requests : StartSleep(m)
  BY <1>4 DEF StartSleep, SleepStep, T!Next
<1>5. CASE Millisleep
  BY <1>5 DEF Millisleep, SleepStep, T!Next
<1>6. CASE RaiseTimer
  BY <1>6 DEF RaiseTimer, SleepStep
<1>7. CASE \E l \in Lines : Raise(l)
  BY <1>7 DEF Raise, SleepStep
<1>8. CASE \E l \in Lines : Deliver(l)
  BY <1>8, WakeUpIsASleepStep DEF Deliver
<1>9. CASE \E l \in SpuriousLines : Spurious(l)
  BY <1>9, WakeUpIsASleepStep DEF Spurious
<1>10. CASE \E v \in Exceptions : Fault(v)
  BY <1>10 DEF Fault, SleepStep
<1>11. CASE Handler
  BY <1>11 DEF Handler, TimerHandler, OtherHandler, Rest, SleepStep, T!Next
<1> QED BY <1>1, <1>2, <1>3, <1>4, <1>5, <1>6, <1>7, <1>8, <1>9, <1>10, <1>11
        DEF Next

-----------------------------------------------------------------------------
\* The kernel implements Interrupts: no step of the thread or of timer_handler
\* does to PICs, gates and frames what Interrupts does not allow.
THEOREM KernelIsInterrupts == Spec => I!Spec
<1>1. Init => I!Init
  BY DEF Init
<1>2. [Next]_vars => [I!Next]_(I!vars)
  BY NextIsAnInterruptStep
  DEF vars, interrupts, InterruptStep, I!vars, I!pics, I!tables
<1> QED BY <1>1, <1>2, PTL DEF Spec, I!Spec

\* The kernel implements Sleep: behind PICs, gates and acknowledgements ticks
\* and other interrupts still come to millisleep as Sleep has them.
THEOREM KernelIsSleep == Spec => T!Spec
<1>1. Init => T!Init
  BY DEF Init
<1>2. [Next]_vars => [T!Next]_(T!vars)
  BY NextIsASleepStep
  DEF vars, timer, SleepStep, T!vars, T!pit, T!sleeper
<1> QED BY <1>1, <1>2, PTL DEF Spec, T!Spec

-----------------------------------------------------------------------------
(***************************************************************************)
(* The sleeper.  What millisleep and timer_handler do to countdown between *)
(* them, for every time to wait and wherever ticks and other interrupts    *)
(* fall.                                                                   *)
(***************************************************************************)

\* Where the sleeper is when the last tick it asked for has come.  A tick
\* that falls between the test and the hlt leaves ticked set, and the next
\* one waits for the hlt: only a halted sleeper sees a tick too many.
Lateness ==
    /\ pc = "test" /\ ~ticked => ticks <= asked
    /\ pc = "hlt" => ticks <= asked /\ (ticks = asked => ticked)
    /\ pc = "halted" => ticks <= asked

Counting ==
    /\ T!CountsDown
    /\ T!NotEarly
    /\ T!AtMostOneTickLate
    /\ Lateness

SleepInv == T!TypeOK /\ Counting

LEMMA UInt16Type == T!UINT16_MAX \in Nat
BY SMT DEF T!UINT16_MAX

\* The reload value fits the two bytes of the channel.
LEMMA DivisorType ==
  ASSUME NEW hz \in Rates, hz # 0 PROVE T!Divisor(hz) \in 0 .. T!UINT16_MAX
<1>1. T!PIT_FREQUENCY \in Nat /\ T!UINT16_MAX \in Nat
  BY UInt16Type, SMT DEF T!PIT_FREQUENCY
<1>2. hz \in Nat \ {0}
  <2>1. UINT16_MAX \in Nat
    BY DEF UINT16_MAX
  <2> QED BY <2>1, RatesAssumption
<1>3. T!PIT_FREQUENCY \div hz \in Int
  BY <1>1, <1>2
<1> QED
  BY <1>1, <1>3 DEF T!Divisor

\* timer_ticks stays below the modulus it wraps at.
LEMMA WrapType == ASSUME NEW t \in Nat PROVE (t + 1) % TickMod \in 0 .. (TickMod - 1)
BY TickModAssumption

LEMMA SleepInit == T!Init => SleepInv
<1> SUFFICES ASSUME T!Init PROVE SleepInv
  OBVIOUS
<1>1. T!TypeOK
  <2>1. enabled \in BOOLEAN /\ ticked \in BOOLEAN
    BY Zenon DEF T!Init
  <2>2. timer_ticks \in 0 .. (TickMod - 1)
    BY TickModAssumption DEF T!Init
  <2>3. /\ divisor \in 0 .. T!UINT16_MAX
        /\ rate \in Rates \cup {0}
        /\ pc \in {"away", "test", "hlt", "halted", "dead"}
        /\ asked \in Requests \cup {0}
        /\ {countdown, ticks} \subseteq Nat
    BY UInt16Type DEF T!Init
  <2> QED
    BY <2>1, <2>2, <2>3, Zenon DEF T!TypeOK
<1>2. T!CountsDown /\ T!NotEarly /\ T!AtMostOneTickLate /\ Lateness
  BY DEF T!Init, T!CountsDown, T!NotEarly, T!AtMostOneTickLate, Lateness, T!Sleeping
<1> QED
  BY <1>1, <1>2 DEF SleepInv, Counting

\* Each step keeps the types.
LEMMA TypeStep == T!TypeOK /\ [T!Next]_(T!vars) => T!TypeOK'
<1> SUFFICES ASSUME T!TypeOK, [T!Next]_(T!vars) PROVE T!TypeOK'
  OBVIOUS
<1>1. ASSUME NEW hz \in Rates, T!ReprogramTimer(hz) PROVE T!TypeOK'
  <2>1. T!Divisor(hz) \in 0 .. T!UINT16_MAX
    BY <1>1, DivisorType DEF T!ReprogramTimer
  <2> QED
    BY <1>1, <2>1, Zenon DEF T!ReprogramTimer, T!sleeper, T!TypeOK
<1>2. CASE T!ReprogramTimerZero
  BY <1>2, Zenon DEF T!ReprogramTimerZero, T!pit, T!TypeOK
<1>3. ASSUME NEW m \in Requests, T!StartSleep(m)
      PROVE T!TypeOK'
  <2>1. m \in Nat /\ 0 \in Nat
    BY RequestsAssumption
  <2>2. {countdown', ticks'} \subseteq Nat
    BY <1>3, <2>1, Zenon DEF T!StartSleep, T!SetCountdown
  <2> QED
    BY <1>3, <2>2, Zenon DEF T!StartSleep, T!pit, T!TypeOK
<1>4. CASE T!TestWait
  BY <1>4, Zenon DEF T!TestWait, T!pit, T!TypeOK
<1>5. CASE T!TestReturn
  BY <1>5, Zenon DEF T!TestReturn, T!pit, T!TypeOK
<1>6. CASE T!Halt
  BY <1>6, Zenon DEF T!Halt, T!pit, T!TypeOK
<1>7. CASE T!Tick
  <2>1. timer_ticks' \in 0 .. (TickMod - 1)
    BY <1>7, WrapType, TickModAssumption DEF T!Tick, T!TypeOK
  <2>3. countdown' \in Nat
    BY <1>7 DEF T!Tick, T!CountOnce, T!TypeOK
  <2>4. ticks' \in Nat
    BY <1>7 DEF T!Tick, T!TypeOK
  <2>5. ticked' \in BOOLEAN
    <3>1. T!Sleeping \in BOOLEAN
      BY DEF T!Sleeping
    <3> QED
      BY <1>7, <3>1, Zenon DEF T!Tick
  <2>6. /\ enabled' = enabled /\ divisor' = divisor /\ rate' = rate
        /\ asked' = asked
    BY <1>7, Zenon DEF T!Tick, T!pit
  <2>7. pc' \in {"away", "test", "hlt", "halted", "dead"}
    BY <1>7 DEF T!Tick, T!TypeOK
  <2> QED
    BY <2>1, <2>3, <2>4, <2>5, <2>6, <2>7, Zenon DEF T!TypeOK
<1>8. CASE T!OtherIrq
  BY <1>8, Zenon DEF T!OtherIrq, T!pit, T!TypeOK
<1>9. CASE UNCHANGED T!vars
  BY <1>9, Zenon DEF T!vars, T!pit, T!sleeper, T!TypeOK
<1> QED
  BY <1>1, <1>2, <1>3, <1>4, <1>5, <1>6, <1>7, <1>8, <1>9 DEF T!Next, T!Cpu

\* Each step keeps countdown in step with the ticks.
LEMMA CountStep == T!TypeOK /\ Counting /\ [T!Next]_(T!vars) => Counting'
<1> SUFFICES ASSUME T!TypeOK, Counting, [T!Next]_(T!vars) PROVE Counting'
  OBVIOUS
<1>0. countdown \in Nat /\ ticks \in Nat /\ asked \in Nat
  BY RequestsAssumption DEF T!TypeOK
<1> USE <1>0 DEF Counting, T!CountsDown, T!NotEarly, T!AtMostOneTickLate, Lateness,
                 T!Sleeping
<1>1. ASSUME NEW hz \in Rates, T!ReprogramTimer(hz) PROVE Counting'
  BY <1>1 DEF T!ReprogramTimer, T!sleeper
<1>2. CASE T!ReprogramTimerZero
  BY <1>2 DEF T!ReprogramTimerZero
<1>3. ASSUME NEW m \in Requests, T!StartSleep(m)
      PROVE Counting'
  <2>1. m \in Nat
    BY RequestsAssumption
  <2> QED
    BY <1>3, <2>1 DEF T!StartSleep, T!SetCountdown
<1>4. CASE T!TestWait
  BY <1>4 DEF T!TestWait, T!MustWait
<1>5. CASE T!TestReturn
  BY <1>5 DEF T!TestReturn, T!MustWait
<1>6. CASE T!Halt
  BY <1>6 DEF T!Halt
<1>7. CASE T!Tick
  <2>1. CASE T!Sleeping
    <3>1. ~ticked /\ ticked'
      BY <1>7, <2>1, Zenon DEF T!Tick
    <3>2. /\ ticks' = ticks + 1
          /\ asked' = asked
          /\ pc' = IF pc = "halted" THEN "test" ELSE pc
          /\ countdown' = IF countdown > 0 THEN countdown - 1 ELSE countdown
      BY <1>7, <2>1 DEF T!Tick, T!CountOnce
    <3> QED
      BY <2>1, <3>1, <3>2
  <2>2. CASE ~T!Sleeping
    BY <1>7, <2>2 DEF T!Tick
  <2> QED
    BY <2>1, <2>2
<1>8. CASE T!OtherIrq
  BY <1>8 DEF T!OtherIrq
<1>9. CASE UNCHANGED T!vars
  BY <1>9 DEF T!vars, T!sleeper
<1> QED
  BY <1>1, <1>2, <1>3, <1>4, <1>5, <1>6, <1>7, <1>8, <1>9 DEF T!Next, T!Cpu

\* The inductive invariant holds in every behaviour.
THEOREM SleepInvariant == T!Spec => []SleepInv
BY SleepInit, TypeStep, CountStep, PTL DEF T!Spec, SleepInv

-----------------------------------------------------------------------------
(***************************************************************************)
(* The interrupts.  Handlers do not nest, every interrupt is acknowledged  *)
(* where it is in service, and the timer, the keyboard and line 7 never    *)
(* stop the machine: for every set of devices, spurious requests and       *)
(* exceptions.                                                             *)
(***************************************************************************)
\* What the PICs may hold while the handler for number n runs.
InServiceFor(n) == {n - 32, I!Pin(n - 32)}

\* An exception_handler that is not the end of the machine: the vector it was
\* entered for, and what it still has to acknowledge.
FrameOK(f) ==
    /\ f.irq = vector
    /\ f.irq < 32 => f.at = "entry"
    /\ f.irq >= 32 /\ f.at # "iretq" => isr \subseteq InServiceFor(f.irq)
    /\ f.at = "ack" => irq_handlers[f.irq - 32] # "exception_handler"
    /\ f.at = "iretq" => isr = {}

Frame == [irq : 0 .. 46, at : {"entry", "ack", "iretq"}]

\* At most one exception_handler runs, with interrupts off.
OneFrame ==
    frames # << >> =>
        /\ \E f \in Frame : frames = <<f>> /\ (dead \/ FrameOK(f))
        /\ interrupt_flag = FALSE
        /\ boot # "idt"

\* The tables are complete before the PICs are remapped.
BootOrder ==
    /\ boot \in {"idt", "pic", "unmask", "sti", "done"}
    /\ interrupt_flag \in BOOLEAN /\ dead \in BOOLEAN /\ remapped \in BOOLEAN
    /\ boot = "idt" => DOMAIN gates = {} /\ DOMAIN irq_handlers = {}
    /\ boot # "idt" => gates = I!InstalledGates /\ irq_handlers = I!HandlerTable
    /\ boot \in {"idt", "pic"} => ~remapped
    /\ boot \in {"unmask", "sti", "done"} => remapped

LineTypes ==
    /\ irr \subseteq 0 .. 15
    /\ isr \subseteq 0 .. 15
    /\ imr \subseteq 0 .. 15
    /\ vector \in -1 .. 127

InterruptsInv ==
    BootOrder /\ LineTypes /\ OneFrame /\ I!NoneLeftInService /\ I!DiesOnlyOf

-----------------------------------------------------------------------------
\* An acknowledgement for a number ends the service of the lines that number
\* may stand for, at one PIC or at both.
LEMMA AcknowledgeEnds ==
  ASSUME NEW n \in 32 .. 46, isr \subseteq InServiceFor(n)
  PROVE  I!PIC_acknowledge(n) = {}
<1>1. CASE n < 40
  <2>1. ASSUME NEW l \in isr PROVE l = n - 32
    BY <1>1, <2>1 DEF InServiceFor, I!Pin
  <2>2. ASSUME NEW l \in isr PROVE l \in I!EndOfInterrupt(0 .. 7, isr)
    BY <1>1, <2>1, <2>2 DEF I!EndOfInterrupt
  <2> QED
    BY <2>2 DEF I!PIC_acknowledge
<1>2. CASE n >= 40
  <2>1. ASSUME NEW l \in isr PROVE l = 2 \/ l = n - 32
    BY <1>2, <2>1 DEF InServiceFor, I!Pin
  <2>2. ASSUME NEW l \in isr, l = 2 PROVE l \in I!EndOfInterrupt(0 .. 7, isr)
    BY <1>2, <2>1, <2>2 DEF I!EndOfInterrupt
  <2>3. ASSUME NEW l \in isr, l = n - 32
        PROVE  l \in I!EndOfInterrupt(8 .. 15, isr)
    BY <1>2, <2>1, <2>3 DEF I!EndOfInterrupt
  <2> QED
    BY <1>2, <2>1, <2>2, <2>3 DEF I!PIC_acknowledge
<1> QED
  BY <1>1, <1>2

\* Acknowledging never puts a line in service.
LEMMA AcknowledgeSubset == ASSUME NEW n PROVE I!PIC_acknowledge(n) \subseteq isr
BY DEF I!PIC_acknowledge

\* What the CPU does with a vector, in the code that runs with interrupts on.
LEMMA TakeFrame ==
  ASSUME NEW v \in (0 .. 127) \ {31}, I!Take(v), gates = I!InstalledGates,
         frames = << >>
  PROVE  /\ vector' = v
         /\ v \in 0 .. 46 => /\ frames' = <<[irq |-> v, at |-> "entry"]>>
                             /\ interrupt_flag' = FALSE
                             /\ dead' = dead
         /\ v \notin 0 .. 46 => dead' = TRUE /\ frames' = << >>
                                /\ interrupt_flag' = interrupt_flag
<1>1. DOMAIN gates = 0 .. 46 /\ \A x \in 0 .. 46 : x # 31 => gates[x] = x
  BY DEF I!InstalledGates
<1>2. vector' = v
  BY DEF I!Take
<1>3. CASE v \in 0 .. 46
  <2>1. frames' = <<[irq |-> v, at |-> "entry"]>> \o << >>
    BY <1>1, <1>3 DEF I!Take
  <2>2. frames' = <<[irq |-> v, at |-> "entry"]>>
    BY <2>1
  <2>3. interrupt_flag' = FALSE /\ dead' = dead
    BY <1>1, <1>3, Zenon DEF I!Take, I!FlagInHandler
  <2> QED
    BY <1>2, <1>3, <2>2, <2>3
<1>4. CASE v \notin 0 .. 46
  <2>1. v \notin DOMAIN gates
    BY <1>1, <1>4
  <2> QED
    BY <1>2, <1>4, <2>1, Zenon DEF I!Take
<1> QED
  BY <1>3, <1>4

-----------------------------------------------------------------------------
LEMMA InterruptsInit == I!Init => InterruptsInv
<1> SUFFICES ASSUME I!Init PROVE InterruptsInv
  OBVIOUS
<1>1. BootOrder
  BY Zenon DEF I!Init, BootOrder
<1>2. LineTypes
  BY MasksAssumption DEF I!Init, LineTypes
<1>3. OneFrame /\ I!NoneLeftInService /\ I!DiesOnlyOf
  BY DEF I!Init, OneFrame, I!NoneLeftInService, I!DiesOnlyOf
<1> QED
  BY <1>1, <1>2, <1>3 DEF InterruptsInv

LEMMA BootStep ==
  ASSUME InterruptsInv, I!Boot PROVE InterruptsInv'
<1> USE DEF InterruptsInv
<1>0. frames = << >> /\ isr = {} /\ ~dead
  BY DEF I!Boot, I!IdtInit, I!PicRemap, I!ClearMasks, I!EnableInterrupts, I!NoHandler,
         I!NoneLeftInService
<1>1. frames' = << >> /\ isr' = {} /\ dead' = dead /\ vector' = vector
  BY <1>0 DEF I!Boot, I!IdtInit, I!PicRemap, I!ClearMasks, I!EnableInterrupts, I!pics
<1>2. OneFrame' /\ I!NoneLeftInService' /\ I!DiesOnlyOf'
  BY <1>0, <1>1 DEF OneFrame, I!NoneLeftInService, I!DiesOnlyOf
<1>3. LineTypes'
  BY <1>0, <1>1 DEF I!Boot, I!IdtInit, I!PicRemap, I!ClearMasks, I!EnableInterrupts,
                    I!pics, LineTypes
<1>4. BootOrder'
  <2>1. CASE I!IdtInit
    BY <1>0, <2>1, Zenon DEF I!IdtInit, BootOrder, I!pics
  <2>2. CASE I!PicRemap
    BY <1>0, <2>2, Zenon DEF I!PicRemap, BootOrder, I!tables
  <2>3. CASE I!ClearMasks
    BY <1>0, <2>3, Zenon DEF I!ClearMasks, BootOrder, I!tables
  <2>4. CASE I!EnableInterrupts
    BY <1>0, <2>4, Zenon DEF I!EnableInterrupts, BootOrder, I!pics, I!tables
  <2> QED
    BY <2>1, <2>2, <2>3, <2>4 DEF I!Boot
<1> QED
  BY <1>2, <1>3, <1>4

\* The code that runs with interrupts on takes a vector once the gates are there.
LEMMA TakeGate ==
  ASSUME InterruptsInv, ~dead, boot # "idt", frames = << >>,
         NEW v \in (0 .. 127) \ {31}, I!Take(v),
         ~remapped => v \notin 32 .. 47,
         irr' \subseteq 0 .. 15, imr' = imr,
         isr' \subseteq 0 .. 15,
         v \in 32 .. 46 => isr' \subseteq InServiceFor(v),
         remapped' = remapped, gates' = gates, irq_handlers' = irq_handlers,
         boot' = boot
  PROVE  InterruptsInv'
<1> USE DEF InterruptsInv
<1>1. gates = I!InstalledGates
  BY DEF BootOrder
<1>2. /\ vector' = v
      /\ v \in 0 .. 46 => /\ frames' = <<[irq |-> v, at |-> "entry"]>>
                          /\ interrupt_flag' = FALSE
                          /\ dead' = dead
      /\ v \notin 0 .. 46 => dead' = TRUE /\ frames' = << >>
                             /\ interrupt_flag' = interrupt_flag
  <2> HIDE DEF InterruptsInv
  <2> QED
    BY <1>1, TakeFrame
<1>3. LineTypes'
  BY <1>2 DEF LineTypes
<1>4. interrupt_flag' \in BOOLEAN /\ dead' \in BOOLEAN
  BY <1>2, Zenon DEF BootOrder
<1>5. BootOrder'
  BY <1>4, Zenon DEF BootOrder
<1>6. CASE v \in 0 .. 46
  <2> DEFINE f == [irq |-> v, at |-> "entry"]
  <2>1. f \in Frame /\ f.irq = v /\ f.at = "entry"
    BY <1>6 DEF Frame
  <2>2. FrameOK(f)'
    BY <1>2, <1>6, <2>1 DEF FrameOK, InServiceFor
  <2>3. OneFrame'
    BY <1>2, <1>6, <2>1, <2>2 DEF OneFrame
  <2>4. frames' # << >> /\ ~dead'
    BY <1>2, <1>6
  <2> QED
    BY <1>3, <1>5, <2>3, <2>4 DEF I!NoneLeftInService, I!DiesOnlyOf
<1>7. CASE v \notin 0 .. 46
  BY <1>2, <1>3, <1>5, <1>7 DEF OneFrame, I!NoneLeftInService, I!DiesOnlyOf
<1> QED
  BY <1>6, <1>7

\* The code that runs with interrupts on takes a vector, for a request, a
\* spurious one or an exception.
LEMMA TakeStep ==
  ASSUME InterruptsInv, ~dead, frames = << >>,
         NEW v \in (0 .. 127) \ {31}, I!Take(v),
         ~remapped => v \notin 32 .. 47,
         irr' \subseteq 0 .. 15, imr' = imr,
         isr' \subseteq 0 .. 15,
         v \in 32 .. 46 => isr' \subseteq InServiceFor(v),
         remapped' = remapped, gates' = gates, irq_handlers' = irq_handlers,
         boot' = boot
  PROVE  InterruptsInv'
<1> USE DEF InterruptsInv
<1>1. CASE boot = "idt"
  <2>1. v \notin DOMAIN gates /\ v \notin {32, 33, 39}
    BY <1>1 DEF BootOrder
  <2>2. vector' = v /\ dead' = TRUE /\ frames' = << >>
        /\ interrupt_flag' = interrupt_flag
    BY <2>1, Zenon DEF I!Take
  <2>3. BootOrder'
    BY <2>2, Zenon DEF BootOrder
  <2>4. LineTypes'
    BY <2>2 DEF LineTypes
  <2> QED
    BY <2>1, <2>2, <2>3, <2>4 DEF OneFrame, I!NoneLeftInService, I!DiesOnlyOf
<1>2. CASE boot # "idt"
  <2> HIDE DEF InterruptsInv
  <2> QED
    BY <1>2, TakeGate
<1> QED
  BY <1>1, <1>2

\* With interrupts on no handler runs.
LEMMA FlagMeansIdle ==
  ASSUME InterruptsInv, interrupt_flag, ~dead
  PROVE  frames = << >> /\ isr = {}
BY DEF InterruptsInv, OneFrame, I!NoneLeftInService

\* The vectors of a line: those of the BIOS are not those of PIC_remap.
LEMMA VectorType ==
  ASSUME NEW l \in (0 .. 15) \ {2}
  PROVE  /\ I!VectorOf(l) \in (0 .. 127) \ {31}
         /\ remapped => I!VectorOf(l) = 32 + l
         /\ ~remapped => I!VectorOf(l) \notin 32 .. 47
BY DEF I!VectorOf

LEMMA DeliverStep ==
  ASSUME InterruptsInv, NEW l \in Lines, I!Deliver(l) PROVE InterruptsInv'
<1>1. frames = << >> /\ isr = {} /\ ~dead
  BY FlagMeansIdle DEF I!Deliver
<1>2. l \in (0 .. 15) \ {2}
  BY LinesAssumption
<1>3. PICK v \in (0 .. 127) \ {31} :
        /\ v = I!VectorOf(l)
        /\ remapped => v = 32 + l
        /\ ~remapped => v \notin 32 .. 47
  BY <1>2, VectorType
<1>4. isr' = {l, I!Pin(l)} /\ irr' \subseteq irr /\ I!Take(v)
  BY <1>1, <1>3 DEF I!Deliver
<1>5. isr' \subseteq 0 .. 15 /\ isr' = InServiceFor(32 + l)
  BY <1>2, <1>4 DEF I!Pin, InServiceFor
<1>6. irr' \subseteq 0 .. 15
  BY <1>4 DEF InterruptsInv, LineTypes
<1>7. /\ imr' = imr /\ remapped' = remapped /\ gates' = gates
      /\ irq_handlers' = irq_handlers /\ boot' = boot
  BY DEF I!Deliver
<1>8. v \in 32 .. 46 => isr' \subseteq InServiceFor(v)
  BY <1>3, <1>5
<1> QED
  BY <1>1, <1>3, <1>4, <1>5, <1>6, <1>7, <1>8, TakeStep

LEMMA SpuriousStep ==
  ASSUME InterruptsInv, NEW l \in SpuriousLines, I!Spurious(l)
  PROVE  InterruptsInv'
<1>1. frames = << >> /\ isr = {} /\ ~dead
  BY FlagMeansIdle DEF I!Spurious
<1>2. l \in {7, 15}
  BY SpuriousAssumption
<1>3. PICK v \in (0 .. 127) \ {31} :
        /\ v = I!VectorOf(l)
        /\ remapped => v = 32 + l
        /\ ~remapped => v \notin 32 .. 47
  BY <1>2, VectorType
<1>4. isr' \subseteq 0 .. 15 /\ (l = 7 => isr' = {}) /\ I!Take(v)
  BY <1>1, <1>2, <1>3 DEF I!Spurious
<1>5. irr' \subseteq 0 .. 15
  BY DEF InterruptsInv, LineTypes, I!Spurious
<1>6. /\ imr' = imr /\ remapped' = remapped /\ gates' = gates
      /\ irq_handlers' = irq_handlers /\ boot' = boot
  BY DEF I!Spurious
<1>7. v \in 32 .. 46 => isr' \subseteq InServiceFor(v)
  BY <1>2, <1>3, <1>4
<1> QED
  BY <1>1, <1>3, <1>4, <1>5, <1>6, <1>7, TakeStep

LEMMA FaultStep ==
  ASSUME InterruptsInv, NEW v \in Exceptions, I!Fault(v) PROVE InterruptsInv'
<1>1. v \in 0 .. 30 /\ v \in (0 .. 127) \ {31} /\ v \notin 32 .. 47
  BY ExceptionsAssumption
<1>2. /\ irr' = irr /\ isr' = isr /\ imr' = imr /\ remapped' = remapped
      /\ gates' = gates /\ irq_handlers' = irq_handlers /\ boot' = boot
  BY DEF I!Fault, I!pics, I!tables
<1>3. irr' \subseteq 0 .. 15 /\ isr' \subseteq 0 .. 15
  BY <1>2 DEF InterruptsInv, LineTypes
<1>4. frames = << >> /\ ~dead /\ I!Take(v)
  BY DEF I!Fault, I!NoHandler
<1> QED
  BY <1>1, <1>2, <1>3, <1>4, TakeStep

-----------------------------------------------------------------------------
\* The frame of the exception_handler that runs, while the machine is up.
LEMMA RunningFrame ==
  ASSUME InterruptsInv, NEW a, I!At(a)
  PROVE  /\ boot # "idt" /\ ~dead /\ interrupt_flag = FALSE
         /\ \E f \in Frame : frames = <<f>> /\ FrameOK(f) /\ f.at = a
<1>1. frames # << >> /\ ~dead /\ frames[1].at = a
  BY DEF I!At
<1>2. PICK f \in Frame : frames = <<f>> /\ (dead \/ FrameOK(f))
  BY <1>1 DEF InterruptsInv, OneFrame
<1>3. interrupt_flag = FALSE /\ boot # "idt"
  BY <1>1 DEF InterruptsInv, OneFrame
<1>4. frames[1] = f
  BY <1>2
<1>5. frames = <<f>> /\ FrameOK(f) /\ f.at = a
  BY <1>1, <1>2, <1>4
<1> QED
  BY <1>1, <1>3, <1>5

\* GoTo changes where the frame is and leaves the rest.
LEMMA GoToFrame ==
  ASSUME NEW f \in Frame, frames = <<f>>, NEW a \in {"entry", "ack", "iretq"},
         I!GoTo(a)
  PROVE  \E g \in Frame : frames' = <<g>> /\ g.irq = f.irq /\ g.at = a
<1>1. frames' = [<<f>> EXCEPT ![1].at = a]
  BY DEF I!GoTo
<1>2. frames' = <<[f EXCEPT !.at = a]>>
  BY <1>1
<1>3. /\ [f EXCEPT !.at = a] \in Frame
      /\ [f EXCEPT !.at = a].irq = f.irq
      /\ [f EXCEPT !.at = a].at = a
  BY DEF Frame
<1> QED
  BY <1>2, <1>3

\* exception_handler goes on: the machine is up, at most the service changes.
LEMMA GoOn ==
  ASSUME InterruptsInv, NEW g \in Frame, frames' = <<g>>, FrameOK(g)',
         boot # "idt", ~dead, interrupt_flag = FALSE, dead' = dead,
         irr' = irr, imr' = imr, remapped' = remapped, isr' \subseteq isr,
         interrupt_flag' = interrupt_flag, gates' = gates,
         irq_handlers' = irq_handlers, boot' = boot, vector' = vector
  PROVE  InterruptsInv'
<1>1. BootOrder'
  BY Zenon DEF InterruptsInv, BootOrder
<1>2. LineTypes'
  BY DEF InterruptsInv, LineTypes
<1>3. frames' # << >>
  OBVIOUS
<1>4. OneFrame'
  BY DEF OneFrame
<1>5. I!NoneLeftInService' /\ I!DiesOnlyOf'
  BY <1>3 DEF I!NoneLeftInService, I!DiesOnlyOf
<1> QED
  BY <1>1, <1>2, <1>4, <1>5 DEF InterruptsInv

\* exception_handler stops the machine, for a vector that may.
LEMMA Dies ==
  ASSUME InterruptsInv, dead' = TRUE, vector' = vector,
         vector \notin {32, 33, 39}, frames' = frames, frames # << >>,
         interrupt_flag' = FALSE, boot # "idt", UNCHANGED <<I!pics, I!tables, boot>>
  PROVE  InterruptsInv'
<1>1. /\ irr' = irr /\ isr' = isr /\ imr' = imr /\ remapped' = remapped
      /\ gates' = gates /\ irq_handlers' = irq_handlers /\ boot' = boot
  BY DEF I!pics, I!tables
<1>2. BootOrder'
  BY <1>1, Zenon DEF InterruptsInv, BootOrder
<1>3. LineTypes'
  BY <1>1 DEF InterruptsInv, LineTypes
<1>4. PICK f \in Frame : frames = <<f>>
  BY DEF InterruptsInv, OneFrame
<1>5. OneFrame'
  BY <1>1, <1>4 DEF OneFrame
<1>6. I!NoneLeftInService' /\ I!DiesOnlyOf'
  BY DEF I!NoneLeftInService, I!DiesOnlyOf
<1> QED
  BY <1>2, <1>3, <1>5, <1>6 DEF InterruptsInv

LEMMA SpuriousCheckStep ==
  ASSUME InterruptsInv, I!SpuriousCheck PROVE InterruptsInv'
<1>1. PICK f \in Frame :
        /\ frames = <<f>> /\ FrameOK(f) /\ f.at = "entry"
        /\ boot # "idt" /\ ~dead /\ interrupt_flag = FALSE
  BY RunningFrame DEF I!SpuriousCheck
<1>2. f.irq = 39
  BY <1>1 DEF I!SpuriousCheck, I!TakenForSpurious, Frame
<1>3. isr \subseteq InServiceFor(39) /\ f.irq = vector
  BY <1>1, <1>2 DEF FrameOK
<1>4. isr' = {}
  <2>1. I!PIC_acknowledge(32) = I!PIC_acknowledge(39)
    BY DEF I!PIC_acknowledge
  <2> QED
    BY <1>3, <2>1, AcknowledgeEnds DEF I!SpuriousCheck
<1>5. PICK g \in Frame : frames' = <<g>> /\ g.irq = f.irq /\ g.at = "iretq"
  BY <1>1, GoToFrame DEF I!SpuriousCheck
<1>6. /\ irr' = irr /\ imr' = imr /\ remapped' = remapped /\ gates' = gates
      /\ interrupt_flag' = interrupt_flag /\ irq_handlers' = irq_handlers
      /\ boot' = boot /\ vector' = vector /\ dead' = dead
  BY DEF I!SpuriousCheck, I!tables
<1>7. FrameOK(g)'
  BY <1>2, <1>3, <1>4, <1>5, <1>6 DEF FrameOK
<1> QED
  BY <1>1, <1>4, <1>5, <1>6, <1>7, GoOn

LEMMA PanicStep ==
  ASSUME InterruptsInv, I!PanicIrq PROVE InterruptsInv'
<1>1. PICK f \in Frame :
        /\ frames = <<f>> /\ FrameOK(f) /\ f.at = "entry"
        /\ boot # "idt" /\ ~dead /\ interrupt_flag = FALSE
  BY RunningFrame DEF I!PanicIrq
<1>2. vector < 32 /\ vector \in Int
  BY <1>1 DEF I!PanicIrq, FrameOK, Frame
<1>3. /\ dead' = TRUE /\ vector' = vector /\ frames' = frames
      /\ interrupt_flag' = FALSE /\ UNCHANGED <<I!pics, I!tables, boot>>
      /\ frames # << >>
  BY <1>1 DEF I!PanicIrq
<1>4. vector \notin {32, 33, 39}
  BY <1>2
<1> QED
  BY <1>1, <1>3, <1>4, Dies

LEMMA CallStep ==
  ASSUME InterruptsInv, I!CallHandler PROVE InterruptsInv'
<1>1. PICK f \in Frame :
        /\ frames = <<f>> /\ FrameOK(f) /\ f.at = "entry"
        /\ boot # "idt" /\ ~dead /\ interrupt_flag = FALSE
  BY RunningFrame DEF I!CallHandler
<1>2. f.irq \in 32 .. 46 /\ f.irq # 39 /\ f.irq = vector
  BY <1>1 DEF I!CallHandler, I!TakenForSpurious, FrameOK, Frame
<1>3. irq_handlers = I!HandlerTable
  BY <1>1 DEF InterruptsInv, BootOrder
<1>4. /\ irr' = irr /\ isr' = isr /\ imr' = imr /\ remapped' = remapped
      /\ gates' = gates /\ irq_handlers' = irq_handlers /\ boot' = boot
      /\ interrupt_flag' = interrupt_flag /\ vector' = vector
  BY DEF I!CallHandler, I!pics, I!tables
<1>5. CASE irq_handlers[f.irq - 32] = "exception_handler"
  <2>1. vector \notin {32, 33, 39}
    BY <1>2, <1>3, <1>5 DEF I!HandlerTable
  <2>2. dead' = TRUE /\ frames' = frames /\ frames # << >>
    BY <1>1, <1>5 DEF I!CallHandler
  <2>3. UNCHANGED <<I!pics, I!tables, boot>>
    BY DEF I!CallHandler
  <2> QED
    BY <1>1, <1>4, <2>1, <2>2, <2>3, Dies
<1>6. CASE irq_handlers[f.irq - 32] # "exception_handler"
  <2>1. I!GoTo("ack") /\ dead' = dead
    BY <1>1, <1>6 DEF I!CallHandler
  <2>2. PICK g \in Frame : frames' = <<g>> /\ g.irq = f.irq /\ g.at = "ack"
    BY <1>1, <2>1, GoToFrame
  <2>3. FrameOK(g)'
    BY <1>1, <1>2, <1>4, <1>6, <2>2 DEF FrameOK, InServiceFor
  <2> QED
    BY <1>1, <1>4, <2>1, <2>2, <2>3, GoOn
<1> QED
  BY <1>5, <1>6

LEMMA AckStep ==
  ASSUME InterruptsInv, I!Acknowledge PROVE InterruptsInv'
<1>1. PICK f \in Frame :
        /\ frames = <<f>> /\ FrameOK(f) /\ f.at = "ack"
        /\ boot # "idt" /\ ~dead /\ interrupt_flag = FALSE
  BY RunningFrame DEF I!Acknowledge
<1>2. f.irq \in 32 .. 46 /\ isr \subseteq InServiceFor(f.irq)
  BY <1>1 DEF FrameOK, Frame
<1>3. isr' = {}
  BY <1>1, <1>2, AcknowledgeEnds DEF I!Acknowledge
<1>4. PICK g \in Frame : frames' = <<g>> /\ g.irq = f.irq /\ g.at = "iretq"
  BY <1>1, GoToFrame DEF I!Acknowledge
<1>5. /\ irr' = irr /\ imr' = imr /\ remapped' = remapped /\ gates' = gates
      /\ interrupt_flag' = interrupt_flag /\ irq_handlers' = irq_handlers
      /\ boot' = boot /\ vector' = vector /\ dead' = dead
  BY DEF I!Acknowledge, I!tables
<1>6. FrameOK(g)'
  BY <1>1, <1>2, <1>3, <1>4, <1>5 DEF FrameOK
<1> QED
  BY <1>1, <1>3, <1>4, <1>5, <1>6, GoOn

LEMMA IretqStep ==
  ASSUME InterruptsInv, I!Iretq PROVE InterruptsInv'
<1>1. PICK f \in Frame :
        /\ frames = <<f>> /\ FrameOK(f) /\ f.at = "iretq"
        /\ boot # "idt" /\ ~dead /\ interrupt_flag = FALSE
  BY RunningFrame DEF I!Iretq
<1>2. frames' = << >> /\ isr = {}
  BY <1>1 DEF I!Iretq, FrameOK
<1>3. /\ irr' = irr /\ isr' = isr /\ imr' = imr /\ remapped' = remapped
      /\ gates' = gates /\ irq_handlers' = irq_handlers /\ boot' = boot
      /\ interrupt_flag' = TRUE /\ vector' = vector /\ dead' = dead
  BY DEF I!Iretq, I!pics, I!tables
<1>4. BootOrder'
  BY <1>1, <1>3, Zenon DEF InterruptsInv, BootOrder
<1>5. LineTypes'
  BY <1>3 DEF InterruptsInv, LineTypes
<1>6. OneFrame' /\ I!NoneLeftInService' /\ I!DiesOnlyOf'
  BY <1>1, <1>2, <1>3 DEF OneFrame, I!NoneLeftInService, I!DiesOnlyOf
<1> QED
  BY <1>4, <1>5, <1>6 DEF InterruptsInv

LEMMA RaiseStep ==
  ASSUME InterruptsInv, NEW l \in Lines, I!Raise(l) PROVE InterruptsInv'
<1>1. irr' \subseteq 0 .. 15
  BY LinesAssumption DEF I!Raise, InterruptsInv, LineTypes
<1>2. /\ isr' = isr /\ imr' = imr /\ remapped' = remapped
      /\ gates' = gates /\ irq_handlers' = irq_handlers /\ boot' = boot
      /\ interrupt_flag' = interrupt_flag /\ vector' = vector /\ dead' = dead
      /\ frames' = frames
  BY DEF I!Raise, I!tables
<1>3. BootOrder'
  BY <1>2, Zenon DEF InterruptsInv, BootOrder
<1>4. LineTypes'
  BY <1>1, <1>2 DEF InterruptsInv, LineTypes
<1>5. OneFrame' /\ I!NoneLeftInService' /\ I!DiesOnlyOf'
  BY <1>2 DEF InterruptsInv, OneFrame, FrameOK, I!NoneLeftInService, I!DiesOnlyOf
<1> QED
  BY <1>3, <1>4, <1>5 DEF InterruptsInv

LEMMA StutterStep ==
  ASSUME InterruptsInv, UNCHANGED I!vars PROVE InterruptsInv'
<1>1. /\ irr' = irr /\ isr' = isr /\ imr' = imr /\ remapped' = remapped
      /\ gates' = gates /\ irq_handlers' = irq_handlers /\ boot' = boot
      /\ interrupt_flag' = interrupt_flag /\ vector' = vector /\ dead' = dead
      /\ frames' = frames
  BY DEF I!vars, I!pics, I!tables
<1>2. BootOrder'
  BY <1>1, Zenon DEF InterruptsInv, BootOrder
<1>3. LineTypes'
  BY <1>1 DEF InterruptsInv, LineTypes
<1>4. OneFrame' /\ I!NoneLeftInService' /\ I!DiesOnlyOf'
  BY <1>1 DEF InterruptsInv, OneFrame, FrameOK, I!NoneLeftInService, I!DiesOnlyOf
<1> QED
  BY <1>2, <1>3, <1>4 DEF InterruptsInv

-----------------------------------------------------------------------------
\* The inductive invariant holds in every behaviour.
THEOREM InterruptsInvariant == I!Spec => []InterruptsInv
<1>1. InterruptsInv /\ [I!Next]_(I!vars) => InterruptsInv'
  BY BootStep, DeliverStep, SpuriousStep, FaultStep, SpuriousCheckStep,
     PanicStep, CallStep, AckStep, IretqStep, RaiseStep, StutterStep
  DEF I!Next, I!Handler
<1> QED
  BY <1>1, InterruptsInit, PTL DEF I!Spec

\* Every variable keeps its type, and the stubs push what the gates are for.
THEOREM InterruptsTypeCorrect == I!Spec => []I!TypeOK
<1>1. ASSUME InterruptsInv PROVE I!TypeOK
  <2> USE <1>1 DEF InterruptsInv
  <2>1. {irr, isr, imr} \subseteq SUBSET (0 .. 15) /\ vector \in -1 .. 127
    BY DEF LineTypes
  <2>2. {remapped, interrupt_flag, dead} \subseteq BOOLEAN
    BY Zenon DEF BootOrder
  <2>3. boot \in {"idt", "pic", "unmask", "sti", "done"}
    BY Zenon DEF BootOrder
  <2>4. /\ DOMAIN gates \in {{}, 0 .. 46}
        /\ \A v \in DOMAIN gates : gates[v] \in 0 .. 46
        /\ DOMAIN irq_handlers \in {{}, 0 .. 15}
    <3>1. CASE boot = "idt"
      BY <3>1 DEF BootOrder
    <3>2. CASE boot # "idt"
      <4>1. gates = I!InstalledGates /\ irq_handlers = I!HandlerTable
        BY <3>2 DEF BootOrder
      <4>2. /\ DOMAIN I!InstalledGates = 0 .. 46
            /\ \A v \in 0 .. 46 : I!InstalledGates[v] \in 0 .. 46
        BY DEF I!InstalledGates
      <4>3. DOMAIN I!HandlerTable = 0 .. 15
        BY DEF I!HandlerTable
      <4> QED
        BY <4>1, <4>2, <4>3, Zenon
    <3> QED
      BY <3>1, <3>2
  <2>5. frames \in Seq(Frame)
    <3>1. CASE frames = << >>
      BY <3>1
    <3>2. ASSUME NEW f \in Frame, frames = <<f>> PROVE frames \in Seq(Frame)
      BY <3>2
    <3> QED
      BY <3>1, <3>2 DEF OneFrame
  <2> QED
    BY <2>1, <2>2, <2>3, <2>4, <2>5, Zenon DEF I!TypeOK, Frame
<1> QED
  BY <1>1, InterruptsInvariant, PTL

\* After each interrupt the PICs have nothing left in service.
THEOREM ServicesEnd == I!Spec => []I!NoneLeftInService
<1>1. InterruptsInv => I!NoneLeftInService
  BY DEF InterruptsInv
<1> QED
  BY <1>1, InterruptsInvariant, PTL

\* No handler is ever interrupted by another.
THEOREM NoNesting == I!Spec => []I!HandlersDoNotNest
<1>1. ASSUME InterruptsInv PROVE I!HandlersDoNotNest
  <2>1. CASE frames = << >>
    BY <2>1 DEF I!HandlersDoNotNest
  <2>2. ASSUME NEW f \in Frame, frames = <<f>> PROVE I!HandlersDoNotNest
    BY <2>2 DEF I!HandlersDoNotNest
  <2> QED
    BY <1>1, <2>1, <2>2 DEF InterruptsInv, OneFrame
<1> QED
  BY <1>1, InterruptsInvariant, PTL

\* Whatever devices there are, the machine does not stop for the timer, the
\* keyboard or line 7.
THEOREM DrivenLinesAreSafe == I!Spec => []I!DiesOnlyOf
<1>1. InterruptsInv => I!DiesOnlyOf
  BY DEF InterruptsInv
<1> QED
  BY <1>1, InterruptsInvariant, PTL

-----------------------------------------------------------------------------
\* The variables of both parts keep their types.
THEOREM KernelTypeCorrect == Spec => []TypeOK
<1>1. SleepInv => T!TypeOK
  BY DEF SleepInv
<1>2. T!TypeOK /\ I!TypeOK => TypeOK
  BY DEF TypeOK
<1> QED BY <1>1, <1>2, SleepInvariant, KernelIsSleep,
           InterruptsTypeCorrect, KernelIsInterrupts, PTL

\* In the kernel, too, countdown is what is left of the ticks asked for,
\* though a tick is counted long after the timer has asked for it.
THEOREM KernelCountsDown == Spec => []CountsDown
<1>1. SleepInv => CountsDown
  BY DEF SleepInv, Counting, CountsDown
<1> QED BY <1>1, SleepInvariant, KernelIsSleep, PTL

\* millisleep never returns early, whatever lines, spurious requests and
\* exceptions there are.
THEOREM KernelSleepsEnough == Spec => []NotEarly
<1>1. SleepInv => NotEarly
  BY DEF SleepInv, Counting, NotEarly
<1> QED BY <1>1, SleepInvariant, KernelIsSleep, PTL

\* Nor does it return two ticks late, though a tick has to get past the other
\* lines to be counted.
THEOREM KernelSleepsNoLonger == Spec => []AtMostOneTickLate
<1>1. SleepInv => AtMostOneTickLate
  BY DEF SleepInv, Counting, AtMostOneTickLate
<1> QED BY <1>1, SleepInvariant, KernelIsSleep, PTL

\* While the thread boots and sleeps, nothing is left in service between
\* interrupts: each handler acknowledges what it was entered for.
THEOREM KernelServicesEnd == Spec => []NoneLeftInService
<1>1. I!NoneLeftInService => NoneLeftInService
  BY DEF NoneLeftInService
<1> QED BY <1>1, ServicesEnd, KernelIsInterrupts, PTL

\* No handler is interrupted, the timer's included.
THEOREM KernelNoNesting == Spec => []HandlersDoNotNest
<1>1. I!HandlersDoNotNest => HandlersDoNotNest
  BY DEF HandlersDoNotNest
<1> QED BY <1>1, NoNesting, KernelIsInterrupts, PTL

\* The lines the kernel drives are never the end of it.
THEOREM KernelDrivenLinesAreSafe == Spec => []DiesOnlyOf
<1>1. I!DiesOnlyOf => DiesOnlyOf
  BY DEF DiesOnlyOf
<1> QED BY <1>1, DrivenLinesAreSafe, KernelIsInterrupts, PTL
=============================================================================
