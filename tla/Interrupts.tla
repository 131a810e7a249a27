----------------------------- MODULE Interrupts -----------------------------
(***************************************************************************)
(* Hardware interrupts, from the line a device raises to the iretq of      *)
(* idt_common_stub: the two chained PICs as PIC_enable (util/pic.c) sets   *)
(* them up, the gates idt_init (util/idt.c) installs, the numbers the      *)
(* stubs of asm/isr.S push, exception_handler with its table of handlers,  *)
(* and PIC_acknowledge.                                                    *)
(*                                                                         *)
(* The PICs are modelled from how the code programs them: edge triggered,  *)
(* fully nested, non-specific end of interrupt.  A line of the second PIC  *)
(* comes in through line 2 of the first.  What timer_handler and           *)
(* kbd_irq_handler do is in Sleep and Keyboard.                            *)
(***************************************************************************)
EXTENDS InterruptLines, SequencesExt

VARIABLES
    irr, isr, imr,  \* of both PICs: lines requested, in service, masked
    remapped,       \* the PICs have the vectors of PIC_remap
    interrupt_flag, \* IF of the CPU
    gates,          \* vector with a gate in idt |-> number its stub pushes
    irq_handlers,   \* line |-> name of the handler, of those installed
    boot,           \* what init_kernel does next
    frames,         \* exception_handler's invocations, innermost first
    vector,         \* the last vector taken; -1 at first
    dead            \* the CPU has stopped for good

pics == <<irr, isr, imr, remapped>>
tables == <<gates, irq_handlers>>
vars == <<pics, interrupt_flag, tables, boot, frames, vector, dead>>

-----------------------------------------------------------------------------
\* The pin of the first PIC that line l is on.
Pin(l) == IF l >= 8 THEN 2 ELSE l

\* Line a goes before line b, or is b.
AheadOf(a, b) == Pin(a) < Pin(b) \/ (Pin(a) = Pin(b) /\ a <= b)

Unmasked(l) == l \notin imr /\ Pin(l) \notin imr

\* In service, at the first PIC or at the second, are lines ahead of l.
Blocked(l) ==
    \/ \E s \in isr \cap (0 .. 7) : s <= Pin(l)
    \/ l >= 8 /\ \E s \in isr \cap (8 .. 15) : s <= l

Ready(l) ==
    /\ l \in irr /\ Unmasked(l) /\ ~Blocked(l)
    /\ \A k \in irr : Unmasked(k) /\ ~Blocked(k) => AheadOf(l, k)

\* The vector of line l: the BIOS's, or the one PIC_remap(0x20) gives it.
VectorOf(l) ==
    IF remapped THEN 32 + l ELSE IF l < 8 THEN 8 + l ELSE 112 + (l - 8)

\* A non-specific end of interrupt clears the foremost line in service.
EndOfInterrupt(chip, s) ==
    {l \in s : l \in chip /\ \A k \in s \cap chip : l <= k}

\* PIC_acknowledge(n): what is left in service.
PIC_acknowledge(n) ==
    LET slave == IF n >= 40 THEN EndOfInterrupt(8 .. 15, isr) ELSE {}
    IN isr \ (slave \cup EndOfInterrupt(0 .. 7, isr))

\* Mutants: the stubs push a number too high; the second loop is left out.
GatesOneTooHigh == [v \in 0 .. 46 |-> v + 1]
ExceptionGatesOnly == [v \in 0 .. 31 |-> IF v = 31 THEN 32 ELSE v]

\* The gates of the two loops of idt_init.  isr_stub_table has 31 entries, and
\* what follows it is the first entry of irq_stub_table.
InstalledGates == [v \in 0 .. 46 |-> IF v = 31 THEN 32 ELSE v]

\* fill_irq_table.
HandlerTable == [l \in 0 .. 15 |->
    CASE l = 0 -> "timer_handler"
      [] l = 1 -> "kbd_irq_handler"
      [] l = 7 -> "spurious_interrupt"
      [] OTHER -> "exception_handler"]

\* Mutant: trap gates.
FlagKept == interrupt_flag

\* All gates are interrupt gates: IDT_FLAG_GATE_INT clears IF.
FlagInHandler == FALSE

\* The first test of exception_handler.
TakenForSpurious(n) == n \in {7 + 32, 15 + 32}

\* The CPU takes vector v: through its gate, or, without one, into a general
\* protection fault, for which exception_handler halts.
Take(v) ==
    /\ vector' = v
    /\ IF v \in DOMAIN gates
       THEN /\ frames' = <<[irq |-> gates[v], at |-> "entry"]>> \o frames
            /\ interrupt_flag' = FlagInHandler
            /\ UNCHANGED dead
       ELSE /\ dead' = TRUE
            /\ UNCHANGED <<frames, interrupt_flag>>

\* The innermost exception_handler is at a.
At(a) == frames # << >> /\ ~dead /\ frames[1].at = a

GoTo(a) == frames' = [frames EXCEPT ![1].at = a]

\* The code of the kernel runs, and no handler.
NoHandler == frames = << >> /\ ~dead

-----------------------------------------------------------------------------
\* The flag is as the BIOS left it: nothing turns interrupts off on the way.
Init ==
    /\ irr = {} /\ isr = {} /\ imr = BiosMasks /\ remapped = FALSE
    /\ interrupt_flag \in BOOLEAN
    /\ gates = [v \in {} |-> 0]
    /\ irq_handlers = [l \in {} |-> "none"]
    /\ boot = "idt"
    /\ frames = << >>
    /\ vector = -1
    /\ dead = FALSE

\* idt_init up to PIC_enable.  An interrupt among its steps is the end of the
\* machine, as it is before and behind them.
IdtInit ==
    /\ NoHandler
    /\ boot = "idt"
    /\ gates' = InstalledGates
    /\ irq_handlers' = HandlerTable
    /\ boot' = "pic"
    /\ UNCHANGED <<pics, interrupt_flag, frames, vector, dead>>

\* PIC_remap(0x20).  The first command word forgets requests and services.
PicRemap ==
    /\ NoHandler
    /\ boot = "pic"
    /\ irr' = {} /\ isr' = {}
    /\ remapped' = TRUE
    /\ boot' = "unmask"
    /\ UNCHANGED <<imr, interrupt_flag, tables, frames, vector, dead>>

\* Mutant: the loop ends one line of the first PIC early.
ClearMasksButOne ==
    /\ NoHandler
    /\ boot = "unmask"
    /\ imr' = imr \ (0 .. 6)
    /\ boot' = "sti"
    /\ UNCHANGED <<irr, isr, remapped, interrupt_flag, tables, frames, vector,
                   dead>>

\* The loop of PIC_enable.
ClearMasks ==
    /\ NoHandler
    /\ boot = "unmask"
    /\ imr' = imr \ (0 .. 15)
    /\ boot' = "sti"
    /\ UNCHANGED <<irr, isr, remapped, interrupt_flag, tables, frames, vector,
                   dead>>

\* enable_interrupts.
EnableInterrupts ==
    /\ NoHandler
    /\ boot = "sti"
    /\ interrupt_flag' = TRUE
    /\ boot' = "done"
    /\ UNCHANGED <<pics, tables, frames, vector, dead>>

\* A device raises its line.
Raise(l) ==
    /\ l \notin irr
    /\ ~dead
    /\ irr' = irr \cup {l}
    /\ UNCHANGED <<isr, imr, remapped, interrupt_flag, tables, boot, frames,
                   vector, dead>>

\* The CPU takes the foremost request.
Deliver(l) ==
    /\ interrupt_flag /\ ~dead
    /\ Ready(l)
    /\ irr' = irr \ {l}
    /\ isr' = isr \cup {l, Pin(l)}
    /\ Take(VectorOf(l))
    /\ UNCHANGED <<imr, remapped, irq_handlers, gates, boot>>

\* The CPU takes a request that has vanished: the PIC answers with its last
\* line, and has nothing in service on it.  The first PIC does not know.
Spurious(l) ==
    /\ interrupt_flag /\ ~dead
    /\ Unmasked(l) /\ ~Blocked(l)
    /\ isr' = isr \cup (IF l = 15 THEN {2} ELSE {})
    /\ Take(VectorOf(l))
    /\ UNCHANGED <<irr, imr, remapped, irq_handlers, gates, boot>>

\* The code that runs with interrupts on causes an exception.
Fault(v) ==
    /\ NoHandler
    /\ boot = "done"
    /\ Take(v)
    /\ UNCHANGED <<pics, tables, boot>>

\* Mutant: it returns without an acknowledgement, as if the request had always
\* been a spurious one.
SpuriousNotAcknowledged ==
    /\ At("entry")
    /\ TakenForSpurious(frames[1].irq)
    /\ GoTo("iretq")
    /\ UNCHANGED <<pics, interrupt_flag, tables, boot, vector, dead>>

\* exception_handler returns early, with the first PIC acknowledged only.
SpuriousCheck ==
    /\ At("entry")
    /\ TakenForSpurious(frames[1].irq)
    /\ isr' = PIC_acknowledge(32)
    /\ GoTo("iretq")
    /\ UNCHANGED <<irr, imr, remapped, interrupt_flag, tables, boot, vector,
                   dead>>

\* panic_irq.
PanicIrq ==
    /\ At("entry")
    /\ frames[1].irq < 32
    /\ dead' = TRUE
    /\ interrupt_flag' = FALSE
    /\ UNCHANGED <<pics, tables, boot, frames, vector>>

\* The call of the handler from the table.  exception_handler is called with
\* the same registers again and again, until the stack runs over.
CallHandler ==
    /\ At("entry")
    /\ ~TakenForSpurious(frames[1].irq)
    /\ frames[1].irq \in 32 .. 47
    /\ IF irq_handlers[frames[1].irq - 32] = "exception_handler"
       THEN dead' = TRUE /\ UNCHANGED frames
       ELSE GoTo("ack") /\ UNCHANGED dead
    /\ UNCHANGED <<pics, interrupt_flag, tables, boot, vector>>

\* The PIC_acknowledge behind the call of the handler.
Acknowledge ==
    /\ At("ack")
    /\ isr' = PIC_acknowledge(frames[1].irq)
    /\ GoTo("iretq")
    /\ UNCHANGED <<irr, imr, remapped, interrupt_flag, tables, boot, vector,
                   dead>>

\* The end of idt_common_stub.  sti takes effect behind the iretq.
Iretq ==
    /\ At("iretq")
    /\ frames' = Tail(frames)
    /\ interrupt_flag' = TRUE
    /\ UNCHANGED <<pics, tables, boot, vector, dead>>

Boot == IdtInit \/ PicRemap \/ ClearMasks \/ EnableInterrupts

Handler == SpuriousCheck \/ PanicIrq \/ CallHandler \/ Acknowledge \/ Iretq

Next ==
    \/ Boot
    \/ \E l \in Lines : Raise(l)
    \/ \E l \in Lines : Deliver(l)
    \/ \E l \in SpuriousLines : Spurious(l)
    \/ \E v \in Exceptions : Fault(v)
    \/ Handler

Spec == Init /\ [][Next]_vars

\* The lines ahead of l do not come back to back for ever: when they are taken
\* again and again, there is again and again a time when the interrupted code
\* runs and none of them is requested.  A handler takes microseconds, the
\* period of the timer is a millisecond.
Lull(l) ==
    []<><<\E k \in Lines : ~AheadOf(l, k) /\ Deliver(k)>>_vars
        => []<>(frames = << >> /\ \A k \in irr : AheadOf(l, k))

\* The lines with a handler of their own.
DrivenLines == Lines \cap {0, 1, 7}

-----------------------------------------------------------------------------
\* The variables have their types; the stubs push numbers of vectors that
\* have gates.
TypeOK ==
    /\ {irr, isr, imr} \subseteq SUBSET (0 .. 15)
    /\ {remapped, interrupt_flag, dead} \subseteq BOOLEAN
    /\ DOMAIN gates \in {{}, 0 .. 46}
    /\ \A v \in DOMAIN gates : gates[v] \in 0 .. 46
    /\ DOMAIN irq_handlers \in {{}, 0 .. 15}
    /\ boot \in {"idt", "pic", "unmask", "sti", "done"}
    /\ frames \in Seq([irq : 0 .. 46, at : {"entry", "ack", "iretq"}])
    /\ vector \in -1 .. 127

\* Between interrupts nothing is in service at either PIC: whichever way
\* exception_handler takes, its acknowledgements match what the PICs hold.  A
\* line left in service would silence itself and all behind it for ever.
NoneLeftInService == frames = << >> /\ ~dead => isr = {}

\* No handler is interrupted: the kernel's handlers share countdown and
\* most_recent_char without a lock, and the stack holds one frame at most.
HandlersDoNotNest == Len(frames) <= 1

\* "IRQ 15, 47" is a stub of isr.S, and exception_handler acknowledges and
\* returns for "r->irq == 15 + 0x20": the machine outlives a request on the last
\* line of the second PIC once that has its vector of PIC_remap.
Spurious15Returns == vector = 15 + 32 => ~dead

\* Once the lines have the vectors of PIC_remap, the timer, the keyboard and
\* line 7, spurious or not, are never the end of the machine, whatever the
\* other lines are: it is the lines that have exception_handler for a handler,
\* or no gate, that are, and before that any line.
DiesOnlyOf == dead => vector \notin {32, 33, 39}

\* With interrupts on, a request on a line the kernel drives reaches its
\* handler, unless a line it does not drive stops the machine.
LinesServed ==
    \A l \in DrivenLines :
        l \in irr /\ boot = "done" ~> dead \/ (At("entry") /\ frames[1].irq = 32 + l)
=============================================================================
