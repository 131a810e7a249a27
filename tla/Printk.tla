------------------------------- MODULE Printk -------------------------------
(***************************************************************************)
(* actual_print of util/kio.c, the loop under printk and log_printk: one   *)
(* pass over a format string, in which a directive reads an argument,      *)
(* converts it with an operator of Format and prints it.                   *)
(*                                                                         *)
(* What is printed is kept as the last conversion; letters, and the        *)
(* characters and strings of %c and %s, are printed as they are.           *)
(***************************************************************************)
EXTENDS Format

CONSTANTS
    IntMod,     \* 2^32 in the kernel: the values of an int
    Formats,    \* format strings, without their NUL
    ArgLists,   \* sequences of the words passed with them
    Ticks       \* values of timer_ticks when something is logged

ASSUME IntAssumption ==
    IntMod <= LongMod /\ \E bits \in 1 .. 64 : IntMod = PowerOf2[bits]
ASSUME FormatsAssumption == Formats \subseteq Seq(STRING)
ASSUME ArgsAssumption == ArgLists \subseteq Seq(0 .. (LongMod - 1))
ASSUME TicksAssumption == Ticks \subseteq 0 .. (LongMod - 1)

VARIABLES
    format, args,   \* of the call
    pc,             \* "log", "loop", "format" or "done"
    p,              \* the place of *format
    arg,            \* the arguments read so far
    zero_pad,
    flagged,        \* history: the directive has a 0 flag
    printed         \* history: the last conversion

call == <<format, args>>
vars == <<call, pc, p, arg, zero_pad, flagged, printed>>

-----------------------------------------------------------------------------
NUL == "NUL"

\* The character at a place; behind the NUL comes anything.
At(k) == IF k <= Len(format) THEN format[k] ELSE NUL

Ended == p > Len(format)

Nothing == [kind |-> "none", word |-> 0, base |-> 10, text |-> << >>,
            flagged |-> FALSE]

Printed(kind, word, base, text) ==
    [kind |-> kind, word |-> word, base |-> base, text |-> text,
     flagged |-> flagged]

\* The bases of the unsigned directives; %ll has %u only, %l no o, X and p.
Base == [u |-> 10, b |-> 2, o |-> 8, x |-> 16, X |-> 16, p |-> 16]

Unsigned(c) == c \in DOMAIN Base
LongUnsigned(c) == c \in {"u", "b", "x"}

\* A %p is as wide as a long.
Width(c) == IF c = "p" THEN LongMod ELSE IntMod

\* PIT_IRQ_timer_get_current_time_since_boot: nobody counts until the timer is
\* enabled.
TimeSinceBoot(t, enabled) ==
    IF enabled THEN milliseconds_as_seconds(t)
    ELSE << "0", ".", "0", "0", "0" >>

\* Mutant: zero_pad is left as it is.
KeepPad == UNCHANGED zero_pad

\* decimal_to_base takes the 0 flag back.
TakePadBack == zero_pad' = FALSE

\* Mutants: the character behind the % is skipped, or the % is read again.
StepOver == p + 1
StepBackTwice == p - 1

\* The default cases: format-- and the format++ at the end of the loop.
StepBack == p

-----------------------------------------------------------------------------
Init ==
    /\ format \in Formats /\ args \in ArgLists
    /\ pc \in {"log", "loop"}
    /\ p = 1 /\ arg = 0
    /\ zero_pad = FALSE /\ flagged = FALSE
    /\ printed = Nothing

\* log_printk prints the time first.
LogTime ==
    /\ pc = "log"
    /\ \E t \in Ticks, enabled \in BOOLEAN :
          printed' = Printed("time", IF enabled THEN t ELSE 0, 10,
                             TimeSinceBoot(t, enabled))
    /\ pc' = "loop"
    /\ UNCHANGED <<call, p, arg, zero_pad, flagged>>

Letter ==
    /\ pc = "loop" /\ ~Ended
    /\ At(p) # "%"
    /\ p' = p + 1
    /\ UNCHANGED <<call, pc, arg, zero_pad, flagged, printed>>

Percent ==
    /\ pc = "loop" /\ ~Ended
    /\ At(p) = "%"
    /\ p' = p + 1
    /\ pc' = "format"
    /\ flagged' = FALSE
    /\ UNCHANGED <<call, arg, zero_pad, printed>>

Finish ==
    /\ pc = "loop" /\ Ended
    /\ pc' = "done"
    /\ UNCHANGED <<call, p, arg, zero_pad, flagged, printed>>

ZeroFlag ==
    /\ pc = "format" /\ At(p) = "0"
    /\ zero_pad' = TRUE
    /\ flagged' = TRUE
    /\ p' = p + 1
    /\ UNCHANGED <<call, pc, arg, printed>>

\* A directive that ends at next has read its argument.  All calls pass
\* one for each.
Read(next) ==
    /\ arg < Len(args)
    /\ arg' = arg + 1
    /\ p' = next
    /\ pc' = "loop"
    /\ UNCHANGED <<call, flagged>>

\* print_int and print_long_long.
PrintSigned(mod, next) ==
    /\ Read(next)
    /\ LET num == Signed(args[arg + 1] % mod, mod)
       IN printed' = Printed("signed", num, 10, lltoa(num))
    /\ UNCHANGED zero_pad

\* decimal_to_base, behind print_unsigned_int and the like.
PrintUnsigned(mod, base, next) ==
    /\ Read(next)
    /\ LET n == args[arg + 1] % mod
       IN printed' = Printed("unsigned", n, base,
                             decimal_to_base(n, base, zero_pad))
    /\ TakePadBack

\* %%, %i, %d, %u, %b, %x, %X, %o, %p, %c, %s.
Directive ==
    /\ pc = "format"
    /\ \/ /\ At(p) = "%"
          /\ p' = p + 1 /\ pc' = "loop"
          /\ UNCHANGED <<call, arg, zero_pad, flagged, printed>>
       \/ At(p) \in {"i", "d"} /\ PrintSigned(IntMod, p + 1)
       \/ Unsigned(At(p)) /\ PrintUnsigned(Width(At(p)), Base[At(p)], p + 1)
       \/ /\ At(p) \in {"c", "s"}
          /\ Read(p + 1)
          /\ UNCHANGED <<zero_pad, printed>>

\* %l and %ll.  At the end of the format the break leads to the format++ at
\* the end of the loop: *format is read behind the NUL.
LongDirective ==
    /\ pc = "format" /\ At(p) = "l"
    /\ \/ LongUnsigned(At(p + 1)) /\ PrintUnsigned(LongMod, Base[At(p + 1)], p + 2)
       \/ At(p + 1) = "d" /\ PrintSigned(LongMod, p + 2)
       \/ /\ At(p + 1) = "l"
          /\ \/ At(p + 2) = "u" /\ PrintUnsigned(LongMod, 10, p + 3)
             \/ At(p + 2) = "d" /\ PrintSigned(LongMod, p + 3)
             \/ /\ At(p + 2) \notin {"u", "d"}
                /\ p' = IF At(p + 2) = NUL THEN p + 3 ELSE p + 2
                /\ pc' = "loop"
                /\ UNCHANGED <<call, arg, zero_pad, flagged, printed>>
       \/ /\ ~LongUnsigned(At(p + 1)) /\ At(p + 1) \notin {"d", "l"}
          /\ p' = IF At(p + 1) = NUL THEN p + 2 ELSE p + 1
          /\ pc' = "loop"
          /\ UNCHANGED <<call, arg, zero_pad, flagged, printed>>

\* "Format unimplemented": the character is then printed as a letter.
Unimplemented ==
    /\ pc = "format"
    /\ ~Unsigned(At(p))
    /\ At(p) \notin {"%", "0", "i", "d", "l", "c", "s"}
    /\ p' = StepBack
    /\ pc' = "loop"
    /\ UNCHANGED <<call, arg, zero_pad, flagged, printed>>

Next ==
    \/ LogTime
    \/ Letter
    \/ Percent
    \/ Finish
    \/ ZeroFlag
    \/ Directive
    \/ LongDirective
    \/ Unimplemented

Spec == Init /\ [][Next]_vars

\* Straight-line code on a CPU that handlers always give back.
FairSpec == Spec /\ WF_vars(Next)

-----------------------------------------------------------------------------
(***************************************************************************)
(* What printk leaves to its callers.                                      *)
(***************************************************************************)

\* Up to place k there is a % and 0 flags.
Opened(f, k) == \E j \in 1 .. k : f[j] = "%" /\ \A i \in (j + 1) .. k : f[i] = "0"

\* The places of a directive's last character that takes the 0 flag back, an
\* octal one not among them: it is not padded, and its 0 has no digit then.
TakesFlagBack(f, k) ==
    \/ Unsigned(f[k]) /\ f[k] # "o"
    \/ f[k] = "l" /\ k < Len(f) /\ LongUnsigned(f[k + 1])
    \/ f[k] = "l" /\ k + 1 < Len(f) /\ f[k + 1] = "l" /\ f[k + 2] = "u"

\* "zero padding, but only for unsigned integers at the moment".
FlagsOnUnsigned(f) ==
    \A k \in 1 .. Len(f) : f[k] = "0" /\ Opened(f, k) =>
        k < Len(f) /\ (f[k + 1] = "0" \/ TakesFlagBack(f, k + 1))

\* The format does not end in the middle of %l or %ll.
EndsWhole(f) ==
    \A k \in 1 .. Len(f) : Opened(f, k) =>
        /\ k + 1 = Len(f) => f[k + 1] # "l"
        /\ k + 2 = Len(f) => f[k + 1] # "l" \/ f[k + 2] # "l"

FormatsEndWhole == \A f \in Formats : EndsWhole(f)
FlagsHonoured == \A f \in Formats : FlagsOnUnsigned(f)

\* lltoa cannot print the least long.
NoLeastLong == \A a \in ArgLists : \A k \in 1 .. Len(a) : a[k] # LongMod \div 2

\* Nor zero_extend_3 a whole second.
NoWholeSecond == \A t \in Ticks : t % 1000 # 0

-----------------------------------------------------------------------------
\* The variables have their types: the loop does not read behind the NUL of its
\* format, and a text fits the buffers of 64 characters.
TypeOK ==
    /\ format \in Formats /\ args \in ArgLists
    /\ pc \in {"log", "loop", "format", "done"}
    /\ p \in 1 .. (Len(format) + 1)
    /\ arg \in 0 .. Len(args)
    /\ {zero_pad, flagged} \subseteq BOOLEAN
    /\ Len(printed.text) <= 64

\* A number is padded with zeros when, and only when, its own directive has a 0
\* flag: no flag of one directive is left for a later one.
PaddedAsFlagged ==
    printed.kind = "unsigned" =>
        IF printed.flagged THEN Len(printed.text) = PadTo(printed.base)
        ELSE printed.text = << "0" >> \/ Head(printed.text) # "0"

\* What is printed for a number reads back as the argument, cut to the width of
\* its directive; and its digits stay in the buffer.
ReadsBack ==
    /\ printed.kind = "unsigned" =>
          Reads(printed.text, printed.base, printed.word)
    /\ printed.kind = "signed" =>
          ReadsSigned(printed.text, printed.word) /\ ~Overruns(printed.word)

\* "6 -> 006": the time in front of a logged line has a second part of three
\* digits, and reads back as the time in milliseconds.
TimeReadsBack ==
    printed.kind = "time" =>
        LET dot == Len(printed.text) - 3
        IN /\ printed.text[dot] = "."
           /\ Reads(SubSeq(printed.text, 1, dot - 1), 10, printed.word \div 1000)
           /\ Reads(SubSeq(printed.text, dot + 1, dot + 3), 10,
                    printed.word % 1000)

\* Every call returns, whatever its format: stepping back in the default cases
\* does not make the loop read the same % again.
Ends == <>(pc = "done")
=============================================================================
