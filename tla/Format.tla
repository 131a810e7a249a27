------------------------------- MODULE Format -------------------------------
(***************************************************************************)
(* Numbers as text: the conversions of util/kio.c between printk's format  *)
(* characters and print_char.  A text is a sequence of characters; Unset   *)
(* is a cell of the caller's buffer that the conversion does not write.    *)
(***************************************************************************)
EXTENDS Integers, Sequences, SequencesExt

CONSTANT LongMod    \* 2^64 in the kernel: the values of a long long

PowerOf2[n \in Nat] == IF n = 0 THEN 1 ELSE 2 * PowerOf2[n - 1]

ASSUME LongAssumption == \E bits \in 1 .. 64 : LongMod = PowerOf2[bits]

-----------------------------------------------------------------------------
Digits == << "0", "1", "2", "3", "4", "5", "6", "7", "8", "9",
             "a", "b", "c", "d", "e", "f" >>

Unset == "unset"

LongMin == -(LongMod \div 2)

\* The word read as a signed number of a type with mod values.
Signed(word, mod) == IF word < mod \div 2 THEN word ELSE word - mod

\* num *= -1, which the least number survives.
Negated(num) == IF num = LongMin THEN LongMin ELSE -num

\* The digits of n, the lowest first; none for 0.
LowDigits(n, base) ==
    LET low[m \in Nat] ==
            IF m = 0 THEN << >>
            ELSE << Digits[(m % base) + 1] >> \o low[m \div base]
    IN low[n]

digit_count_unsigned(n) == IF n < 10 THEN 1 ELSE Len(LowDigits(n, 10))

\* Mutant: the sign is not counted.
digit_count_no_sign(num) ==
    IF num = 0 THEN 1
    ELSE Len(LowDigits(IF num < 0 THEN -num ELSE num, 10))

\* The loop counts nothing while the negated number is still negative.
digit_count(num) ==
    IF num = 0 THEN 1
    ELSE IF num > 0 THEN Len(LowDigits(num, 10))
    ELSE 1 + (IF Negated(num) > 0 THEN Len(LowDigits(-num, 10)) ELSE 0)

\* The characters lltoa stores, from the last cell towards the first.  Those of
\* a number that is still negative lie below '0'.
Stored(num) ==
    IF num < 0 /\ Negated(num) < 0
    THEN [j \in 1 .. Len(LowDigits(-num, 10)) |-> "garbled"]
    ELSE LowDigits(IF num < 0 THEN -num ELSE num, 10)

\* index-- goes below 0: the rest is stored far behind the buffer.
Overruns(num) == num # 0 /\ Len(Stored(num)) > digit_count(num)

lltoa(num) ==
    IF num = 0 THEN << "0" >>
    ELSE LET low == Stored(num)
             dgcount == digit_count(num)
         IN [k \in 1 .. dgcount |->
                IF dgcount - k < Len(low) THEN low[dgcount - k + 1]
                ELSE IF k = 1 /\ num < 0 THEN "-" ELSE Unset]

ulltoa(n) == IF n = 0 THEN << "0" >> ELSE Reverse(LowDigits(n, 10))

\* The width to which a 0 flag pads; none for octal.
PadTo(base) ==
    IF base = 16 THEN 16 ELSE IF base = 2 THEN 64 ELSE IF base = 10 THEN 20 ELSE 0

\* decimal_to_base: a 0 that is not padded is a case of its own.
decimal_to_base(n, base, zero_pad) ==
    IF n = 0 /\ ~zero_pad THEN << "0" >>
    ELSE LET low == LowDigits(n, base)
             missing == IF zero_pad /\ PadTo(base) > Len(low)
                        THEN PadTo(base) - Len(low) ELSE 0
         IN [k \in 1 .. missing |-> "0"] \o Reverse(low)

\* Mutant: two places are made into three, one is not.
LeadingZeroOnce(num) == IF num < 100 THEN 1 ELSE 0

\* zero_extend_3: the zeros in front of a number below 100.
LeadingZeros(num) == IF num < 10 THEN 2 ELSE IF num < 100 THEN 1 ELSE 0

\* zero_extend_3.  The loop writes no digit for 0, and the case of 0 is not
\* reached: dgcount is 3 by then.
zero_extend_3(num) ==
    LET low == LowDigits(num, 10)
        dgcount == digit_count_unsigned(num) + LeadingZeros(num)
    IN [k \in 1 .. dgcount |->
           IF dgcount - k < Len(low) THEN low[dgcount - k + 1]
           ELSE IF k <= LeadingZeros(num) THEN "0" ELSE Unset]

milliseconds_as_seconds(num) ==
    ulltoa(num \div 1000) \o << "." >> \o zero_extend_3(num % 1000)

-----------------------------------------------------------------------------
\* What a reader makes of a text in the base.
DigitOf(c) == (CHOOSE d \in 1 .. 16 : Digits[d] = c) - 1

IsNumeral(text, base) ==
    text # << >> /\ \A k \in 1 .. Len(text) :
        \E d \in 1 .. base : text[k] = Digits[d]

Value(text, base) ==
    LET value[k \in 0 .. Len(text)] ==
            IF k = 0 THEN 0 ELSE value[k - 1] * base + DigitOf(text[k])
    IN value[Len(text)]

Reads(text, base, n) == IsNumeral(text, base) /\ Value(text, base) = n

ReadsSigned(text, num) ==
    IF num < 0 THEN Head(text) = "-" /\ Reads(Tail(text), 10, -num)
    ELSE Reads(text, 10, num)
=============================================================================
