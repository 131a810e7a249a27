------------------------------ MODULE InputSpec -----------------------------
(***************************************************************************)
(* What the reader of the keyboard is promised: each character it gets was *)
(* typed, it gets them in the order in which they were typed, and none of  *)
(* them twice.  It may miss some.                                          *)
(***************************************************************************)
EXTENDS Integers, Sequences

CONSTANT Chars

VARIABLES
    typed,      \* the characters typed so far
    taken,      \* the reader is past this many of them
    got         \* the characters the reader was given so far

Init == typed = << >> /\ taken = 0 /\ got = << >>

Type(c) == typed' = Append(typed, c) /\ UNCHANGED <<taken, got>>

Take(i) ==
    /\ taken < i
    /\ taken' = i
    /\ got' = Append(got, typed[i])
    /\ UNCHANGED typed

Next == (\E c \in Chars : Type(c)) \/ (\E i \in 1 .. Len(typed) : Take(i))

Spec == Init /\ [][Next]_<<typed, taken, got>>
=============================================================================
