------------------------------ MODULE MCPrintk ------------------------------
(***************************************************************************)
(* Formats for TLC: all short ones over the characters that steer the      *)
(* loop, less those for which printk is known to fail.                     *)
(***************************************************************************)
EXTENDS Printk

Steering == {"%", "0", "l", "d", "u", "a"}
Others == {"i", "b", "o", "x", "X", "p", "c", "s"}

ShortFormats ==
    {f \in UNION {[1 .. n -> Steering] : n \in 0 .. 4} :
        FlagsOnUnsigned(f) /\ EndsWhole(f)}
    \cup {<< "%", c >> : c \in Others}
    \cup {<< "%", "0", c, "%", "u" >> : c \in {"u", "b", "x", "X", "p"}}
    \cup {<< "%", "0", "l", c, "%", "x" >> : c \in {"u", "b", "x"}}

\* The ends of an int of a byte and of a long of two, but for the least long.
Words == {<< 0, 127 >>, << 128, 65535 >>, << 32769, 300 >>}

TwoBytes == 65536

\* A whole second, and none.
WholeSeconds == {0, 1000}

\* Milliseconds with one, two and three digits, but for whole seconds.
SomeTicks == {1, 10, 99, 100, 999, 1001, 12345}
=============================================================================
