------------------------------ MODULE HeapSpec ------------------------------
(***************************************************************************)
(* What a caller of kmalloc and kfree is promised: a pointer stands for    *)
(* the bytes that were asked for, those bytes belong to the memory the     *)
(* heap was given, and nobody else holds any of them until the pointer is  *)
(* freed.  How the heap finds the bytes is left open.                      *)
(***************************************************************************)
EXTENDS Integers

CONSTANTS
    Memory,     \* the addresses of the bytes the heap may hand out
    Requests    \* the sizes callers ask for

VARIABLE held   \* pointer held by a caller |-> the bytes asked for

Bytes(p, n) == p .. (p + n - 1)

Init == held = [p \in {} |-> 0]

Alloc(p, n) ==
    /\ n > 0
    /\ p % 8 = 0
    /\ Bytes(p, n) \subseteq Memory
    /\ \A q \in DOMAIN held : p + n <= q \/ q + held[q] <= p
    /\ held' = [q \in DOMAIN held \cup {p} |-> IF q = p THEN n ELSE held[q]]

Free(p) ==
    /\ p \in DOMAIN held
    /\ held' = [q \in DOMAIN held \ {p} |-> held[q]]

Next ==
    \/ \E p \in Memory, n \in Requests : Alloc(p, n)
    \/ \E p \in DOMAIN held : Free(p)

Spec == Init /\ [][Next]_held
=============================================================================
