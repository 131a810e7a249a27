------------------------------ MODULE BiosMaps ------------------------------
(***************************************************************************)
(* The BIOSes, the memory and the limits that Boot is about.               *)
(***************************************************************************)
EXTENDS Integers, Sequences

CONSTANTS
    Machines,       \* what Boot may start on, see BiosAssumption
    MAX_ENTRIES,    \* 100: E820_MAX_ENTRIES
    Room,           \* 115: the entries that fit below the kernel
    TestCount,      \* 1024: allocations that try "to destroy the heap"
    WordMod         \* 2^64: the values of a size_t

ASSUME BoundsAssumption ==
    /\ {MAX_ENTRIES, Room, TestCount} \subseteq Nat
    /\ MAX_ENTRIES <= Room /\ Room < 65536
    /\ WordMod \in Nat \ {0}

HalfMod == 65536

Half == 0 .. (HalfMod - 1)      \* of a 32-bit register

Entry == [base : Nat, length : Nat, type : Nat]

\* What the kernel takes for zero and nobody clears: the bits behind the 16 of
\* the count, the upper halves of two registers, and the variables of pmm.d, in
\* .bss, which is not in the image; map is usable_map up to usable_map_len.
Leftover == [count : Nat, eax : Half, ebx : Half,
             map : Seq(Entry), total : 0 .. (WordMod - 1)]

\* A BIOS has a map, goes on by a step from one continuation value to the next,
\* heeds the upper halves of some registers and not of others, and may report
\* an error.  Without the upper half of ebx its values have 16 bits.
ASSUME BiosAssumption ==
    /\ Machines \subseteq
          [bios : Seq(Entry), step : Nat \ {0}, heeds : SUBSET {"eax", "ebx"},
           errs : BOOLEAN, leftover : Leftover]
    /\ \A m \in Machines : "ebx" \notin m.heeds =>
          \A k \in 1 .. Len(m.bios) : k * m.step < 65536
=============================================================================
