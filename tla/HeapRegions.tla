----------------------------- MODULE HeapRegions ----------------------------
(***************************************************************************)
(* The memory the heap is given and what it is asked for: the parameters   *)
(* of MallocFreelist.                                                      *)
(***************************************************************************)
EXTENDS Integers, Sequences

CONSTANTS
    Regions,    \* usable_map: sequence of [base, length] given to kmalloc_init
    Requests,   \* the sizes callers pass to kmalloc
    WordMod     \* 2^64 in the kernel: size_t and uintptr_t wrap at WordMod

ASSUME WordAssumption ==
    /\ WordMod \in Nat \ {0}
    /\ WordMod % 8 = 0

ASSUME RequestsAssumption == Requests \subseteq 0 .. (WordMod - 1)

RegionEnd(i) == Regions[i].base + Regions[i].length

\* No region reaches the end of the address space, and the e820 map the BIOS
\* returns does not list a byte twice.
ASSUME RegionsAssumption ==
    /\ Regions \in Seq([base : Nat, length : Nat])
    /\ \A i \in 1 .. Len(Regions) : RegionEnd(i) + 8 < WordMod
    /\ \A i, j \in 1 .. Len(Regions) :
           i # j => \/ RegionEnd(i) <= Regions[j].base
                    \/ RegionEnd(j) <= Regions[i].base
=============================================================================
