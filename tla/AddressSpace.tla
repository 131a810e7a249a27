---------------------------- MODULE AddressSpace ----------------------------
(***************************************************************************)
(* The pages and tables that Paging is about: its parameters.              *)
(***************************************************************************)
EXTENDS Integers

CONSTANTS
    Pages,              \* the virtual pages that are looked at
    KernelPages,        \* those without which the kernel cannot run
    Indices,            \* the indices into a table that are looked at
    page_directory, page_directory_ptr, pml4    \* the frames of the arrays

ASSUME PagesAssumption == KernelPages \subseteq Pages /\ Pages \subseteq Nat

\* An address has 48 bits.
ASSUME WidthAssumption == \A v \in Pages : v \div 512 ^ 3 < 512

\* The kernel, and with it the arrays, lies below 1 MiB.
ASSUME KernelAssumption == KernelPages # {} /\ KernelPages \subseteq 0 .. 255
ASSUME ArraysAssumption ==
    /\ {page_directory, page_directory_ptr, pml4} \subseteq 1 .. 255
    /\ page_directory # page_directory_ptr
    /\ pml4 \notin {page_directory, page_directory_ptr}

ASSUME IndicesAssumption == 0 \in Indices /\ Indices \subseteq 0 .. 511
=============================================================================
