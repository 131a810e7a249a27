---------------------------- MODULE MCLinkedHeap ----------------------------
(***************************************************************************)
(* A small heap for TLC: two regions that do not abut, of up to two and up *)
(* to four blocks, and the promises of MallocFreelist made by its list of  *)
(* pointers.                                                               *)
(***************************************************************************)
EXTENDS LinkedHeap

Word16 == 65536

\* As pmem_map hands them over: they ascend, and the first begins at address 0.
\* The other base is aligned to 4 only, as e820 bases may be; one length is no
\* multiple of 8.
FromZeroUp == <<[base |-> 0, length |-> 107], [base |-> 116, length |-> 172]>>

\* pmem_map asks for 6, 24 and 600 bytes; 600 is 40 here.
SmallRequests == {0, 6, 24, 40}
=============================================================================
