-------------------------- MODULE MCMallocFreelist --------------------------
(***************************************************************************)
(* A small heap for TLC as kmalloc_init builds it from an e820 map: two    *)
(* regions that ascend and do not abut.                                    *)
(***************************************************************************)
EXTENDS MallocFreelist

Word16 == 65536

\* As an e820 map has them.
Ascending == <<[base |-> 8, length |-> 100], [base |-> 160, length |-> 132]>>

\* pmem_map asks for 6, 24 and 600 bytes; 600 is 40 here.
SmallRequests == {0, 6, 24, 40}
=============================================================================
