------------------------------- MODULE Paging -------------------------------
(***************************************************************************)
(* The page tables: the three that setup_paging_64bit (asm/kernel_entry.S) *)
(* builds at 1 MiB and turns on, the three arrays that paging_init         *)
(* (util/paging.c) fills, and the value load_page_dir (util/paging.S) puts *)
(* into CR3.                                                               *)
(*                                                                         *)
(* Addresses count pages of 4 KiB.  An entry is the frame it points to and *)
(* those of its bits that the walk looks at; a table is a function from    *)
(* the indices that are looked at.  The heap may write into the frames of  *)
(* the tables: the headers it stores there begin with pointers, whose bit  *)
(* 0 is clear, so that a table that was written to maps nothing any more.  *)
(***************************************************************************)
EXTENDS AddressSpace

VARIABLES
    features,   \* external: what CPUID reports
    tables,     \* frame of a table |-> its entries
    cr3,        \* the frame CR3 points to
    paging,     \* what comes next: "off", "check", "directory", "pointers",
                \* "pml4", "load", "on"; or "panic"
    written     \* frames the heap has written to

vars == <<features, tables, cr3, paging, written>>

-----------------------------------------------------------------------------
\* The tables of setup_paging_64bit.
BootDirectory == 256
BootPointers == 257
BootPml4 == 258
BootTables == {BootDirectory, BootPointers, BootPml4}
Arrays == {page_directory, page_directory_ptr, pml4}

GiB == 512 * 512

Entry(frame, bits) == [frame |-> frame, bits |-> bits]
Absent == Entry(0, {})

\* Mutants: the bit that ends the walk is forgotten; the page starts at 4 KiB.
NoLargePage == Entry(0, {"P"})
LargePageOneUp == Entry(1, {"P", "PS"})

\* 0x83: a page of 2 MiB that starts at 0.
LargePage == Entry(0, {"P", "PS"})

\* stosd clears all entries but the first.
FirstOnly(e) == [i \in Indices |-> IF i = 0 THEN e ELSE Absent]

\* The entries of blank_page_dir: bit 12, meant for PAT, is bit 0 of the frame.
BlankEntry(i) == Entry(1, {"P"})

\* fill_pdp: (i << 30) | (1 << 20).
PointerEntry(i) == Entry(i * GiB + 256, {"P"})

\* fill_pml4: (i << 12) | (1 << 20) | (1 << 12); i may have its low bit, or
\* its bit 8, set already.
Pml4Entry(i) ==
    LET low == i - (i % 2) + 1
    IN Entry(IF (i \div 256) % 2 = 1 THEN low ELSE low + 256, {"P"})

\* The index of page v into a table of level n: 3 for a PML4, 0 for a page table.
Index(v, n) == (v \div 512 ^ n) % 512

\* What the CPU finds at index i of the table at a frame, if the frames of w
\* are overwritten.  Memory that is no table is not relied on.
At(frame, i, w) ==
    IF frame \in DOMAIN tables \ w /\ i \in Indices THEN tables[frame][i] ELSE Absent

Fault == -1

\* The frame the CPU finds for page v.  A large page in the third level needs
\* a CPU that has them: for another one the bit is reserved.
Walk(v, w) ==
    LET e4 == At(cr3, Index(v, 3), w)
        e3 == At(e4.frame, Index(v, 2), w)
        e2 == At(e3.frame, Index(v, 1), w)
        e1 == At(e2.frame, Index(v, 0), w)
    IN IF "P" \notin e4.bits \cap e3.bits \/ "PS" \in e4.bits THEN Fault
       ELSE IF "PS" \in e3.bits
            THEN IF "GBPAGES" \in features THEN e3.frame + (v % GiB) ELSE Fault
       ELSE IF "P" \notin e2.bits THEN Fault
       ELSE IF "PS" \in e2.bits THEN e2.frame + (v % 512)
       ELSE IF "P" \notin e1.bits THEN Fault ELSE e1.frame

\* Where an access to v may go: to what the tables say, or, by the TLB, to
\* what they said before the heap wrote to them.  Loading CR3 empties the
\* TLB, and the heap is not used before that.
Reach(v) == {Walk(v, written), Walk(v, {})} \ {Fault}

\* The TLB need not hold a translation: an access to v may fault.
MayFault(v) == Walk(v, written) = Fault

KernelReachable == \A v \in KernelPages : v \in Reach(v)
KernelMayFault == \E v \in KernelPages : MayFault(v)

\* mov rax, [rdi]: not the address of the array, but its first entry.
LoadedFrom(frame) == At(frame, 0, written).frame

-----------------------------------------------------------------------------
Init ==
    /\ tables = [f \in BootTables \cup Arrays |-> FirstOnly(Absent)]
    /\ cr3 = 0
    /\ paging = "off"
    /\ written = {}

\* setup_paging_64bit: the tables, PAE, CR3, long mode, paging.
SetupPaging64 ==
    /\ paging = "off"
    /\ tables' = [tables EXCEPT
           ![BootDirectory] = FirstOnly(LargePage),
           ![BootPointers] = FirstOnly(Entry(BootDirectory, {"P"})),
           ![BootPml4] = FirstOnly(Entry(BootPointers, {"P"}))]
    /\ cr3' = BootPml4
    /\ paging' = "check"
    /\ UNCHANGED <<features, written>>

CheckRequirements ==
    /\ paging = "check"
    /\ paging' = IF {"PAT", "PSE"} \subseteq features THEN "directory" ELSE "panic"
    /\ UNCHANGED <<features, tables, cr3, written>>

BlankPageDir ==
    /\ paging = "directory"
    /\ tables' = [tables EXCEPT
           ![page_directory] = [i \in Indices |-> BlankEntry(i)]]
    /\ paging' = "pointers"
    /\ UNCHANGED <<features, cr3, written>>

FillPdp ==
    /\ paging = "pointers"
    /\ tables' = [tables EXCEPT
           ![page_directory_ptr] = [i \in Indices |-> PointerEntry(i)]]
    /\ paging' = "pml4"
    /\ UNCHANGED <<features, cr3, written>>

FillPml4 ==
    /\ paging = "pml4"
    /\ tables' = [tables EXCEPT
           ![pml4] = [i \in Indices |-> Pml4Entry(i)]]
    /\ paging' = "load"
    /\ UNCHANGED <<features, cr3, written>>

\* load_page_dir(pml4), and enable_paging, which finds paging enabled.
LoadPageDir ==
    /\ paging = "load"
    /\ cr3' = LoadedFrom(pml4)
    /\ paging' = "on"
    /\ UNCHANGED <<features, tables, written>>

PagingInit ==
    CheckRequirements \/ BlankPageDir \/ FillPdp \/ FillPml4 \/ LoadPageDir

\* The heap writes to the pages of S.
Write(S) ==
    /\ \A v \in S : Reach(v) # {}
    /\ written' = written \cup UNION {Reach(v) : v \in S}
    /\ UNCHANGED <<features, tables, cr3, paging>>

-----------------------------------------------------------------------------
\* The variables have their types.
TypeOK ==
    /\ DOMAIN tables = BootTables \cup Arrays
    /\ \A f \in DOMAIN tables : DOMAIN tables[f] = Indices
    /\ cr3 \in Nat
    /\ paging \in {"off", "check", "directory", "pointers", "pml4", "load", "on",
                   "panic"}
    /\ written \subseteq Nat

\* Whatever is mapped is mapped to itself, by the tables of the boot code, by
\* those in use after load_page_dir, and by what the TLB may hold of them: the
\* kernel, its drivers and its heap take physical addresses for pointers.
OnlyIdentity == \A v \in Pages : Reach(v) \subseteq {v}

\* "It then loads the address onto the CR3 register": CR3 has the array that
\* was passed to load_page_dir.
Cr3HasPml4 == paging = "on" => cr3 = pml4
=============================================================================
