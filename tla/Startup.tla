------------------------------- MODULE Startup -------------------------------
(***************************************************************************)
(* From the entry of the kernel to the end of pmem_map: the memory map     *)
(* (Boot), the segments (Descriptors) and the page tables (Paging), in the *)
(* order in which asm/kernel_entry.S and init_kernel (kernel.c) go through *)
(* them, on machines with several memory maps and CPUs.                    *)
(*                                                                         *)
(* The components meet in memory: the BIOS's map says where the heap is,   *)
(* the page tables lie at 1 MiB, the kernel below, and the heap writes its *)
(* headers to wherever it was told.  Bases and lengths count pages.  What  *)
(* init_kernel does between gdt_init and paging_init is in Interrupts and  *)
(* Sleep.                                                                  *)
(***************************************************************************)
EXTENDS BiosMaps, AddressSpace, SequencesExt

CONSTANT
    Cpus            \* the sets of features a CPU may have

VARIABLES
    bios, step, heeds, errs, leftover, pc, eax, ebx, si, map, e820_count, i,
    usable_map, total_length, handed,               \* Boot
    gdtr, mode, cs, ds, gdt_descriptors,            \* Descriptors
    features, tables, cr3, paging, written,         \* Paging
    interrupt_flag, \* of the CPU: as the BIOS left it
    stage           \* what comes next: "bios", "protected", "cpu", "gdt",
                    \* "paging", "memory"; or how the machine has stopped:
                    \* "halted", "panic", "fault", "wild", "reset"

B == INSTANCE Boot
D == INSTANCE Descriptors
P == INSTANCE Paging

memory_map == <<bios, step, heeds, errs, leftover, pc, eax, ebx, si, map,
                e820_count, i, usable_map, total_length, handed>>
segments == <<gdtr, mode, cs, ds, gdt_descriptors>>
pages == <<features, tables, cr3, paging, written>>
vars == <<memory_map, segments, pages, interrupt_flag, stage>>

-----------------------------------------------------------------------------
Init ==
    /\ B!Init /\ D!Init /\ P!Init
    /\ features \in Cpus
    /\ interrupt_flag \in BOOLEAN
    /\ stage = "bios"

E820 ==
    /\ stage = "bios"
    /\ \/ \E k \in 1 .. Len(bios) : B!E820Entry(k) \/ B!E820Overwrites(k)
       \/ B!E820Carry
       \/ B!E820Error
    /\ stage' = CASE pc' = "out" -> "protected"
                  [] pc' \in {"halted", "wild"} -> pc'
                  [] OTHER -> stage
    /\ UNCHANGED <<segments, pages, interrupt_flag>>

EnterProtectedMode ==
    /\ stage = "protected"
    /\ D!EnterProtectedMode
    /\ stage' = "cpu"
    /\ UNCHANGED <<memory_map, pages, interrupt_flag>>

\* check_cpuid, check_long_mode.
CpuTooOld ==
    /\ stage = "cpu"
    /\ ~({"CPUID", "LM"} \subseteq features)
    /\ stage' = "halted"
    /\ UNCHANGED <<memory_map, segments, pages, interrupt_flag>>

\* setup_paging_64bit, up to the call of init_kernel.
EnterLongMode ==
    /\ stage = "cpu"
    /\ {"CPUID", "LM"} \subseteq features
    /\ P!SetupPaging64
    /\ D!EnterLongMode
    /\ stage' = "gdt"
    /\ UNCHANGED <<memory_map, interrupt_flag>>

GdtInit ==
    /\ stage = "gdt"
    /\ P!KernelReachable
    /\ D!GdtInit
    /\ stage' = "paging"
    /\ UNCHANGED <<memory_map, pages, interrupt_flag>>

PagingInit ==
    /\ stage = "paging"
    /\ P!KernelReachable
    /\ P!PagingInit
    /\ stage' = CASE paging' = "panic" -> "panic"
                  [] paging' = "on" -> "memory"
                  [] OTHER -> stage
    /\ UNCHANGED <<memory_map, segments, interrupt_flag>>

\* get_mem_map, and pmem_map's work on its own tables.
ReadMap ==
    /\ stage = "memory"
    /\ P!KernelReachable
    /\ \/ B!GetMemMap
       \/ B!CopyUsable \/ B!CopyOverwrites \/ B!CopyDone
       \/ B!AddLength \/ B!SumDone
       \/ B!AddDone
    /\ stage' = IF pc' \in {"panic", "wild"} THEN pc' ELSE stage
    /\ UNCHANGED <<segments, pages, interrupt_flag>>

\* Where malloc_addblock writes: the header of the new region, and the one that
\* was the first of the list.
HeaderPages ==
    {usable_map[i + 1].base} \cup (IF i > 0 THEN {usable_map[i].base} ELSE {})

AddBlock ==
    /\ stage = "memory"
    /\ P!KernelReachable
    /\ B!AddBlock
    /\ P!Write(HeaderPages)
    /\ UNCHANGED <<segments, interrupt_flag, stage>>

\* The pages of the heap in the order in which kmalloc comes to them: the list
\* begins with the region added last, and splitting keeps the lower part.
HeapPages ==
    FlattenSeq([k \in 1 .. Len(handed) |->
        LET e == handed[Len(handed) + 1 - k] IN [j \in 1 .. e.length |-> e.base + j - 1]])

\* One step stands for as many allocations as reach the next page.
HeapTest ==
    /\ stage = "memory"
    /\ P!KernelReachable
    /\ i < Len(HeapPages)
    /\ B!HeapTest
    /\ P!Write({HeapPages[i + 1]})
    /\ UNCHANGED <<segments, interrupt_flag, stage>>

OutOfMemory ==
    /\ stage = "memory"
    /\ P!KernelReachable
    /\ i >= Len(HeapPages)
    /\ B!OutOfMemory
    /\ stage' = "panic"
    /\ UNCHANGED <<segments, pages, interrupt_flag>>

CliHlt ==
    /\ stage = "memory"
    /\ P!KernelReachable
    /\ B!CliHlt
    /\ stage' = "halted"
    /\ UNCHANGED <<segments, pages, interrupt_flag>>

\* The heap touches a page that is not mapped; exception_handler halts.
PageFault ==
    /\ stage = "memory"
    /\ P!KernelReachable
    /\ \/ pc = "add" /\ i < Len(usable_map) /\ \E v \in HeaderPages : P!MayFault(v)
       \/ pc = "heap" /\ i < TestCount /\ i < Len(HeapPages) /\ P!MayFault(HeapPages[i + 1])
    /\ stage' = "fault"
    /\ UNCHANGED <<memory_map, segments, pages, interrupt_flag>>

Running == stage \in {"protected", "cpu", "gdt", "paging", "memory"}

\* The kernel itself is not mapped any more: no handler either, the CPU resets.
TripleFault ==
    /\ Running /\ mode = "long"
    /\ P!KernelMayFault
    /\ stage' = "reset"
    /\ UNCHANGED <<memory_map, segments, pages, interrupt_flag>>

\* The heap has written over code of the kernel.
RunWild ==
    /\ Running
    /\ written \cap KernelPages # {}
    /\ stage' = "wild"
    /\ UNCHANGED <<memory_map, segments, pages, interrupt_flag>>

\* Nothing turns interrupts off before the BIOS's handlers are out of reach, and
\* idt_init, behind gdt_init, comes much later.
EarlyInterrupt ==
    /\ stage \in {"cpu", "gdt"}
    /\ interrupt_flag
    /\ stage' = "reset"
    /\ UNCHANGED <<memory_map, segments, pages, interrupt_flag>>

Next ==
    \/ E820
    \/ EnterProtectedMode \/ CpuTooOld \/ EnterLongMode
    \/ GdtInit
    \/ PagingInit
    \/ ReadMap \/ AddBlock
    \/ HeapTest \/ OutOfMemory \/ CliHlt
    \/ PageFault \/ TripleFault \/ RunWild \/ EarlyInterrupt

Spec == Init /\ [][Next]_vars

\* Straight-line code; handlers return.
FairSpec == Spec /\ WF_vars(Next)

-----------------------------------------------------------------------------
\* The variables of the parts have their types; pmem_map keeps usable_map to its
\* MAX_ENTRIES.
TypeOK ==
    /\ B!TypeOK /\ P!TypeOK
    /\ interrupt_flag \in BOOLEAN
    /\ stage \in {"bios", "protected", "cpu", "gdt", "paging", "memory",
                  "halted", "panic", "fault", "wild", "reset"}

\* What kmalloc_init gets the BIOS has called usable; and it gets all that the
\* BIOS tells, entry by entry and in its order, when print_char leaves the
\* continuation values alone: none is lost, doubled or invented on the way.
HeapGetsUsable == B!HeapGetsUsable

\* "Too many E820 entries!": of more than MAX_ENTRIES none is copied, and none
\* reaches the heap.
RefusesTooMany == B!RefusesTooMany

\* Whatever is mapped is mapped to itself, before and after paging_init, for
\* the kernel and for all of the heap, and while the heap overwrites tables.
OnlyIdentity == P!OnlyIdentity

\* The selectors the CPU runs with refer, in the table that is loaded, to code
\* and data for the mode it is in.
SegmentsSuitMode == D!SegmentsSuitMode

\* The pages the BIOS called usable.
UsablePages ==
    UNION {bios[k].base .. (bios[k].base + bios[k].length - 1) :
               k \in {n \in 1 .. Len(bios) : B!Usable(bios[n])}}

TablesInHeap == UsablePages \cap P!BootTables # {}

\* The heap has all that the BIOS tells, and that is less than the test takes.
OutOfPages ==
    /\ B!Zeroed /\ B!Survives => B!UsableUpTo(handed, bios, B!Told)
    /\ Len(HeapPages) < TestCount

\* Each way in which a machine stops has a reason, and these are all there are.
\* It halts for an error of the BIOS, a CPU without long mode, or because it is
\* through with as much memory as the test takes.  It panics for a CPU without
\* PAT or PSE, bits behind the count, more than MAX_ENTRIES entries, or too
\* little memory.  It resets for an interrupt before there is a table for it, a
\* CPU without pages of 1 GiB, for which the value load_page_dir puts into CR3
\* maps nothing, or usable memory where the page tables lie.  It faults for
\* these tables, or usable memory from 1 GiB on, which is not mapped.  It runs
\* wild for a map that does not fit below the kernel, a continuation value that
\* print_char garbles, or usable memory where the kernel lies.  And all that
\* has to do with the heap may come of a usable_map_len that is not 0.
StopsOnlyFor ==
    /\ stage = "halted" =>
          \/ mode = "real" /\ errs
          \/ mode = "protected" /\ ~({"CPUID", "LM"} \subseteq features)
          \/ mode = "long" /\ pc = "halted" /\ Len(HeapPages) >= TestCount
    /\ stage = "panic" =>
          \/ paging = "panic" /\ ~({"PAT", "PSE"} \subseteq features)
          \/ paging = "on" /\ (leftover.count # 0 \/ Len(map) > MAX_ENTRIES \/ OutOfPages)
    /\ stage = "reset" =>
          \/ interrupt_flag /\ (mode = "protected" \/ paging = "check")
          \/ paging = "on" /\ ("GBPAGES" \notin features \/ TablesInHeap \/ ~B!Zeroed)
    /\ stage = "fault" =>
          paging = "on" /\ (TablesInHeap \/ ~B!Zeroed \/ \E v \in UsablePages : v >= P!GiB)
    /\ stage = "wild" =>
          \/ mode = "real" /\ (B!Told > Room \/ ~B!Survives)
          \/ mode = "long" /\ (UsablePages \cap KernelPages # {} \/ ~B!Zeroed)

\* Every machine stops: the loop over the BIOS's entries does not go round for
\* ever, nothing behind it waits, and a map that fits does not take the loop up
\* into the kernel ("we want to be below KERNEL_LOCATION").
Ends ==
    <>(/\ ~Running /\ stage # "bios"
       /\ pc = "wild" => B!Told > Room \/ ~B!Survives \/ ~B!Zeroed)

\* "It then loads the address onto the CR3 register": CR3 has the array that
\* was passed to load_page_dir.
Cr3HasPml4 == P!Cr3HasPml4
=============================================================================
