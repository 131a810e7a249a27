-------------------------------- MODULE Boot --------------------------------
(***************************************************************************)
(* How the heap comes by its memory.  e820_setup (asm/kernel_entry.S) asks *)
(* the BIOS for the memory map, one entry a call, and stores the entries   *)
(* below the kernel.  Later get_mem_map (util/e820.c) reads their number   *)
(* and pmem_map (util/d/pmm.d) copies the usable ones, hands them to       *)
(* kmalloc_init, tries the heap, and halts.                                *)
(*                                                                         *)
(* What the machine does in between, and what the heap writes to, is in    *)
(* Startup; what the heap does is MallocFreelist, and here any answer.     *)
(***************************************************************************)
EXTENDS BiosMaps, SequencesExt

VARIABLES
    bios, step, heeds, errs,    \* external: this BIOS
    leftover,       \* external: what is in registers and memory at the start
    pc,
    eax,            \* the function of the next call
    ebx,            \* the continuation value
    si,             \* entries counted by e820_setup
    map,            \* the entries in memory
    e820_count,
    i,              \* of the loops of pmem_map
    usable_map,     \* as far as usable_map_len
    total_length,
    handed          \* history: what kmalloc_init was given

machine == <<bios, step, heeds, errs, leftover>>
loader == <<eax, ebx, si, map>>
kernel == <<e820_count, i, usable_map, total_length, handed>>
vars == <<machine, pc, loader, kernel>>

-----------------------------------------------------------------------------
E820_TYPE_USABLE == 1

Usable(e) == e.type = E820_TYPE_USABLE

\* Are the entries of s what is usable in the first n of m, in their order?
UsableUpTo(s, m, n) == \E at \in [1 .. Len(s) -> 1 .. n] :
    /\ \A j, k \in 1 .. Len(s) : j < k => at[j] < at[k]
    /\ \A l \in 1 .. n : Usable(m[l]) <=> \E j \in 1 .. Len(s) : at[j] = l
    /\ \A j \in 1 .. Len(s) : s[j] = m[at[j]]

\* What the BIOS looks at in a register.
Heard(name, value) == IF name \in heeds THEN value ELSE value % 65536

\* The BIOS answers with entry k for the continuation value of k - 1 steps.
Asked(k) ==
    /\ k \in 1 .. Len(bios)
    /\ Heard("eax", eax) = \hE820
    /\ Heard("ebx", ebx) = (k - 1) * step

\* mov ax, 0xE820 and mov bx, 0 leave the upper halves alone.
MovLow(value, half) == value - (value % 65536) + half

\* Mutant: the macro clears all of bx.
PrintCharClearsBX(b) == b - (b % 65536)

\* print_char '>' clears bh, and so a byte of the continuation value.
PrintChar(b) == b - ((b % 65536) - (b % 256))

\* In eax it leaves 0xb8000 with '>' as al and 0x0e as ah.
PrintedEax == \hB0E3E

\* cmp bx, 0 looks at the low half of ebx.
Last16(b) == b % 65536 = 0

\* Mutants: the last entry is not counted; the test allows one too many.
CountAfterLast(k) == si' = IF k = Len(bios) THEN si ELSE si + 1
TooManyByOne(n) == n > MAX_ENTRIES + 1

\* inc si
CountEntry(k) == si' = si + 1

\* get_mem_map reads 32 bits where e820_setup stored 16.
Count == leftover.count * 65536 + si

TooMany(n) == n > MAX_ENTRIES

-----------------------------------------------------------------------------
Init ==
    /\ \E m \in Machines :
          /\ bios = m.bios /\ step = m.step /\ heeds = m.heeds /\ errs = m.errs
          /\ leftover = m.leftover
    /\ pc = "e820"
    /\ eax = MovLow(leftover.eax * 65536, \hE820)
    /\ ebx = MovLow(leftover.ebx * 65536, 0)
    /\ si = 0 /\ map = << >>
    /\ e820_count = 0 /\ i = 0
    /\ usable_map = leftover.map /\ total_length = leftover.total
    /\ handed = << >>

\* The BIOS stores an entry.
E820Entry(k) ==
    /\ pc = "e820" /\ si < Room
    /\ Asked(k)
    /\ map' = Append(map, bios[k])
    /\ CountEntry(k)
    /\ \E next \in {0, k * step} :
          /\ next = 0 => k = Len(bios)
          /\ IF Last16(next)
             THEN pc' = "out" /\ ebx' = next /\ eax' = eax
             ELSE /\ pc' = "e820" /\ ebx' = PrintChar(next)
                  /\ eax' = MovLow(PrintedEax, \hE820)
    /\ UNCHANGED <<machine, kernel>>

\* With no room left the entry lies on the code that runs.
E820Overwrites(k) ==
    /\ pc = "e820" /\ si = Room
    /\ Asked(k)
    /\ pc' = "wild"
    /\ UNCHANGED <<machine, loader, kernel>>

\* Some BIOSes end the map with the carry flag, and so does a call for a function
\* or a continuation that the BIOS does not have.
E820Carry ==
    /\ pc = "e820"
    /\ ~\E k \in 1 .. Len(bios) : Asked(k)
    /\ pc' = "out"
    /\ UNCHANGED <<machine, loader, kernel>>

\* error_sig and error_size halt, at whatever call the BIOS answers so.
E820Error ==
    /\ pc = "e820" /\ errs
    /\ pc' = "halted"
    /\ UNCHANGED <<machine, loader, kernel>>

\* get_mem_map, once the kernel has come that far.
GetMemMap ==
    /\ pc = "out"
    /\ IF TooMany(Count)
       THEN pc' = "panic" /\ UNCHANGED e820_count
       ELSE pc' = "filter" /\ e820_count' = Count
    /\ UNCHANGED <<machine, loader, i, usable_map, total_length, handed>>

\* pmem_map's first loop, foreach (i; 0..e820_count).
CopyUsable ==
    /\ pc = "filter"
    /\ i < e820_count
    /\ Usable(map[i + 1]) => Len(usable_map) < MAX_ENTRIES
    /\ usable_map' = IF Usable(map[i + 1]) THEN Append(usable_map, map[i + 1])
                     ELSE usable_map
    /\ i' = i + 1
    /\ UNCHANGED <<machine, pc, loader, e820_count, total_length, handed>>

\* With usable_map_len off the array, the entry lies on whatever is there.
CopyOverwrites ==
    /\ pc = "filter"
    /\ i < e820_count
    /\ Usable(map[i + 1]) /\ Len(usable_map) >= MAX_ENTRIES
    /\ pc' = "wild"
    /\ UNCHANGED <<machine, loader, kernel>>

CopyDone ==
    /\ pc = "filter"
    /\ i = e820_count
    /\ pc' = "sum"
    /\ i' = 0
    /\ UNCHANGED <<machine, loader, e820_count, usable_map, total_length, handed>>

\* Its second loop.
AddLength ==
    /\ pc = "sum"
    /\ i < Len(usable_map)
    /\ total_length' = (total_length + usable_map[i + 1].length) % WordMod
    /\ i' = i + 1
    /\ UNCHANGED <<machine, pc, loader, e820_count, usable_map, handed>>

SumDone ==
    /\ pc = "sum"
    /\ i = Len(usable_map)
    /\ pc' = "add"
    /\ i' = 0
    /\ UNCHANGED <<machine, loader, e820_count, usable_map, total_length, handed>>

\* One iteration of kmalloc_init.
AddBlock ==
    /\ pc = "add"
    /\ i < Len(usable_map)
    /\ handed' = Append(handed, usable_map[i + 1])
    /\ i' = i + 1
    /\ UNCHANGED <<machine, pc, loader, e820_count, usable_map, total_length>>

AddDone ==
    /\ pc = "add"
    /\ i = Len(usable_map)
    /\ pc' = "heap"
    /\ i' = 0
    /\ UNCHANGED <<machine, loader, e820_count, usable_map, total_length, handed>>

\* kmalloc(600), kmalloc(6), two kfrees, kmalloc(24) over and over.
HeapTest ==
    /\ pc = "heap"
    /\ i < TestCount /\ handed # << >>
    /\ i' = i + 1
    /\ UNCHANGED <<machine, pc, loader, e820_count, usable_map, total_length, handed>>

\* One of them returned NULL.
OutOfMemory ==
    /\ pc = "heap"
    /\ i < TestCount
    /\ pc' = "panic"
    /\ UNCHANGED <<machine, loader, kernel>>

\* cli; hlt
CliHlt ==
    /\ pc = "heap"
    /\ i = TestCount
    /\ pc' = "halted"
    /\ UNCHANGED <<machine, loader, kernel>>

Next ==
    \/ \E k \in 1 .. Len(bios) : E820Entry(k) \/ E820Overwrites(k)
    \/ E820Carry
    \/ E820Error
    \/ GetMemMap
    \/ CopyUsable \/ CopyOverwrites \/ CopyDone
    \/ AddLength \/ SumDone
    \/ AddBlock \/ AddDone
    \/ HeapTest \/ OutOfMemory
    \/ CliHlt

Spec == Init /\ [][Next]_vars

-----------------------------------------------------------------------------
Machine ==
    [bios |-> bios, step |-> step, heeds |-> heeds, errs |-> errs, leftover |-> leftover]

\* The variables have their types; pmem_map keeps usable_map to its MAX_ENTRIES.
TypeOK ==
    /\ Machine \in Machines
    /\ pc \in {"e820", "out", "filter", "sum", "add", "heap", "panic", "halted", "wild"}
    /\ eax \in Nat /\ ebx \in Nat
    /\ si = Len(map)
    /\ e820_count \in 0 .. MAX_ENTRIES
    /\ Len(usable_map) <= MAX_ENTRIES \/ usable_map = leftover.map
    /\ i \in Nat
    /\ total_length \in 0 .. (WordMod - 1)

\* The continuation values have all their bits in bl, and some.
Survives == \A k \in 1 .. Len(bios) : (k * step) % 65536 \in 1 .. 255

\* usable_map_len starts as 0.
Zeroed == leftover.map = << >>

\* The entries this BIOS tells: one that heeds the whole of eax knows the function
\* only in the call before the first print_char, one that heeds the whole of
\* ebx begins with the first entry only when the whole of it is 0.
Told ==
    IF ("eax" \in heeds /\ leftover.eax # 0) \/ ("ebx" \in heeds /\ leftover.ebx # 0)
    THEN 0
    ELSE IF "eax" \in heeds /\ Len(bios) > 1 THEN 1 ELSE Len(bios)

\* What kmalloc_init gets the BIOS has called usable; and it gets all that the
\* BIOS tells, entry by entry and in its order, when print_char leaves the
\* continuation values alone: none is lost, doubled or invented on the way.
HeapGetsUsable ==
    pc = "heap" /\ Zeroed =>
        /\ \A n \in 1 .. Len(handed) :
              \E k \in 1 .. Len(bios) : Usable(bios[k]) /\ handed[n] = bios[k]
        /\ Survives => UsableUpTo(handed, bios, Told)

\* "Too many E820 entries!": of more than MAX_ENTRIES none is copied, and none
\* reaches the heap.
RefusesTooMany ==
    Len(map) > MAX_ENTRIES => usable_map = leftover.map /\ handed = << >>
=============================================================================
