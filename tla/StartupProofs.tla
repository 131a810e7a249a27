---------------------------- MODULE StartupProofs ---------------------------
(***************************************************************************)
(* What the way from the entry of the kernel to its halt keeps, for every  *)
(* memory map, BIOS and CPU.                                               *)
(***************************************************************************)
EXTENDS Startup, WellFoundedInduction, SequenceTheorems, TLAPS

LEMMA EntryFields == \A e \in Entry : e.base \in Nat /\ e.length \in Nat
BY DEF Entry

-----------------------------------------------------------------------------
(***************************************************************************)
(* The steps of Startup are steps of its parts.                            *)
(***************************************************************************)

LEMMA StepIsBoot == [Next]_vars => [B!Next]_(B!vars)
<1> SUFFICES ASSUME [Next]_vars PROVE [B!Next]_(B!vars)
  OBVIOUS
<1> USE DEF B!Next, B!vars, B!machine, B!loader, B!kernel, memory_map
<1>1. CASE E820
  BY <1>1 DEF E820
<1>2. CASE ReadMap
  BY <1>2 DEF ReadMap
<1>3. CASE AddBlock
  BY <1>3 DEF AddBlock
<1>4. CASE HeapTest
  BY <1>4 DEF HeapTest
<1>5. CASE OutOfMemory
  BY <1>5 DEF OutOfMemory
<1>6. CASE CliHlt
  BY <1>6 DEF CliHlt
<1>7. ASSUME UNCHANGED memory_map
      PROVE  UNCHANGED B!vars
  BY <1>7
<1>8. CASE EnterProtectedMode \/ CpuTooOld \/ EnterLongMode \/ GdtInit \/ PagingInit
  BY <1>7, <1>8 DEF EnterProtectedMode, CpuTooOld, EnterLongMode, GdtInit, PagingInit
<1>9. CASE PageFault \/ TripleFault \/ RunWild \/ EarlyInterrupt
  BY <1>7, <1>9 DEF PageFault, TripleFault, RunWild, EarlyInterrupt
<1>10. CASE UNCHANGED vars
  BY <1>10 DEF vars
<1> QED BY <1>1, <1>2, <1>3, <1>4, <1>5, <1>6, <1>8, <1>9, <1>10 DEF Next

\* What may change the page tables.
LEMMA StepIsPaging ==
    [Next]_vars => \/ stage = "cpu" /\ P!SetupPaging64 /\ EnterLongMode
                   \/ stage = "paging" /\ P!PagingInit /\ PagingInit
                   \/ stage = "memory" /\ P!Write(HeaderPages) /\ AddBlock
                   \/ stage = "memory" /\ P!Write({HeapPages[i + 1]}) /\ HeapTest
                   \/ UNCHANGED pages
<1> SUFFICES ASSUME [Next]_vars
             PROVE  \/ stage = "cpu" /\ P!SetupPaging64 /\ EnterLongMode
                    \/ stage = "paging" /\ P!PagingInit /\ PagingInit
                    \/ stage = "memory" /\ P!Write(HeaderPages) /\ AddBlock
                    \/ stage = "memory" /\ P!Write({HeapPages[i + 1]}) /\ HeapTest
                    \/ UNCHANGED pages
  OBVIOUS
<1>1. CASE E820 \/ EnterProtectedMode \/ CpuTooOld \/ GdtInit \/ ReadMap
  BY <1>1 DEF E820, EnterProtectedMode, CpuTooOld, GdtInit, ReadMap
<1>2. CASE OutOfMemory \/ CliHlt \/ PageFault \/ TripleFault \/ RunWild \/ EarlyInterrupt
  BY <1>2 DEF OutOfMemory, CliHlt, PageFault, TripleFault, RunWild, EarlyInterrupt
<1>3. CASE EnterLongMode
  BY <1>3 DEF EnterLongMode
<1>4. CASE PagingInit
  BY <1>4 DEF PagingInit
<1>5. CASE AddBlock
  BY <1>5 DEF AddBlock
<1>6. CASE HeapTest
  BY <1>6 DEF HeapTest
<1>7. CASE UNCHANGED vars
  BY <1>7 DEF vars
<1> QED BY <1>1, <1>2, <1>3, <1>4, <1>5, <1>6, <1>7 DEF Next

-----------------------------------------------------------------------------
(***************************************************************************)
(* The memory map, on its way from the BIOS to the heap.                   *)
(***************************************************************************)

\* Where the loops of pmem_map are.
BootTyped ==
    /\ B!TypeOK
    /\ {map, usable_map, handed} \subseteq Seq(Entry)
    /\ pc \in {"e820", "out"} => i = 0 /\ usable_map = leftover.map /\ handed = << >>
    /\ pc = "filter" => e820_count = Len(map) /\ i <= e820_count

\* What half of a register holds is a number.
LEMMA HalfTyped ==
    ASSUME NEW h \in Half
    PROVE  h \in Nat
<1>1. HalfMod \in Nat
  BY DEF HalfMod
<1> QED BY <1>1 DEF Half

\* A machine is one of those that are assumed.
LEMMA MachineTyped ==
    ASSUME B!Machine \in Machines
    PROVE  /\ bios \in Seq(Entry) /\ Len(bios) \in Nat
           /\ step \in Nat \ {0}
           /\ leftover.count \in Nat
           /\ leftover.eax \in Nat /\ leftover.ebx \in Nat
           /\ leftover.map \in Seq(Entry)
           /\ leftover.total \in 0 .. (WordMod - 1)
           /\ "ebx" \notin heeds => \A k \in 1 .. Len(bios) : k * step < 65536
<1>1. PICK m \in Machines :
         /\ bios = m.bios /\ step = m.step /\ heeds = m.heeds /\ leftover = m.leftover
  BY DEF B!Machine
<1>2. /\ m \in [bios : Seq(Entry), step : Nat \ {0}, heeds : SUBSET {"eax", "ebx"},
                errs : BOOLEAN, leftover : Leftover]
      /\ "ebx" \notin m.heeds => \A k \in 1 .. Len(m.bios) : k * m.step < 65536
  BY BiosAssumption
<1>3. bios \in Seq(Entry) /\ step \in Nat \ {0} /\ leftover \in Leftover
  BY <1>1, <1>2
<1>4. /\ leftover.count \in Nat
      /\ leftover.eax \in Half /\ leftover.ebx \in Half
      /\ leftover.map \in Seq(Entry) /\ leftover.total \in 0 .. (WordMod - 1)
  BY <1>3 DEF Leftover
<1> QED BY <1>1, <1>2, <1>3, <1>4, HalfTyped

\* The halves of a register.
LEMMA LowHalf16 ==
    ASSUME NEW b \in Nat, NEW n \in Nat, n < 65536
    PROVE  /\ B!MovLow(b * 65536, n) = b * 65536 + n
           /\ (b * 65536 + n) % 65536 = n
           /\ b * 65536 + n \in Nat
  BY DEF B!MovLow

LEMMA BootInitTyped == Init => BootTyped
<1> SUFFICES ASSUME Init PROVE BootTyped
  OBVIOUS
<1>1. B!Init
  BY DEF Init
<1>2. << >> \in Seq(Entry) /\ Len(<< >>) = 0
  OBVIOUS
<1>3. B!Machine \in Machines
  <2>1. PICK m \in Machines :
           /\ bios = m.bios /\ step = m.step /\ heeds = m.heeds /\ errs = m.errs
           /\ leftover = m.leftover
    BY <1>1 DEF B!Init
  <2>2. m \in [bios : Seq(Entry), step : Nat \ {0}, heeds : SUBSET {"eax", "ebx"},
              errs : BOOLEAN, leftover : Leftover]
    BY BiosAssumption
  <2>3. m = [bios |-> m.bios, step |-> m.step, heeds |-> m.heeds, errs |-> m.errs,
             leftover |-> m.leftover]
    BY <2>2
  <2> QED BY <2>1, <2>3 DEF B!Machine
<1>4. eax \in Nat /\ ebx \in Nat
  <2>1. /\ leftover.eax \in Nat /\ leftover.ebx \in Nat
        /\ 0 \in Nat /\ 0 < 65536 /\ \hE820 \in Nat /\ \hE820 < 65536
    BY <1>3, MachineTyped
  <2>2. /\ eax = B!MovLow(leftover.eax * 65536, \hE820)
        /\ ebx = B!MovLow(leftover.ebx * 65536, 0)
    BY <1>1 DEF B!Init
  <2> QED BY <2>1, <2>2, LowHalf16
<1> QED BY <1>1, <1>2, <1>3, <1>4, MachineTyped, BoundsAssumption
        DEF B!Init, BootTyped, B!TypeOK

LEMMA BootNextTyped == BootTyped /\ [B!Next]_(B!vars) => BootTyped'
<1> SUFFICES ASSUME BootTyped, [B!Next]_(B!vars) PROVE BootTyped'
  OBVIOUS
<1> USE DEF B!machine, B!loader, B!kernel
<1>0. /\ bios \in Seq(Entry) /\ step \in Nat
      /\ leftover.count \in Nat
      /\ MAX_ENTRIES \in Nat /\ WordMod \in Nat \ {0} /\ MAX_ENTRIES < 65536
      /\ i \in Nat
  BY MachineTyped, BoundsAssumption DEF BootTyped, B!TypeOK
<1> USE DEF B!Machine
<1>1. ASSUME NEW k \in 1 .. Len(bios), B!E820Entry(k)
      PROVE  BootTyped'
  <2>1. bios[k] \in Entry /\ k * step \in Nat
    BY <1>0
  <2>2. map' \in Seq(Entry) /\ Len(map') = si' /\ si' \in Nat
    BY <1>1, <2>1 DEF B!E820Entry, B!CountEntry, BootTyped, B!TypeOK
  <2>3. ebx' \in Nat /\ eax' \in Nat /\ pc' \in {"e820", "out"}
    <3>1. PICK n \in {0, k * step} :
             IF B!Last16(n) THEN pc' = "out" /\ ebx' = n /\ eax' = eax
             ELSE /\ pc' = "e820" /\ ebx' = B!PrintChar(n)
                  /\ eax' = B!MovLow(B!PrintedEax, \hE820)
      BY <1>1 DEF B!E820Entry
    <3>2. n \in Nat /\ eax \in Nat
      BY <2>1 DEF BootTyped, B!TypeOK
    <3>3. B!PrintChar(n) \in Nat
      BY <3>2 DEF B!PrintChar
    <3>4. B!MovLow(B!PrintedEax, \hE820) \in Nat
      BY DEF B!MovLow, B!PrintedEax
    <3> QED BY <3>1, <3>2, <3>3, <3>4
  <2> QED BY <1>1, <2>2, <2>3 DEF B!E820Entry, BootTyped, B!TypeOK
<1>2. ASSUME NEW k \in 1 .. Len(bios), B!E820Overwrites(k)
      PROVE  BootTyped'
  BY <1>2 DEF B!E820Overwrites, BootTyped, B!TypeOK
<1>3. CASE B!E820Carry \/ B!E820Error
  BY <1>3 DEF B!E820Carry, B!E820Error, BootTyped, B!TypeOK
<1>4. CASE B!GetMemMap
  <2>1. CASE B!TooMany(B!Count)
    BY <1>4, <2>1 DEF B!GetMemMap, BootTyped, B!TypeOK
  <2>2. CASE ~B!TooMany(B!Count)
    <3>1. B!Count = leftover.count * 65536 + si /\ si \in Nat /\ B!Count <= MAX_ENTRIES
      <4>1. si \in Nat
        BY <1>0 DEF BootTyped, B!TypeOK
      <4> QED BY <1>0, <2>2, <4>1 DEF B!Count, B!TooMany
    <3>2. leftover.count = 0
      BY <1>0, <3>1
    <3>3. B!Count = si
      BY <3>1, <3>2
    <3> QED BY <1>0, <1>4, <2>2, <3>1, <3>3
            DEF B!GetMemMap, BootTyped, B!TypeOK
  <2> QED BY <2>1, <2>2
<1>5. CASE B!CopyUsable
  <2>1. map[i + 1] \in Entry /\ i' <= e820_count
    BY <1>0, <1>5 DEF B!CopyUsable, BootTyped, B!TypeOK
  <2>2. usable_map' \in Seq(Entry)
    BY <1>5, <2>1 DEF B!CopyUsable, BootTyped
  <2>3. Len(usable_map') <= MAX_ENTRIES \/ usable_map' = leftover.map
    BY <1>0, <1>5, <2>1 DEF B!CopyUsable, BootTyped, B!TypeOK
  <2> QED BY <1>0, <1>5, <2>1, <2>2, <2>3 DEF B!CopyUsable, BootTyped, B!TypeOK
<1>6. CASE B!CopyDone \/ B!SumDone \/ B!AddDone
  <2>1. CASE B!CopyDone
    BY <2>1 DEF B!CopyDone, BootTyped, B!TypeOK
  <2>2. CASE B!SumDone
    BY <2>2 DEF B!SumDone, BootTyped, B!TypeOK
  <2>3. CASE B!AddDone
    BY <2>3 DEF B!AddDone, BootTyped, B!TypeOK
  <2> QED BY <1>6, <2>1, <2>2, <2>3
<1>7. CASE B!AddLength
  <2>1. usable_map[i + 1] \in Entry
    BY <1>0, <1>7 DEF B!AddLength, BootTyped, B!TypeOK
  <2>2. total_length + usable_map[i + 1].length \in Nat
    <3>1. usable_map[i + 1].length \in Nat
      BY <2>1 DEF Entry
    <3>2. total_length \in Nat
      BY <1>0 DEF BootTyped, B!TypeOK
    <3> QED BY <3>1, <3>2
  <2>3. total_length' \in 0 .. (WordMod - 1)
    BY <1>0, <1>7, <2>2 DEF B!AddLength
  <2> QED BY <1>0, <1>7, <2>1, <2>3 DEF B!AddLength, BootTyped, B!TypeOK
<1>8. CASE B!AddBlock
  <2>1. usable_map[i + 1] \in Entry
    BY <1>0, <1>8 DEF B!AddBlock, BootTyped, B!TypeOK
  <2>2. handed' \in Seq(Entry)
    BY <1>8, <2>1 DEF B!AddBlock, BootTyped
  <2> QED BY <1>0, <1>8, <2>1, <2>2 DEF B!AddBlock, BootTyped, B!TypeOK
<1>9. CASE B!HeapTest
  BY <1>0, <1>9 DEF B!HeapTest, BootTyped, B!TypeOK
<1>10. CASE B!OutOfMemory \/ B!CopyOverwrites
  BY <1>10 DEF B!OutOfMemory, B!CopyOverwrites, BootTyped, B!TypeOK
<1>11. CASE B!CliHlt
  BY <1>11 DEF B!CliHlt, BootTyped, B!TypeOK
<1>12. CASE UNCHANGED B!vars
  BY <1>12 DEF B!vars, BootTyped, B!TypeOK
<1> QED BY <1>1, <1>2, <1>3, <1>4, <1>5, <1>6, <1>7, <1>8, <1>9, <1>10, <1>11, <1>12
        DEF B!Next

-----------------------------------------------------------------------------
(***************************************************************************)
(* The pages the heap comes to.                                            *)
(***************************************************************************)

\* Every set of natural numbers that has an element has a least one.
LEMMA LeastElement ==
    ASSUME NEW S \in SUBSET Nat, S # {}
    PROVE  \E m \in S : \A n \in S : m <= n
<1>1. IsWellFoundedOn({ss \in Nat \X Nat : ss[1] < ss[2]}, Nat)
  BY ONLY NatLessThanWellFounded, Zenon DEF OpToRel
<1>2. PICK m \in S : \A n \in S : <<n, m>> \notin {ss \in Nat \X Nat : ss[1] < ss[2]}
  BY <1>1, WFMin
<1>3. \A n \in S : ~(n < m)
  BY <1>2
<1> QED BY <1>3

\* The recursive function in FlattenSeq, for the first k sequences.
IsFlattened(f, ss, k) ==
    f = [n \in 1 .. k |-> IF n = 1 THEN ss[n] ELSE f[n - 1] \o ss[n]]

LEMMA FlattenedExists ==
    ASSUME NEW ss, NEW k \in Nat
    PROVE  \E f : IsFlattened(f, ss, k)
<1> DEFINE S == {m \in Nat : \A f : ~IsFlattened(f, ss, m)}
<1>1. S \subseteq Nat /\ \A m \in Nat : m \notin S => \E f : IsFlattened(f, ss, m)
  OBVIOUS
<1>2. \A m \in S : \A f : ~IsFlattened(f, ss, m)
  OBVIOUS
<1> HIDE DEF S
<1>3. ASSUME S # {}
      PROVE  FALSE
  <2>1. PICK m \in S : \A n \in S : m <= n
    BY <1>1, <1>3, LeastElement
  <2>2. m \in Nat
    BY <1>1
  <2>3. CASE m = 0
    <3>1. IsFlattened([n \in 1 .. 0 |-> ss[n]], ss, 0)
      BY DEF IsFlattened
    <3> QED BY <1>2, <2>3, <3>1
  <2>4. CASE m # 0
    <3>1. m - 1 \in Nat /\ m - 1 \notin S
      BY <2>1, <2>2, <2>4
    <3>2. PICK f : IsFlattened(f, ss, m - 1)
      BY <1>1, <3>1
    <3> DEFINE g == [n \in 1 .. m |-> IF n = m
                                      THEN IF m = 1 THEN ss[1] ELSE f[m - 1] \o ss[m]
                                      ELSE f[n]]
    <3>3. \A n \in 1 .. (m - 1) :
             f[n] = IF n = 1 THEN ss[n] ELSE f[n - 1] \o ss[n]
      BY <3>1, <3>2 DEF IsFlattened
    <3>4. \A n \in 1 .. m : g[n] = IF n = 1 THEN ss[n] ELSE g[n - 1] \o ss[n]
      BY <2>2, <2>4, <3>3
    <3>5. IsFlattened(g, ss, m)
      BY <3>4 DEF IsFlattened
    <3> QED BY <1>2, <3>5
  <2> QED BY <2>3, <2>4
<1> QED BY <1>1, <1>3

\* Flattening keeps what the sequences are made of.
LEMMA FlattenKeepsElements ==
    ASSUME NEW S, NEW ss \in Seq(Seq(S))
    PROVE  FlattenSeq(ss) \in Seq(S)
<1>1. CASE Len(ss) = 0
  <2>1. ss = << >>
    BY <1>1
  <2>2. FlattenSeq(ss) = ss
    BY <1>1 DEF FlattenSeq
  <2>3. << >> \in Seq(S)
    OBVIOUS
  <2> QED BY <2>1, <2>2, <2>3, Zenon
<1>2. CASE Len(ss) # 0
  <2> DEFINE flatten[n \in 1 .. Len(ss)] ==
                 IF n = 1 THEN ss[n] ELSE flatten[n - 1] \o ss[n]
  <2>1. Len(ss) \in Nat \ {0} /\ \A n \in 1 .. Len(ss) : ss[n] \in Seq(S)
    BY <1>2
  <2>2. FlattenSeq(ss) = flatten[Len(ss)]
    BY <1>2, Zenon DEF FlattenSeq
  <2>3. flatten = [n \in 1 .. Len(ss) |->
                      IF n = 1 THEN ss[n] ELSE flatten[n - 1] \o ss[n]]
    <3>1. \E f : IsFlattened(f, ss, Len(ss))
      BY <2>1, FlattenedExists
    <3> QED BY <3>1, Zenon DEF IsFlattened
  <2> HIDE DEF flatten
  <2> DEFINE Off == {n \in 1 .. Len(ss) : flatten[n] \notin Seq(S)}
  <2>4. ASSUME Off # {}
        PROVE  FALSE
    <3>1. PICK m \in Off : \A n \in Off : m <= n
      <4>1. Off \in SUBSET Nat
        BY <2>1
      <4> HIDE DEF Off
      <4> QED BY <2>4, <4>1, LeastElement
    <3>2. m \in 1 .. Len(ss) /\ flatten[m] \notin Seq(S) /\ ss[m] \in Seq(S)
      BY <2>1
    <3>3. CASE m = 1
      BY <2>3, <3>2, <3>3
    <3>4. CASE m # 1
      <4>1. m - 1 \in 1 .. Len(ss) /\ m - 1 \notin Off
        BY <2>1, <3>1, <3>2, <3>4
      <4>2. flatten[m - 1] \in Seq(S)
        BY <4>1
      <4>3. flatten[m] = flatten[m - 1] \o ss[m]
        BY <2>3, <3>2, <3>4
      <4> QED BY <3>2, <4>2, <4>3
    <3> QED BY <3>3, <3>4
  <2>5. Len(ss) \notin Off
    BY <2>4
  <2> QED BY <2>1, <2>2, <2>5
<1> QED BY <1>1, <1>2

\* Where the heap writes is in an entry that was handed to it.
LEMMA HeapPagesHanded ==
    ASSUME NEW S, handed \in Seq(Entry),
           \A k \in 1 .. Len(handed) :
               \A j \in 1 .. handed[k].length : handed[k].base + j - 1 \in S
    PROVE  HeapPages \in Seq(S)
<1> DEFINE L == Len(handed)
           e(k) == handed[L + 1 - k]
           pagesOf(k) == [j \in 1 .. e(k).length |-> e(k).base + j - 1]
<1>1. L \in Nat
  OBVIOUS
<1>2. ASSUME NEW k \in 1 .. L
      PROVE  pagesOf(k) \in Seq(S)
  <2>1. L + 1 - k \in 1 .. L
    BY <1>1
  <2>2. e(k) \in Entry
    BY <2>1
  <2>3. e(k).length \in Nat
    BY <2>2 DEF Entry
  <2>4. \A j \in 1 .. e(k).length : e(k).base + j - 1 \in S
    BY <2>1
  <2>5. PICK n, b : n = e(k).length /\ b = e(k).base
    OBVIOUS
  <2>6. [j \in 1 .. n |-> b + j - 1] \in [1 .. n -> S]
    BY <2>4, <2>5
  <2>7. [j \in 1 .. n |-> b + j - 1] \in Seq(S)
    <3>1. n \in Nat
      BY <2>3, <2>5
    <3> HIDE DEF e, pagesOf
    <3> QED BY <2>6, <3>1, SeqDef, Zenon
  <2> QED BY <2>5, <2>7
<1>3. [k \in 1 .. L |-> pagesOf(k)] \in Seq(Seq(S))
  BY <1>1, <1>2
<1>4. FlattenSeq([k \in 1 .. L |-> pagesOf(k)]) \in Seq(S)
  BY <1>3, FlattenKeepsElements
<1> QED BY <1>4, Zenon DEF HeapPages

-----------------------------------------------------------------------------
(***************************************************************************)
(* Types.                                                                  *)
(***************************************************************************)

TableEntry == [frame : Nat, bits : SUBSET {"P", "PS"}]
Frames == P!BootTables \cup P!Arrays

PagesTyped ==
    /\ tables \in [Frames -> [Indices -> TableEntry]]
    /\ cr3 \in Nat
    /\ paging \in {"off", "check", "directory", "pointers", "pml4", "load", "on",
                   "panic"}
    /\ written \subseteq Nat

StartupTyped ==
    /\ BootTyped /\ PagesTyped
    /\ interrupt_flag \in BOOLEAN
    /\ stage \in {"bios", "protected", "cpu", "gdt", "paging", "memory",
                  "halted", "panic", "fault", "wild", "reset"}

LEMMA EntriesTyped ==
    /\ P!Absent \in TableEntry /\ P!LargePage \in TableEntry
    /\ \A f \in Nat : P!Entry(f, {"P"}) \in TableEntry
    /\ \A e \in TableEntry : P!FirstOnly(e) \in [Indices -> TableEntry]
    /\ \A n \in Indices : P!BlankEntry(n) \in TableEntry
    /\ \A n \in Indices : P!PointerEntry(n) \in TableEntry
    /\ \A n \in Indices : P!Pml4Entry(n) \in TableEntry
<1>1. P!Absent \in TableEntry /\ P!LargePage \in TableEntry
  BY DEF P!Absent, P!LargePage, P!Entry, TableEntry
<1>2. \A f \in Nat : P!Entry(f, {"P"}) \in TableEntry
  BY DEF P!Entry, TableEntry
<1>3. \A e \in TableEntry : P!FirstOnly(e) \in [Indices -> TableEntry]
  BY <1>1 DEF P!FirstOnly
<1>4. ASSUME NEW n \in Indices
      PROVE  /\ P!BlankEntry(n) \in TableEntry
             /\ P!PointerEntry(n) \in TableEntry
             /\ P!Pml4Entry(n) \in TableEntry
  <2>1. n \in Nat
    BY IndicesAssumption
  <2>2. n * P!GiB + 256 \in Nat
    BY <2>1 DEF P!GiB
  <2>3. n - (n % 2) + 1 \in Nat
    BY <2>1
  <2>4. n - (n % 2) + 1 + 256 \in Nat
    BY <2>3
  <2> QED BY <1>2, <2>2, <2>3, <2>4 DEF P!BlankEntry, P!PointerEntry, P!Pml4Entry
<1> QED BY <1>1, <1>2, <1>3, <1>4

\* What the walk of the CPU comes to.
LEMMA AtTyped ==
    ASSUME PagesTyped, NEW f, NEW n, NEW w
    PROVE  P!At(f, n, w) \in TableEntry
<1>1. CASE f \in DOMAIN tables \ w /\ n \in Indices
  BY <1>1 DEF PagesTyped, P!At
<1>2. CASE ~(f \in DOMAIN tables \ w /\ n \in Indices)
  BY <1>2, EntriesTyped DEF P!At
<1> QED BY <1>1, <1>2

\* What the CPU makes of the entries of the four levels.
Found(v, e4, e3, e2, e1) ==
    IF "P" \notin e4.bits \cap e3.bits \/ "PS" \in e4.bits THEN P!Fault
    ELSE IF "PS" \in e3.bits
         THEN IF "GBPAGES" \in features THEN e3.frame + (v % P!GiB) ELSE P!Fault
    ELSE IF "P" \notin e2.bits THEN P!Fault
    ELSE IF "PS" \in e2.bits THEN e2.frame + (v % 512)
    ELSE IF "P" \notin e1.bits THEN P!Fault ELSE e1.frame

LEMMA ReachTyped ==
    ASSUME PagesTyped, NEW v \in Nat
    PROVE  P!Reach(v) \subseteq Nat
<1>1. ASSUME NEW w
      PROVE  P!Walk(v, w) \in Nat \cup {P!Fault}
  <2>1. PICK e4 \in TableEntry, e3 \in TableEntry, e2 \in TableEntry, e1 \in TableEntry :
          P!Walk(v, w) = Found(v, e4, e3, e2, e1)
    <3> DEFINE e4 == P!At(cr3, P!Index(v, 3), w)
               e3 == P!At(e4.frame, P!Index(v, 2), w)
               e2 == P!At(e3.frame, P!Index(v, 1), w)
               e1 == P!At(e2.frame, P!Index(v, 0), w)
    <3>1. /\ e4 \in TableEntry /\ e3 \in TableEntry
          /\ e2 \in TableEntry /\ e1 \in TableEntry
      BY AtTyped
    <3>2. P!Walk(v, w) = Found(v, e4, e3, e2, e1)
      BY DEF P!Walk, Found
    <3> HIDE DEF e4, e3, e2, e1
    <3> QED BY <3>1, <3>2
  <2>2. /\ e3.frame \in Nat /\ e2.frame \in Nat /\ e1.frame \in Nat
        /\ v % P!GiB \in Nat /\ v % 512 \in Nat
    BY DEF TableEntry, P!GiB
  <2>3. e3.frame + (v % P!GiB) \in Nat /\ e2.frame + (v % 512) \in Nat
    BY <2>2
  <2> QED BY <2>1, <2>2, <2>3 DEF Found
<1> QED BY <1>1 DEF P!Reach

LEMMA PagesInitTyped == P!Init => PagesTyped
<1> SUFFICES ASSUME P!Init PROVE PagesTyped
  OBVIOUS
<1> QED BY EntriesTyped DEF P!Init, PagesTyped, Frames

LEMMA PagesNextTyped ==
    ASSUME BootTyped, PagesTyped, [Next]_vars
    PROVE  PagesTyped'
<1>1. CASE P!SetupPaging64
  <2>1. /\ P!FirstOnly(P!LargePage) \in [Indices -> TableEntry]
        /\ P!FirstOnly(P!Entry(P!BootDirectory, {"P"})) \in [Indices -> TableEntry]
        /\ P!FirstOnly(P!Entry(P!BootPointers, {"P"})) \in [Indices -> TableEntry]
    BY EntriesTyped DEF P!BootDirectory, P!BootPointers
  <2>2. tables' \in [Frames -> [Indices -> TableEntry]]
    BY <1>1, <2>1 DEF P!SetupPaging64, PagesTyped
  <2> QED BY <1>1, <2>2 DEF P!SetupPaging64, PagesTyped, P!BootPml4
<1>2. CASE P!PagingInit
  <2>1. CASE P!CheckRequirements
    BY <2>1 DEF P!CheckRequirements, PagesTyped
  <2>2. CASE P!BlankPageDir \/ P!FillPdp \/ P!FillPml4
    <3>1. /\ [n \in Indices |-> P!BlankEntry(n)] \in [Indices -> TableEntry]
          /\ [n \in Indices |-> P!PointerEntry(n)] \in [Indices -> TableEntry]
          /\ [n \in Indices |-> P!Pml4Entry(n)] \in [Indices -> TableEntry]
      BY EntriesTyped
    <3>2. tables' \in [Frames -> [Indices -> TableEntry]]
      BY <2>2, <3>1 DEF P!BlankPageDir, P!FillPdp, P!FillPml4, PagesTyped
    <3> QED BY <2>2, <3>2 DEF P!BlankPageDir, P!FillPdp, P!FillPml4, PagesTyped
  <2>3. CASE P!LoadPageDir
    <3>1. cr3' \in Nat
      BY <2>3, AtTyped DEF P!LoadPageDir, P!LoadedFrom, TableEntry
    <3> QED BY <2>3, <3>1 DEF P!LoadPageDir, PagesTyped
  <2> QED BY <1>2, <2>1, <2>2, <2>3 DEF P!PagingInit
<1>3. ASSUME NEW S \in SUBSET Nat, P!Write(S)
      PROVE  PagesTyped'
  <2>1. \A v \in S : P!Reach(v) \subseteq Nat
    BY ReachTyped
  <2>2. written' \subseteq Nat
    BY <1>3, <2>1 DEF P!Write, PagesTyped
  <2> QED BY <1>3, <2>2 DEF P!Write, PagesTyped
<1>4. CASE P!Write(HeaderPages) /\ AddBlock
  <2>1. /\ i \in Nat /\ i < Len(usable_map) /\ usable_map \in Seq(Entry)
    BY <1>4, BoundsAssumption DEF AddBlock, B!AddBlock, BootTyped, B!TypeOK
  <2>2. \A k \in 1 .. Len(usable_map) : usable_map[k].base \in Nat
    BY <2>1, EntryFields
  <2>3. HeaderPages \subseteq Nat
    BY <2>1, <2>2 DEF HeaderPages
  <2> QED BY <1>3, <1>4, <2>3
<1>5. CASE P!Write({HeapPages[i + 1]}) /\ HeapTest
  <2>1. i \in Nat /\ i < Len(HeapPages) /\ handed \in Seq(Entry)
    BY <1>5, BoundsAssumption DEF HeapTest, BootTyped, B!TypeOK
  <2>2. \A k \in 1 .. Len(handed) :
           handed[k].base \in Nat /\ handed[k].length \in Nat
    BY <2>1, EntryFields
  <2>3. \A k \in 1 .. Len(handed) :
           \A j \in 1 .. handed[k].length : handed[k].base + j - 1 \in Nat
    BY <2>2
  <2>4. HeapPages \in Seq(Nat)
    BY <2>1, <2>3, HeapPagesHanded
  <2>5. HeapPages[i + 1] \in Nat
    BY <2>1, <2>4
  <2> QED BY <1>3, <1>5, <2>5
<1>6. CASE UNCHANGED pages
  BY <1>6 DEF pages, PagesTyped
<1> QED BY <1>1, <1>2, <1>4, <1>5, <1>6, StepIsPaging

LEMMA TypedInit == Init => StartupTyped
  BY BootInitTyped, PagesInitTyped DEF Init, StartupTyped

LEMMA TypedNext == StartupTyped /\ [Next]_vars => StartupTyped'
<1> SUFFICES ASSUME StartupTyped, [Next]_vars PROVE StartupTyped'
  OBVIOUS
<1>1. BootTyped' /\ PagesTyped'
  BY StepIsBoot, BootNextTyped, PagesNextTyped DEF StartupTyped
<1>2. interrupt_flag' = interrupt_flag
  BY DEF Next, E820, EnterProtectedMode, CpuTooOld, EnterLongMode, GdtInit,
         PagingInit, ReadMap, AddBlock, HeapTest, OutOfMemory, CliHlt, PageFault,
         TripleFault, RunWild, EarlyInterrupt, vars
<1>3. stage' \in {"bios", "protected", "cpu", "gdt", "paging", "memory",
                  "halted", "panic", "fault", "wild", "reset"}
  BY DEF Next, E820, EnterProtectedMode, CpuTooOld, EnterLongMode, GdtInit,
         PagingInit, ReadMap, AddBlock, HeapTest, OutOfMemory, CliHlt, PageFault,
         TripleFault, RunWild, EarlyInterrupt, vars, StartupTyped
<1> QED BY <1>1, <1>2, <1>3 DEF StartupTyped

\* The variables of the way to the heap keep their types: no copy of the map is
\* longer than the array it goes to, no index is behind its end, and no entry of
\* a table or address of the heap is out of range.
THEOREM StartupTypeCorrect == Spec => []TypeOK
<1>1. StartupTyped => TypeOK
  <2>1. PagesTyped => P!TypeOK
    BY DEF PagesTyped, P!TypeOK, Frames
  <2> QED BY <2>1 DEF StartupTyped, TypeOK, BootTyped
<1> QED BY <1>1, TypedInit, TypedNext, PTL DEF Spec

-----------------------------------------------------------------------------
(***************************************************************************)
(* What the tables map.                                                    *)
(***************************************************************************)

\* The tables of the boot code stay as they are, until the heap writes to them,
\* and load_page_dir makes the second of them the first.
PagingInv ==
    /\ paging = "off" => cr3 = 0
    /\ paging # "off" =>
           /\ tables[P!BootDirectory] = P!FirstOnly(P!LargePage)
           /\ tables[P!BootPointers] = P!FirstOnly(P!Entry(P!BootDirectory, {"P"}))
           /\ tables[P!BootPml4] = P!FirstOnly(P!Entry(P!BootPointers, {"P"}))
    /\ paging \notin {"off", "on"} => cr3 = P!BootPml4
    /\ paging = "on" => cr3 = P!BootPointers
    /\ paging = "load" => tables[pml4] = [n \in Indices |-> P!Pml4Entry(n)]
    /\ paging # "on" => written = {}
    /\ stage = "memory" => paging = "on"

LEMMA PagingStart == Init => PagingInv
<1> SUFFICES ASSUME Init PROVE PagingInv
  OBVIOUS
<1> QED BY DEF Init, P!Init, PagingInv

LEMMA PagingNext ==
    ASSUME StartupTyped, PagingInv, [Next]_vars
    PROVE  PagingInv'
<1>0. /\ tables \in [Frames -> [Indices -> TableEntry]]
      /\ {P!BootDirectory, P!BootPointers, P!BootPml4, page_directory,
          page_directory_ptr, pml4} \subseteq Frames
  BY DEF StartupTyped, PagesTyped, Frames, P!BootTables, P!Arrays
<1>1. CASE P!SetupPaging64 /\ EnterLongMode
  <2>1. /\ tables'[P!BootDirectory] = P!FirstOnly(P!LargePage)
        /\ tables'[P!BootPointers] = P!FirstOnly(P!Entry(P!BootDirectory, {"P"}))
        /\ tables'[P!BootPml4] = P!FirstOnly(P!Entry(P!BootPointers, {"P"}))
    <3>1. /\ P!BootDirectory # P!BootPointers /\ P!BootDirectory # P!BootPml4
          /\ P!BootPointers # P!BootPml4
      BY DEF P!BootDirectory, P!BootPointers, P!BootPml4
    <3> QED BY <1>0, <1>1, <3>1 DEF P!SetupPaging64
  <2>2. paging' = "check" /\ cr3' = P!BootPml4 /\ written' = {} /\ stage' = "gdt"
    BY <1>1 DEF P!SetupPaging64, EnterLongMode, PagingInv
  <2> QED BY <2>1, <2>2 DEF PagingInv
<1>2. CASE stage = "paging" /\ P!PagingInit /\ PagingInit
  <2>1. stage' = "memory" => paging' = "on"
    BY <1>2 DEF PagingInit
  <2>2. CASE P!CheckRequirements
    BY <2>1, <2>2 DEF P!CheckRequirements, PagingInv
  <2>3. CASE P!BlankPageDir \/ P!FillPdp \/ P!FillPml4
    <3>1. {page_directory, page_directory_ptr, pml4}
              \cap {P!BootDirectory, P!BootPointers, P!BootPml4} = {}
      BY ArraysAssumption DEF P!BootDirectory, P!BootPointers, P!BootPml4
    <3>2. /\ tables'[P!BootDirectory] = tables[P!BootDirectory]
          /\ tables'[P!BootPointers] = tables[P!BootPointers]
          /\ tables'[P!BootPml4] = tables[P!BootPml4]
      BY <1>0, <2>3, <3>1 DEF P!BlankPageDir, P!FillPdp, P!FillPml4
    <3>3. paging' = "load" => tables'[pml4] = [n \in Indices |-> P!Pml4Entry(n)]
      BY <1>0, <2>3 DEF P!BlankPageDir, P!FillPdp, P!FillPml4
    <3>4. /\ paging \in {"directory", "pointers", "pml4"}
          /\ paging' \in {"pointers", "pml4", "load"}
          /\ cr3' = cr3 /\ written' = written
      BY <2>3 DEF P!BlankPageDir, P!FillPdp, P!FillPml4
    <3> QED BY <2>1, <3>2, <3>3, <3>4 DEF PagingInv
  <2>4. CASE P!LoadPageDir
    <3>1. P!At(pml4, 0, {}) = P!Pml4Entry(0)
      BY <1>0, <2>4, IndicesAssumption DEF P!At, P!LoadPageDir, PagingInv
    <3>2. P!Pml4Entry(0).frame = P!BootPointers
      BY DEF P!Pml4Entry, P!Entry, P!BootPointers
    <3>3. cr3' = P!BootPointers
      BY <2>4, <3>1, <3>2 DEF P!LoadPageDir, P!LoadedFrom, PagingInv
    <3> QED BY <2>1, <2>4, <3>3 DEF P!LoadPageDir, PagingInv
  <2> QED BY <1>2, <2>2, <2>3, <2>4 DEF P!PagingInit
<1>3. ASSUME NEW S, P!Write(S), stage = "memory", stage' = stage
      PROVE  PagingInv'
  BY <1>3 DEF P!Write, PagingInv
<1>4. CASE stage = "memory" /\ P!Write(HeaderPages) /\ AddBlock
  BY <1>3, <1>4 DEF AddBlock
<1>5. CASE stage = "memory" /\ P!Write({HeapPages[i + 1]}) /\ HeapTest
  BY <1>3, <1>5 DEF HeapTest
<1>6. CASE UNCHANGED pages
  <2>1. stage' = "memory" => stage = "memory" \/ paging' = "on"
    BY <1>6 DEF Next, E820, EnterProtectedMode, CpuTooOld, EnterLongMode, GdtInit,
       PagingInit, ReadMap, AddBlock, HeapTest, OutOfMemory, CliHlt, PageFault,
       TripleFault, RunWild, EarlyInterrupt, vars
  <2> QED BY <1>6, <2>1 DEF pages, PagingInv
<1> QED BY <1>1, <1>2, <1>4, <1>5, <1>6, StepIsPaging

\* The indices the CPU takes from an address of 48 bits.
LEMMA Indexing ==
    ASSUME NEW v \in Nat, v \div 512 ^ 3 < 512
    PROVE  /\ P!Index(v, 3) = 0 /\ P!Index(v, 2) = 0 => v < P!GiB /\ v % P!GiB = v
           /\ P!Index(v, 3) = 0 /\ P!Index(v, 2) = 0 /\ P!Index(v, 1) = 0
                  => v < 512 /\ v % 512 = v
           /\ v < P!GiB => P!Index(v, 3) = 0 /\ P!Index(v, 2) = 0
           /\ v < 512 => P!Index(v, 1) = 0
           /\ \A n \in 1 .. 3 : P!Index(v, n) \in Nat
<1>1. /\ 512 ^ 3 = 134217728 /\ 512 ^ 2 = 262144 /\ 512 ^ 1 = 512
      /\ P!GiB = 262144
  BY DEF P!GiB
<1>2. /\ P!Index(v, 3) = (v \div 134217728) % 512
      /\ P!Index(v, 2) = (v \div 262144) % 512
      /\ P!Index(v, 1) = (v \div 512) % 512
  BY <1>1 DEF P!Index
<1>3. v \div 134217728 < 512
  BY <1>1
<1>4. P!Index(v, 3) = 0 => v < 134217728
  BY <1>2, <1>3
<1>5. P!Index(v, 3) = 0 /\ P!Index(v, 2) = 0 => v < 262144
  <2> SUFFICES ASSUME v < 134217728, (v \div 262144) % 512 = 0
               PROVE  v < 262144
    BY <1>2, <1>4
  <2>1. v \div 262144 < 512
    OBVIOUS
  <2> QED BY <2>1
<1>6. v < 262144 => v % 262144 = v
  OBVIOUS
<1>7. ASSUME v < 262144, P!Index(v, 1) = 0
      PROVE  v < 512 /\ v % 512 = v
  <2>1. v \div 512 < 512
    BY <1>7
  <2>2. v < 512
    BY <1>2, <1>7, <2>1
  <2> QED BY <2>2
<1>8. v < 262144 => P!Index(v, 3) = 0 /\ P!Index(v, 2) = 0
  BY <1>2
<1>9. v < 512 => P!Index(v, 1) = 0
  BY <1>2
<1>10. P!Index(v, 1) \in Nat /\ P!Index(v, 2) \in Nat /\ P!Index(v, 3) \in Nat
  BY <1>2
<1> QED BY <1>1, <1>5, <1>6, <1>7, <1>8, <1>9, <1>10

\* What is at an index of a table of the boot code.
LEMMA AtFirst ==
    ASSUME NEW f, NEW e, NEW n, NEW w, tables[f] = P!FirstOnly(e)
    PROVE  /\ P!At(f, n, w) = P!Absent \/ (n = 0 /\ P!At(f, n, w) = e)
           /\ f \in DOMAIN tables \ w => P!At(f, 0, w) = e
BY IndicesAssumption DEF P!At, P!FirstOnly

\* Whatever the heap has overwritten, a page is where its address says, or not
\* mapped.
LEMMA WalkIsIdentity ==
    ASSUME StartupTyped, PagingInv, NEW v \in Nat, v \div 512 ^ 3 < 512, NEW w
    PROVE  P!Walk(v, w) \in {v, P!Fault}
<1> DEFINE e4 == P!At(cr3, P!Index(v, 3), w)
           e3 == P!At(e4.frame, P!Index(v, 2), w)
           e2 == P!At(e3.frame, P!Index(v, 1), w)
           e1 == P!At(e2.frame, P!Index(v, 0), w)
           directory == P!Entry(P!BootDirectory, {"P"})
           pointers == P!Entry(P!BootPointers, {"P"})
<1>1. P!Walk(v, w) = Found(v, e4, e3, e2, e1)
  BY DEF P!Walk, Found
<1>2. /\ P!Absent.bits = {} /\ P!LargePage.bits = {"P", "PS"}
      /\ P!LargePage.frame = 0
      /\ directory.bits = {"P"} /\ directory.frame = P!BootDirectory
      /\ pointers.bits = {"P"} /\ pointers.frame = P!BootPointers
  BY DEF P!Absent, P!LargePage, P!Entry
<1>3. CASE paging = "off"
  <2>1. 0 \notin DOMAIN tables
    BY ArraysAssumption DEF StartupTyped, PagesTyped, Frames, P!BootTables, P!Arrays,
       P!BootDirectory, P!BootPointers, P!BootPml4
  <2>2. e4 = P!Absent
    BY <1>3, <2>1 DEF P!At, PagingInv
  <2> HIDE DEF e4, e3, e2, e1
  <2> QED BY <1>1, <1>2, <2>2 DEF Found
<1>4. CASE paging = "on"
  <2>1. /\ cr3 = P!BootPointers
        /\ tables[P!BootPointers] = P!FirstOnly(directory)
        /\ tables[P!BootDirectory] = P!FirstOnly(P!LargePage)
    BY <1>4 DEF PagingInv
  <2>2. e4 = P!Absent \/ (P!Index(v, 3) = 0 /\ e4 = directory)
    BY <2>1, AtFirst
  <2>3. e4 = directory => e3 = P!Absent \/ (P!Index(v, 2) = 0 /\ e3 = P!LargePage)
    <3>1. \/ P!At(P!BootDirectory, P!Index(v, 2), w) = P!Absent
          \/ /\ P!Index(v, 2) = 0
             /\ P!At(P!BootDirectory, P!Index(v, 2), w) = P!LargePage
      BY <2>1, AtFirst
    <3> QED BY <1>2, <3>1
  <2> HIDE DEF e4, e3, e2, e1, directory, pointers
  <2>4. CASE e4 = directory /\ e3 = P!LargePage
    <3>1. v % P!GiB = v
      <4>1. P!Index(v, 3) = 0 /\ P!Index(v, 2) = 0
        BY <1>2, <2>2, <2>3, <2>4
      <4> QED BY <4>1, Indexing
    <3>2. 0 + v = v
      OBVIOUS
    <3> QED BY <1>1, <1>2, <2>4, <3>1, <3>2 DEF Found
  <2>5. CASE e4 = P!Absent \/ e3 = P!Absent
    BY <1>1, <1>2, <2>5 DEF Found
  <2> QED BY <2>2, <2>3, <2>4, <2>5
<1>5. CASE paging \notin {"off", "on"}
  <2>1. /\ cr3 = P!BootPml4
        /\ tables[P!BootPml4] = P!FirstOnly(pointers)
        /\ tables[P!BootPointers] = P!FirstOnly(directory)
        /\ tables[P!BootDirectory] = P!FirstOnly(P!LargePage)
    BY <1>5 DEF PagingInv
  <2>2. e4 = P!Absent \/ (P!Index(v, 3) = 0 /\ e4 = pointers)
    BY <2>1, AtFirst
  <2>3. e4 = pointers => e3 = P!Absent \/ (P!Index(v, 2) = 0 /\ e3 = directory)
    <3>1. \/ P!At(P!BootPointers, P!Index(v, 2), w) = P!Absent
          \/ /\ P!Index(v, 2) = 0
             /\ P!At(P!BootPointers, P!Index(v, 2), w) = directory
      BY <2>1, AtFirst
    <3> QED BY <1>2, <3>1
  <2>4. e3 = directory => e2 = P!Absent \/ (P!Index(v, 1) = 0 /\ e2 = P!LargePage)
    <3>1. \/ P!At(P!BootDirectory, P!Index(v, 1), w) = P!Absent
          \/ /\ P!Index(v, 1) = 0
             /\ P!At(P!BootDirectory, P!Index(v, 1), w) = P!LargePage
      BY <2>1, AtFirst
    <3> QED BY <1>2, <3>1
  <2> HIDE DEF e4, e3, e2, e1, directory, pointers
  <2>5. CASE e4 = pointers /\ e3 = directory /\ e2 = P!LargePage
    <3>1. v % 512 = v
      BY <1>2, <2>2, <2>3, <2>4, <2>5, Indexing DEF P!BootDirectory, P!BootPointers
    <3>2. 0 + v = v
      OBVIOUS
    <3> QED BY <1>1, <1>2, <2>5, <3>1, <3>2 DEF Found
  <2>6. CASE e4 = P!Absent \/ e3 = P!Absent \/ (e4 = pointers /\ e3 = directory /\ e2 = P!Absent)
    BY <1>1, <1>2, <2>6 DEF Found
  <2> QED BY <2>2, <2>3, <2>4, <2>5, <2>6
<1> QED BY <1>3, <1>4, <1>5

\* Whatever is mapped is mapped to itself, on every CPU, before and behind
\* paging_init, and whatever the heap does to the tables.
THEOREM StartupMapsIdentity == Spec => []OnlyIdentity
<1>1. StartupTyped /\ PagingInv => OnlyIdentity
  <2> SUFFICES ASSUME StartupTyped, PagingInv, NEW v \in Pages
               PROVE  P!Reach(v) \subseteq {v}
    BY DEF OnlyIdentity, P!OnlyIdentity
  <2>1. v \in Nat /\ v \div 512 ^ 3 < 512
    BY PagesAssumption, WidthAssumption
  <2>2. P!Walk(v, written) \in {v, P!Fault} /\ P!Walk(v, {}) \in {v, P!Fault}
    BY <2>1, WalkIsIdentity
  <2> QED BY <2>2 DEF P!Reach
<1>2. Init => StartupTyped /\ PagingInv
  BY TypedInit, PagingStart
<1>3. StartupTyped /\ PagingInv /\ [Next]_vars => StartupTyped' /\ PagingInv'
  BY TypedNext, PagingNext
<1> QED BY <1>1, <1>2, <1>3, PTL DEF Spec

-----------------------------------------------------------------------------
(***************************************************************************)
(* What reaches the heap.                                                  *)
(***************************************************************************)

\* The entries of s are of the BIOS's map, and usable.
OfBios(s) ==
    \A n \in 1 .. Len(s) :
        \E k \in 1 .. Len(bios) : B!Usable(bios[k]) /\ s[n] = bios[k]

\* Where the BIOS is asked to go on.
Calling ==
    IF Len(map) = 0
    THEN /\ eax = leftover.eax * 65536 + \hE820
         /\ ebx = leftover.ebx * 65536
    ELSE /\ eax = 11 * 65536 + \hE820
         /\ ebx = Len(map) * step

\* What is in memory are entries of the BIOS; what is copied is usable of them,
\* and what is handed on is what was copied.
CopiesInv ==
    /\ \A n \in 1 .. Len(map) : \E k \in 1 .. Len(bios) : map[n] = bios[k]
    /\ B!Zeroed => OfBios(usable_map) /\ OfBios(handed)
    /\ B!Zeroed /\ pc = "filter" => Len(usable_map) <= i
    /\ pc \in {"filter", "sum"} => handed = << >>
    /\ pc = "add" => Len(handed) = i /\ \A n \in 1 .. i : handed[n] = usable_map[n]
    /\ pc = "heap" => handed = usable_map

\* What is counted is what the BIOS has told so far.
ToldInv ==
    B!Survives =>
        /\ Len(map) <= B!Told
        /\ \A n \in 1 .. Len(map) : map[n] = bios[n]
        /\ pc = "e820" => Calling
        /\ pc \in {"out", "filter", "sum", "add", "heap"} => Len(map) = B!Told
        /\ B!Zeroed =>
              /\ pc = "filter" => B!UsableUpTo(usable_map, bios, i)
              /\ pc \in {"sum", "add", "heap"} => B!UsableUpTo(usable_map, bios, B!Told)

\* A map that is too long is not read.
RefusedInv ==
    /\ RefusesTooMany
    /\ pc \in {"filter", "sum", "add", "heap"} =>
          e820_count = Len(map) /\ Len(map) <= MAX_ENTRIES /\ leftover.count = 0

MapInv == CopiesInv /\ ToldInv /\ RefusedInv

LEMMA ToldBounds ==
    ASSUME BootTyped
    PROVE  /\ B!Told \in Nat /\ B!Told <= Len(bios)
           /\ B!Told > 0 => /\ "eax" \in heeds => leftover.eax = 0
                            /\ "ebx" \in heeds => leftover.ebx = 0
           /\ B!Told > 1 => "eax" \notin heeds
           /\ "eax" \notin heeds /\ B!Told > 0 => B!Told = Len(bios)
           /\ /\ Len(bios) > 0
              /\ "eax" \in heeds => leftover.eax = 0
              /\ "ebx" \in heeds => leftover.ebx = 0
              => B!Told > 0
<1>1. Len(bios) \in Nat
  BY MachineTyped DEF BootTyped, B!TypeOK
<1> QED BY <1>1 DEF B!Told

LEMMA Cancel ==
    ASSUME NEW a \in Nat, NEW b \in Nat, NEW s \in Nat \ {0}, a * s = b * s
    PROVE  a = b
<1>1. ASSUME NEW x \in Nat, NEW y \in Nat, x < y
      PROVE  x * s < y * s
  <2>1. PICK d \in Nat \ {0} : y = x + d
    <3>1. y - x \in Nat \ {0} /\ y = x + (y - x)
      BY <1>1
    <3> QED BY <3>1
  <2>2. (x + d) * s = x * s + d * s
    OBVIOUS
  <2>3. d * s >= 1 /\ d * s \in Nat /\ x * s \in Nat
    OBVIOUS
  <2> QED BY <2>1, <2>2, <2>3
<1>2. ~(a < b) /\ ~(b < a)
  <2>1. a * s \in Nat /\ b * s \in Nat
    OBVIOUS
  <2> QED BY <1>1, <2>1
<1> QED BY <1>2

LEMMA NoneUsable == ASSUME NEW m PROVE B!UsableUpTo(<< >>, m, 0)
<1>1. PICK s : s = << >> /\ Len(s) = 0
  OBVIOUS
<1>2. 1 .. Len(s) = {} /\ 1 .. 0 = {}
  BY <1>1
<1>3. PICK at : at \in [1 .. Len(s) -> 1 .. 0]
  <2>1. [j \in {} |-> 0] \in [{} -> {}]
    OBVIOUS
  <2> QED BY <1>2, <2>1, Zenon
<1>4. B!UsableUpTo(s, m, 0)
  BY <1>2, <1>3 DEF B!UsableUpTo
<1> QED BY <1>1, <1>4

LEMMA OneMoreUsable ==
    ASSUME NEW s \in Seq(Entry), NEW m, NEW n \in Nat, B!UsableUpTo(s, m, n),
           m[n + 1] \in Entry
    PROVE  IF B!Usable(m[n + 1]) THEN B!UsableUpTo(Append(s, m[n + 1]), m, n + 1)
                                 ELSE B!UsableUpTo(s, m, n + 1)
<1>1. PICK at \in [1 .. Len(s) -> 1 .. n] :
        /\ \A j, k \in 1 .. Len(s) : j < k => at[j] < at[k]
        /\ \A l \in 1 .. n : B!Usable(m[l]) <=> \E j \in 1 .. Len(s) : at[j] = l
        /\ \A j \in 1 .. Len(s) : s[j] = m[at[j]]
  BY DEF B!UsableUpTo
<1>2. Len(s) \in Nat
  OBVIOUS
<1>3. CASE B!Usable(m[n + 1])
  <2> DEFINE t == Append(s, m[n + 1])
             ext == [j \in 1 .. (Len(s) + 1) |-> IF j = Len(s) + 1 THEN n + 1 ELSE at[j]]
  <2>1. /\ Len(t) = Len(s) + 1
        /\ t[Len(s) + 1] = m[n + 1]
        /\ \A j \in 1 .. Len(s) : t[j] = s[j]
    OBVIOUS
  <2>2. /\ ext \in [1 .. (Len(s) + 1) -> 1 .. (n + 1)]
        /\ ext[Len(s) + 1] = n + 1
        /\ \A j \in 1 .. Len(s) : ext[j] = at[j] /\ ext[j] \in 1 .. n
    <3>1. Len(s) + 1 \in 1 .. (Len(s) + 1) /\ n + 1 \in 1 .. (n + 1)
      BY <1>2
    <3>2. \A j \in 1 .. Len(s) : j \in 1 .. (Len(s) + 1) /\ j # Len(s) + 1
      BY <1>2
    <3>3. \A j \in 1 .. Len(s) : at[j] \in 1 .. n
      OBVIOUS
    <3>4. \A j \in 1 .. (Len(s) + 1) : j # Len(s) + 1 => j \in 1 .. Len(s)
      BY <1>2
    <3>5. 1 .. n \subseteq 1 .. (n + 1)
      OBVIOUS
    <3> QED BY <3>1, <3>2, <3>3, <3>4, <3>5, Zenon
  <2> HIDE DEF t, ext
  <2>3. \A j, k \in 1 .. Len(t) : j < k => ext[j] < ext[k]
    <3>1. ASSUME NEW j \in 1 .. Len(t), NEW k \in 1 .. Len(t), j < k
          PROVE  ext[j] < ext[k]
      <4>1. j \in 1 .. Len(s)
        BY <1>2, <2>1, <3>1
      <4>2. CASE k = Len(s) + 1
        BY <2>2, <4>1, <4>2
      <4>3. CASE k # Len(s) + 1
        <5>1. k \in 1 .. Len(s)
          BY <1>2, <2>1, <4>3
        <5> QED BY <1>1, <2>2, <3>1, <4>1, <5>1
      <4> QED BY <4>2, <4>3
    <3> QED BY <3>1
  <2>4. \A l \in 1 .. (n + 1) : B!Usable(m[l]) <=> \E j \in 1 .. Len(t) : ext[j] = l
    <3>1. ASSUME NEW l \in 1 .. (n + 1), l # n + 1
          PROVE  B!Usable(m[l]) <=> \E j \in 1 .. Len(t) : ext[j] = l
      <4>1. l \in 1 .. n
        BY <3>1
      <4>2. \A j \in 1 .. Len(t) : ext[j] = l => j \in 1 .. Len(s)
        BY <1>2, <2>1, <2>2, <3>1
      <4>3. 1 .. Len(s) \subseteq 1 .. Len(t)
        BY <1>2, <2>1
      <4> QED BY <1>1, <2>2, <4>1, <4>2, <4>3
    <3>2. Len(s) + 1 \in 1 .. Len(t)
      BY <1>2, <2>1
    <3> QED BY <1>3, <2>2, <3>1, <3>2
  <2>5. \A j \in 1 .. Len(t) : t[j] = m[ext[j]]
    <3>1. ASSUME NEW j \in 1 .. Len(t)
          PROVE  t[j] = m[ext[j]]
      <4>1. CASE j = Len(s) + 1
        BY <2>1, <2>2, <4>1
      <4>2. CASE j # Len(s) + 1
        <5>1. j \in 1 .. Len(s)
          BY <1>2, <2>1, <4>2
        <5> QED BY <1>1, <2>1, <2>2, <5>1
      <4> QED BY <4>1, <4>2
    <3> QED BY <3>1
  <2>6. B!UsableUpTo(t, m, n + 1)
    BY <2>1, <2>2, <2>3, <2>4, <2>5 DEF B!UsableUpTo
  <2> QED BY <1>3, <2>6 DEF t
<1>4. CASE ~B!Usable(m[n + 1])
  <2>1. at \in [1 .. Len(s) -> 1 .. (n + 1)]
    BY <1>1
  <2>2. \A l \in 1 .. (n + 1) : B!Usable(m[l]) <=> \E j \in 1 .. Len(s) : at[j] = l
    <3>1. ASSUME NEW l \in 1 .. (n + 1), l # n + 1
          PROVE  l \in 1 .. n
      BY <3>1
    <3>2. \A j \in 1 .. Len(s) : at[j] # n + 1
      BY <1>1
    <3> QED BY <1>1, <1>4, <3>1, <3>2
  <2>3. B!UsableUpTo(s, m, n + 1)
    BY <1>1, <2>1, <2>2 DEF B!UsableUpTo
  <2> QED BY <1>4, <2>3
<1> QED BY <1>3, <1>4

\* What the BIOS hears is what it was asked.
LEMMA HeardHalves ==
    ASSUME BootTyped, Calling, Len(map) \in Nat
    PROVE  /\ Len(map) = 0 =>
                /\ B!Heard("eax", eax) = \hE820 <=> ("eax" \in heeds => leftover.eax = 0)
                /\ B!Heard("ebx", ebx) = 0 <=> ("ebx" \in heeds => leftover.ebx = 0)
                /\ B!Heard("ebx", ebx) % 65536 = 0
           /\ Len(map) # 0 =>
                /\ B!Heard("eax", eax) = \hE820 <=> "eax" \notin heeds
                /\ Len(map) <= Len(bios) => B!Heard("ebx", ebx) = Len(map) * step
<1>0. /\ Len(bios) \in Nat /\ step \in Nat
      /\ leftover.eax \in Nat /\ leftover.ebx \in Nat
      /\ "ebx" \notin heeds => \A k \in 1 .. Len(bios) : k * step < 65536
  BY MachineTyped DEF BootTyped, B!TypeOK
<1>1. /\ (leftover.eax * 65536 + \hE820) % 65536 = \hE820
      /\ leftover.eax * 65536 + \hE820 = \hE820 <=> leftover.eax = 0
      /\ (leftover.ebx * 65536) % 65536 = 0
      /\ leftover.ebx * 65536 = 0 <=> leftover.ebx = 0
      /\ (11 * 65536 + \hE820) % 65536 = \hE820
      /\ 11 * 65536 + \hE820 # \hE820
      /\ 0 % 65536 = 0
  BY <1>0
<1>2. CASE Len(map) = 0
  BY <1>1, <1>2 DEF B!Heard, Calling
<1>3. CASE Len(map) # 0
  <2>1. B!Heard("eax", eax) = \hE820 <=> "eax" \notin heeds
    BY <1>1, <1>3 DEF B!Heard, Calling
  <2>2. ASSUME Len(map) <= Len(bios)
        PROVE  B!Heard("ebx", ebx) = Len(map) * step
    <3>1. ebx = Len(map) * step /\ ebx \in Nat
      BY <1>3 DEF Calling, BootTyped, B!TypeOK
    <3>2. CASE "ebx" \in heeds
      BY <3>1, <3>2 DEF B!Heard
    <3>3. CASE "ebx" \notin heeds
      <4>1. Len(map) \in 1 .. Len(bios)
        BY <1>0, <1>3, <2>2
      <4>2. ebx < 65536
        BY <1>0, <3>1, <3>3, <4>1
      <4>3. ebx % 65536 = ebx
        BY <3>1, <4>2
      <4> QED BY <3>1, <3>3, <4>3 DEF B!Heard
    <3> QED BY <3>2, <3>3
  <2> QED BY <1>3, <2>1, <2>2
<1> QED BY <1>2, <1>3

\* The BIOS is asked for the next entry, as long as it tells one.
LEMMA AskedNext ==
    ASSUME BootTyped, MapInv, B!Survives, pc = "e820"
    PROVE  /\ \A k \in 1 .. Len(bios) : B!Asked(k) => k = Len(map) + 1 /\ k <= B!Told
           /\ Len(map) < B!Told => B!Asked(Len(map) + 1)
<1>0. /\ Len(bios) \in Nat /\ step \in Nat \ {0}
      /\ Len(map) \in Nat /\ Len(map) <= B!Told /\ Calling
  BY MachineTyped DEF BootTyped, B!TypeOK, MapInv, ToldInv
<1>1. \A k \in 1 .. Len(bios) : (k * step) % 65536 \in 1 .. 255
  BY DEF B!Survives
<1>2. ASSUME NEW k \in 1 .. Len(bios), B!Asked(k)
      PROVE  k = Len(map) + 1 /\ k <= B!Told
  <2>1. /\ B!Heard("eax", eax) = \hE820
        /\ B!Heard("ebx", ebx) = (k - 1) * step
    BY <1>2 DEF B!Asked
  <2>2. CASE Len(map) = 0
    <3>1. k = 1
      <4>1. ASSUME k # 1
            PROVE  FALSE
        <5>1. PICK d \in 1 .. Len(bios) : d = k - 1
          <6>1. k - 1 \in 1 .. Len(bios)
            BY <1>0, <4>1
          <6> QED BY <6>1
        <5>2. (d * step) % 65536 \in 1 .. 255
          BY <1>1
        <5>3. B!Heard("ebx", ebx) = d * step
          BY <2>1, <5>1
        <5> QED BY <1>0, <2>2, <5>2, <5>3, HeardHalves
      <4> QED BY <4>1
    <3>2. (k - 1) * step = 0
      BY <1>0, <3>1
    <3>3. /\ "eax" \in heeds => leftover.eax = 0
          /\ "ebx" \in heeds => leftover.ebx = 0
      BY <1>0, <2>1, <2>2, <3>2, HeardHalves
    <3> QED BY <1>0, <2>2, <3>1, <3>3, ToldBounds
  <2>3. CASE Len(map) # 0
    <3>1. "eax" \notin heeds /\ B!Told = Len(bios)
      BY <1>0, <2>1, <2>3, HeardHalves, ToldBounds
    <3>2. (k - 1) * step = Len(map) * step
      BY <1>0, <2>1, <2>3, <3>1, HeardHalves
    <3>3. k - 1 \in Nat
      BY <1>0
    <3>4. k - 1 = Len(map)
      BY ONLY <1>0, <3>2, <3>3, Cancel, Zenon
    <3> QED BY <1>0, <3>1, <3>4
  <2> QED BY <2>2, <2>3
<1>3. ASSUME Len(map) < B!Told
      PROVE  B!Asked(Len(map) + 1)
  <2>1. Len(map) + 1 \in 1 .. Len(bios) /\ (Len(map) + 1) - 1 = Len(map)
    BY <1>0, <1>3, ToldBounds
  <2>2. CASE Len(map) = 0
    <3>1. /\ B!Heard("eax", eax) = \hE820
          /\ B!Heard("ebx", ebx) = 0
      BY <1>0, <1>3, <2>2, HeardHalves, ToldBounds
    <3>2. Len(map) * step = 0
      BY <1>0, <2>2
    <3> QED BY <2>1, <3>1, <3>2 DEF B!Asked
  <2>3. CASE Len(map) # 0
    <3>1. "eax" \notin heeds /\ Len(map) <= Len(bios)
      BY <1>0, <1>3, <2>3, ToldBounds
    <3>2. /\ B!Heard("eax", eax) = \hE820
          /\ B!Heard("ebx", ebx) = Len(map) * step
      BY <1>0, <2>3, <3>1, HeardHalves
    <3> QED BY <2>1, <3>2 DEF B!Asked
  <2> QED BY <2>2, <2>3
<1> QED BY <1>2, <1>3

LEMMA MapStart == Init => MapInv
<1> SUFFICES ASSUME Init PROVE MapInv
  OBVIOUS
<1>1. B!Init /\ BootTyped
  BY BootInitTyped DEF Init
<1>2. << >> \in Seq(Entry) /\ Len(<< >>) = 0
  OBVIOUS
<1>3. map = << >> /\ handed = << >> /\ usable_map = leftover.map /\ pc = "e820"
  BY <1>1 DEF B!Init
<1>4. Calling
  <2>1. /\ eax = B!MovLow(leftover.eax * 65536, \hE820)
        /\ ebx = B!MovLow(leftover.ebx * 65536, 0)
    BY <1>1 DEF B!Init
  <2>2. leftover.eax \in Nat /\ leftover.ebx \in Nat
    BY <1>1, MachineTyped DEF BootTyped, B!TypeOK
  <2>3. eax = leftover.eax * 65536 + \hE820 /\ ebx = leftover.ebx * 65536 + 0
    BY <2>1, <2>2, LowHalf16
  <2> QED BY <1>2, <1>3, <2>2, <2>3 DEF Calling
<1>5. CopiesInv
  BY <1>2, <1>3 DEF CopiesInv, OfBios, B!Zeroed
<1>6. ToldInv
  BY <1>1, <1>2, <1>3, <1>4, ToldBounds DEF ToldInv
<1>7. RefusedInv
  BY <1>2, <1>3 DEF RefusedInv, RefusesTooMany, B!RefusesTooMany
<1> QED BY <1>5, <1>6, <1>7 DEF MapInv

\* The loop of e820_setup.
LEMMA EntryKeepsMap ==
    ASSUME BootTyped, MapInv, NEW k \in 1 .. Len(bios), B!E820Entry(k)
    PROVE  MapInv'
<1> USE DEF B!machine, B!loader, B!kernel
<1>0. /\ Len(bios) \in Nat /\ step \in Nat
      /\ map \in Seq(Entry) /\ Len(map) \in Nat
      /\ pc = "e820" /\ usable_map = leftover.map /\ handed = << >>
  BY MachineTyped DEF BootTyped, B!TypeOK, B!E820Entry
<1>1. /\ map' = Append(map, bios[k]) /\ pc' \in {"e820", "out"}
      /\ UNCHANGED <<B!machine, B!kernel>>
  BY DEF B!E820Entry
<1>2. /\ Len(map') = Len(map) + 1
      /\ map'[Len(map) + 1] = bios[k]
      /\ \A n \in 1 .. Len(map) : map'[n] = map[n]
      /\ \A n \in 1 .. Len(map') : n = Len(map) + 1 \/ n \in 1 .. Len(map)
  BY <1>0, <1>1
<1>3. CopiesInv'
  <2>1. \A n \in 1 .. Len(map') : \E j \in 1 .. Len(bios) : map'[n] = bios[j]
    BY <1>2 DEF MapInv, CopiesInv
  <2> QED BY <1>1, <2>1 DEF MapInv, CopiesInv, OfBios, B!Zeroed, B!Usable
<1>4. RefusedInv'
  BY <1>0, <1>1 DEF RefusedInv, RefusesTooMany, B!RefusesTooMany
<1>5. B!Told' = B!Told /\ (B!Survives' <=> B!Survives)
  BY <1>1 DEF B!Told, B!Survives
<1>6. ASSUME B!Survives
      PROVE  /\ Len(map') <= B!Told
             /\ \A n \in 1 .. Len(map') : map'[n] = bios[n]
             /\ pc' = "e820" => Calling'
             /\ pc' = "out" => Len(map') = B!Told
  <2>1. k = Len(map) + 1 /\ k <= B!Told
    BY <1>0, <1>6, AskedNext DEF B!E820Entry
  <2>2. \A n \in 1 .. Len(map') : map'[n] = bios[n]
    BY <1>2, <1>6, <2>1 DEF MapInv, ToldInv
  <2>3. PICK n \in {0, k * step} :
           /\ n = 0 => k = Len(bios)
           /\ IF B!Last16(n) THEN pc' = "out" /\ ebx' = n /\ eax' = eax
              ELSE /\ pc' = "e820" /\ ebx' = B!PrintChar(n)
                   /\ eax' = B!MovLow(B!PrintedEax, \hE820)
    BY DEF B!E820Entry
  <2>4. CASE n = 0
    <3>1. B!Last16(0)
      BY DEF B!Last16
    <3>2. k = Len(bios) /\ pc' = "out"
      BY <2>3, <2>4, <3>1
    <3> QED BY <1>0, <1>2, <2>1, <2>2, <3>2, ToldBounds
  <2>5. CASE n = k * step
    <3>1. n \in Nat /\ n % 65536 \in 1 .. 255
      BY <1>0, <1>6, <2>5 DEF B!Survives
    <3>2. ~B!Last16(n) /\ B!PrintChar(n) = n
      <4>1. n % 65536 # 0
        BY <3>1
      <4>2. n % 256 = n % 65536
        BY <3>1
      <4> QED BY <3>1, <4>1, <4>2 DEF B!Last16, B!PrintChar
    <3>3. B!MovLow(B!PrintedEax, \hE820) = 11 * 65536 + \hE820
      BY DEF B!MovLow, B!PrintedEax
    <3>4. Calling'
      BY <1>0, <1>1, <1>2, <2>1, <2>3, <2>5, <3>2, <3>3 DEF Calling
    <3> QED BY <1>2, <2>1, <2>2, <2>3, <3>2, <3>4
  <2> QED BY <2>3, <2>4, <2>5
<1>7. ToldInv'
  BY <1>1, <1>5, <1>6 DEF ToldInv
<1> QED BY <1>3, <1>4, <1>7 DEF MapInv

\* kmalloc_init gets what was copied, in the order in which it was.
LEMMA MapNext ==
    ASSUME BootTyped, MapInv, [B!Next]_(B!vars)
    PROVE  MapInv'
<1> USE DEF B!machine, B!loader, B!kernel
<1>0. /\ bios \in Seq(Entry) /\ Len(bios) \in Nat
      /\ leftover.count \in Nat
      /\ {map, usable_map, handed} \subseteq Seq(Entry)
      /\ MAX_ENTRIES \in Nat /\ MAX_ENTRIES < 65536
      /\ i \in Nat /\ si = Len(map)
      /\ Len(map) \in Nat /\ Len(usable_map) \in Nat
  <2>1. B!TypeOK /\ {map, usable_map, handed} \subseteq Seq(Entry)
    BY DEF BootTyped
  <2>2. B!Machine \in Machines /\ i \in Nat /\ si = Len(map)
    BY <2>1 DEF B!TypeOK
  <2>3. bios \in Seq(Entry) /\ Len(bios) \in Nat /\ leftover.count \in Nat
    BY <2>2, MachineTyped
  <2> QED BY <2>1, <2>2, <2>3, BoundsAssumption
<1> DEFINE ToldKept == /\ B!Told' = B!Told /\ (B!Survives' <=> B!Survives)
                       /\ (B!Zeroed' <=> B!Zeroed)
<1>1. ASSUME UNCHANGED B!machine
      PROVE  ToldKept
  <2>1. /\ bios' = bios /\ step' = step /\ heeds' = heeds
        /\ leftover' = leftover
    BY <1>1
  <2>2. B!Told' = B!Told
    BY <2>1 DEF B!Told
  <2>3. B!Survives' <=> B!Survives
    BY <2>1 DEF B!Survives
  <2>4. B!Zeroed' <=> B!Zeroed
    BY <2>1 DEF B!Zeroed
  <2> QED BY <2>2, <2>3, <2>4
<1> HIDE DEF ToldKept
<1>2. ASSUME NEW k \in 1 .. Len(bios), B!E820Entry(k)
      PROVE  MapInv'
  BY <1>2, EntryKeepsMap
<1>3. ASSUME UNCHANGED <<B!machine, B!loader, B!kernel>>,
             pc' \in {"panic", "halted", "wild"}
      PROVE  MapInv'
  <2>1. ToldKept
    BY <1>1, <1>3
  <2>2. CopiesInv'
    BY <1>3 DEF MapInv, CopiesInv, OfBios, B!Zeroed, B!Usable
  <2>3. ToldInv'
    BY <1>3, <2>1 DEF MapInv, ToldInv, ToldKept
  <2>4. RefusedInv'
    BY <1>3 DEF MapInv, RefusedInv, RefusesTooMany, B!RefusesTooMany
  <2> QED BY <2>2, <2>3, <2>4 DEF MapInv
<1>4. ASSUME NEW k \in 1 .. Len(bios), B!E820Overwrites(k)
      PROVE  MapInv'
  BY <1>3, <1>4 DEF B!E820Overwrites
<1>5. CASE B!E820Error \/ B!OutOfMemory \/ B!CliHlt \/ B!CopyOverwrites
  BY <1>3, <1>5 DEF B!E820Error, B!OutOfMemory, B!CliHlt, B!CopyOverwrites
<1>6. CASE B!E820Carry
  <2>1. /\ pc = "e820" /\ pc' = "out"
        /\ UNCHANGED <<B!machine, B!loader, B!kernel>>
    BY <1>6 DEF B!E820Carry
  <2>2. ToldKept
    BY <1>1, <2>1
  <2>3. ASSUME B!Survives
        PROVE  Len(map) = B!Told
    <3>1. ASSUME Len(map) < B!Told
          PROVE  FALSE
      <4>1. B!Asked(Len(map) + 1)
        BY <2>1, <2>3, <3>1, AskedNext
      <4>2. Len(map) + 1 \in 1 .. Len(bios)
        BY <4>1 DEF B!Asked
      <4> QED BY <1>6, <4>1, <4>2 DEF B!E820Carry
    <3> QED BY <1>0, <2>3, <3>1, ToldBounds DEF MapInv, ToldInv
  <2>4. CopiesInv'
    BY <2>1 DEF MapInv, CopiesInv, OfBios, B!Zeroed, B!Usable
  <2>5. ToldInv'
    BY <2>1, <2>2, <2>3 DEF MapInv, ToldInv, ToldKept
  <2>6. RefusedInv'
    BY <2>1 DEF MapInv, RefusedInv, RefusesTooMany, B!RefusesTooMany
  <2> QED BY <2>4, <2>5, <2>6 DEF MapInv
<1>7. CASE B!GetMemMap
  <2>1. CASE B!TooMany(B!Count)
    BY <1>3, <1>7, <2>1 DEF B!GetMemMap
  <2>2. CASE ~B!TooMany(B!Count)
    <3>1. /\ pc = "out" /\ pc' = "filter" /\ e820_count' = B!Count
          /\ UNCHANGED <<B!machine, B!loader, i, usable_map, total_length, handed>>
      BY <1>7, <2>2 DEF B!GetMemMap
    <3>2. leftover.count * 65536 + Len(map) <= MAX_ENTRIES
      BY <1>0, <2>2 DEF B!Count, B!TooMany
    <3>3. leftover.count = 0 /\ Len(map) <= MAX_ENTRIES
      BY <1>0, <3>2
    <3>4. e820_count' = Len(map)
      BY <1>0, <3>1, <3>3 DEF B!Count
    <3>5. i = 0 /\ usable_map = leftover.map /\ handed = << >>
      BY <3>1 DEF BootTyped
    <3>6. ToldKept
      BY <1>1, <3>1
    <3>7. CopiesInv'
      <4>1. << >> = usable_map => Len(usable_map) = 0
        OBVIOUS
      <4> QED BY <3>1, <3>5, <4>1 DEF MapInv, CopiesInv, OfBios, B!Zeroed, B!Usable
    <3>8. B!Zeroed => B!UsableUpTo(usable_map, bios, i)
      BY <3>5, NoneUsable DEF B!Zeroed
    <3>9. ToldInv'
      BY <3>1, <3>6, <3>8 DEF MapInv, ToldInv, ToldKept
    <3>10. RefusedInv'
      BY <3>1, <3>3, <3>4 DEF MapInv, RefusedInv, RefusesTooMany, B!RefusesTooMany
    <3> QED BY <3>7, <3>9, <3>10 DEF MapInv
  <2> QED BY <2>1, <2>2
<1>8. ASSUME pc \in {"filter", "sum", "add", "heap"}, pc' \in {"filter", "sum", "add", "heap"},
             UNCHANGED <<B!machine, B!loader, e820_count>>
      PROVE  RefusedInv'
  BY <1>0, <1>8 DEF MapInv, RefusedInv, RefusesTooMany, B!RefusesTooMany
<1>9. CASE B!CopyUsable
  <2>1. /\ pc = "filter" /\ i < e820_count /\ e820_count = Len(map)
        /\ i + 1 \in 1 .. Len(map) /\ map[i + 1] \in Entry
    BY <1>0, <1>9 DEF B!CopyUsable, BootTyped
  <2>2. /\ usable_map' = IF B!Usable(map[i + 1]) THEN Append(usable_map, map[i + 1])
                         ELSE usable_map
        /\ i' = i + 1
        /\ UNCHANGED <<B!machine, pc, B!loader, e820_count, total_length, handed>>
    BY <1>9 DEF B!CopyUsable
  <2>3. ToldKept
    BY <1>1, <2>2
  <2>4. ASSUME B!Zeroed
        PROVE  OfBios(usable_map') /\ Len(usable_map') <= i + 1
    <3>1. OfBios(usable_map) /\ Len(usable_map) <= i
      BY <2>1, <2>4 DEF MapInv, CopiesInv
    <3>2. CASE B!Usable(map[i + 1])
      <4>1. /\ Len(usable_map') = Len(usable_map) + 1
            /\ usable_map'[Len(usable_map) + 1] = map[i + 1]
            /\ \A n \in 1 .. Len(usable_map) : usable_map'[n] = usable_map[n]
        BY <1>0, <2>1, <2>2, <3>2
      <4>2. ASSUME NEW n \in 1 .. Len(usable_map')
            PROVE  \E k \in 1 .. Len(bios) : B!Usable(bios[k]) /\ usable_map'[n] = bios[k]
        <5>1. CASE n = Len(usable_map) + 1
          BY <2>1, <3>2, <4>1, <5>1 DEF MapInv, CopiesInv
        <5>2. CASE n # Len(usable_map) + 1
          <6>1. n \in 1 .. Len(usable_map)
            BY <1>0, <4>1, <5>2
          <6> QED BY <3>1, <4>1, <6>1 DEF OfBios
        <5> QED BY <5>1, <5>2
      <4>3. OfBios(usable_map')
        BY <4>2 DEF OfBios
      <4> QED BY <1>0, <3>1, <4>1, <4>3
    <3>3. CASE ~B!Usable(map[i + 1])
      BY <1>0, <2>2, <3>1, <3>3
    <3> QED BY <3>2, <3>3
  <2>5. ASSUME B!Survives, B!Zeroed
        PROVE  B!UsableUpTo(usable_map', bios, i + 1)
    <3>1. map[i + 1] = bios[i + 1] /\ B!UsableUpTo(usable_map, bios, i)
      BY <2>1, <2>5 DEF MapInv, ToldInv
    <3> QED BY <1>0, <2>1, <2>2, <3>1, OneMoreUsable
  <2>6. CopiesInv'
    <3>1. OfBios(usable_map') /\ OfBios(handed) => OfBios(usable_map)' /\ OfBios(handed)'
      BY <2>2 DEF OfBios, B!Usable
    <3> QED BY <2>1, <2>2, <2>3, <2>4, <3>1 DEF MapInv, CopiesInv, ToldKept
  <2>7. ToldInv'
    BY <2>1, <2>2, <2>3, <2>5 DEF MapInv, ToldInv, ToldKept
  <2> QED BY <1>8, <2>1, <2>2, <2>6, <2>7 DEF MapInv
<1>10. CASE B!CopyDone
  <2>1. /\ pc = "filter" /\ pc' = "sum" /\ i = Len(map)
        /\ UNCHANGED <<B!machine, B!loader, e820_count, usable_map, total_length, handed>>
    BY <1>10 DEF B!CopyDone, BootTyped
  <2>2. ToldKept
    BY <1>1, <2>1
  <2>3. CopiesInv'
    BY <2>1 DEF MapInv, CopiesInv, OfBios, B!Zeroed, B!Usable
  <2>4. ToldInv'
    BY <2>1, <2>2 DEF MapInv, ToldInv, ToldKept
  <2> QED BY <1>8, <2>1, <2>3, <2>4 DEF MapInv
<1>11. CASE B!AddLength
  <2>1. /\ pc = "sum" /\ pc' = pc
        /\ UNCHANGED <<B!machine, B!loader, e820_count, usable_map, handed>>
    BY <1>11 DEF B!AddLength
  <2>2. ToldKept
    BY <1>1, <2>1
  <2>3. CopiesInv'
    BY <2>1 DEF MapInv, CopiesInv, OfBios, B!Zeroed, B!Usable
  <2>4. ToldInv'
    BY <2>1, <2>2 DEF MapInv, ToldInv, ToldKept
  <2> QED BY <1>8, <2>1, <2>3, <2>4 DEF MapInv
<1>12. CASE B!SumDone
  <2>1. /\ pc = "sum" /\ pc' = "add" /\ i' = 0
        /\ handed' = << >> /\ Len(handed') = 0
        /\ UNCHANGED <<B!machine, B!loader, e820_count, usable_map, total_length, handed>>
    BY <1>12 DEF B!SumDone, MapInv, CopiesInv
  <2>2. ToldKept
    BY <1>1, <2>1
  <2>3. CopiesInv'
    BY <2>1 DEF MapInv, CopiesInv, OfBios, B!Zeroed, B!Usable
  <2>4. ToldInv'
    BY <2>1, <2>2 DEF MapInv, ToldInv, ToldKept
  <2> QED BY <1>8, <2>1, <2>3, <2>4 DEF MapInv
<1>13. CASE B!AddBlock
  <2>1. /\ pc = "add" /\ i < Len(usable_map) /\ i + 1 \in 1 .. Len(usable_map)
        /\ handed' = Append(handed, usable_map[i + 1]) /\ i' = i + 1
        /\ Len(handed) = i
        /\ UNCHANGED <<B!machine, pc, B!loader, e820_count, usable_map, total_length>>
    BY <1>0, <1>13 DEF B!AddBlock, MapInv, CopiesInv
  <2>2. /\ Len(handed') = i + 1
        /\ handed'[i + 1] = usable_map[i + 1]
        /\ \A n \in 1 .. i : handed'[n] = usable_map[n]
    BY <1>0, <2>1 DEF MapInv, CopiesInv
  <2>3. \A n \in 1 .. (i + 1) : handed'[n] = usable_map[n]
    <3>1. \A n \in 1 .. (i + 1) : n = i + 1 \/ n \in 1 .. i
      BY <1>0
    <3> QED BY <2>2, <3>1
  <2>4. ToldKept
    BY <1>1, <2>1
  <2>5. ASSUME OfBios(usable_map)
        PROVE  OfBios(usable_map)' /\ OfBios(handed)'
    <3>1. OfBios(handed')
      <4>1. 1 .. (i + 1) \subseteq 1 .. Len(usable_map)
        BY <1>0, <2>1
      <4> QED BY <2>2, <2>3, <2>5, <4>1 DEF OfBios
    <3> QED BY <2>1, <2>5, <3>1 DEF OfBios, B!Usable
  <2>6. CopiesInv'
    BY <2>1, <2>2, <2>3, <2>4, <2>5 DEF MapInv, CopiesInv, ToldKept
  <2>7. ToldInv'
    BY <2>1, <2>4 DEF MapInv, ToldInv, ToldKept
  <2> QED BY <1>8, <2>1, <2>6, <2>7 DEF MapInv
<1>14. CASE B!AddDone
  <2>1. /\ pc = "add" /\ pc' = "heap" /\ i = Len(usable_map)
        /\ UNCHANGED <<B!machine, B!loader, e820_count, usable_map, total_length, handed>>
    BY <1>14 DEF B!AddDone
  <2>2. handed = usable_map
    <3>1. Len(handed) = Len(usable_map)
          /\ \A n \in 1 .. Len(usable_map) : handed[n] = usable_map[n]
      BY <2>1 DEF MapInv, CopiesInv
    <3> QED BY <1>0, <3>1, SeqEqual
  <2>3. ToldKept
    BY <1>1, <2>1
  <2>4. CopiesInv'
    BY <2>1, <2>2 DEF MapInv, CopiesInv, OfBios, B!Zeroed, B!Usable
  <2>5. ToldInv'
    BY <2>1, <2>3 DEF MapInv, ToldInv, ToldKept
  <2> QED BY <1>8, <2>1, <2>4, <2>5 DEF MapInv
<1>15. CASE B!HeapTest
  <2>1. /\ pc = "heap" /\ pc' = pc
        /\ UNCHANGED <<B!machine, B!loader, e820_count, usable_map, total_length, handed>>
    BY <1>15 DEF B!HeapTest
  <2>2. ToldKept
    BY <1>1, <2>1
  <2>3. CopiesInv'
    BY <2>1 DEF MapInv, CopiesInv, OfBios, B!Zeroed, B!Usable
  <2>4. ToldInv'
    BY <2>1, <2>2 DEF MapInv, ToldInv, ToldKept
  <2> QED BY <1>8, <2>1, <2>3, <2>4 DEF MapInv
<1>16. CASE UNCHANGED B!vars
  <2>1. UNCHANGED <<B!machine, pc, B!loader, B!kernel>>
    BY <1>16 DEF B!vars
  <2>2. ToldKept
    BY <1>1, <2>1
  <2>3. CopiesInv'
    BY <2>1 DEF MapInv, CopiesInv, OfBios, B!Zeroed, B!Usable
  <2>4. ToldInv'
    BY <2>1, <2>2 DEF MapInv, ToldInv, ToldKept, Calling
  <2>5. RefusedInv'
    BY <2>1 DEF MapInv, RefusedInv, RefusesTooMany, B!RefusesTooMany
  <2> QED BY <2>3, <2>4, <2>5 DEF MapInv
<1> QED BY <1>2, <1>4, <1>5, <1>6, <1>7, <1>9, <1>10, <1>11, <1>12,
           <1>13, <1>14, <1>15, <1>16 DEF B!Next

LEMMA MapInvariant == Spec => []MapInv
<1>1. Init => StartupTyped /\ MapInv
  BY TypedInit, MapStart
<1>2. StartupTyped /\ MapInv /\ [Next]_vars => StartupTyped' /\ MapInv'
  BY TypedNext, MapNext, StepIsBoot DEF StartupTyped
<1> QED BY <1>1, <1>2, PTL DEF Spec

\* The heap gets what the BIOS called usable, and, if the continuation values
\* survive, all that the BIOS tells, entry by entry and in its order: for every
\* map, whatever the BIOS looks at in its registers, and whatever they and the
\* memory behind the count held.  What it needs of memory is that usable_map_len
\* was 0.
THEOREM StartupHeapGetsUsable == Spec => []HeapGetsUsable
<1>1. MapInv => HeapGetsUsable
  BY DEF MapInv, CopiesInv, ToldInv, OfBios, HeapGetsUsable, B!HeapGetsUsable
<1> QED BY <1>1, MapInvariant, PTL

\* Of a map that is longer than usable_map nothing is copied into it.
THEOREM StartupRefusesTooMany == Spec => []RefusesTooMany
<1>1. MapInv => RefusesTooMany
  BY DEF MapInv, RefusedInv
<1> QED BY <1>1, MapInvariant, PTL

-----------------------------------------------------------------------------
(***************************************************************************)
(* Where the machine may stop.                                             *)
(***************************************************************************)

\* No usable entry is empty or beyond the 48 bits of an address.
MapsInReach ==
    \A m \in Machines : \A k \in 1 .. Len(m.bios) : B!Usable(m.bios[k]) =>
        /\ m.bios[k].length > 0
        /\ \A v \in m.bios[k].base .. (m.bios[k].base + m.bios[k].length - 1) :
               v \div 512 ^ 3 < 512

\* How far the modes and the tables have come at each stage; the heap writes to
\* memory the BIOS called usable, and takes no page it has not.
StageInv ==
    /\ stage \in {"bios", "protected"} => mode = "real"
    /\ stage = "cpu" => mode = "protected"
    /\ stage \in {"gdt", "paging", "memory"} => mode = "long"
    /\ stage = "gdt" => paging = "check"
    /\ mode = "long" => paging # "off"
    /\ B!Zeroed => written \subseteq UsablePages
    /\ pc = "heap" => i <= Len(HeapPages)
    /\ written # {} => mode = "long"

\* With the tables of the boot code the kernel is mapped.
LEMMA WalkBoot ==
    ASSUME StartupTyped, PagingInv, paging \notin {"off", "on"},
           NEW v \in Nat, v < 512
    PROVE  P!Walk(v, {}) = v
<1> DEFINE e4 == P!At(cr3, P!Index(v, 3), {})
           e3 == P!At(e4.frame, P!Index(v, 2), {})
           e2 == P!At(e3.frame, P!Index(v, 1), {})
           e1 == P!At(e2.frame, P!Index(v, 0), {})
           directory == P!Entry(P!BootDirectory, {"P"})
           pointers == P!Entry(P!BootPointers, {"P"})
<1>1. P!Walk(v, {}) = Found(v, e4, e3, e2, e1)
  BY DEF P!Walk, Found
<1>2. /\ P!LargePage.bits = {"P", "PS"} /\ P!LargePage.frame = 0
      /\ directory.bits = {"P"} /\ directory.frame = P!BootDirectory
      /\ pointers.bits = {"P"} /\ pointers.frame = P!BootPointers
  BY DEF P!LargePage, P!Entry
<1>3. v \div 512 ^ 3 < 512 /\ v < P!GiB /\ v % 512 = v
  <2>1. 512 ^ 3 = 134217728
    OBVIOUS
  <2> QED BY <2>1 DEF P!GiB
<1>4. P!Index(v, 3) = 0 /\ P!Index(v, 2) = 0 /\ P!Index(v, 1) = 0
  BY <1>3, Indexing
<1>5. /\ cr3 = P!BootPml4
      /\ tables[P!BootPml4] = P!FirstOnly(pointers)
      /\ tables[P!BootPointers] = P!FirstOnly(directory)
      /\ tables[P!BootDirectory] = P!FirstOnly(P!LargePage)
      /\ {P!BootPml4, P!BootPointers, P!BootDirectory} \subseteq DOMAIN tables \ {}
  BY DEF PagingInv, StartupTyped, PagesTyped, Frames, P!BootTables
<1>6. e4 = pointers
  BY <1>4, <1>5, AtFirst
<1>7. e3 = directory
  BY <1>2, <1>4, <1>5, <1>6, AtFirst
<1>8. e2 = P!LargePage
  BY <1>2, <1>4, <1>5, <1>7, AtFirst
<1> HIDE DEF e4, e3, e2, e1, directory, pointers
<1>9. 0 + v = v
  OBVIOUS
<1> QED BY <1>1, <1>2, <1>3, <1>6, <1>7, <1>8, <1>9 DEF Found

\* Behind load_page_dir all depends on pages of 1 GiB and on two tables.
LEMMA WalkOn ==
    ASSUME StartupTyped, PagingInv, paging = "on",
           NEW v \in Nat, v \div 512 ^ 3 < 512, NEW w
    PROVE  /\ "GBPAGES" \notin features => P!Walk(v, w) = P!Fault
           /\ "GBPAGES" \in features /\ v < P!GiB /\ w \cap P!BootTables = {}
                  => P!Walk(v, w) = v
<1> DEFINE e4 == P!At(cr3, P!Index(v, 3), w)
           e3 == P!At(e4.frame, P!Index(v, 2), w)
           e2 == P!At(e3.frame, P!Index(v, 1), w)
           e1 == P!At(e2.frame, P!Index(v, 0), w)
           directory == P!Entry(P!BootDirectory, {"P"})
<1>1. P!Walk(v, w) = Found(v, e4, e3, e2, e1)
  BY DEF P!Walk, Found
<1>2. /\ P!Absent.bits = {} /\ P!LargePage.bits = {"P", "PS"}
      /\ P!LargePage.frame = 0
      /\ directory.bits = {"P"} /\ directory.frame = P!BootDirectory
  BY DEF P!Absent, P!LargePage, P!Entry
<1>3. /\ cr3 = P!BootPointers
      /\ tables[P!BootPointers] = P!FirstOnly(directory)
      /\ tables[P!BootDirectory] = P!FirstOnly(P!LargePage)
      /\ {P!BootPointers, P!BootDirectory} \subseteq DOMAIN tables
      /\ {P!BootPointers, P!BootDirectory} \subseteq P!BootTables
  BY DEF PagingInv, StartupTyped, PagesTyped, Frames, P!BootTables
<1>4. e4 = P!Absent \/ e4 = directory
  BY <1>3, AtFirst
<1>5. e4 = directory => e3 = P!Absent \/ e3 = P!LargePage
  <2>1. \/ P!At(P!BootDirectory, P!Index(v, 2), w) = P!Absent
        \/ P!At(P!BootDirectory, P!Index(v, 2), w) = P!LargePage
    BY <1>3, AtFirst
  <2> QED BY <1>2, <2>1
<1>6. "GBPAGES" \notin features => P!Walk(v, w) = P!Fault
  <2> HIDE DEF e4, e3, e2, e1, directory
  <2> QED BY <1>1, <1>2, <1>4, <1>5 DEF Found
<1>7. ASSUME "GBPAGES" \in features, v < P!GiB, w \cap P!BootTables = {}
      PROVE  P!Walk(v, w) = v
  <2>1. P!Index(v, 3) = 0 /\ P!Index(v, 2) = 0
    BY <1>7, Indexing
  <2>2. v % P!GiB = v
    BY <2>1, Indexing
  <2>3. {P!BootPointers, P!BootDirectory} \subseteq DOMAIN tables \ w
    BY <1>3, <1>7
  <2>4. e4 = directory
    BY <1>3, <2>1, <2>3, AtFirst
  <2>5. e3 = P!LargePage
    BY <1>2, <1>3, <2>1, <2>3, <2>4, AtFirst
  <2> HIDE DEF e4, e3, e2, e1, directory
  <2>6. 0 + v = v
    OBVIOUS
  <2> QED BY <1>1, <1>2, <1>7, <2>2, <2>4, <2>5, <2>6 DEF Found
<1> QED BY <1>6, <1>7

LEMMA BiosInReach ==
    ASSUME MapsInReach, StartupTyped, NEW k \in 1 .. Len(bios), B!Usable(bios[k])
    PROVE  /\ bios[k] \in Entry /\ bios[k].length > 0
           /\ \A v \in bios[k].base .. (bios[k].base + bios[k].length - 1) :
                  v \div 512 ^ 3 < 512
<1>1. B!Machine \in Machines
  BY DEF StartupTyped, BootTyped, B!TypeOK
<1>2. PICK m \in Machines : m.bios = bios
  BY <1>1 DEF B!Machine
<1>3. bios \in Seq(Entry)
  BY <1>1, MachineTyped
<1> QED BY <1>2, <1>3 DEF MapsInReach

\* The pages of the heap are usable.
LEMMA PagesOfEntries ==
    ASSUME MapsInReach, StartupTyped, NEW s \in Seq(Entry), OfBios(s)
    PROVE  \A n \in 1 .. Len(s) :
               /\ s[n].base \in UsablePages
               /\ \A j \in 1 .. s[n].length : s[n].base + j - 1 \in UsablePages
<1> SUFFICES ASSUME NEW n \in 1 .. Len(s)
             PROVE  /\ s[n].base \in UsablePages
                    /\ \A j \in 1 .. s[n].length : s[n].base + j - 1 \in UsablePages
  OBVIOUS
<1>1. PICK k \in 1 .. Len(bios) : B!Usable(bios[k]) /\ s[n] = bios[k]
  BY DEF OfBios
<1>2. s[n] \in Entry
  OBVIOUS
<1>3. s[n].base \in Nat /\ s[n].length \in Nat
  BY <1>2, EntryFields
<1>4. s[n].length > 0
  BY <1>1, BiosInReach
<1>5. ASSUME NEW v \in s[n].base .. (s[n].base + s[n].length - 1)
      PROVE  v \in UsablePages
  BY <1>1, <1>5 DEF UsablePages
<1>6. s[n].base \in s[n].base .. (s[n].base + s[n].length - 1)
  BY <1>3, <1>4
<1>7. \A j \in 1 .. s[n].length :
         s[n].base + j - 1 \in s[n].base .. (s[n].base + s[n].length - 1)
  BY <1>3
<1> QED BY <1>5, <1>6, <1>7

LEMMA UsableInReach ==
    ASSUME MapsInReach, StartupTyped, NEW v \in UsablePages
    PROVE  v \in Nat /\ v \div 512 ^ 3 < 512
<1>1. PICK k \in 1 .. Len(bios) :
        B!Usable(bios[k]) /\ v \in bios[k].base .. (bios[k].base + bios[k].length - 1)
  BY DEF UsablePages
<1>2. bios[k] \in Entry
  BY <1>1, BiosInReach
<1>3. bios[k].base \in Nat /\ bios[k].length \in Nat
  BY <1>2, EntryFields
<1>4. v \in Nat
  BY <1>1, <1>3
<1>5. v \div 512 ^ 3 < 512
  <2>1. \A u \in bios[k].base .. (bios[k].base + bios[k].length - 1) :
           u \div 512 ^ 3 < 512
    BY <1>1, BiosInReach
  <2> QED BY <1>1, <2>1
<1> QED BY <1>4, <1>5

LEMMA HeaderPagesUsable ==
    ASSUME MapsInReach, StartupTyped, MapInv, B!Zeroed, pc = "add", i < Len(usable_map)
    PROVE  HeaderPages \subseteq UsablePages
<1>1. usable_map \in Seq(Entry) /\ OfBios(usable_map) /\ i \in Nat
  BY DEF StartupTyped, BootTyped, B!TypeOK, MapInv, CopiesInv
<1>2. \A n \in 1 .. Len(usable_map) : usable_map[n].base \in UsablePages
  BY <1>1, PagesOfEntries
<1>3. i + 1 \in 1 .. Len(usable_map) /\ (i > 0 => i \in 1 .. Len(usable_map))
  BY <1>1
<1> QED BY <1>2, <1>3 DEF HeaderPages

LEMMA HeapPagesUsable ==
    ASSUME MapsInReach, StartupTyped, MapInv, B!Zeroed, i < Len(HeapPages)
    PROVE  HeapPages[i + 1] \in UsablePages
<1>1. handed \in Seq(Entry) /\ OfBios(handed) /\ i \in Nat
  BY DEF StartupTyped, BootTyped, B!TypeOK, MapInv, CopiesInv
<1>2. \A k \in 1 .. Len(handed) :
         \A j \in 1 .. handed[k].length : handed[k].base + j - 1 \in UsablePages
  BY <1>1, PagesOfEntries
<1>3. HeapPages \in Seq(UsablePages)
  BY <1>1, <1>2, HeapPagesHanded
<1> QED BY <1>1, <1>3

\* The pages the heap comes to are a sequence.
LEMMA HeapPagesTyped ==
    ASSUME BootTyped
    PROVE  HeapPages \in Seq(Int) /\ Len(HeapPages) \in Nat
<1>1. handed \in Seq(Entry)
  BY DEF BootTyped
<1>2. \A k \in 1 .. Len(handed) :
         \A j \in 1 .. handed[k].length : handed[k].base + j - 1 \in Int
  <2>1. ASSUME NEW k \in 1 .. Len(handed)
        PROVE  handed[k].base \in Nat /\ handed[k].length \in Nat
    <3>1. handed[k] \in Entry
      BY <1>1
    <3> QED BY <3>1, EntryFields
  <2> QED BY <2>1
<1>3. HeapPages \in Seq(Int)
  BY <1>1, <1>2, HeapPagesHanded
<1> QED BY <1>3

LEMMA StageStart == Init => StageInv
<1> SUFFICES ASSUME Init PROVE StageInv
  OBVIOUS
<1>1. stage = "bios" /\ mode = "real" /\ written = {} /\ pc = "e820"
  BY DEF Init, B!Init, D!Init, P!Init
<1> QED BY <1>1 DEF StageInv

\* The machine stays what it is.
LEMMA SameMachine ==
    ASSUME [Next]_vars
    PROVE  /\ bios' = bios /\ features' = features
           /\ errs' = errs /\ leftover' = leftover
           /\ interrupt_flag' = interrupt_flag
           /\ UsablePages' = UsablePages
           /\ TablesInHeap' = TablesInHeap
           /\ B!Told' = B!Told
           /\ B!Survives' <=> B!Survives
           /\ B!Zeroed' <=> B!Zeroed
<1>1. UNCHANGED B!machine
  BY StepIsBoot DEF B!Next, B!vars, B!E820Entry, B!E820Overwrites,
     B!E820Carry, B!E820Error, B!GetMemMap, B!CopyUsable, B!CopyOverwrites, B!CopyDone,
     B!AddLength, B!SumDone, B!AddBlock, B!AddDone, B!HeapTest, B!OutOfMemory, B!CliHlt
<1>2. features' = features
  BY StepIsPaging DEF pages, P!SetupPaging64, P!PagingInit, P!CheckRequirements,
     P!BlankPageDir, P!FillPdp, P!FillPml4, P!LoadPageDir, P!Write
<1>3. interrupt_flag' = interrupt_flag
  BY DEF Next, E820, EnterProtectedMode, CpuTooOld, EnterLongMode, GdtInit,
     PagingInit, ReadMap, AddBlock, HeapTest, OutOfMemory, CliHlt, PageFault,
     TripleFault, RunWild, EarlyInterrupt, vars
<1>4. /\ bios' = bios /\ step' = step /\ heeds' = heeds /\ errs' = errs
      /\ leftover' = leftover
  BY <1>1 DEF B!machine
<1>5. UsablePages' = UsablePages
  BY <1>4 DEF UsablePages, B!Usable
<1>6. B!Told' = B!Told /\ (B!Survives' <=> B!Survives) /\ (B!Zeroed' <=> B!Zeroed)
  BY <1>4 DEF B!Told, B!Survives, B!Zeroed
<1> QED BY <1>2, <1>3, <1>4, <1>5, <1>6 DEF TablesInHeap

\* The test takes no page the heap does not have.
LEMMA TestStaysInHeap ==
    ASSUME StartupTyped, MapInv, pc = "heap" => i <= Len(HeapPages), [Next]_vars
    PROVE  (pc = "heap" => i <= Len(HeapPages))'
<1> SUFFICES ASSUME pc' = "heap" PROVE i' <= Len(HeapPages')
  OBVIOUS
<1>0. Len(HeapPages) \in Nat /\ i \in Nat
  BY HeapPagesTyped DEF StartupTyped, BootTyped, B!TypeOK
<1>1. ASSUME pc = "heap", i' = i, handed' = handed
      PROVE  i' <= Len(HeapPages')
  <2>1. HeapPages' = HeapPages
    BY <1>1 DEF HeapPages
  <2> QED BY <1>1, <2>1
<1>2. CASE ReadMap
  <2>1. B!AddDone
    BY <1>2 DEF ReadMap, B!GetMemMap, B!CopyUsable, B!CopyOverwrites, B!CopyDone,
       B!AddLength, B!SumDone
  <2>2. i' = 0 /\ handed' = handed
    BY <2>1 DEF B!AddDone
  <2>3. HeapPages' = HeapPages
    BY <2>2 DEF HeapPages
  <2> QED BY <1>0, <2>2, <2>3
<1>3. CASE HeapTest
  <2>1. i < Len(HeapPages) /\ i' = i + 1 /\ handed' = handed
    BY <1>3 DEF HeapTest, B!HeapTest
  <2>2. HeapPages' = HeapPages
    BY <2>1 DEF HeapPages
  <2> QED BY <1>0, <2>1, <2>2
<1>4. CASE E820
  BY <1>4 DEF E820, B!E820Entry, B!E820Overwrites, B!E820Carry, B!E820Error
<1>5. CASE AddBlock \/ OutOfMemory \/ CliHlt
  BY <1>5 DEF AddBlock, OutOfMemory, CliHlt, B!AddBlock, B!OutOfMemory, B!CliHlt
<1>6. CASE EnterProtectedMode \/ CpuTooOld \/ EnterLongMode \/ GdtInit \/ PagingInit
  BY <1>1, <1>6 DEF EnterProtectedMode, CpuTooOld, EnterLongMode, GdtInit, PagingInit,
     memory_map
<1>7. CASE PageFault \/ TripleFault \/ RunWild \/ EarlyInterrupt \/ UNCHANGED vars
  BY <1>1, <1>7 DEF PageFault, TripleFault, RunWild, EarlyInterrupt, vars, memory_map
<1> QED BY <1>2, <1>3, <1>4, <1>5, <1>6, <1>7 DEF Next

LEMMA StageNext ==
    ASSUME MapsInReach, StartupTyped, PagingInv, MapInv, StageInv, [Next]_vars
    PROVE  StageInv'
<1> DEFINE HeapInv == pc = "heap" => i <= Len(HeapPages)
<1>0. UsablePages' = UsablePages /\ (B!Zeroed' <=> B!Zeroed) /\ HeapInv'
  BY SameMachine, TestStaysInHeap DEF StageInv
<1> HIDE DEF HeapInv
<1> USE <1>0
<1>1. ASSUME UNCHANGED <<mode, paging, written>>,
             stage' = stage \/ stage' \in {"halted", "panic", "fault", "wild", "reset"}
      PROVE  StageInv'
  BY <1>1 DEF StageInv, HeapInv
<1>2. CASE E820
  <2>1. /\ stage = "bios" /\ stage' \in {"bios", "protected", "halted", "wild"}
        /\ UNCHANGED <<mode, paging, written>>
    BY <1>2 DEF E820, segments, pages
  <2> QED BY <2>1 DEF StageInv, HeapInv
<1>3. CASE EnterProtectedMode
  BY <1>3 DEF EnterProtectedMode, D!EnterProtectedMode, pages, StageInv, HeapInv, PagingInv
<1>4. CASE EnterLongMode
  BY <1>4 DEF EnterLongMode, D!EnterLongMode, P!SetupPaging64, StageInv, HeapInv
<1>5. CASE GdtInit
  BY <1>5 DEF GdtInit, D!GdtInit, pages, StageInv, HeapInv
<1>6. CASE PagingInit
  <2>1. stage = "paging" /\ stage' \in {"panic", "memory", "paging"} /\ mode' = mode
    BY <1>6 DEF PagingInit, segments
  <2>2. paging' # "off" /\ written' = written
    BY <1>6 DEF PagingInit, P!PagingInit, P!CheckRequirements, P!BlankPageDir,
       P!FillPdp, P!FillPml4, P!LoadPageDir
  <2> QED BY <2>1, <2>2 DEF StageInv, HeapInv
<1>7. CASE CpuTooOld \/ ReadMap \/ OutOfMemory \/ CliHlt
  <2>1. stage' = stage \/ stage' \in {"halted", "panic", "wild"}
    BY <1>7 DEF CpuTooOld, ReadMap, OutOfMemory, CliHlt
  <2> QED BY <1>1, <1>7, <2>1 DEF CpuTooOld, ReadMap, OutOfMemory, CliHlt,
                                 segments, pages
<1>8. CASE PageFault \/ TripleFault \/ RunWild \/ EarlyInterrupt
  <2>1. stage' \in {"fault", "wild", "reset"}
    BY <1>8 DEF PageFault, TripleFault, RunWild, EarlyInterrupt
  <2> QED BY <1>1, <1>8, <2>1 DEF PageFault, TripleFault, RunWild, EarlyInterrupt,
                                 segments, pages
<1>9. ASSUME NEW S, P!Write(S), B!Zeroed => S \subseteq UsablePages,
             stage = "memory", stage' = stage, mode' = mode
      PROVE  StageInv'
  <2>1. ASSUME B!Zeroed
        PROVE  \A v \in S : P!Reach(v) \subseteq {v}
    <3>1. ASSUME NEW v \in S
          PROVE  P!Reach(v) \subseteq {v}
      <4>1. v \in Nat /\ v \div 512 ^ 3 < 512
        BY <1>9, <2>1, UsableInReach
      <4>2. P!Walk(v, written) \in {v, P!Fault} /\ P!Walk(v, {}) \in {v, P!Fault}
        BY <4>1, WalkIsIdentity
      <4> QED BY <4>2 DEF P!Reach
    <3> QED BY <3>1
  <2>2. B!Zeroed => written' \subseteq UsablePages
    BY <1>9, <2>1 DEF P!Write, StageInv
  <2>3. paging' = paging /\ mode' = "long"
    BY <1>9 DEF P!Write, StageInv
  <2> QED BY <1>9, <2>2, <2>3 DEF StageInv, HeapInv
<1>10. CASE AddBlock
  <2>1. B!Zeroed => HeaderPages \subseteq UsablePages
    BY <1>10, HeaderPagesUsable DEF AddBlock, B!AddBlock
  <2> QED BY <1>9, <1>10, <2>1 DEF AddBlock, segments
<1>11. CASE HeapTest
  <2>1. B!Zeroed => {HeapPages[i + 1]} \subseteq UsablePages
    BY <1>11, HeapPagesUsable DEF HeapTest
  <2> QED BY <1>9, <1>11, <2>1 DEF HeapTest, segments
<1>12. CASE UNCHANGED vars
  BY <1>1, <1>12 DEF vars, segments, pages
<1> QED BY <1>2, <1>3, <1>4, <1>5, <1>6, <1>7, <1>8, <1>10, <1>11, <1>12 DEF Next

\* While the heap has not written to a table, the kernel is where it was, on a
\* CPU that has the pages load_page_dir needs.
LEMMA KernelStays ==
    ASSUME StartupTyped, PagingInv, StageInv, mode = "long", P!KernelMayFault
    PROVE  paging = "on" /\ ("GBPAGES" \notin features \/ TablesInHeap \/ ~B!Zeroed)
<1>1. PICK v \in KernelPages : P!Walk(v, written) = P!Fault
  BY DEF P!KernelMayFault, P!MayFault
<1>2. v \in Nat /\ v < 512 /\ v < P!GiB /\ v # P!Fault
  BY KernelAssumption DEF P!GiB, P!Fault
<1>3. paging = "on"
  <2>1. CASE paging \notin {"off", "on"}
    <3>1. written = {}
      BY <2>1 DEF PagingInv
    <3> QED BY <1>1, <1>2, <2>1, <3>1, WalkBoot
  <2> QED BY <2>1 DEF StageInv
<1>4. v \div 512 ^ 3 < 512
  BY WidthAssumption, PagesAssumption
<1>5. "GBPAGES" \notin features \/ written \cap P!BootTables # {}
  BY <1>1, <1>2, <1>3, <1>4, WalkOn
<1> QED BY <1>3, <1>5 DEF StageInv, TablesInHeap

\* A page of the heap that the machine faults on is behind 1 GiB, or the tables
\* are in the heap.
LEMMA HeapStays ==
    ASSUME MapsInReach, StartupTyped, PagingInv, StageInv, B!Zeroed, stage = "memory",
           P!KernelReachable, NEW v \in UsablePages, P!MayFault(v)
    PROVE  TablesInHeap \/ v >= P!GiB
<1>1. v \in Nat /\ v \div 512 ^ 3 < 512
  BY UsableInReach
<1>2. paging = "on"
  BY DEF PagingInv
<1>3. "GBPAGES" \in features
  <2>1. PICK k \in KernelPages : k \in P!Reach(k)
    BY KernelAssumption DEF P!KernelReachable
  <2>2. k \in Nat /\ k \div 512 ^ 3 < 512
    BY WidthAssumption, PagesAssumption
  <2>3. P!Walk(k, written) # P!Fault \/ P!Walk(k, {}) # P!Fault
    BY <2>1 DEF P!Reach
  <2> QED BY <1>2, <2>2, <2>3, WalkOn
<1>4. P!Walk(v, written) = P!Fault /\ v # P!Fault
  BY <1>1 DEF P!MayFault, P!Fault
<1>5. v < P!GiB => written \cap P!BootTables # {}
  BY <1>1, <1>2, <1>3, <1>4, WalkOn
<1>6. v < P!GiB => TablesInHeap
  BY <1>5 DEF StageInv, TablesInHeap
<1> QED BY <1>1, <1>6 DEF P!GiB

LEMMA StopsNext ==
    ASSUME MapsInReach, StartupTyped, PagingInv, MapInv, StageInv, StopsOnlyFor,
           [Next]_vars
    PROVE  StopsOnlyFor'
<1>0. /\ bios' = bios /\ features' = features /\ interrupt_flag' = interrupt_flag
      /\ errs' = errs /\ leftover' = leftover
      /\ UsablePages' = UsablePages /\ TablesInHeap' = TablesInHeap
      /\ B!Told' = B!Told /\ (B!Survives' <=> B!Survives) /\ (B!Zeroed' <=> B!Zeroed)
  BY SameMachine
<1>1. ASSUME stage' \notin {"halted", "panic", "reset", "fault", "wild"}
      PROVE  StopsOnlyFor'
  BY <1>1 DEF StopsOnlyFor
<1>2. CASE E820
  <2>1. mode' = "real"
    BY <1>2 DEF E820, segments, StageInv
  <2>2. ASSUME NEW k \in 1 .. Len(bios), B!E820Entry(k)
        PROVE  StopsOnlyFor'
    <3>1. pc' \in {"e820", "out"}
      BY <2>2 DEF B!E820Entry
    <3>2. stage' \in {"bios", "protected"}
      BY <1>2, <3>1 DEF E820
    <3> QED BY <1>1, <3>2
  <2>3. ASSUME NEW k \in 1 .. Len(bios), B!E820Overwrites(k)
        PROVE  StopsOnlyFor'
    <3>1. stage' = "wild"
      BY <1>2, <2>3 DEF E820, B!E820Overwrites
    <3>2. /\ pc = "e820" /\ B!Asked(k) /\ Len(map) = Room
      BY <2>3 DEF B!E820Overwrites, StartupTyped, BootTyped, B!TypeOK
    <3>3. B!Survives => k = Len(map) + 1 /\ k <= B!Told
      BY <3>2, AskedNext DEF StartupTyped
    <3>4. B!Survives => B!Told > Room
      BY <3>2, <3>3, ToldBounds, BoundsAssumption DEF StartupTyped
    <3> QED BY <1>0, <2>1, <3>1, <3>4 DEF StopsOnlyFor
  <2>4. CASE B!E820Carry
    <3>1. stage' = "protected"
      BY <1>2, <2>4 DEF E820, B!E820Carry
    <3> QED BY <1>1, <3>1
  <2>5. CASE B!E820Error
    <3>1. stage' = "halted" /\ errs
      BY <1>2, <2>5 DEF E820, B!E820Error
    <3> QED BY <1>0, <2>1, <3>1 DEF StopsOnlyFor
  <2> QED BY <1>2, <2>2, <2>3, <2>4, <2>5 DEF E820
<1>3. CASE EnterProtectedMode \/ EnterLongMode \/ GdtInit \/ AddBlock \/ HeapTest
  BY <1>1, <1>3 DEF EnterProtectedMode, EnterLongMode, GdtInit, AddBlock, HeapTest
<1>4. CASE CpuTooOld
  <2>1. stage' = "halted" /\ mode' = "protected" /\ ~({"CPUID", "LM"} \subseteq features)
    BY <1>4 DEF CpuTooOld, segments, StageInv
  <2> QED BY <1>0, <2>1 DEF StopsOnlyFor
<1>5. CASE PagingInit
  <2>1. CASE paging' = "panic"
    <3>1. ~({"PAT", "PSE"} \subseteq features)
      BY <1>5, <2>1 DEF PagingInit, P!PagingInit, P!CheckRequirements, P!BlankPageDir,
         P!FillPdp, P!FillPml4, P!LoadPageDir
    <3>2. stage' = "panic"
      BY <1>5, <2>1 DEF PagingInit
    <3> QED BY <1>0, <2>1, <3>1, <3>2 DEF StopsOnlyFor
  <2>2. CASE paging' # "panic"
    <3>1. stage' \in {"memory", "paging"}
      BY <1>5, <2>2 DEF PagingInit
    <3> QED BY <1>1, <3>1
  <2> QED BY <2>1, <2>2
<1>6. CASE ReadMap
  <2>1. /\ paging' = "on" /\ mode' = "long" /\ stage = "memory"
    BY <1>6 DEF ReadMap, pages, segments, PagingInv, StageInv
  <2>2. CASE B!GetMemMap
    <3>1. CASE B!TooMany(B!Count)
      <4>1. stage' = "panic" /\ map' = map /\ leftover' = leftover
        BY <1>6, <2>2, <3>1 DEF ReadMap, B!GetMemMap, B!loader, B!machine
      <4>2. leftover.count # 0 \/ Len(map) > MAX_ENTRIES
        BY <3>1 DEF B!TooMany, B!Count, StartupTyped, BootTyped, B!TypeOK
      <4> QED BY <2>1, <4>1, <4>2 DEF StopsOnlyFor
    <3>2. CASE ~B!TooMany(B!Count)
      <4>1. stage' = "memory"
        BY <1>6, <2>1, <2>2, <3>2 DEF ReadMap, B!GetMemMap
      <4> QED BY <1>1, <4>1
    <3> QED BY <3>1, <3>2
  <2>3. CASE B!CopyOverwrites
    <3>1. stage' = "wild"
      BY <1>6, <2>3 DEF ReadMap, B!CopyOverwrites
    <3>2. ~B!Zeroed
      <4>1. /\ pc = "filter" /\ i < Len(map) /\ Len(map) <= MAX_ENTRIES
            /\ Len(usable_map) >= MAX_ENTRIES
        BY <2>3 DEF B!CopyOverwrites, MapInv, RefusedInv
      <4>2. i \in Nat /\ Len(map) \in Nat /\ Len(usable_map) \in Nat /\ MAX_ENTRIES \in Nat
        BY BoundsAssumption DEF StartupTyped, BootTyped, B!TypeOK
      <4> QED BY <4>1, <4>2 DEF MapInv, CopiesInv
    <3> QED BY <1>0, <2>1, <3>1, <3>2 DEF StopsOnlyFor
  <2>4. CASE B!CopyUsable \/ B!CopyDone \/ B!AddLength \/ B!SumDone \/ B!AddDone
    <3>1. pc' \notin {"panic", "wild"}
      BY <2>4 DEF B!CopyUsable, B!CopyDone, B!AddLength, B!SumDone, B!AddDone
    <3>2. stage' = "memory"
      BY <1>6, <2>1, <3>1 DEF ReadMap
    <3> QED BY <1>1, <3>2
  <2> QED BY <1>6, <2>2, <2>3, <2>4 DEF ReadMap
<1>7. CASE OutOfMemory
  <2>1. /\ stage' = "panic" /\ paging' = "on" /\ pc = "heap"
        /\ i >= Len(HeapPages) /\ i < TestCount
        /\ handed' = handed
    BY <1>7 DEF OutOfMemory, B!OutOfMemory, B!kernel, pages, PagingInv
  <2>2. HeapPages' = HeapPages
    BY <2>1 DEF HeapPages
  <2>3. Len(HeapPages) < TestCount
    <3>1. Len(HeapPages) \in Nat
      BY HeapPagesTyped DEF StartupTyped
    <3>2. i \in Nat /\ TestCount \in Nat
      BY BoundsAssumption DEF StartupTyped, BootTyped, B!TypeOK
    <3> QED BY <2>1, <3>1, <3>2
  <2>4. B!Zeroed /\ B!Survives => B!UsableUpTo(handed, bios, B!Told)
    BY <2>1 DEF MapInv, CopiesInv, ToldInv
  <2>5. B!UsableUpTo(handed, bios, B!Told) => B!UsableUpTo(handed, bios, B!Told)'
    BY <1>0, <2>1 DEF B!UsableUpTo, B!Usable
  <2>6. OutOfPages'
    BY <1>0, <2>2, <2>3, <2>4, <2>5 DEF OutOfPages
  <2> QED BY <2>1, <2>6 DEF StopsOnlyFor
<1>8. CASE CliHlt
  <2>1. /\ stage' = "halted" /\ pc' = "halted" /\ mode' = "long"
        /\ pc = "heap" /\ i = TestCount /\ handed' = handed
    BY <1>8 DEF CliHlt, B!CliHlt, B!kernel, segments, StageInv
  <2>2. HeapPages' = HeapPages
    BY <2>1 DEF HeapPages
  <2>3. Len(HeapPages) \in Nat /\ TestCount \in Nat /\ TestCount <= Len(HeapPages)
    BY <2>1, HeapPagesTyped, BoundsAssumption DEF StartupTyped, StageInv
  <2> QED BY <2>1, <2>2, <2>3 DEF StopsOnlyFor
<1>9. CASE PageFault
  <2>1. /\ stage' = "fault" /\ stage = "memory" /\ paging' = "on" /\ P!KernelReachable
    BY <1>9 DEF PageFault, pages, PagingInv
  <2>2. ASSUME B!Zeroed
        PROVE  TablesInHeap \/ \E v \in UsablePages : v >= P!GiB
    <3>1. PICK v \in UsablePages : P!MayFault(v)
      <4>1. CASE pc = "add" /\ i < Len(usable_map) /\ \E v \in HeaderPages : P!MayFault(v)
        BY <2>2, <4>1, HeaderPagesUsable
      <4>2. CASE i < Len(HeapPages) /\ P!MayFault(HeapPages[i + 1])
        BY <2>2, <4>2, HeapPagesUsable
      <4> QED BY <1>9, <4>1, <4>2 DEF PageFault
    <3> QED BY <2>1, <2>2, <3>1, HeapStays
  <2>3. P!GiB' = P!GiB
    BY DEF P!GiB
  <2> QED BY <1>0, <2>1, <2>2, <2>3 DEF StopsOnlyFor
<1>10. CASE TripleFault
  <2>1. paging = "on" /\ ("GBPAGES" \notin features \/ TablesInHeap \/ ~B!Zeroed)
    BY <1>10, KernelStays DEF TripleFault
  <2>2. stage' = "reset" /\ paging' = paging
    BY <1>10 DEF TripleFault, pages
  <2> QED BY <1>0, <2>1, <2>2 DEF StopsOnlyFor
<1>11. CASE RunWild
  <2>1. /\ written # {} /\ (B!Zeroed => UsablePages \cap KernelPages # {})
    BY <1>11 DEF RunWild, StageInv
  <2>2. mode = "long"
    BY <2>1 DEF StageInv
  <2>3. stage' = "wild" /\ mode' = mode
    BY <1>11 DEF RunWild, segments
  <2> QED BY <1>0, <2>1, <2>2, <2>3 DEF StopsOnlyFor
<1>12. CASE EarlyInterrupt
  <2>1. interrupt_flag /\ (mode = "protected" \/ paging = "check")
    BY <1>12 DEF EarlyInterrupt, StageInv
  <2>2. stage' = "reset" /\ paging' = paging /\ mode' = mode
    BY <1>12 DEF EarlyInterrupt, pages, segments
  <2> QED BY <1>0, <2>1, <2>2 DEF StopsOnlyFor
<1>13. CASE UNCHANGED vars
  <2>1. /\ stage' = stage /\ paging' = paging /\ mode' = mode /\ pc' = pc
        /\ map' = map /\ handed' = handed
    BY <1>13 DEF vars, pages, segments, memory_map
  <2>2. HeapPages' = HeapPages /\ P!GiB' = P!GiB
    BY <2>1 DEF HeapPages, P!GiB
  <2>3. OutOfPages => OutOfPages'
    BY <1>0, <2>1, <2>2 DEF OutOfPages, B!UsableUpTo, B!Usable
  <2> QED BY <1>0, <2>1, <2>2, <2>3 DEF StopsOnlyFor
<1> QED BY <1>2, <1>3, <1>4, <1>5, <1>6, <1>7, <1>8, <1>9, <1>10, <1>11, <1>12,
           <1>13 DEF Next

\* Every stop has one of the reasons: an error of the BIOS, a feature the CPU has
\* not, more entries than there is room for, too much or too little memory or
\* some in the wrong place, an interrupt that comes too early, a garbled
\* continuation value, or memory that was not zero; no map, BIOS or CPU leads
\* to a halt, a panic, a fault or a reset without.
THEOREM StartupStopsOnlyFor ==
    ASSUME MapsInReach
    PROVE  Spec => []StopsOnlyFor
<1> DEFINE Inv == StartupTyped /\ PagingInv /\ MapInv /\ StageInv /\ StopsOnlyFor
<1>1. Init => Inv
  <2>1. Init => StopsOnlyFor
    BY DEF Init, StopsOnlyFor
  <2> QED BY <2>1, TypedInit, PagingStart, MapStart, StageStart
<1>2. Inv /\ [Next]_vars => Inv'
  <2> SUFFICES ASSUME Inv, [Next]_vars PROVE Inv'
    OBVIOUS
  <2>1. StartupTyped'
    BY TypedNext
  <2>2. PagingInv'
    BY PagingNext
  <2>3. MapInv'
    BY MapNext, StepIsBoot DEF StartupTyped
  <2>4. StageInv'
    BY StageNext
  <2>5. StopsOnlyFor'
    BY StopsNext
  <2> QED BY <2>1, <2>2, <2>3, <2>4, <2>5
<1>3. Inv => StopsOnlyFor
  OBVIOUS
<1> QED BY <1>1, <1>2, <1>3, PTL DEF Spec

-----------------------------------------------------------------------------
(***************************************************************************)
(* Segments.                                                               *)
(***************************************************************************)

\* The segments of each mode are those of its table.
SegmentsInv ==
    /\ mode \in {"real", "protected", "long"}
    /\ mode # "real" => cs = 8 /\ ds = 16
    /\ mode = "protected" => gdtr = "GDT"
    /\ mode = "long" => gdtr \in {"GDT64", "gdt_descriptors"}
    /\ gdtr = "gdt_descriptors" => gdt_descriptors = D!KernelDescriptors

LEMMA BitOf ==
    ASSUME NEW n, NEW k \in 0 .. 29
    PROVE  k \in D!Bits(n) <=> (n \div 2 ^ k) % 2 = 1
BY DEF D!Bits

LEMMA BitOfQuad ==
    ASSUME NEW h, NEW l
    PROVE  /\ \A b \in 32 .. 61 : b \in D!Quad(h, l) <=> b - 32 \in D!Bits(h)
           /\ \A b \in 0 .. 31 : b \in D!Quad(h, l) <=> b \in D!Bits(l)
           /\ D!Quad(h, l) \subseteq 0 .. 61
<1>1. D!Bits(h) \subseteq 0 .. 29 /\ D!Bits(l) \subseteq 0 .. 29
  BY DEF D!Bits
<1>2. ASSUME NEW b \in 32 .. 61
      PROVE  b \in D!Quad(h, l) <=> b - 32 \in D!Bits(h)
  <2>1. b = 32 + (b - 32) /\ b \notin D!Bits(l)
    BY <1>1
  <2>2. \A k \in D!Bits(h) : b = 32 + k => k = b - 32
    BY <1>1
  <2> QED BY <2>1, <2>2 DEF D!Quad
<1>3. \A b \in 0 .. 31 : b \in D!Quad(h, l) <=> b \in D!Bits(l)
  BY <1>1 DEF D!Quad
<1>4. D!Quad(h, l) \subseteq 0 .. 61
  BY <1>1 DEF D!Quad
<1> QED BY <1>2, <1>3, <1>4

\* The two halves of GDT's entries.
LEMMA LowHalf == D!Bits(\hFFFF) = 0 .. 15
<1>1. /\ {0, 1, 2, 3, 4, 5, 6, 7} \subseteq D!Bits(\hFFFF)
      /\ {8, 9, 10, 11, 12, 13, 14, 15} \subseteq D!Bits(\hFFFF)
  BY BitOf
<1>2. {16, 17, 18, 19, 20, 21, 22} \cap D!Bits(\hFFFF) = {}
  BY BitOf
<1>3. {23, 24, 25, 26, 27, 28, 29} \cap D!Bits(\hFFFF) = {}
  BY BitOf
<1>4. D!Bits(\hFFFF) \subseteq 0 .. 29
  BY DEF D!Bits
<1> QED BY <1>1, <1>2, <1>3, <1>4

LEMMA CodeHalf ==
    /\ {9, 11, 12, 15, 16, 17, 18, 19, 22, 23} \subseteq D!Bits(\hCF9A00)
    /\ D!Bits(\hCF9A00) \cap {0, 1, 2, 3, 4, 5, 6, 7} = {}
    /\ D!Bits(\hCF9A00) \cap {21, 24, 25, 26, 27, 28, 29} = {}
<1>1. {9, 11, 12, 15, 16, 17, 18, 19, 22, 23} \subseteq D!Bits(\hCF9A00)
  BY BitOf
<1>2. D!Bits(\hCF9A00) \cap {0, 1, 2, 3, 4, 5, 6, 7} = {}
  BY BitOf
<1>3. D!Bits(\hCF9A00) \cap {21, 24, 25, 26, 27, 28, 29} = {}
  BY BitOf
<1> QED BY <1>1, <1>2, <1>3

LEMMA DataHalf ==
    /\ {9, 12, 15, 16, 17, 18, 19, 22, 23} \subseteq D!Bits(\hCF9200)
    /\ D!Bits(\hCF9200) \cap {0, 1, 2, 3, 4, 5, 6, 7} = {}
    /\ D!Bits(\hCF9200) \cap {11, 21, 24, 25, 26, 27, 28, 29} = {}
<1>1. {9, 12, 15, 16, 17, 18, 19, 22, 23} \subseteq D!Bits(\hCF9200)
  BY BitOf
<1>2. D!Bits(\hCF9200) \cap {0, 1, 2, 3, 4, 5, 6, 7} = {}
  BY BitOf
<1>3. D!Bits(\hCF9200) \cap {11, 21, 24, 25, 26, 27, 28, 29} = {}
  BY BitOf
<1> QED BY <1>1, <1>2, <1>3

\* A descriptor whose halves are those of a flat segment of 4 GiB.
LEMMA FlatQuad ==
    ASSUME NEW h, {16, 17, 18, 19, 22, 23} \subseteq D!Bits(h),
           D!Bits(h) \cap {0, 1, 2, 3, 4, 5, 6, 7, 24, 25, 26, 27, 28, 29} = {}
    PROVE  D!Flat(D!Quad(h, \hFFFF)) /\ D!Big(D!Quad(h, \hFFFF))
<1> DEFINE d == D!Quad(h, \hFFFF)
<1>1. \A b \in 32 .. 61 : b \in d <=> b - 32 \in D!Bits(h)
  BY BitOfQuad
<1>2. \A b \in 0 .. 31 : b \in d <=> b \in 0 .. 15
  BY BitOfQuad, LowHalf
<1>3. d \subseteq 0 .. 61
  BY BitOfQuad
<1> HIDE DEF d
<1>4. D!Base(d) = {}
  <2>1. \A b \in 16 .. 31 : b \notin d
    BY <1>2
  <2>2. \A b \in 32 .. 39 : b \notin d
    <3>1. \A b \in 32 .. 39 : b - 32 \in {0, 1, 2, 3, 4, 5, 6, 7} /\ b \in 32 .. 61
      OBVIOUS
    <3> QED BY <1>1, <3>1
  <2>3. \A b \in 56 .. 61 : b \notin d
    <3>1. \A b \in 56 .. 61 : b - 32 \in {24, 25, 26, 27, 28, 29} /\ b \in 32 .. 61
      OBVIOUS
    <3> QED BY <1>1, <3>1
  <2>4. \A b \in 16 .. 39 \cup 56 .. 63 : b \notin d
    BY <1>3, <2>1, <2>2, <2>3
  <2> QED BY <2>4 DEF D!Base
<1>5. D!Limit(d) = 0 .. 15 \cup 48 .. 51
  <2>1. \A b \in 0 .. 15 : b \in d
    BY <1>2
  <2>2. \A b \in 48 .. 51 : b \in d
    <3>1. \A b \in 48 .. 51 : b - 32 \in {16, 17, 18, 19} /\ b \in 32 .. 61
      OBVIOUS
    <3> QED BY <1>1, <3>1
  <2> QED BY <2>1, <2>2 DEF D!Limit
<1>6. 54 \in d /\ 55 \in d
  BY <1>1
<1> QED BY <1>4, <1>5, <1>6 DEF D!Flat, D!Big, D!Granular, d

LEMMA SegmentsOfGDT ==
    D!CodeFor("protected", D!GDT[1]) /\ D!DataFor("protected", D!GDT[2])
<1>1. D!GDT[1] = D!Quad(\hCF9A00, \hFFFF) /\ D!GDT[2] = D!Quad(\hCF9200, \hFFFF)
  BY DEF D!GDT
<1>2. D!CodeFor("protected", D!Quad(\hCF9A00, \hFFFF))
  <2> DEFINE d == D!Quad(\hCF9A00, \hFFFF)
  <2>1. \A b \in 32 .. 61 : b \in d <=> b - 32 \in D!Bits(\hCF9A00)
    BY BitOfQuad
  <2>2. D!Flat(d) /\ D!Big(d)
    BY CodeHalf, FlatQuad
  <2> HIDE DEF d
  <2>3. 43 \in d /\ 44 \in d /\ 47 \in d /\ 53 \notin d
    BY <2>1, CodeHalf
  <2> QED BY <2>2, <2>3 DEF D!CodeFor, D!Present, D!Executable, D!LongMode, d
<1>3. D!DataFor("protected", D!Quad(\hCF9200, \hFFFF))
  <2> DEFINE d == D!Quad(\hCF9200, \hFFFF)
  <2>1. \A b \in 32 .. 61 : b \in d <=> b - 32 \in D!Bits(\hCF9200)
    BY BitOfQuad
  <2>2. D!Flat(d) /\ D!Big(d)
    BY DataHalf, FlatQuad
  <2> HIDE DEF d
  <2>3. 41 \in d /\ 43 \notin d /\ 44 \in d /\ 47 \in d
    BY <2>1, DataHalf
  <2> QED BY <2>2, <2>3 DEF D!DataFor, D!Present, D!Executable, D!ReadWrite, d
<1> QED BY <1>1, <1>2, <1>3

LEMMA SegmentsOfGDT64 ==
    D!CodeFor("long", D!GDT64[1]) /\ D!DataFor("long", D!GDT64[2])
<1>1. D!GDT64[1] = D!Quad(\h209800, 0) /\ D!GDT64[2] = D!Quad(\h209200, 0)
  BY DEF D!GDT64
<1>2. /\ {11, 12, 15, 21} \subseteq D!Bits(\h209800) /\ 22 \notin D!Bits(\h209800)
      /\ {9, 12, 15} \subseteq D!Bits(\h209200) /\ 11 \notin D!Bits(\h209200)
  BY BitOf
<1>3. /\ \A b \in 32 .. 61 : b \in D!Quad(\h209800, 0) <=> b - 32 \in D!Bits(\h209800)
      /\ \A b \in 32 .. 61 : b \in D!Quad(\h209200, 0) <=> b - 32 \in D!Bits(\h209200)
  BY BitOfQuad
<1>4. {43, 44, 47, 53} \subseteq D!Quad(\h209800, 0) /\ 54 \notin D!Quad(\h209800, 0)
  BY <1>2, <1>3
<1>5. {41, 44, 47} \subseteq D!Quad(\h209200, 0) /\ 43 \notin D!Quad(\h209200, 0)
  BY <1>2, <1>3
<1> QED BY <1>1, <1>4, <1>5 DEF D!CodeFor, D!DataFor, D!Present, D!Executable,
           D!ReadWrite, D!LongMode, D!Big

\* Of an entry that was cleared, the access byte and the flags are those that
\* were given, wherever base and limit are 0 and 0xFFFFF.
LEMMA FilledBits ==
    ASSUME NEW access, NEW flags
    PROVE  /\ \A b \in 40 .. 47 :
                  b \in D!fill_gdt_descriptor_item({}, 0, \hFFFFF, access, flags)
                      <=> b - 40 \in D!Bits(access)
           /\ \A b \in 52 .. 55 :
                  b \in D!fill_gdt_descriptor_item({}, 0, \hFFFFF, access, flags)
                      <=> b - 52 \in D!Bits(flags % 16)
<1>1. ASSUME NEW num, NEW from \in Nat, NEW to \in Nat, NEW pattern, NEW b \in Nat
      PROVE  b \in D!set_several_bits(num, from, to, pattern)
                 <=> b \in num \/ (b \in from .. (to - 1) /\ b - from \in D!Bits(pattern))
  <2>1. D!Bits(pattern) \subseteq 0 .. 29
    BY DEF D!Bits
  <2>2. \A k \in D!Bits(pattern) \cap 0 .. (to - from - 1) :
           b = from + k => b - from = k /\ b \in from .. (to - 1)
    BY <2>1
  <2>3. b \in from .. (to - 1) =>
           b = from + (b - from) /\ b - from \in 0 .. (to - from - 1)
    OBVIOUS
  <2> QED BY <2>2, <2>3 DEF D!set_several_bits
<1> DEFINE d1 == D!set_several_bits({}, 0, 16, \hFFFFF % 65536)
           d2 == D!set_several_bits(d1, 16, 40, 0 % 16777216)
           d3 == D!set_several_bits(d2, 40, 48, access)
           d4 == D!set_several_bits(d3, 48, 52, (\hFFFFF \div 65536) % 16)
           d5 == D!set_several_bits(d4, 52, 56, flags % 16)
           d6 == D!set_several_bits(d5, 56, 64, (0 \div 16777216) % 256)
<1>2. D!fill_gdt_descriptor_item({}, 0, \hFFFFF, access, flags) = d6
  BY DEF D!fill_gdt_descriptor_item
<1>3. \A b \in 40 .. 63 : b \notin d1
  BY <1>1
<1>4. \A b \in 40 .. 63 : b \in d2 <=> b \in d1
  <2> HIDE DEF d1
  <2> QED BY <1>1
<1>5. \A b \in 40 .. 63 : b \in d3 <=>
         b \in d2 \/ (b \in 40 .. 47 /\ b - 40 \in D!Bits(access))
  <2> HIDE DEF d2
  <2> QED BY <1>1
<1>6. \A b \in 40 .. 63 : b \notin 48 .. 51 => (b \in d4 <=> b \in d3)
  <2> HIDE DEF d3
  <2> QED BY <1>1
<1>7. \A b \in 40 .. 63 : b \in d5 <=>
         b \in d4 \/ (b \in 52 .. 55 /\ b - 52 \in D!Bits(flags % 16))
  <2> HIDE DEF d4
  <2> QED BY <1>1
<1>8. \A b \in 40 .. 55 : b \in d6 <=> b \in d5
  <2> HIDE DEF d5
  <2> QED BY <1>1
<1> HIDE DEF d1, d2, d3, d4, d5, d6
<1> QED BY <1>2, <1>3, <1>4, <1>5, <1>6, <1>7, <1>8

LEMMA SegmentsOfKernel ==
    /\ D!CodeFor("long", D!KernelDescriptors[1])
    /\ D!DataFor("long", D!KernelDescriptors[2])
<1> DEFINE code == D!fill_gdt_descriptor_item({}, 0, \hFFFFF, \h9A, \hA)
           data == D!fill_gdt_descriptor_item({}, 0, \hFFFFF, \h92, \hA)
<1>1. D!KernelDescriptors[1] = code /\ D!KernelDescriptors[2] = data
  BY DEF D!KernelDescriptors, D!Cleared, D!CODE_SEGMENT, D!DATA_SEGMENT
<1>2. /\ {1, 3, 4, 7} \subseteq D!Bits(\h9A)
      /\ {1, 4, 7} \subseteq D!Bits(\h92) /\ 3 \notin D!Bits(\h92)
      /\ 1 \in D!Bits(\hA % 16) /\ 2 \notin D!Bits(\hA % 16)
  BY BitOf
<1>3. {43, 44, 47, 53} \subseteq code /\ 54 \notin code
  BY <1>2, FilledBits
<1>4. {41, 44, 47} \subseteq data /\ 43 \notin data
  BY <1>2, FilledBits
<1> HIDE DEF code, data
<1> QED BY <1>1, <1>3, <1>4 DEF D!CodeFor, D!DataFor, D!Present, D!Executable,
           D!ReadWrite, D!LongMode, D!Big

LEMMA SegmentsNext == SegmentsInv /\ [Next]_vars => SegmentsInv'
<1> SUFFICES ASSUME SegmentsInv, [Next]_vars PROVE SegmentsInv'
  OBVIOUS
<1>1. CASE EnterProtectedMode
  BY <1>1 DEF EnterProtectedMode, D!EnterProtectedMode, SegmentsInv
<1>2. CASE EnterLongMode
  BY <1>2 DEF EnterLongMode, D!EnterLongMode, SegmentsInv
<1>3. CASE GdtInit
  BY <1>3 DEF GdtInit, D!GdtInit, SegmentsInv, D!KernelDescriptors, D!Cleared,
     D!fill_gdt_descriptor_item, D!set_several_bits, D!Bits
<1>4. CASE UNCHANGED segments
  BY <1>4 DEF segments, SegmentsInv
<1>5. ~(EnterProtectedMode \/ EnterLongMode \/ GdtInit) => UNCHANGED segments
  BY DEF Next, E820, CpuTooOld, PagingInit, ReadMap, AddBlock, HeapTest,
     OutOfMemory, CliHlt, PageFault, TripleFault, RunWild, EarlyInterrupt, vars
<1> QED BY <1>1, <1>2, <1>3, <1>4, <1>5

\* In each mode the selectors refer to descriptors that suit it, through three
\* tables, the last of which the kernel fills bit by bit.
THEOREM StartupSegmentsSuitMode == Spec => []SegmentsSuitMode
<1>1. Init => SegmentsInv
  BY DEF Init, D!Init, SegmentsInv
<1>2. SegmentsInv => SegmentsSuitMode
  <2> SUFFICES ASSUME SegmentsInv, mode # "real"
               PROVE  D!CodeFor(mode, D!Loaded(cs)) /\ D!DataFor(mode, D!Loaded(ds))
    BY DEF SegmentsSuitMode, D!SegmentsSuitMode
  <2>1. cs \div 8 = 1 /\ ds \div 8 = 2
    BY DEF SegmentsInv
  <2>2. CASE mode = "protected"
    <3>1. D!Loaded(cs) = D!GDT[1] /\ D!Loaded(ds) = D!GDT[2]
      BY <2>1, <2>2 DEF SegmentsInv, D!Loaded
    <3> QED BY <2>2, <3>1, SegmentsOfGDT
  <2>3. CASE mode = "long" /\ gdtr = "GDT64"
    <3>1. D!Loaded(cs) = D!GDT64[1] /\ D!Loaded(ds) = D!GDT64[2]
      BY <2>1, <2>3 DEF D!Loaded
    <3> QED BY <2>3, <3>1, SegmentsOfGDT64
  <2>4. CASE mode = "long" /\ gdtr = "gdt_descriptors"
    <3>1. /\ D!Loaded(cs) = D!KernelDescriptors[1]
          /\ D!Loaded(ds) = D!KernelDescriptors[2]
      BY <2>1, <2>4 DEF SegmentsInv, D!Loaded
    <3> QED BY <2>4, <3>1, SegmentsOfKernel
  <2> QED BY <2>2, <2>3, <2>4 DEF SegmentsInv
<1> QED BY <1>1, <1>2, SegmentsNext, PTL DEF Spec
=============================================================================
