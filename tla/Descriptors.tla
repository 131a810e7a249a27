----------------------------- MODULE Descriptors -----------------------------
(***************************************************************************)
(* The segments the CPU runs with, through three descriptor tables: GDT    *)
(* and GDT64 of asm/kernel_entry.S, and the array gdt_descriptors that     *)
(* gdt_init (util/gdt.c) fills and gdt_reload (util/gdt.S) loads.          *)
(*                                                                         *)
(* A descriptor is the set of its bits that are 1.  Of the 8192 entries of *)
(* gdt_descriptors the first three are used.                               *)
(***************************************************************************)
EXTENDS Integers

VARIABLES
    gdtr,               \* the table in use: "bios", "GDT", "GDT64" or
                        \* "gdt_descriptors"
    mode,               \* of the CPU: "real", "protected" or "long"
    cs, ds,             \* the selectors
    gdt_descriptors

vars == <<gdtr, mode, cs, ds, gdt_descriptors>>

-----------------------------------------------------------------------------
\* The bits of a number of up to 30 bits.
Bits(n) == {k \in 0 .. 29 : (n \div 2 ^ k) % 2 = 1}

\* A table entry written as its two halves.
Quad(high, low) == {32 + k : k \in Bits(high)} \cup Bits(low)

GDT == [i \in 0 .. 2 |->
    CASE i = 0 -> {}
      [] i = 1 -> Quad(\hCF9A00, \hFFFF)
      [] i = 2 -> Quad(\hCF9200, \hFFFF)]

GDT64 == [i \in 0 .. 2 |->
    CASE i = 0 -> {}
      [] i = 1 -> Quad(\h209800, 0)
      [] i = 2 -> Quad(\h209200, 0)]

\* Only sets bits: what num has set stays set.
set_several_bits(num, from, to, pattern) ==
    num \cup {from + k : k \in Bits(pattern) \cap 0 .. (to - from - 1)}

\* fill_gdt_descriptor_item, into an entry that holds d.
fill_gdt_descriptor_item(d, base, limit, access, flags) ==
    LET d1 == set_several_bits(d, 0, 16, limit % 65536)
        d2 == set_several_bits(d1, 16, 40, base % 16777216)
        d3 == set_several_bits(d2, 40, 48, access)
        d4 == set_several_bits(d3, 48, 52, (limit \div 65536) % 16)
        d5 == set_several_bits(d4, 52, 56, flags % 16)
    IN set_several_bits(d5, 56, 64, (base \div 16777216) % 256)

\* Mutant: the memory is used as it was found.
NotCleared == gdt_descriptors

\* memset.  It stops a byte short of the end, in the last of 8192 entries.
Cleared == [i \in 0 .. 2 |-> {}]

\* 4 KiB granularity, 64 bits.
CODE_SEGMENT == \hA
DATA_SEGMENT == \hA

\* The calls of gdt_init: present, code or data, executable or not, read-write.
KernelDescriptors ==
    [i \in 0 .. 2 |->
        CASE i = 0 -> fill_gdt_descriptor_item(Cleared[0], 0, 0, 0, 0)
          [] i = 1 -> fill_gdt_descriptor_item(Cleared[1], 0, \hFFFFF, \h9A, CODE_SEGMENT)
          [] i = 2 -> fill_gdt_descriptor_item(Cleared[2], 0, \hFFFFF, \h92, DATA_SEGMENT)]

-----------------------------------------------------------------------------
\* The array lies behind what the boot sector loads, in memory of any content.
Init ==
    /\ gdtr = "bios" /\ mode = "real" /\ cs = 0 /\ ds = 0
    /\ gdt_descriptors \in {[i \in 0 .. 2 |-> {}], [i \in 0 .. 2 |-> 0 .. 63]}

\* lgdt [GDT_PTR], CR0, the far jump, and the data segments.
EnterProtectedMode ==
    /\ mode = "real"
    /\ mode' = "protected" /\ gdtr' = "GDT"
    /\ cs' = 8 /\ ds' = 16
    /\ UNCHANGED gdt_descriptors

\* lgdt [.GDT64_PTR], the far jump that follows CR0, and the data segments.
EnterLongMode ==
    /\ mode = "protected"
    /\ mode' = "long" /\ gdtr' = "GDT64"
    /\ cs' = 8 /\ ds' = 16
    /\ UNCHANGED gdt_descriptors

\* gdt_init, with gdt_reload.
GdtInit ==
    /\ mode = "long" /\ gdtr = "GDT64"
    /\ gdt_descriptors' = KernelDescriptors
    /\ gdtr' = "gdt_descriptors"
    /\ cs' = 8 /\ ds' = 16
    /\ UNCHANGED mode

-----------------------------------------------------------------------------
\* What the CPU reads in a descriptor.
Limit(d) == d \cap (0 .. 15 \cup 48 .. 51)
Base(d) == d \cap (16 .. 39 \cup 56 .. 63)
Present(d) == {44, 47} \subseteq d          \* and no system segment
Executable(d) == 43 \in d
ReadWrite(d) == 41 \in d
LongMode(d) == 53 \in d
Big(d) == 54 \in d
Granular(d) == 55 \in d

\* All of the 4 GiB that 32 bits reach.
Flat(d) == Base(d) = {} /\ Limit(d) = (0 .. 15 \cup 48 .. 51) /\ Granular(d)

\* The CPU reads base and limit in protected mode, and the kind of the code in
\* either.
CodeFor(m, d) ==
    /\ Present(d) /\ Executable(d)
    /\ m = "long" => LongMode(d) /\ ~Big(d)
    /\ m = "protected" => ~LongMode(d) /\ Big(d) /\ Flat(d)

DataFor(m, d) ==
    /\ Present(d) /\ ~Executable(d) /\ ReadWrite(d)
    /\ m = "protected" => Big(d) /\ Flat(d)

Loaded(selector) ==
    CASE gdtr = "GDT" -> GDT[selector \div 8]
      [] gdtr = "GDT64" -> GDT64[selector \div 8]
      [] gdtr = "gdt_descriptors" -> gdt_descriptors[selector \div 8]

\* The selectors the CPU runs with refer, in the table that is loaded, to code
\* and data for the mode it is in: from then on every interrupt gate, with
\* selector 8, and every return from it go through that table again.
SegmentsSuitMode ==
    mode # "real" => CodeFor(mode, Loaded(cs)) /\ DataFor(mode, Loaded(ds))
=============================================================================
