# A TLA+ development of the Relics kernel

Relics is a small x86-64 kernel (`root/orbit-kernel`) with a shell linked into
it (`root/libraryOSes/relics-libOS`). There is one CPU, one thread and no
scheduler: what runs concurrently is the thread and the interrupt handlers. This
directory holds TLA+ modules of its parts, TLC configurations that check them on
small instances, and theorems about them checked by TLAPS. Paths below are
relative to `root/orbit-kernel` unless they begin with `root/`.

## 1. Inventory

| Component | State | Operations | Module |
|---|---|---|---|
| Kernel heap, `util/malloc_freelist.c`, `linked_list.h` | headers in the managed memory, `free_list` | `kmalloc_init`, `malloc_addblock`, `kmalloc`, `kmalloc_infallible`, `kfree`, `defrag_free_list` | `LinkedHeap`, `MallocFreelist` |
| Keyboard input, `util/ps2_keyboard.c`, `kbd_irq_handler` in `util/idt.c`, `getchark` in `util/kio.c` | `most_recent_char`, `char_pressed_state`, four modifier flags | `to_character`, `add_most_recent_char`, `get_most_recent_char`, `getchark` | `Keyboard` |
| Timer and sleep, `util/pit.c`, `timer_handler` in `util/idt.c` | `enabled`, `countdown`, `timer_ticks`, the reload value of the PIT | `reprogram_timer`, `millisleep`, `timer_handler` | `Sleep`, in `Kernel` |
| Interrupt dispatch, `util/idt.c`, `util/isr.S`, `util/pic.c` | `idt`, `irq_handlers`, the registers of two PICs, the interrupt flag | `idt_init`, `PIC_enable`, `exception_handler`, `PIC_acknowledge`, the stubs | `Interrupts`, in `Kernel` |
| Text console, `util/kio.c` 12-160 | `vga_buffer`, `vga_index`, `next_line_index`, the video memory, the cursor | `init_vga`, `reset_video_memory`, `print_char`, `print_new_line`, `scroll_vga_buffer` | `Console` |
| Shell, `root/libraryOSes/relics-libOS/apps/shell.c` | `command_buf`, `i` | `relics_shell` and its built-in commands | `Shell` |
| Formatted output, `util/kio.c` 162-573, `util/irq.c` | the place in a format, `zero_pad` | `printk`, `log_printk`, `actual_print`, `lltoa`, `decimal_to_base`, `zero_extend_3`, ... | `Format`, `Printk` |
| Memory map, `asm/kernel_entry.S` 1-71, `util/e820.c`, `util/d/pmm.d` | the e820 map, `usable_map`, `total_length` | `e820_setup`, `get_mem_map`, `pmem_map` | `Boot`, in `Startup` |
| Paging, `asm/kernel_entry.S` 160-218, `util/paging.c`, `util/paging.S` | two sets of tables, CR3 | `setup_paging_64bit`, `paging_init`, `load_page_dir` | `Paging`, in `Startup` |
| Segments, `asm/kernel_entry.S`, `util/gdt.c`, `util/gdt.S` | three descriptor tables, the selectors | the switches of mode, `gdt_init`, `gdt_reload` | `Descriptors`, in `Startup` |
| Boot, `kernel.c`, the rest of `asm/kernel_entry.S` | the flag, the mode | `init_kernel` | `Startup`, `Kernel` |
| Panic, `util/panic.c` | none | `panic2` | a state of its callers |
| Strings and powers, `util/string.c`, `util/math.c`; `cpu.c`, `vga.c`, `keyboard.c`, `get_ascii_char.c`, `apploader.c`, `memory.c`, `syscall.c`, `bootloader.S`, D wrappers, C library headers | | | not modelled, see section 6 |

### How the components interact

* `init_kernel` prints, sets up console, GDT and interrupts, turns interrupts
  on, sets the timer to 1000 Hz, sleeps for a second, sets up paging, builds the
  heap from the e820 map (`pmem_map`), and calls `relics_shell`.  As the code
  stands `pmem_map` ends in `cli; hlt`, so the shell is not reached; the modules
  take each component from the state its caller would find.
* A device raises a line; the PICs deliver a vector; the gate runs a stub, the
  stub `exception_handler`, and that one of the handlers in `irq_handlers`.
* `timer_handler` shares `countdown` with `millisleep`, and `kbd_irq_handler`
  shares `most_recent_char` with `getchark`.  Neither side takes a lock or turns
  interrupts off; handlers run with interrupts off.
* The shell calls `getchark`, `printk` (hence the console) and, for `sleep`,
  `millisleep`.  Only `pmem_map` calls the heap.
* Boot, paging and heap meet in memory: the BIOS's map says where the heap is,
  the tables of `setup_paging_64bit` lie at 1 MiB and stay in use, the kernel
  lies below, and the heap writes its headers to wherever it was told.

### What is hard, and what makes each part correct

* Heap: header arithmetic in splits and merges, blocks unlinked from a ring of
  pointers while it is walked.  Blocks are disjoint, cover the regions and stay
  in them; both ways round the ring meet each free block once; what can be
  merged is merged.
* Keyboard: an interrupt between the load and the clear of the mailbox.  A
  reader gets typed characters, in order, none twice.
* Sleep: a tick between the test and the `hlt`; both sides write `countdown`.
  No sleep is too short in ticks, none is more than one tick late, all end.
* Interrupts: acknowledgements of two chained PICs, spurious requests, the order
  in which gates, vectors and masks are set up.  Nothing stays in service,
  handlers do not nest, the lines that are driven never stop the machine.
* Console: two indices that describe one place, and the line where scrolling
  starts.  The screen shows the text; writes stay on it.
* Shell: a buffer cleared by how far the last line came.  What runs is what was
  typed.
* Formatted output: a loop that steps back in its format, a flag that outlives
  its directive, numbers stored from the end of a buffer.  What is printed reads
  back, the loop ends and stays in its format.
* Memory map: three languages and two modes of the CPU that must agree on a
  table.  The heap gets what the BIOS calls usable.
* Paging and segments: tables built entry by entry, which the CPU reads in each
  mode in another way, in memory that is the heap's too.  What is mapped is
  mapped to itself; selectors refer to segments for the mode.

`PROJECT.json` lists the hazards one by one, each at its line.

## 2. Modules

Abstract specifications: `HeapSpec` (what callers of `kmalloc` and `kfree` are
promised), `InputSpec` (what the reader of the keyboard is promised).
Components: the modules named above. Compositions: `Kernel` (`Interrupts` and
`Sleep`), `Startup` (`Boot`, `Descriptors` and `Paging`). `InterruptLines`,
`TimerRequests`, `BiosMaps`, `AddressSpace` and `HeapRegions` declare the
constants a component shares with its composition or refinement, with their
assumptions. `MC*` modules give TLC its constants. `*Proofs` hold the theorems.

**LinkedHeap.**  `next` and `prev` are the pointers of `free_list` (`head`) and
of the headers; null is 0. The operations of `linked_list.h` are operators of
their names, `Visited` is what `list_for_each_entry` comes to. `block` and `temp`
are the locals of `defrag_free_list`: `temp` is read before `block` is unlinked.
The actions are those of `MallocFreelist`, which it refines with `free_list` as
the nodes visited and `pos` as the place of `block`, and through it `HeapSpec`.

**MallocFreelist.**  A block is the address of its header; `size` is the header
field, `free_list` the ring of nodes as a sequence of headers. `KmallocSplit`
and `KmallocWhole` are the two outcomes of a successful `kmalloc`; a `kmalloc`
that returns NULL changes nothing. A `kfree` is `Kfree` (the insertion) and then
one step per iteration of `defrag_free_list` (`DefragMerge`, `DefragAdvance`,
`DefragDone`). Sizes and addresses wrap at `WordMod`, 2^64 in the kernel. `req`,
what a caller asked for, is history; from it and from `Payload` comes the
refinement mapping to `HeapSpec`.

**Keyboard.**  `Interrupt(s)` is the whole of `kbd_irq_handler`, atomic because
handlers run with interrupts off. `Load` and `ClearAgain`/`ClearReturn` are the
two halves of `get_most_recent_char` inside the loop of `getchark`; the kernel
is built with `-O0`, so each is a load or a store. `typed` and `got`, what was
typed and what was returned, are history, and so are `fresh`, `tmp_fresh` and
`taken`, the places in `typed` of the characters in the mailbox, in `tmp` and
last returned.

**Sleep.**  `StartSleep` is the store of `millisleep`; `TestWait`, `TestReturn`
and `Halt` are its loop; `Tick` is `timer_handler`, `OtherIrq` any other
interrupt. `Tick` is possible once between two halts: a timer period (15 us at
the highest rate, 1 ms as used) is longer than the few instructions in between.
`ReprogramTimer` keeps the 16 bits of the reload value. `ReprogramTimerZero` is
a division by zero before the test: it traps (`-O0`) or has been moved. `ticks`
and `asked` are history.

**Interrupts.**  `irr`, `isr` and `imr` are the registers of both PICs, indexed
by line; `Ready` and `Blocked` are the fully nested priorities, `Spurious` a
request that vanishes. `Take` is the gate and the stub: a vector without a gate
is a general protection fault, for which the kernel halts. `exception_handler`
is `SpuriousCheck`, `PanicIrq`, or `CallHandler` and `Acknowledge`; `Iretq` is
the end of `idt_common_stub`. `InstalledGates` are what the two loops of
`idt_init` read from the two tables of `isr.S`, which have 31 and 15 entries.
The PICs and the CPU are external: modelled from the commands the code sends
them.

**Kernel.**  The thread of `init_kernel` from `idt_init` to `millisleep`, as a
composition: `I` is `Interrupts`, `T` is `Sleep`. A tick is a request on line 0
that must find its way to `timer_handler` (`TimerHandler` is `CallHandler` and
`Tick` in one), any interrupt ends a `hlt` (`WakeUp`), the thread runs only while
no handler does (`Thread`), and the division by zero is exception 0. `RaiseTimer`
is the assumption of `Sleep` about periods, stated of the request.

**Console.**  One action per branch of `print_char`. `stray` marks a step that
wrote outside the cells that are shown. `text`, the rows a reader should see, is
history, kept while the text is tidy: glyphs and new lines, the last line of the
screen never filled.

**Shell.**  A cell of `command_buf` is a character or one of the words that
commands begin with, so that lines stay short. `ReadKey`, `ReadNewLine`, `Wake`
and `Clear` are the parts of the loop of `relics_shell`. `line` and `ran` are
history.

**Format**, **Printk**. `Format` has the conversions of numbers as operators on
sequences of characters, with recursive functions for the digits; a cell that is
not stored is `Unset`. `Printk` is the loop of `actual_print`, one step per pass
or per jump to its label `format`, and `log_printk`'s time in front. `LongMod`
and `IntMod` are the widths of a `long long` and an `int`. `flagged` and
`printed` are history. What printk leaves to its callers is stated at the end:
formats that do not end within a `%l` (`FormatsEndWhole`), 0 flags only in front
of the directives that honour them (`FlagsHonoured`), no least long
(`NoLeastLong`), no whole second (`NoWholeSecond`).

**Boot**. `E820Entry`, `E820Carry` and `E820Error` are what the BIOS may answer
to a call of `e820_setup`; `PrintChar` is what the macro `print_char` does to
the continuation value. `GetMemMap`, `CopyUsable`, `AddLength` and `AddBlock` are
the loops of `get_mem_map`, `pmem_map` and `kmalloc_init`. The heap may answer
anything here. A machine (`Machines` of `BiosMaps`) is a BIOS and what was left in
registers and memory. `bios` is its map, `step` how far its continuation values are
apart, `errs` whether it may report an error, and `heeds` the registers it looks at
as a whole: `e820_setup` loads `bx` and `ax` only, so that the upper halves of
`ebx`, and of `eax` once `print_char` has put 0xb8000 there, are what they were
(`MovLow`, `PrintedEax`, `Heard`). `leftover` has these halves, the 16 bits behind
the stored count, and `usable_map`, `usable_map_len` and `total_length`: they are
in `.bss`, which is not in the image, and are 0 only as far as the 54 sectors that
`bootloader.S` reads reach beyond the kernel. `handed` is history. `UsableUpTo` says
that entries are picked from a map in its order, the usable ones and no other.
The properties measure by what the BIOS tells such a caller (`Told`: all of its
map, the first entry, or none), and by whether its continuation values have all
their bits in `bl` (`Survives`) and `usable_map_len` starts as 0 (`Zeroed`).

**Paging**.  Addresses count pages of 4 KiB, an entry is a frame and those of
its bits that the walk looks at (P and PS), a table the entries at the few
`Indices` that are looked at. `Walk` is what the CPU finds, `Reach` adds what the
TLB may still hold when the heap has written over a table; a header begins with
pointers to aligned addresses, so such an entry is not present. `LoadPageDir` is
`load_page_dir` as written: CR3 gets the first entry of the table.
`AddressSpace` assumes that addresses have 48 bits and that the kernel, its three
arrays of tables included, lies below 1 MiB, where `bootloader.S` loads it.

**Descriptors**.  A descriptor is the set of its bits, so that `set_several_bits`,
which only sets bits, is a union; the tables are those of the sources.
`SegmentsSuitMode` reads them as the CPU does in each mode.

**Startup**.  `stage` orders the actions of `Boot`, `Descriptors` and `Paging` as
`kernel_entry.S` and `init_kernel` do. `AddBlock` and `HeapTest` write to the
pages the heap was given. `PageFault`, `TripleFault`, `RunWild` and
`EarlyInterrupt` are what the CPU does when the heap's page, the kernel's page, the
kernel's code or the interrupt table is not what it should be. What `init_kernel`
does between `gdt_init` and `paging_init` is `Kernel`.

## 3. Runs

Every property of a passing run is also run against a mutant, an operator marked
"Mutant" before the definition it replaces, to show that the property fails for
a plausible fault.

| Run | Bounds | Shows |
|---|---|---|
| HeapRuns | two regions as `pmem_map` hands them over: 107 bytes from address 0 and 172 from 116; requests 0, 6, 24, 40 | type, ring, disjointness, the regions are filled, exact list, grants, what the pass merges, refinement of `MallocFreelist` and of `HeapSpec`, `kfree` returns |
| KeyboardRuns | six scan codes (a key, its release, caps lock, shift, its release, another key), four interrupts | refinement of `InputSpec`; a character left by a quiet keyboard is returned |
| KernelRuns | lines 0, 1, 7, 8; spurious 7, 15; exceptions 0, 13; rates 1000 and 0; sleeps of 0, 1, 3 | sleeps are neither early nor two ticks late and return; nothing stays in service; no nesting; what the machine can die of; the driven lines 0, 1 and 7 are served unless it has died |
| ConsoleText | 3 x 3 cells, tab of 2 | the screen shows the text, the indices agree, nothing is written behind the screen |
| PrintkRuns | all formats of up to four of six characters, and one for each other directive; words of two bytes | the loop ends and stays in its format; numbers and times read back; padding follows the flag |
| StartupRuns | maps of up to four entries of four kinds, where two are allowed and three fit, on two BIOSes; three short maps on BIOSes with every combination of registers heeded, steps 1, 100, 256, 300 and 65536, with and without errors, and six kinds of leftovers; maps that do not fit with each step; CPUs that lack at most one feature; interrupts on or off | the heap gets the usable entries that are told; a map that is too long is refused; segments suit the mode; what is mapped is mapped to itself; the machine stops, and each stop has one of the reasons named |
| ShellRuns | 5 cells, nine keys | what runs is what was typed; the prompt comes back |

Why the bounds are enough. The larger region holds four blocks, so a block is
freed between two free ones, at either end, and between used ones, and the heap
runs full; the gap between the regions must never be merged over. The regions
ascend and the first begins at 0, as in the map of a PC, so that both exceptions
of `PassMerges` happen: blocks of the lower region behind those of the higher, and
a free block at 0. Four scan
codes let a character arrive, be overwritten, and arrive again around one load
and clear, under each combination of shift and caps lock that one key needs. A
sleep's phases differ in whether the last tick falls before the test, between
test and `hlt`, or after it; three ticks pass each. The lines have every kind of
handler, the last line of the first PIC and the first of the second among them. Three lines of three cells reach the first, a
middle and the last line, and scrolling repeats itself from there. Formats of
four characters hold two directives, or one with a flag and what follows it, and
end after each prefix of a directive. Maps run from none to one more than fits; their entries lie below the kernel's
end, over the page tables and across 1 GiB, or are reserved. The steps give
continuation values in `bl`, with bits in `bh`, in `bh` only, and beyond `bx`.
In five cells a line can be longer and shorter than the one before by up to
four. `MaxIndex` and `MaxLine` stop `Console` once it has left the screen;
`MaxScans` bounds the interrupts of `Keyboard`; `TickMod` is the wrap of
`timer_ticks` (2^64) made small.

`CHECK_DEADLOCK FALSE` stands where the code stops: after `panic2`, after the
halt of a fault, after the shell has returned.

### Disagreements between the code and its comments

| Run | What the code does |
|---|---|
| HeapTwoRegionsCoalesce | regions are put in front of each other, so with two that ascend, as in an e820 map, the list descends and free neighbours stay apart |
| KeyboardGrabs | a character that comes in between load and clear is lost |
| InterruptsSpurious15 | `exception_handler` returns for vector 47, and `isr.S` has a stub for it, but it has no gate: a spurious request on line 15 is the end of the machine |
| LogWholeSecond | the time of a line logged at a whole second, 0 included, lacks its last digit |
| PagingLoadsEntry | `load_page_dir` loads the first entry of the table into CR3, not its address: the tables of `paging_init` are never used, and the machine goes on with those of the boot code, one level too deep |

The modules show a few more limits, which have no run of their own. They are
where an assumption or the domain of a property ends:

* a block at address 0 counts as no block in `defrag_free_list` and is never
  merged with the one behind it (`Adjacent`, `PassMerges`);
* a region smaller than its padding and one header gets a size that has wrapped
  (`AddedSize`; assumption `RegionsHoldHeader`);
* a split leaves blocks smaller than the 32 bytes `MIN_ALLOC_SZ` suggests in
  use, for it tests the rest and never the request (`CanSplit`);
* `reprogram_timer(0)` divides by 0 before it tests for it (`ReprogramTimerZero`);
* below 19 Hz the divisor is cut to 16 bits: 18 Hz is 1588 Hz (`Divisor`;
  the only caller asks for 1000);
* a glyph that fills the last line does not scroll, and the next one is stored
  behind the screen (`FillsScreen`);
* a backspace at index 0 makes `vga_index` 65535 (`Console`; such a step leaves
  the text untidy, which `ShowsText` and `IndicesAgree` exclude);
* 1000 ticks of 1193 clocks are 0.14 ms less than a second: `NotEarly` counts
  ticks, not time;
* on a stack that is not zero the shell reports an unknown first line together
  with what the stack held (`Garbage` of `Shell`);
* `lltoa` of the most negative number stores in front of its buffer (`Overruns`);
* a 0 flag before a directive that is not unsigned pads the next unsigned one,
  and a flagged octal 0 prints nothing (`FlagsOnUnsigned`, `PadTo`);
* a format that ends in `%l` or `%ll` is read past its end (`LongDirective`, `EndsWhole`);
* a map of more than 115 entries overwrites the loop that reads it
  (`E820Overwrites`);
* a continuation value with bits beyond `bl` is garbled between two calls
  (`PrintChar`): the map is cut short, or entries repeat, until they reach the
  code if the value comes round to an earlier one;
* "initial call needs this set to zero" (`asm/kernel_entry.S:26`) is done for 16 of
  the 32 bits, and the function number is loaded into `ax` only: a BIOS that looks
  at the whole of `ebx` may take the first call for no first call, one that looks at
  the whole of `eax` knows no function 0xBE820 after the first `print_char`, and
  the heap gets nothing, or what is in the first entry (`Told`);
* bits behind the stored count make any map one with too many entries (`Count`), and
  a `usable_map_len` that is not 0 gives the heap what is in the array, or has
  entries stored off it (`CopyOverwrites`);
* after `paging_init` the machine depends on pages of 1 GiB: without them the
  next instruction faults, with no table for a handler (`StopsOnlyFor`);
* usable memory at 1 MiB, as every PC has it, makes the heap overwrite the page
  tables in use; usable memory from 1 GiB on is not mapped (`StopsOnlyFor`);
* interrupts stay as the BIOS left them through both switches of mode
  (`EarlyInterrupt`).

Reading the parts that are not modelled showed a few more:
`remaining_features` looks up the names of EDX's bits in ECX (`util/cpu.c:242`);
`check_cpuid` and `check_long_mode` halt with interrupts as they were, so that an
interrupt would run on behind the `hlt` (`asm/kernel_entry.S:138`, `:155`).

## 4. Fairness

HeapRuns: weak fairness of the pass of `kfree` (straight-line code, interrupts
return). Keyboard: weak fairness of `getchark`'s steps; nothing is assumed of
the keyboard. Kernel: weak fairness of boot and handlers, and of `RaiseTimer`, the
PIT being free-running; strong fairness of the loop of `millisleep`, which goes on
whenever no handler runs, and of delivering each of `DrivenLines`, since the CPU
masks and unmasks interrupts around each handler and delivery is enabled again
and again; and `Lull`, that lines ahead of another are not requested back to back
for ever, for a handler takes microseconds and the timer's period is a
millisecond. Without it a line of low priority need not be served. `LinesServed`
and `SleepReturns` allow that the machine has died first, of a line nobody drives
or of an exception. Shell: weak fairness of `Wake` (`SleepReturns` of `Kernel`)
and `Clear`; nobody has to type. Printk and Startup: weak fairness of `Next`,
straight-line code.

## 5. Proofs

| Module | Theorems | Argument |
|---|---|---|
| `MallocFreelistProofs` | `HeapInvariant`, `TypeCorrect`, `BlocksPartitionHeap`, `FreeListExact`, `GrantsAreEnough`, `HeapKeepsPromise`, `PassMergesAll` | `HeapInv` adds to the properties that headers are aligned (or a split could produce an unaligned address) and where the pass stands (`last_block` is the entry before `pos`, or a merge could take in any block). Each `kmalloc` is an `Alloc` of `HeapSpec`, each `kfree` a `Free`, all else a stutter. For `PassMergesAll`, `OrderInv` says that a block behind a higher one ends where its region ends, and that, as far as the pass has come, no block abuts the next but one at address 0 |
| `LinkedHeapProofs` | `LinkedInvariant`, `PointersKeepList`, `PointersTyped`, `RingsClose`, `LinkedBlocksAreDisjoint`, `LinkedBlocksFillRegions`, `RingIsExact`, `LinkedGrantsAreEnough`, `LinkedHeapKeepsPromise`, `LinkedPassMerges` | the pointers are a ring that visits the entries of some sequence, both ways round; each operation of `linked_list.h` keeps them the ring of the sequence with an entry inserted, removed or replaced; a walk along a ring of a sequence visits just that. So each step is one of `MallocFreelist` on the nodes visited, and its theorems hold of the pointers |
| `KeyboardProofs` | `KeyboardInvariant`, `KeyboardTypeCorrect`, `ReaderKeepsPromise` | what is in the mailbox, or loaded and not yet returned, is a typed character the reader is not past; this is what a refinement step needs |
| `KernelProofs` | `InterruptsInvariant`, `InterruptsTypeCorrect`, `ServicesEnd`, `NoNesting`, `DrivenLinesAreSafe`, `SleepInvariant`, `KernelIsInterrupts`, `KernelIsSleep`, `KernelTypeCorrect`, `KernelCountsDown`, `KernelSleepsEnough`, `KernelSleepsNoLonger`, `KernelServicesEnd`, `KernelNoNesting`, `KernelDrivenLinesAreSafe` | of `Interrupts`: at most one frame, with interrupts off, and in service is at most the line it was entered for and the cascade. Each step of the composed kernel is a step of `Interrupts`, or none, and a step of `Sleep`, or none; so what holds of the parts holds of the whole. For the sleeper, `Lateness` says at each place of the loop how many ticks may have come: only a halted one sees one too many |
| `ConsoleProofs` | `ConsoleTypeCorrect`, `ConsoleIndicesAgree`, `ConsoleShowsText` | `ConsoleInv`: a tidy text has at most as many rows as the screen and its last is never full; it determines both indices and every cell, found by quotient and remainder. A glyph changes the cell at `vga_index` and no other, a new line none, scrolling moves each row up one and blanks the last |
| `ShellProofs` | `ShellStaysInBuffer`, `ShellRunsLines` | `i` stops at the last cell; the buffer is the line followed by zeroes |
| `PrintkProofs` | `PrintkTypeCorrect`, `PrintkPads`, `PrintkReadsBack`, `PrintkTimeReadsBack`, `PrintkStepsLeft` | `Placed`: in a directive the loop is behind a % and its 0 flags, so that a format that ends whole is not left. `Pads`: `zero_pad` is the flag of the directive the loop is in, and false between directives. The digits are those of a recursive definition, the last one split off each time: by induction on the number they read back, begin with no 0, and are no more than the padded width (four decimal digits take off at least 13 bits), which keeps them in their buffer. `StepsLeft`, three times what is left of the format and one or two for the place in the loop, goes down with each step |
| `StartupProofs` | `StartupTypeCorrect`, `StartupMapsIdentity`, `StartupHeapGetsUsable`, `StartupRefusesTooMany`, `StartupStopsOnlyFor`, `StartupSegmentsSuitMode` | `MapInv` has three parts. `ToldInv`: where continuation values survive, the entries in memory are the first of those told, and the register names the next (`Calling`). `CopiesInv`: what is copied is the usable part of these, what is handed on is what was copied, and none of it is anything but an entry of the BIOS. `RefusedInv`: of too many entries none is copied. `PagingInv`: the tables of the boot code stay as they are until the heap writes to them, and each way through them ends where it began or nowhere. `StageInv`: how far modes and tables have come at each stage, and that the heap writes only to usable memory; with these each step into a stop gives its reason. `SegmentsInv`: the selectors belong to the table of the mode; the segments of the three tables are worked out bit by bit |

Assumptions. The theorems on heaps assume `RegionsHoldHeader` (section 3 says why)
and, where grants are concerned, `RequestsFit`: no request is within 7 of 2^64,
or `align_up` wraps to 0; no caller makes one. Constants are assumed to be
machine words, and regions disjoint and clear of the top of the address space,
as an e820 map is. `PassMergesAll` and `LinkedPassMerges`
assume nothing of the order of the regions; `HeapTwoRegionsCoalesce` shows that
without the exceptions their property makes it would be false.
`LinkedHeapProofs` assumes `HeadApart`: `free_list`, a variable of the kernel,
is not in memory the heap was given. (On a machine whose map gives away the
memory of the kernel this is the hazard that `StopsOnlyFor` names.)
`KernelProofs` assumes that the timer is on line 0, and that
a division by zero is among the exceptions if a rate of 0 is asked for.
`ShellRunsLines` assumes a stack of zeroes, `ShellStaysInBuffer` nothing.
`ConsoleProofs` assumes only that the screen has two lines or more and that its
cells can be counted in 16 bits.

Of the theorems in `StartupProofs`, all but one need no hypothesis beyond the
assumptions on constants: they hold for every map, whatever registers the BIOS
heeds and whatever these and memory held; `HeapGetsUsable` itself is about a
`usable_map_len` that was 0. (`BiosAssumption` says of a BIOS that
looks at `bx` only that its continuation values have 16 bits.)
`StartupStopsOnlyFor` assumes `MapsInReach`, that no usable entry is empty or
beyond 48 bits, which TLC finds true of the machines of
`StartupRuns`. No other assumption is made; the theorems hold for every number
of regions, requests, lines, keys, entries, CPUs, pages, formats and arguments.

Of the theorems in `PrintkProofs`, types and the bound on steps assume
`FormatsEndWhole`, padding besides `FlagsHonoured`, numbers besides these
`NoLeastLong`, and times only `NoWholeSecond`. The formats the kernel's sources
pass meet the first two, and so do those of `PrintkRuns`, by definition of
`ShortFormats`; `LogWholeSecond` shows that the last cannot be dropped, section
3 what happens without the others. Widths are assumed to be powers of 2 of at
most 64 bits (`LongAssumption`, `IntAssumption`), an `int` no wider than a
`long long`: the buffers have 64 characters.

The theorems about `MallocFreelist`, `Sleep` and `Interrupts` are about those
modules. The runs check the same properties where the modules are used: `HeapRuns`
through the mapping of `LinkedHeap`, `KernelRuns` in the composition;
`LinkedHeapProofs` and the second half of `KernelProofs` carry the theorems over
to these.

A recursive function is unfolded with the well-foundedness of `<` on `Nat`: a
place where a statement first fails would have one before it. So it is proved
where the walk of `LinkedHeap` ends and what `FlattenSeq` collects in `Startup`.
`PrintkProofs` states it once (`Recursion`) for definitions in which the
value at `n` is made from that at a smaller number, such as `n \div 10`, and
unfolds `PowerOf2`, `LowDigits` and `Value` with it.
`SelectSeq` is defined in a way the provers cannot use; hence `UsableUpTo`.

Every invariant and action property of a passing run is stated by a theorem. Only model-checked:
the liveness properties `FreeReturns`, `QuietDelivered`, `SleepReturns`,
`LinesServed`, `Ends` and `PromptComesBack`. (Of `Ends`, `PrintkStepsLeft` proves
the bound: a call has finitely many steps. That it takes them is fairness.)
Liveness under fairness, `ENABLED` and `RECURSIVE` operators are outside what the
installed provers can do; no module here declares a `RECURSIVE` operator.

## 6. Not modelled

* `util/apploader.c`, `util/memory.c`, `print_double`: compiled out.
* `util/vga.c`, `util/keyboard.c`, `util/get_ascii_char.c`, `sys/syscall.c`,
  `IRQ_set_mask`, `PIC_disable` and the register reads of `util/pic.c`: nothing
  that runs calls them.
* `util/string.c`, `util/math.c`: pure functions; what runs of them compares and
  copies short constants, and fills tables (part of the actions that call them).
* `util/cpu.c`: reads CPUID and prints names, without a branch that another part
  depends on. What `paging_init` asks of CPUID is in `Paging`.
* `asm/bootloader.S`: straight-line BIOS calls before there is any state.
* `util/port_functions.c`, `util/panic.c`, D wrappers: one instruction, one print,
  or one call each; part of the actions that use them.
* The C library headers and `eklibc`: declarations and stubs.
* Colours, the shape of the cursor, what `%c` and `%s` print, the wording of
  messages.

## 7. Plan

What is left: `Keyboard` and `Shell` inside `Kernel`, so that keys are pressed
while a `sleep` typed at the prompt runs.
