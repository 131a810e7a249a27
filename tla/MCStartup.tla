------------------------------ MODULE MCStartup ------------------------------
(***************************************************************************)
(* Machines for TLC.  Memory maps are all of up to four entries of four    *)
(* kinds, one more than there is room for; lengths are a few pages, so     *)
(* that the heap comes from one region to the next.                        *)
(***************************************************************************)
EXTENDS Startup

Entries ==
    {[base |-> 0, length |-> 2, type |-> 1],        \* with the kernel
     [base |-> 160, length |-> 96, type |-> 2],     \* reserved
     [base |-> 256, length |-> 3, type |-> 1],      \* with the page tables
     [base |-> 262143, length |-> 2, type |-> 1]}   \* up to and over 1 GiB

ShortMaps == UNION {[1 .. n -> Entries] : n \in 0 .. 4}

\* A map as an emulator has it.
UsualMap ==
    <<[base |-> 0, length |-> 2, type |-> 1], [base |-> 160, length |-> 96, type |-> 2],
      [base |-> 256, length |-> 3, type |-> 1]>>

\* Memory where nothing else is.
Free == [base |-> 4096, length |-> 1, type |-> 1]

\* Nothing is left over, or it does not matter to what follows.
Clean == [count |-> 0, eax |-> 0, ebx |-> 0, map |-> << >>, total |-> 0]

\* BIOSes that make the least trouble, with every short map: one that counts
\* entries in bx, and one that continues at an offset in ebx.
Tame ==
    UNION {{[bios |-> b, step |-> 1, heeds |-> {}, errs |-> FALSE,
             leftover |-> [Clean EXCEPT !.eax = 1, !.ebx = 1]],
            [bios |-> b, step |-> 60, heeds |-> {"ebx"}, errs |-> FALSE,
             leftover |-> Clean]} : b \in ShortMaps}

\* What else may be left: bits behind the count, in a register, in pmm.d, where
\* usable_map_len may be off the array.
Leftovers ==
    {Clean,
     [Clean EXCEPT !.count = 1],
     [Clean EXCEPT !.eax = 1],
     [Clean EXCEPT !.ebx = 1],
     [Clean EXCEPT !.map = <<UsualMap[3]>>, !.total = 65535],
     [Clean EXCEPT !.map = <<Free, [Free EXCEPT !.base = 262144], Free>>]}

\* Continuation values in bl, across bl and bh, in bh, and beyond bx.
Steps == {1, 100, 256, 300, 65536}

Heedless == {m \in [bios : {UsualMap, <<UsualMap[1], UsualMap[3]>>, <<Free, Free>>}, step : Steps,
                    heeds : SUBSET {"eax", "ebx"}, errs : BOOLEAN, leftover : Leftovers] :
                "ebx" \in m.heeds \/ m.step < 65536}

\* More entries than fit, of a BIOS that reports errors.
Overfull == {[bios |-> <<UsualMap[1], UsualMap[2], UsualMap[3], UsualMap[2]>>, step |-> s,
              heeds |-> {"ebx"}, errs |-> TRUE, leftover |-> Clean] : s \in Steps}

ManyMachines == Tame \cup Heedless \cup Overfull

UsualMachine == {[bios |-> UsualMap, step |-> 1, heeds |-> {}, errs |-> FALSE,
                  leftover |-> Clean]}

\* Code and screen of the kernel.
CodeAndScreen == {1, 184}

LookedAt == {0, 1, 184, 256, 257, 258, 4096, 262143, 262144}

FirstEntries == {0, 1, 8, 511}

Full == {"CPUID", "LM", "PAT", "PSE", "GBPAGES"}

\* A CPU with everything, and those that lack one of the features.
FullOnly == {Full}
AllButOne == {Full} \cup {Full \ {f} : f \in Full}
=============================================================================
