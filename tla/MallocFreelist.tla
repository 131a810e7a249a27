--------------------------- MODULE MallocFreelist ---------------------------
(***************************************************************************)
(* The kernel heap of util/malloc_freelist.c: an address-ordered free list *)
(* of blocks, each with a 24-byte header, first fit, splitting, and a      *)
(* coalescing pass over the whole list after every kfree.                  *)
(*                                                                         *)
(* A block is named by the address of its header.  The ring of node.next   *)
(* and node.prev pointers is the sequence of headers it links.  Each       *)
(* iteration of defrag_free_list is a step, so that what the pass does can *)
(* be stated while it runs; nothing else runs meanwhile, because the heap  *)
(* is only called from the single kernel thread.                           *)
(***************************************************************************)
EXTENDS HeapRegions, SequencesExt

VARIABLES
    size,         \* header of a block |-> its size field
    free_list,    \* the headers linked from free_list, first to last
    req,          \* header of a block held by a caller |-> bytes asked for
    pc,           \* "init", "idle", "defrag" or "panic"
    added,        \* i of kmalloc_init: regions added so far
    last_block,   \* last_block of defrag_free_list
    pos           \* position in free_list of block of defrag_free_list

vars == <<size, free_list, req, pc, added, last_block, pos>>

-----------------------------------------------------------------------------
NULL == 0
ALLOC_HEADER_SZ == 24
MIN_ALLOC_SZ == ALLOC_HEADER_SZ + 32

SizeT(x) == x % WordMod

\* Mutant: rounds down.
AlignDown(n) == n - (n % 8)

\* align_up(num, sizeof(void *)), in size_t arithmetic.
AlignUp(n) == SizeT(n + 7) - (SizeT(n + 7) % 8)

Blocks == DOMAIN size
Live == DOMAIN req
FreeBlocks == ToSet(free_list)

Payload(b) == b + ALLOC_HEADER_SZ
End(b) == Payload(b) + size[b]
Extent(b) == b .. (End(b) - 1)

\* malloc_addblock: the header goes behind the alignment padding.
RegionStart(i) == AlignUp(Regions[i].base)

RegionBytes(i) == RegionStart(i) .. (RegionEnd(i) - 1)

HeapBytes(n) == UNION {RegionBytes(i) : i \in 1 .. n}

\* A region must hold its padding and one header, or the size underflows.
RegionsHoldHeader ==
    \A i \in 1 .. Len(Regions) :
        RegionStart(i) + ALLOC_HEADER_SZ <= RegionEnd(i)

\* Nobody asks for so much that align_up wraps to a small number.
RequestsFit == \A n \in Requests : n + 7 < WordMod

WithSize(b, s) ==
    [x \in Blocks \cup {b} |-> IF x = b THEN s ELSE size[x]]

WithReq(b, n) ==
    [x \in Live \cup {b} |-> IF x = b THEN n ELSE req[x]]

-----------------------------------------------------------------------------
\* Mutant: the header is not taken off.
AddedSizeWithHeader(i) == SizeT(RegionEnd(i) - RegionStart(i))

\* malloc_addblock: what is left of the region after padding and header.
AddedSize(i) == SizeT(RegionEnd(i) - RegionStart(i) - ALLOC_HEADER_SZ)

\* Mutant: the header counts as room.
FirstFitWithHeader(i, n) ==
    /\ i \in 1 .. Len(free_list)
    /\ size[free_list[i]] + ALLOC_HEADER_SZ >= n
    /\ \A j \in 1 .. (i - 1) : size[free_list[j]] + ALLOC_HEADER_SZ < n

\* kmalloc: the first block of the list that is big enough.
FirstFit(i, n) ==
    /\ i \in 1 .. Len(free_list)
    /\ size[free_list[i]] >= n
    /\ \A j \in 1 .. (i - 1) : size[free_list[j]] < n

\* Mutant: the test is dropped.
AlwaysSplit(b, n) == TRUE

\* kmalloc: is the rest of the block worth a block of its own?
CanSplit(b, n) == size[b] - n >= MIN_ALLOC_SZ

NewBlock(b, n) == SizeT(Payload(b) + n)

\* Mutant: the header is not taken off.
RemainderWithHeader(b, n) == size[b] - n

Remainder(b, n) == size[b] - n - ALLOC_HEADER_SZ

\* Mutant: the list is not kept in order.
InsertAtTail(i, b) == i = Len(free_list) + 1

\* kfree: in front of the first free block at a higher address, or last.
InsertPos(i, b) ==
    /\ i \in 1 .. (Len(free_list) + 1)
    /\ \A j \in 1 .. (i - 1) : ~(free_list[j] > b)
    /\ i <= Len(free_list) => free_list[i] > b

Unlink(i) == RemoveAt(free_list, i)

\* defrag_free_list: block starts where the last block ends.
Adjacent(b) ==
    /\ last_block # NULL
    /\ SizeT(End(last_block)) = b

\* Mutant: the header of the block is lost.
MergedWithoutHeader(b) == SizeT(size[last_block] + size[b])

MergedSize(b) == SizeT(size[last_block] + ALLOC_HEADER_SZ + size[b])

NextPos == pos + 1

-----------------------------------------------------------------------------
Init ==
    /\ size = [b \in {} |-> 0]
    /\ free_list = << >>
    /\ req = [b \in {} |-> 0]
    /\ pc = "init"
    /\ added = 0
    /\ last_block = NULL
    /\ pos = 1

\* One iteration of kmalloc_init: malloc_addblock puts the region at the front.
AddBlock ==
    /\ pc = "init"
    /\ added < Len(Regions)
    /\ size' = WithSize(RegionStart(added + 1), AddedSize(added + 1))
    /\ free_list' = InsertAt(free_list, 1, RegionStart(added + 1))
    /\ added' = added + 1
    /\ UNCHANGED <<req, pc, last_block, pos>>

InitDone ==
    /\ pc = "init"
    /\ added = Len(Regions)
    /\ pc' = "idle"
    /\ UNCHANGED <<size, free_list, req, added, last_block, pos>>

\* kmalloc when the rest of the block is split off.  The new block is linked
\* after the found one, which is then unlinked: it takes its place.
KmallocSplit(n) ==
    /\ pc = "idle"
    /\ n > 0
    /\ \E i \in 1 .. Len(free_list) :
           LET b == free_list[i]
               s == AlignUp(n)
               new == NewBlock(b, s)
           IN /\ FirstFit(i, s)
              /\ CanSplit(b, s)
              /\ size' = [x \in Blocks \cup {new} |->
                            IF x = new THEN Remainder(b, s)
                            ELSE IF x = b THEN s ELSE size[x]]
              /\ free_list' = [free_list EXCEPT ![i] = new]
              /\ req' = WithReq(b, n)
    /\ UNCHANGED <<pc, added, last_block, pos>>

\* kmalloc when the whole block is handed out.
KmallocWhole(n) ==
    /\ pc = "idle"
    /\ n > 0
    /\ \E i \in 1 .. Len(free_list) :
           /\ FirstFit(i, AlignUp(n))
           /\ ~CanSplit(free_list[i], AlignUp(n))
           /\ free_list' = Unlink(i)
           /\ req' = WithReq(free_list[i], n)
    /\ UNCHANGED <<size, pc, added, last_block, pos>>

\* kmalloc_infallible when kmalloc returns NULL: panic2 stops the machine.
\* A kmalloc that returns NULL to its caller changes nothing.
InfalliblePanic(n) ==
    /\ pc = "idle"
    /\ n > 0 => \A b \in FreeBlocks : size[b] < AlignUp(n)
    /\ pc' = "panic"
    /\ UNCHANGED <<size, free_list, req, added, last_block, pos>>

\* kfree of a pointer kmalloc returned, up to the call of defrag_free_list.
Kfree(b) ==
    /\ pc = "idle"
    /\ \E i \in 1 .. (Len(free_list) + 1) :
           /\ InsertPos(i, b)
           /\ free_list' = InsertAt(free_list, i, b)
    /\ req' = [x \in Live \ {b} |-> req[x]]
    /\ pc' = "defrag"
    /\ UNCHANGED <<size, added, last_block, pos>>

\* An iteration of defrag_free_list that joins block to last_block.
DefragMerge ==
    /\ pc = "defrag"
    /\ pos <= Len(free_list)
    /\ LET b == free_list[pos]
       IN /\ Adjacent(b)
          /\ size' = [x \in Blocks \ {b} |->
                        IF x = last_block THEN MergedSize(b) ELSE size[x]]
    /\ free_list' = Unlink(pos)
    /\ UNCHANGED <<req, pc, added, last_block, pos>>

\* An iteration of defrag_free_list that moves on.
DefragAdvance ==
    /\ pc = "defrag"
    /\ pos <= Len(free_list)
    /\ ~Adjacent(free_list[pos])
    /\ last_block' = free_list[pos]
    /\ pos' = NextPos
    /\ UNCHANGED <<size, free_list, req, pc, added>>

\* The end of the list: kfree returns, and the locals of the pass are gone.
DefragDone ==
    /\ pc = "defrag"
    /\ pos > Len(free_list)
    /\ pc' = "idle"
    /\ last_block' = NULL
    /\ pos' = 1
    /\ UNCHANGED <<size, free_list, req, added>>

Defrag == DefragMerge \/ DefragAdvance \/ DefragDone

Next ==
    \/ AddBlock
    \/ InitDone
    \/ \E n \in Requests : KmallocSplit(n)
    \/ \E n \in Requests : KmallocWhole(n)
    \/ \E n \in Requests : InfalliblePanic(n)
    \/ \E b \in Live : Kfree(b)
    \/ Defrag

Spec == Init /\ [][Next]_vars

-----------------------------------------------------------------------------
\* The variables have their types: sizes and addresses are machine words, the
\* list links blocks, callers hold blocks.
TypeOK ==
    /\ Blocks \subseteq 0 .. (WordMod - 1)
    /\ size \in [Blocks -> 0 .. (WordMod - 1)]
    /\ free_list \in Seq(Blocks)
    /\ Live \subseteq Blocks
    /\ req \in [Live -> Requests]
    /\ pc \in {"init", "idle", "defrag", "panic"}
    /\ added \in 0 .. Len(Regions)
    /\ last_block \in Blocks \cup {NULL}
    /\ pos \in 1 .. (Len(free_list) + 1)

\* No two blocks share a byte, header included: what one caller writes is
\* never another caller's data nor a header of the list (kmalloc's split and
\* defrag_free_list's merge compute the new extents).
NoOverlap ==
    \A a, b \in Blocks : a # b => End(a) <= b \/ End(b) <= a

\* Every block, header included, lies in the regions that were added, behind
\* the padding of malloc_addblock.  A merged block may span two regions that
\* abut.
InHeap == \A b \in Blocks : Extent(b) \subseteq HeapBytes(added)

\* Every byte of every region added is in some block: splitting, handing out,
\* freeing and merging never lose memory.
NoLeak == HeapBytes(added) \subseteq UNION {Extent(b) : b \in Blocks}

\* Both: the blocks are the regions.
FillsRegions == InHeap /\ NoLeak

\* The list holds each block that no caller holds, once, and no other: a block
\* is never linked twice, never linked while it is in use, never lost.
ListExact ==
    /\ FreeBlocks = Blocks \ Live
    /\ IsInjective(free_list)

\* A caller gets at least the bytes it asked for.
GrantsEnough == \A b \in Live : size[b] >= req[b]

\* When no kfree is in progress there are no two free blocks left that could
\* be one: the pass of defrag_free_list has combined all that can be.
Coalesced ==
    pc = "idle" => \A a, b \in FreeBlocks : End(a) # b

EndsRegion(b) == \E i \in 1 .. added : End(b) = RegionEnd(i)

\* kmalloc_init puts each region in front of those before it, whatever their
\* addresses: a block that ends where its region ends may stand behind higher
\* ones.
Stray(k) ==
    /\ \E j \in 1 .. (k - 1) : free_list[j] > free_list[k]
    /\ EndsRegion(free_list[k])

\* When the pass of a kfree has come to its end, two free blocks that could be
\* one have been left apart only behind address 0, which defrag_free_list takes
\* for no block, or where the last block of a region stands out of order among
\* them; never because of how blocks were handed out and freed.
PassMerges ==
    pc = "defrag" /\ pos > Len(free_list) =>
        \A j, k \in 1 .. Len(free_list) :
            End(free_list[j]) = free_list[k] =>
                \/ free_list[j] = NULL
                \/ k < j /\ Stray(j)
                \/ \E m \in (j + 1) .. k : Stray(m)

\* The heap does what HeapSpec promises to the callers of kmalloc and kfree.
Promise ==
    INSTANCE HeapSpec WITH
        Memory <- HeapBytes(Len(Regions)),
        held <- [p \in {Payload(b) : b \in Live} |-> req[p - ALLOC_HEADER_SZ]]

Refines == Promise!Spec
=============================================================================
