----------------------------- MODULE LinkedHeap -----------------------------
(***************************************************************************)
(* The free list of util/malloc_freelist.c as linked_list.h keeps it: a    *)
(* ring of next and prev pointers in the headers of the free blocks,       *)
(* closed by the variable free_list.  Lists are walked and changed through *)
(* the pointers only, and defrag_free_list keeps the next block at hand    *)
(* while it unlinks the one it looks at.                                   *)
(*                                                                         *)
(* The heap with its list as a sequence is MallocFreelist, and this module *)
(* implements it.  What the two have in common, the arithmetic of headers  *)
(* and the tests, is used from there.                                      *)
(***************************************************************************)
EXTENDS HeapRegions, SequencesExt

CONSTANT head       \* &free_list, in the kernel's data

VARIABLES
    size, req, pc, added, last_block,       \* as in MallocFreelist
    next, prev,     \* of free_list and of the header of each block
    block, temp     \* of defrag_free_list

NULL == 0

vars == <<size, req, pc, added, last_block, next, prev, block, temp>>
ring == <<next, prev>>
locals == <<last_block, block, temp>>

-----------------------------------------------------------------------------
\* With null pointing to itself, unless there is a block at address 0: the
\* locals of the pass may be null.
Total(link) ==
    [n \in DOMAIN link \cup {NULL} |-> IF n \in DOMAIN link THEN link[n] ELSE NULL]

\* The node n steps away from free_list.
Walk(link) ==
    LET pointer == Total(link)
        node[n \in 0 .. Cardinality(DOMAIN link)] ==
            IF n = 0 THEN head ELSE pointer[node[n - 1]]
    IN node

\* The nodes list_for_each_entry visits, until it comes to free_list again.
Visited(link) ==
    LET room == Cardinality(DOMAIN link)
        walk == Walk(link)
        back == {n \in 1 .. room : walk[n] = head}
    IN [n \in 1 .. (IF back = {} THEN room ELSE Min(back) - 1) |-> walk[n]]

list == Visited(next)

\* Where a node is in a list; free_list is behind its end.
Position(s, node) ==
    IF node \in ToSet(s) THEN CHOOSE i \in DOMAIN s : s[i] = node ELSE Len(s) + 1

\* Where the pass of defrag_free_list is.
Place == IF pc = "defrag" THEN Position(list, block) ELSE 1

M == INSTANCE MallocFreelist WITH free_list <- list, pos <- Place

\* free_list itself is a variable of the kernel, in memory that is not the
\* heap's.
HeadApart == head # NULL /\ head \notin M!HeapBytes(Len(Regions))

-----------------------------------------------------------------------------
\* Mutant: the old first node is not told.
list_add_one_way(n, p, x) ==
    /\ next' = [next EXCEPT ![p] = n] @@ n :> x
    /\ prev' = prev @@ n :> p

\* list_add_ of a node that is in no list.  The four stores are to different
\* fields, even when p and x are both free_list.
list_add_(n, p, x) ==
    /\ next' = [k \in DOMAIN next \cup {n} |->
                   CASE k = p -> n [] k = n -> x [] OTHER -> next[k]]
    /\ prev' = [k \in DOMAIN prev \cup {n} |->
                   CASE k = x -> n [] k = n -> p [] OTHER -> prev[k]]

list_add(n) == list_add_(n, head, next[head])

\* Mutant: the other end of the ring.
list_add_first(n) == list_add_(n, head, next[head])

list_add_tail(n) == list_add_(n, prev[head], head)

\* Mutant: the entry's neighbours are not joined.
list_del_forgets(entry) ==
    /\ next' = [next EXCEPT ![entry] = NULL]
    /\ prev' = [prev EXCEPT ![entry] = NULL]

list_del(entry) ==
    /\ next' = [next EXCEPT ![prev[entry]] = next[entry], ![entry] = NULL]
    /\ prev' = [prev EXCEPT ![next[entry]] = prev[entry], ![entry] = NULL]

\* list_del of a header that is no header any more.
list_drop(entry) ==
    LET rest == DOMAIN next \ {entry}
    IN /\ next' = [k \in rest |-> IF k = prev[entry] THEN next[entry] ELSE next[k]]
       /\ prev' = [k \in rest |-> IF k = next[entry] THEN prev[entry] ELSE prev[k]]

\* list_insert(new, found, found->next), and list_del(found).
list_replace(found, new) ==
    LET p == prev[found]
        x == next[found]
    IN /\ next' = [k \in DOMAIN next \cup {new} |->
                      CASE k = p -> new [] k = new -> x
                        [] k = found -> NULL [] OTHER -> next[k]]
       /\ prev' = [k \in DOMAIN prev \cup {new} |->
                      CASE k = x -> new [] k = new -> p
                        [] k = found -> NULL [] OTHER -> prev[k]]

\* list_for_each_entry_safe goes on.
Step == block' = temp /\ temp' = Total(next')[temp]

-----------------------------------------------------------------------------
Init ==
    /\ size = [b \in {} |-> 0] /\ req = [b \in {} |-> 0]
    /\ pc = "init" /\ added = 0
    /\ next = [n \in {head} |-> head] /\ prev = [n \in {head} |-> head]
    /\ last_block = NULL /\ block = NULL /\ temp = NULL

\* One iteration of kmalloc_init.
AddBlock ==
    /\ pc = "init"
    /\ added < Len(Regions)
    /\ LET new == M!RegionStart(added + 1)
       IN /\ size' = M!WithSize(new, M!AddedSize(added + 1))
          /\ list_add(new)
    /\ added' = added + 1
    /\ UNCHANGED <<req, pc, locals>>

InitDone ==
    /\ pc = "init"
    /\ added = Len(Regions)
    /\ pc' = "idle"
    /\ UNCHANGED <<size, req, added, ring, locals>>

\* kmalloc when the rest of the block is split off.
KmallocSplit(n) ==
    /\ pc = "idle"
    /\ n > 0
    /\ \E i \in DOMAIN list :
           LET b == list[i]
               s == M!AlignUp(n)
               new == M!NewBlock(b, s)
           IN /\ M!FirstFit(i, s)
              /\ M!CanSplit(b, s)
              /\ size' = [x \in M!Blocks \cup {new} |->
                             IF x = new THEN M!Remainder(b, s)
                             ELSE IF x = b THEN s ELSE size[x]]
              /\ list_replace(b, new)
              /\ req' = M!WithReq(b, n)
    /\ UNCHANGED <<pc, added, locals>>

\* kmalloc when the whole block is handed out.
KmallocWhole(n) ==
    /\ pc = "idle"
    /\ n > 0
    /\ \E i \in DOMAIN list :
           /\ M!FirstFit(i, M!AlignUp(n))
           /\ ~M!CanSplit(list[i], M!AlignUp(n))
           /\ list_del(list[i])
           /\ req' = M!WithReq(list[i], n)
    /\ UNCHANGED <<size, pc, added, locals>>

\* kmalloc_infallible when kmalloc returns NULL.
InfalliblePanic(n) ==
    /\ pc = "idle"
    /\ n > 0 => \A b \in ToSet(list) : size[b] < M!AlignUp(n)
    /\ pc' = "panic"
    /\ UNCHANGED <<size, req, added, ring, locals>>

\* kfree up to the first test of the loop of defrag_free_list.
Kfree(b) ==
    /\ pc = "idle"
    /\ \E i \in 1 .. (Len(list) + 1) :
           /\ M!InsertPos(i, b)
           /\ IF i <= Len(list) THEN list_add_(b, prev[list[i]], list[i])
                                ELSE list_add_tail(b)
    /\ req' = [x \in M!Live \ {b} |-> req[x]]
    /\ pc' = "defrag"
    /\ block' = next'[head]
    /\ temp' = next'[block']
    /\ UNCHANGED <<size, added, last_block>>

\* An iteration that joins block to last_block.
DefragMerge ==
    /\ pc = "defrag"
    /\ block # head
    /\ M!Adjacent(block)
    /\ size' = [x \in M!Blocks \ {block} |->
                   IF x = last_block THEN M!MergedSize(block) ELSE size[x]]
    /\ list_drop(block)
    /\ Step
    /\ UNCHANGED <<req, pc, added, last_block>>

\* Mutant: the pass stays where it is.
DefragStays ==
    /\ pc = "defrag"
    /\ block # head
    /\ ~M!Adjacent(block)
    /\ last_block' = block
    /\ UNCHANGED <<size, req, pc, added, ring, block, temp>>

\* An iteration that moves on.
DefragAdvance ==
    /\ pc = "defrag"
    /\ block # head
    /\ ~M!Adjacent(block)
    /\ last_block' = block
    /\ UNCHANGED <<size, req, pc, added, ring>>
    /\ Step

\* The ring has come round to free_list.
DefragDone ==
    /\ pc = "defrag"
    /\ block = head
    /\ pc' = "idle"
    /\ last_block' = NULL /\ block' = NULL /\ temp' = NULL
    /\ UNCHANGED <<size, req, added, ring>>

Defrag == DefragMerge \/ DefragAdvance \/ DefragDone

Next ==
    \/ AddBlock
    \/ InitDone
    \/ \E n \in Requests : KmallocSplit(n)
    \/ \E n \in Requests : KmallocWhole(n)
    \/ \E n \in Requests : InfalliblePanic(n)
    \/ \E b \in M!Live : Kfree(b)
    \/ Defrag

Spec == Init /\ [][Next]_vars

\* Straight-line code with interrupts that always return: the pass of a kfree
\* that was begun goes on.
FairSpec == Spec /\ WF_vars(Defrag)

-----------------------------------------------------------------------------
\* The variables have their types; pointers are to nodes, or null.
TypeOK ==
    /\ M!TypeOK
    /\ {next, prev} \subseteq [M!Blocks \cup {head} -> M!Blocks \cup {head, NULL}]
    /\ {block, temp} \subseteq M!Blocks \cup {head, NULL}

\* Both ways round the ring meet the same nodes, and come back to free_list; a
\* block that is in use is out of the ring, with null pointers.  kfree finds its
\* place by next and links the block by prev.
RingCloses ==
    /\ Visited(prev) = Reverse(list)
    /\ list = << >> => next[head] = head /\ prev[head] = head
    /\ list # << >> => next[Last(list)] = head /\ prev[Head(list)] = head
    /\ \A n \in DOMAIN next \ (ToSet(list) \cup {head}) :
           next[n] = NULL /\ prev[n] = NULL

\* The pointers do what MallocFreelist says of the list: an insertion, a
\* removal and a replacement are each at the place where the walk stopped, and
\* the pass of defrag_free_list visits each block once although it unlinks
\* blocks behind it.
ListRefines == M!Spec

\* No two blocks share a byte, header included: what one caller writes is
\* never another caller's data nor a pointer of the ring.
NoOverlap == M!NoOverlap

\* The blocks, headers included, are the regions that were added, behind their
\* padding: splitting, handing out, freeing and merging never lose a byte, and
\* never take one from outside.
FillsRegions == M!FillsRegions

\* A caller gets at least the bytes it asked for.
GrantsEnough == M!GrantsEnough

\* The ring holds each block that no caller holds, once, and no other.
ListExact == M!ListExact

\* When the pass of a kfree over the ring has come to its end, two free blocks
\* that could be one have been left apart only behind address 0, or where the
\* last block of a region stands out of address order among them.
PassMerges == M!PassMerges

\* The heap does what HeapSpec promises to the callers of kmalloc and kfree.
Refines == M!Refines

\* A kfree that has begun its pass over the ring comes to its end.
FreeReturns == pc = "defrag" ~> pc = "idle"
=============================================================================
