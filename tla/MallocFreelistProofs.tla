------------------------ MODULE MallocFreelistProofs ------------------------
(***************************************************************************)
(* The kernel heap keeps its free list exact and its blocks apart, and     *)
(* gives callers what HeapSpec promises, for every memory map whose        *)
(* regions can hold a header, every set of request sizes and every word    *)
(* size.                                                                   *)
(***************************************************************************)
EXTENDS MallocFreelist, SequenceTheorems, TLAPS

-----------------------------------------------------------------------------
(***************************************************************************)
(* What inserting into, removing from and overwriting a sequence does to   *)
(* its elements.  The free list is such a sequence.                        *)
(***************************************************************************)

\* Inserting moves what follows the index up by one (list_add_).
LEMMA InsertAtElements ==
    ASSUME NEW S, NEW s \in Seq(S), NEW e \in S, NEW i \in 1 .. (Len(s) + 1)
    PROVE  /\ InsertAt(s, i, e) \in Seq(S)
           /\ Len(InsertAt(s, i, e)) = Len(s) + 1
           /\ \A j \in 1 .. (i - 1) : InsertAt(s, i, e)[j] = s[j]
           /\ InsertAt(s, i, e)[i] = e
           /\ \A j \in i .. Len(s) : InsertAt(s, i, e)[j + 1] = s[j]
<1> DEFINE front == SubSeq(s, 1, i - 1)
           one == <<e>>
           head == front \o one
           back == SubSeq(s, i, Len(s))
<1>1. /\ front \in Seq(S)
      /\ Len(front) = i - 1
      /\ \A j \in 1 .. (i - 1) : front[j] = s[j]
  OBVIOUS
<1>2. /\ back \in Seq(S)
      /\ Len(back) = Len(s) + 1 - i
      /\ \A j \in 1 .. (Len(s) + 1 - i) : back[j] = s[j + i - 1]
  OBVIOUS
<1>3. InsertAt(s, i, e) = head \o back
  BY DEF InsertAt
<1> HIDE DEF front, back
<1>4. one \in Seq(S) /\ Len(one) = 1 /\ one[1] = e
  OBVIOUS
<1> HIDE DEF one
<1>5. /\ head \in Seq(S)
      /\ Len(head) = i
      /\ \A j \in 1 .. (i - 1) : head[j] = s[j]
      /\ head[i] = e
  <2>1. /\ head \in Seq(S)
        /\ Len(head) = Len(front) + Len(one)
        /\ \A j \in 1 .. (Len(front) + Len(one)) :
              head[j] = IF j <= Len(front) THEN front[j]
                        ELSE one[j - Len(front)]
    BY <1>1, <1>4, ConcatProperties, Zenon
  <2> HIDE DEF head
  <2> QED BY <2>1, <1>1, <1>4
<1> HIDE DEF head
<1>6. /\ head \o back \in Seq(S)
      /\ Len(head \o back) = Len(head) + Len(back)
      /\ \A j \in 1 .. (Len(head) + Len(back)) :
            (head \o back)[j] = IF j <= Len(head) THEN head[j]
                                ELSE back[j - Len(head)]
  BY <1>2, <1>5, ConcatProperties, Zenon
<1> DEFINE all == head \o back
<1> HIDE DEF all
<1>7. /\ all \in Seq(S)
      /\ Len(all) = Len(s) + 1
      /\ \A j \in 1 .. (Len(s) + 1) :
            all[j] = IF j <= i THEN head[j] ELSE back[j - i]
  BY <1>6, <1>2, <1>5 DEF all
<1>8. \A j \in i .. Len(s) : all[j + 1] = s[j]
  <2> TAKE j \in i .. Len(s)
  <2>1. all[j + 1] = back[j + 1 - i]
    BY <1>7
  <2>2. back[j + 1 - i] = s[(j + 1 - i) + i - 1]
    BY <1>2
  <2> QED BY <2>1, <2>2
<1>9. InsertAt(s, i, e) = all
  BY <1>3 DEF all
<1> QED BY <1>5, <1>7, <1>8, <1>9

\* Removing closes the gap (list_del).
LEMMA RemoveAtElements ==
    ASSUME NEW S, NEW s \in Seq(S), NEW i \in 1 .. Len(s)
    PROVE  /\ RemoveAt(s, i) \in Seq(S)
           /\ Len(RemoveAt(s, i)) = Len(s) - 1
           /\ \A j \in 1 .. (i - 1) : RemoveAt(s, i)[j] = s[j]
           /\ \A j \in i .. (Len(s) - 1) : RemoveAt(s, i)[j] = s[j + 1]
<1> DEFINE front == SubSeq(s, 1, i - 1)
           back == SubSeq(s, i + 1, Len(s))
<1>1. /\ front \in Seq(S)
      /\ Len(front) = i - 1
      /\ \A j \in 1 .. (i - 1) : front[j] = s[j]
  OBVIOUS
<1>2. /\ back \in Seq(S)
      /\ Len(back) = Len(s) - i
      /\ \A j \in 1 .. (Len(s) - i) : back[j] = s[j + i]
  OBVIOUS
<1>3. RemoveAt(s, i) = front \o back
  BY DEF RemoveAt
<1> HIDE DEF front, back
<1>4. /\ front \o back \in Seq(S)
      /\ Len(front \o back) = Len(front) + Len(back)
      /\ \A j \in 1 .. (Len(front) + Len(back)) :
            (front \o back)[j] = IF j <= Len(front) THEN front[j]
                                 ELSE back[j - Len(front)]
  BY <1>1, <1>2, ConcatProperties, Zenon
<1> DEFINE all == front \o back
<1> HIDE DEF all
<1>5. /\ all \in Seq(S)
      /\ Len(all) = Len(s) - 1
      /\ \A j \in 1 .. (Len(s) - 1) :
            all[j] = IF j <= i - 1 THEN front[j] ELSE back[j - (i - 1)]
  BY <1>4, <1>1, <1>2 DEF all
<1>6. \A j \in i .. (Len(s) - 1) : all[j] = s[j + 1]
  <2> TAKE j \in i .. (Len(s) - 1)
  <2>1. all[j] = back[j - (i - 1)]
    BY <1>5
  <2>2. back[j - (i - 1)] = s[(j - (i - 1)) + i]
    BY <1>2
  <2> QED BY <2>1, <2>2
<1>7. RemoveAt(s, i) = all
  BY <1>3 DEF all
<1> QED BY <1>1, <1>5, <1>6, <1>7

LEMMA InsertAtType ==
    ASSUME NEW S, NEW s \in Seq(S), NEW e \in S, NEW i \in 1 .. (Len(s) + 1)
    PROVE  /\ InsertAt(s, i, e) \in Seq(S)
           /\ Len(InsertAt(s, i, e)) = Len(s) + 1
BY InsertAtElements

LEMMA RemoveAtType ==
    ASSUME NEW S, NEW s \in Seq(S), NEW i \in 1 .. Len(s)
    PROVE  /\ RemoveAt(s, i) \in Seq(S)
           /\ Len(RemoveAt(s, i)) = Len(s) - 1
BY RemoveAtElements

\* The new element joins the others; none is duplicated.
LEMMA InsertAtSet ==
    ASSUME NEW S, NEW s \in Seq(S), NEW e \in S, NEW i \in 1 .. (Len(s) + 1)
    PROVE  /\ ToSet(InsertAt(s, i, e)) = ToSet(s) \cup {e}
           /\ IsInjective(s) /\ e \notin ToSet(s)
                => IsInjective(InsertAt(s, i, e))
<1> DEFINE t == InsertAt(s, i, e)
<1>1. /\ t \in Seq(S)
      /\ Len(t) = Len(s) + 1
      /\ \A j \in 1 .. (i - 1) : t[j] = s[j]
      /\ t[i] = e
      /\ \A j \in i .. Len(s) : t[j + 1] = s[j]
  BY InsertAtElements
<1> HIDE DEF t
<1>2. DOMAIN s = 1 .. Len(s) /\ DOMAIN t = 1 .. (Len(s) + 1)
  BY <1>1
<1>3. \A j \in 1 .. (Len(s) + 1) :
         \/ j < i /\ j \in 1 .. Len(s) /\ t[j] = s[j]
         \/ j = i /\ t[j] = e
         \/ j > i /\ j - 1 \in 1 .. Len(s) /\ t[j] = s[j - 1]
  <2> TAKE j \in 1 .. (Len(s) + 1)
  <2>1. CASE j <= i
    BY <2>1, <1>1
  <2>2. CASE j > i
    <3>1. j - 1 \in i .. Len(s)
      BY <2>2
    <3>2. t[(j - 1) + 1] = s[j - 1]
      BY <1>1, <3>1
    <3> QED BY <2>2, <3>1, <3>2
  <2> QED BY <2>1, <2>2
<1>4. \A j \in 1 .. Len(s) : \E k \in 1 .. (Len(s) + 1) : t[k] = s[j]
  <2> TAKE j \in 1 .. Len(s)
  <2>1. CASE j < i
    BY <2>1, <1>1
  <2>2. CASE j >= i
    BY <2>2, <1>1
  <2> QED BY <2>1, <2>2
<1>5. ToSet(t) = ToSet(s) \cup {e}
  <2>1. ToSet(s) = {s[j] : j \in 1 .. Len(s)}
    BY <1>2 DEF ToSet
  <2>2. ToSet(t) = {t[j] : j \in 1 .. (Len(s) + 1)}
    BY <1>2 DEF ToSet
  <2>3. ToSet(t) \subseteq ToSet(s) \cup {e}
    BY <2>1, <2>2, <1>3
  <2>4. ToSet(s) \subseteq ToSet(t)
    BY <2>1, <2>2, <1>4
  <2>5. e \in ToSet(t)
    BY <2>2, <1>1
  <2> QED BY <2>3, <2>4, <2>5
<1>6. ASSUME IsInjective(s), e \notin ToSet(s)
      PROVE  IsInjective(t)
  <2>1. \A j \in 1 .. Len(s) : s[j] # e
    BY <1>2, <1>6 DEF ToSet
  <2>2. \A j, k \in 1 .. Len(s) : s[j] = s[k] => j = k
    BY <1>2, <1>6 DEF IsInjective
  <2>3. ASSUME NEW j \in 1 .. (Len(s) + 1), NEW k \in 1 .. (Len(s) + 1),
               t[j] = t[k]
        PROVE  j = k
    <3>1. CASE j < i
      BY <3>1, <2>1, <2>2, <2>3, <1>3
    <3>2. CASE j = i
      BY <3>2, <2>1, <2>2, <2>3, <1>3
    <3>3. CASE j > i
      BY <3>3, <2>1, <2>2, <2>3, <1>3
    <3> QED BY <3>1, <3>2, <3>3
  <2> QED BY <2>3, <1>2 DEF IsInjective
<1> QED BY <1>5, <1>6 DEF t

\* Only the removed element is gone.
LEMMA RemoveAtSet ==
    ASSUME NEW S, NEW s \in Seq(S), NEW i \in 1 .. Len(s), IsInjective(s)
    PROVE  /\ ToSet(RemoveAt(s, i)) = ToSet(s) \ {s[i]}
           /\ IsInjective(RemoveAt(s, i))
<1> DEFINE t == RemoveAt(s, i)
<1>1. /\ t \in Seq(S)
      /\ Len(t) = Len(s) - 1
      /\ \A j \in 1 .. (i - 1) : t[j] = s[j]
      /\ \A j \in i .. (Len(s) - 1) : t[j] = s[j + 1]
  BY RemoveAtElements
<1> HIDE DEF t
<1>2. DOMAIN s = 1 .. Len(s) /\ DOMAIN t = 1 .. (Len(s) - 1)
  BY <1>1
<1>3. \A j, k \in 1 .. Len(s) : s[j] = s[k] => j = k
  BY <1>2 DEF IsInjective
<1>4. \A j \in 1 .. (Len(s) - 1) :
         \/ j < i /\ t[j] = s[j]
         \/ j >= i /\ t[j] = s[j + 1]
  BY <1>1
<1>5. \A j \in 1 .. Len(s) :
         j # i => \E k \in 1 .. (Len(s) - 1) : t[k] = s[j]
  <2> TAKE j \in 1 .. Len(s)
  <2>1. CASE j < i
    BY <2>1, <1>1
  <2>2. CASE j > i
    <3>1. j - 1 \in i .. (Len(s) - 1)
      BY <2>2
    <3>2. t[j - 1] = s[(j - 1) + 1]
      BY <1>1, <3>1
    <3> QED BY <2>2, <3>1, <3>2
  <2> QED BY <2>1, <2>2
<1>6. \A k \in 1 .. (Len(s) - 1) :
         \E j \in 1 .. Len(s) : j # i /\ t[k] = s[j]
  BY <1>4
<1>7. ToSet(t) = ToSet(s) \ {s[i]}
  <2>1. ToSet(s) = {s[j] : j \in 1 .. Len(s)}
    BY <1>2 DEF ToSet
  <2>2. ToSet(t) = {t[j] : j \in 1 .. (Len(s) - 1)}
    BY <1>2 DEF ToSet
  <2>3. ToSet(t) \subseteq ToSet(s) \ {s[i]}
    BY <2>1, <2>2, <1>3, <1>6
  <2>4. ToSet(s) \ {s[i]} \subseteq ToSet(t)
    BY <2>1, <2>2, <1>5
  <2> QED BY <2>3, <2>4
<1>8. IsInjective(t)
  BY <1>2, <1>3, <1>4 DEF IsInjective
<1> QED BY <1>7, <1>8 DEF t

\* The new element takes the place of the old one.
LEMMA ReplaceSet ==
    ASSUME NEW S, NEW s \in Seq(S), NEW i \in 1 .. Len(s), NEW e \in S,
           IsInjective(s), e \notin ToSet(s)
    PROVE  LET t == [s EXCEPT ![i] = e]
           IN  /\ t \in Seq(S)
               /\ Len(t) = Len(s)
               /\ ToSet(t) = (ToSet(s) \ {s[i]}) \cup {e}
               /\ IsInjective(t)
<1> DEFINE t == [s EXCEPT ![i] = e]
<1>1. /\ t \in Seq(S)
      /\ Len(t) = Len(s)
      /\ \A j \in 1 .. Len(s) : t[j] = IF j = i THEN e ELSE s[j]
  OBVIOUS
<1> HIDE DEF t
<1>2. DOMAIN s = 1 .. Len(s) /\ DOMAIN t = 1 .. Len(s)
  BY <1>1
<1>3. \A j, k \in 1 .. Len(s) : s[j] = s[k] => j = k
  BY <1>2 DEF IsInjective
<1>4. \A j \in 1 .. Len(s) : s[j] # e
  BY <1>2 DEF ToSet
<1>5. ToSet(t) = (ToSet(s) \ {s[i]}) \cup {e}
  BY <1>1, <1>2, <1>3 DEF ToSet
<1>6. IsInjective(t)
  BY <1>1, <1>2, <1>3, <1>4 DEF IsInjective
<1> QED BY <1>1, <1>5, <1>6 DEF t

-----------------------------------------------------------------------------
(***************************************************************************)
(* The invariant.                                                          *)
(***************************************************************************)

\* Headers are aligned as malloc_addblock and kmalloc's align_up leave them.
Aligned == \A b \in Blocks : b % 8 = 0

\* Where the pass of defrag_free_list stands: last_block is the block before
\* the current one, and outside the pass the locals are at rest.
Cursor ==
    /\ pc # "defrag" => pos = 1
    /\ pos = 1 => last_block = NULL
    /\ pos > 1 => last_block = free_list[pos - 1]

HeapInv ==
    TypeOK /\ NoOverlap /\ InHeap /\ NoLeak /\ ListExact /\ Aligned /\ Cursor

-----------------------------------------------------------------------------
LEMMA SizeTFacts ==
    ASSUME NEW x \in Nat
    PROVE  /\ SizeT(x) \in 0 .. (WordMod - 1)
           /\ x < WordMod => SizeT(x) = x
BY WordAssumption DEF SizeT

LEMMA AlignUpFacts ==
    ASSUME NEW n \in Nat
    PROVE  /\ AlignUp(n) \in Nat
           /\ AlignUp(n) \in 0 .. (WordMod - 1)
           /\ AlignUp(n) % 8 = 0
           /\ n + 7 < WordMod => n <= AlignUp(n) /\ AlignUp(n) <= n + 7
<1>1. SizeT(n + 7) \in 0 .. (WordMod - 1)
  BY SizeTFacts
<1>2. \A x \in Nat : /\ x - (x % 8) \in 0 .. x
                     /\ (x - (x % 8)) % 8 = 0
                     /\ x - 7 <= x - (x % 8)
  OBVIOUS
<1>3. n + 7 < WordMod => SizeT(n + 7) = n + 7
  BY SizeTFacts
<1> QED
  BY <1>1, <1>2, <1>3, WordAssumption DEF AlignUp

LEMMA RegionFacts ==
    ASSUME NEW i \in 1 .. Len(Regions)
    PROVE  /\ Regions[i].base \in Nat
           /\ RegionStart(i) \in Nat
           /\ RegionStart(i) % 8 = 0
           /\ RegionEnd(i) \in Nat
           /\ Regions[i].base <= RegionStart(i)
           /\ RegionEnd(i) + 8 < WordMod
<1>1. Regions[i] \in [base : Nat, length : Nat]
  BY RegionsAssumption, ElementOfSeq, Zenon
<1>2. Regions[i].base \in Nat /\ Regions[i].length \in Nat
  BY <1>1
<1>3. RegionEnd(i) \in Nat /\ Regions[i].base <= RegionEnd(i)
  BY <1>2 DEF RegionEnd
<1>4. RegionEnd(i) + 8 < WordMod
  BY RegionsAssumption
<1>5. Regions[i].base + 7 < WordMod
  BY <1>2, <1>3, <1>4, WordAssumption
<1> QED BY <1>2, <1>3, <1>4, <1>5, AlignUpFacts DEF RegionStart

\* Blocks end below the end of the address space, so the sums the code forms
\* from their addresses and sizes do not wrap.
LEMMA Extents ==
    ASSUME TypeOK, InHeap, NEW b \in Blocks
    PROVE  /\ b \in Nat
           /\ size[b] \in Nat
           /\ End(b) = b + 24 + size[b]
           /\ End(b) < WordMod - 8
<1>1. b \in Nat /\ size[b] \in Nat
  BY WordAssumption DEF TypeOK, Blocks
<1>2. End(b) = b + 24 + size[b]
  BY DEF End, Payload, ALLOC_HEADER_SZ
<1>3. End(b) - 1 \in HeapBytes(added)
  BY <1>1, <1>2 DEF InHeap, Extent
<1>4. PICK i \in 1 .. added : End(b) - 1 \in RegionBytes(i)
  BY <1>3 DEF HeapBytes
<1>5. i \in 1 .. Len(Regions)
  BY DEF TypeOK
<1>6. RegionStart(i) \in Nat /\ RegionEnd(i) \in Nat /\ RegionEnd(i) + 8 < WordMod
  BY <1>5, RegionFacts
<1>7. End(b) - 1 <= RegionEnd(i) - 1
  BY <1>4, <1>6 DEF RegionBytes
<1> QED
  BY <1>1, <1>2, <1>6, <1>7, WordAssumption

\* Different regions share no byte.
LEMMA RegionsApart ==
    ASSUME NEW i \in 1 .. Len(Regions), NEW j \in 1 .. Len(Regions), i # j,
           NEW a \in RegionBytes(i)
    PROVE  a \notin RegionBytes(j)
<1>1. /\ Regions[i].base \in Nat /\ Regions[j].base \in Nat
      /\ RegionStart(i) \in Nat /\ RegionStart(j) \in Nat
      /\ RegionEnd(i) \in Nat /\ RegionEnd(j) \in Nat
      /\ Regions[i].base <= RegionStart(i) /\ Regions[j].base <= RegionStart(j)
  BY RegionFacts
<1>2. RegionEnd(i) <= Regions[j].base \/ RegionEnd(j) <= Regions[i].base
  BY RegionsAssumption
<1> QED BY <1>1, <1>2 DEF RegionBytes

LEMMA InitHeapInv == Init => HeapInv
<1> SUFFICES ASSUME Init
             PROVE  HeapInv
  OBVIOUS
<1>1. Blocks = {} /\ Live = {} /\ free_list = << >>
  BY DEF Init, Blocks, Live
<1>2. TypeOK
  BY <1>1, RegionsAssumption DEF Init, TypeOK, NULL, Blocks, Live
<1>3. ListExact
  BY <1>1 DEF ListExact, FreeBlocks, ToSet, IsInjective
<1> QED
  BY <1>1, <1>2, <1>3 DEF Init, HeapInv, NoOverlap, InHeap, NoLeak,
                         HeapBytes, Aligned, Cursor

\* A region that is added lies apart from every block there is.
LEMMA AddBlockFresh ==
    ASSUME RegionsHoldHeader, HeapInv, added < Len(Regions), NEW x \in Blocks
    PROVE  /\ x # RegionStart(added + 1)
           /\ \/ End(x) <= RegionStart(added + 1)
              \/ RegionEnd(added + 1) <= x
<1>i. TypeOK /\ InHeap
  BY DEF HeapInv
<1>1. added + 1 \in 1 .. Len(Regions)
  BY <1>i, RegionsAssumption DEF TypeOK
<1>2. PICK b, e \in Nat : /\ b = RegionStart(added + 1)
                          /\ e = RegionEnd(added + 1)
                          /\ b + 24 <= e
  BY <1>1, RegionFacts DEF RegionsHoldHeader, ALLOC_HEADER_SZ
<1>3. RegionBytes(added + 1) = b .. (e - 1)
  BY <1>2 DEF RegionBytes
<1>4. x \in Nat /\ x + 24 <= End(x) /\ End(x) \in Nat
  BY <1>i, Extents
<1>5. \A a \in Extent(x) : a \notin b .. (e - 1)
  <2> TAKE a \in Extent(x)
  <2>1. PICK i \in 1 .. added : a \in RegionBytes(i)
    BY <1>i DEF InHeap, HeapBytes
  <2>2. i \in 1 .. Len(Regions) /\ i # added + 1
    BY <1>i DEF TypeOK
  <2> QED BY <2>1, <2>2, <1>1, <1>3, RegionsApart
<1>6. ~(x <= b /\ b < End(x))
  BY <1>2, <1>4, <1>5 DEF Extent
<1>7. ~(b <= x /\ x < e)
  BY <1>2, <1>4, <1>5 DEF Extent
<1> QED BY <1>2, <1>4, <1>6, <1>7

LEMMA AddBlockHeapInv ==
    ASSUME RegionsHoldHeader, HeapInv, AddBlock
    PROVE  HeapInv'
<1>i. TypeOK /\ NoOverlap /\ InHeap /\ NoLeak /\ ListExact /\ Aligned /\ Cursor
  BY DEF HeapInv
<1>r. PICK b, s, e : /\ b = RegionStart(added + 1)
                     /\ s = AddedSize(added + 1)
                     /\ e = RegionEnd(added + 1)
  OBVIOUS
<1>1. /\ added + 1 \in 1 .. Len(Regions)
      /\ size' = WithSize(b, s)
      /\ free_list' = InsertAt(free_list, 1, b)
      /\ added' = added + 1
      /\ UNCHANGED <<req, pc, last_block, pos>>
      /\ pc = "init"
  BY <1>i, <1>r, RegionsAssumption DEF AddBlock, TypeOK
<1>2. /\ e \in Nat
      /\ e + 8 < WordMod
      /\ b \in Nat
      /\ b % 8 = 0
      /\ b + 24 <= e
  BY <1>1, <1>r, RegionFacts DEF RegionsHoldHeader, ALLOC_HEADER_SZ
<1>3. b \in 0 .. (WordMod - 1)
  BY <1>2, WordAssumption
<1>4. s \in 0 .. (WordMod - 1) /\ b + 24 + s = e
  <2>1. e - b - 24 \in Nat /\ e - b - 24 < WordMod
    BY <1>2, WordAssumption
  <2>2. s = SizeT(e - b - 24)
    BY <1>r DEF AddedSize, ALLOC_HEADER_SZ
  <2> QED BY <2>1, <2>2, <1>2, SizeTFacts, WordAssumption
<1>a. RegionBytes(added + 1) = b .. (e - 1)
  BY <1>r DEF RegionBytes
<1>5. ASSUME NEW x \in Blocks
      PROVE  /\ x # b
             /\ End(x) <= b \/ e <= x
  BY <1>r, AddBlockFresh DEF AddBlock
<1>6. /\ Blocks' = Blocks \cup {b}
      /\ Live' = Live
      /\ \A x \in Blocks : size'[x] = size[x] /\ End(x)' = End(x)
      /\ size'[b] = s /\ End(b)' = e
  <2>1. size' = [x \in Blocks \cup {b} |-> IF x = b THEN s ELSE size[x]]
    BY <1>1 DEF WithSize
  <2>2. Blocks' = Blocks \cup {b} /\ Live' = Live
    BY <2>1, <1>1 DEF Blocks, Live
  <2>3. size'[b] = s /\ \A x \in Blocks : size'[x] = size[x]
    BY <2>1, <1>5
  <2> QED BY <2>2, <2>3, <1>4 DEF End, Payload, ALLOC_HEADER_SZ
<1>7. /\ free_list \in Seq(Blocks \cup {b})
      /\ 1 \in 1 .. (Len(free_list) + 1)
  BY <1>i DEF TypeOK
<1>8. TypeOK'
  <2>1. /\ InsertAt(free_list, 1, b) \in Seq(Blocks \cup {b})
        /\ Len(InsertAt(free_list, 1, b)) = Len(free_list) + 1
    BY <1>7, InsertAtType
  <2>2. free_list' \in Seq(Blocks') /\ Len(free_list') = Len(free_list) + 1
    BY <2>1, <1>1, <1>6
  <2>3. /\ Blocks' \subseteq 0 .. (WordMod - 1)
        /\ size' \in [Blocks' -> 0 .. (WordMod - 1)]
    BY <1>i, <1>1, <1>3, <1>4, <1>6 DEF TypeOK, WithSize
  <2> QED BY <1>i, <1>1, <1>6, <2>1, <2>2, <2>3 DEF TypeOK, Live
<1>9. NoOverlap'
  <2> SUFFICES ASSUME NEW x \in Blocks', NEW y \in Blocks', x # y
               PROVE  End(x)' <= y \/ End(y)' <= x
    BY DEF NoOverlap
  <2> QED BY <1>i, <1>5, <1>6 DEF NoOverlap
<1>10. InHeap'
  <2>1. /\ HeapBytes(added) \subseteq HeapBytes(added')
        /\ RegionBytes(added + 1) \subseteq HeapBytes(added')
    BY <1>i, <1>1 DEF HeapBytes, TypeOK
  <2>2. \A x \in Blocks : Extent(x)' = Extent(x)
    BY <1>6 DEF Extent
  <2>3. Extent(b)' = RegionBytes(added + 1)
    <3>1. Extent(b)' = b .. (End(b)' - 1)
      BY DEF Extent
    <3> QED BY <3>1, <1>a, <1>6
  <2> SUFFICES ASSUME NEW x \in Blocks'
               PROVE  Extent(x)' \subseteq HeapBytes(added')
    BY DEF InHeap, HeapBytes
  <2>4. CASE x \in Blocks
    BY <2>1, <2>2, <2>4, <1>i DEF InHeap
  <2>5. CASE x = b
    BY <2>1, <2>3, <2>5
  <2> QED BY <2>4, <2>5, <1>6
<1>11. ListExact'
  <2>1. b \notin ToSet(free_list) /\ IsInjective(free_list)
    BY <1>i, <1>5 DEF ListExact, FreeBlocks
  <2>2. /\ ToSet(free_list') = ToSet(free_list) \cup {b}
        /\ IsInjective(free_list')
    BY <1>1, <1>7, <2>1, InsertAtSet
  <2>3. b \notin Live
    BY <1>i, <1>5 DEF TypeOK
  <2> QED BY <1>i, <1>6, <2>2, <2>3 DEF ListExact, FreeBlocks
<1>12. Aligned'
  BY <1>i, <1>2, <1>6 DEF Aligned
<1>13. Cursor'
  BY <1>i, <1>1 DEF Cursor, TypeOK
<1>14. NoLeak'
  <2>1. HeapBytes(added') = HeapBytes(added) \cup RegionBytes(added + 1)
    BY <1>i, <1>1 DEF HeapBytes, TypeOK
  <2>2. \A x \in Blocks : Extent(x)' = Extent(x)
    BY <1>6 DEF Extent
  <2>3. Extent(b)' = b .. (End(b)' - 1)
    BY DEF Extent
  <2>4. Extent(b)' = RegionBytes(added + 1)
    BY <2>3, <1>a, <1>6
  <2> SUFFICES ASSUME NEW a \in HeapBytes(added')
               PROVE  \E x \in Blocks' : a \in Extent(x)'
    BY DEF NoLeak, HeapBytes
  <2>5. CASE a \in HeapBytes(added)
    BY <2>2, <2>5, <1>i, <1>6 DEF NoLeak
  <2>6. CASE a \in RegionBytes(added + 1)
    BY <2>4, <2>6, <1>6
  <2> QED BY <2>1, <2>5, <2>6
<1> QED
  BY <1>8, <1>9, <1>10, <1>11, <1>12, <1>13, <1>14 DEF HeapInv

\* An index of the list names a block that no caller holds.
LEMMA FreeBlock ==
    ASSUME TypeOK, ListExact, NEW i \in 1 .. Len(free_list)
    PROVE  /\ free_list[i] \in Blocks
           /\ free_list[i] \notin Live
           /\ free_list[i] \in ToSet(free_list)
<1>1. free_list[i] \in ToSet(free_list)
  BY DEF TypeOK, ToSet
<1> QED BY <1>1 DEF ListExact, FreeBlocks

\* The bytes of the regions added so far are bytes of the regions there are.
LEMMA HeapBytesGrow ==
    ASSUME TypeOK
    PROVE  HeapBytes(added) \subseteq HeapBytes(Len(Regions))
<1>1. 1 .. added \subseteq 1 .. Len(Regions)
  BY RegionsAssumption DEF TypeOK
<1> QED BY <1>1 DEF HeapBytes

\* Every header lies in a region.
LEMMA BlocksInHeapBytes ==
    ASSUME HeapInv
    PROVE  Blocks \subseteq HeapBytes(Len(Regions))
<1>1. TypeOK /\ InHeap
  BY DEF HeapInv
<1>2. \A b \in Blocks : b \in Extent(b)
  BY <1>1, Extents DEF Extent
<1> QED BY <1>1, <1>2, HeapBytesGrow DEF InHeap

\* A block that is split off is a new one, within the old one.
LEMMA SplitFresh ==
    ASSUME HeapInv, NEW n \in Requests, NEW b \in Blocks,
           CanSplit(b, AlignUp(n))
    PROVE  /\ NewBlock(b, AlignUp(n)) \notin Blocks
           /\ NewBlock(b, AlignUp(n)) \in HeapBytes(Len(Regions))
<1>i. TypeOK /\ NoOverlap /\ InHeap
  BY DEF HeapInv
<1>1. PICK s : s = AlignUp(n) /\ s \in Nat
  BY RequestsAssumption, AlignUpFacts, WordAssumption
<1>2. PICK e \in Nat : /\ e = End(b) /\ b \in Nat /\ b + 24 + s + 56 <= e
                      /\ e < WordMod
  <2>1. /\ b \in Nat /\ size[b] \in Nat /\ End(b) = b + 24 + size[b]
        /\ End(b) < WordMod - 8
    BY <1>i, Extents
  <2>2. size[b] - s >= 56
    BY <1>1 DEF CanSplit, MIN_ALLOC_SZ, ALLOC_HEADER_SZ
  <2> QED BY <2>1, <2>2, <1>1, WordAssumption
<1>3. NewBlock(b, AlignUp(n)) = b + 24 + s
  <2>1. NewBlock(b, AlignUp(n)) = SizeT(b + 24 + s)
    BY <1>1 DEF NewBlock, Payload, ALLOC_HEADER_SZ
  <2>2. b + 24 + s \in Nat /\ b + 24 + s < WordMod
    BY <1>1, <1>2, WordAssumption
  <2> QED BY <2>1, <2>2, SizeTFacts
<1>4. \A x \in Blocks : x # b + 24 + s
  <2>1. \A x \in Blocks : x # b => End(x) <= b \/ End(b) <= x
    BY <1>i DEF NoOverlap
  <2>2. \A x \in Blocks : x \in Nat /\ End(x) \in Nat /\ x < End(x)
    BY <1>i, Extents
  <2> QED BY <2>1, <2>2, <1>1, <1>2
<1>5. b + 24 + s \in Extent(b)
  BY <1>1, <1>2 DEF Extent
<1> QED BY <1>3, <1>4, <1>5, <1>i, HeapBytesGrow DEF InHeap

LEMMA KmallocSplitHeapInv ==
    ASSUME HeapInv, NEW n \in Requests, KmallocSplit(n)
    PROVE  HeapInv'
<1>i. TypeOK /\ NoOverlap /\ InHeap /\ NoLeak /\ ListExact /\ Aligned /\ Cursor
  BY DEF HeapInv
<1>1. PICK i, b, s, new, z :
        /\ i \in 1 .. Len(free_list)
        /\ b = free_list[i]
        /\ s = AlignUp(n)
        /\ new = NewBlock(b, s)
        /\ z = size[b]
        /\ CanSplit(b, s)
        /\ size' = [x \in Blocks \cup {new} |->
                      IF x = new THEN Remainder(b, s)
                      ELSE IF x = b THEN s ELSE size[x]]
        /\ free_list' = [free_list EXCEPT ![i] = new]
        /\ req' = WithReq(b, n)
  BY DEF KmallocSplit
<1>2. pc = "idle" /\ UNCHANGED <<pc, added, last_block, pos>>
  BY DEF KmallocSplit
<1>4. b \in Blocks /\ b \notin Live
  BY <1>1, <1>i, FreeBlock
<1>5. PICK e : /\ e = End(b) /\ e \in Nat /\ b \in Nat /\ z \in Nat
               /\ e = b + 24 + z
               /\ e < WordMod
               /\ b % 8 = 0
  <2>1. /\ b \in Nat /\ size[b] \in Nat
        /\ End(b) = b + 24 + size[b]
        /\ End(b) < WordMod - 8
    BY <1>4, <1>i, Extents
  <2>2. b % 8 = 0
    BY <1>4, <1>i DEF Aligned
  <2> QED BY <2>1, <2>2, <1>1, WordAssumption
<1>6. s \in Nat /\ s % 8 = 0
  BY <1>1, RequestsAssumption, AlignUpFacts, WordAssumption
<1>3. z - s >= 56 /\ Remainder(b, s) = z - s - 24
  BY <1>1 DEF CanSplit, Remainder, MIN_ALLOC_SZ, ALLOC_HEADER_SZ
<1>7. /\ new = b + 24 + s
      /\ new \in 0 .. (WordMod - 1)
      /\ new % 8 = 0
      /\ new + 24 < e
  <2>1. new = SizeT(b + 24 + s)
    BY <1>1 DEF NewBlock, Payload, ALLOC_HEADER_SZ
  <2>2. b + 24 + s \in Nat /\ b + 24 + s < WordMod
    BY <1>3, <1>5, <1>6, WordAssumption
  <2>3. new = b + 24 + s
    BY <2>1, <2>2, SizeTFacts
  <2> QED BY <2>2, <2>3, <1>3, <1>5, <1>6, WordAssumption
<1>8. ASSUME NEW x \in Blocks, x # b
      PROVE  /\ x # new
             /\ End(x) <= b \/ e <= x
  <2>1. End(x) <= b \/ e <= x
    BY <1>8, <1>4, <1>5, <1>i DEF NoOverlap
  <2>2. x \in Nat /\ x < End(x) /\ End(x) \in Nat
    BY <1>i, Extents
  <2> QED BY <2>1, <2>2, <1>5, <1>6, <1>7
<1>9. new \notin Blocks
  BY <1>8, <1>7, <1>6, <1>5
<1>10. /\ Blocks' = Blocks \cup {new}
       /\ Live' = Live \cup {b}
       /\ \A x \in Blocks : x # b => End(x)' = End(x)
       /\ End(b)' = new
       /\ End(new)' = e
  <2>1. Blocks' = Blocks \cup {new} /\ Live' = Live \cup {b}
    BY <1>1 DEF Blocks, Live, WithReq
  <2>2. /\ size'[new] = z - s - 24
        /\ size'[b] = s
        /\ \A x \in Blocks : x # b => size'[x] = size[x]
    BY <1>1, <1>3, <1>4, <1>9
  <2>3. /\ \A x \in Blocks : x # b => End(x)' = End(x)
        /\ End(b)' = new
    BY <2>2, <1>7 DEF End, Payload, ALLOC_HEADER_SZ
  <2>4. End(new)' = new + 24 + (z - s - 24)
    BY <2>2 DEF End, Payload, ALLOC_HEADER_SZ
  <2> QED BY <2>1, <2>3, <2>4, <1>5, <1>6, <1>7
<1>11. /\ free_list' \in Seq(Blocks')
       /\ Len(free_list') = Len(free_list)
       /\ ToSet(free_list') = (ToSet(free_list) \ {b}) \cup {new}
       /\ IsInjective(free_list')
  <2>1. free_list \in Seq(Blocks \cup {new}) /\ new \in Blocks \cup {new}
    BY <1>i DEF TypeOK
  <2>2. IsInjective(free_list) /\ new \notin ToSet(free_list)
    BY <1>9, <1>i DEF ListExact, FreeBlocks
  <2>i. i \in 1 .. Len(free_list)
    BY <1>1
  <2>3. LET t == [free_list EXCEPT ![i] = new]
        IN  /\ t \in Seq(Blocks \cup {new})
            /\ Len(t) = Len(free_list)
            /\ ToSet(t) = (ToSet(free_list) \ {free_list[i]}) \cup {new}
            /\ IsInjective(t)
    BY <2>1, <2>2, <2>i, ReplaceSet
  <2> QED BY <2>3, <1>1, <1>10
<1>12. TypeOK'
  <2>1. /\ Blocks' \subseteq 0 .. (WordMod - 1)
        /\ size' \in [Blocks' -> 0 .. (WordMod - 1)]
    <3>1. z - s - 24 \in 0 .. (WordMod - 1) /\ s \in 0 .. (WordMod - 1)
      BY <1>3, <1>5, <1>6, WordAssumption
    <3> QED BY <3>1, <1>i, <1>1, <1>3, <1>7, <1>10 DEF TypeOK
  <2>2. Live' \subseteq Blocks' /\ req' \in [Live' -> Requests]
    BY <1>i, <1>1, <1>4, <1>10 DEF TypeOK, WithReq
  <2> QED BY <1>i, <1>2, <1>10, <1>11, <2>1, <2>2 DEF TypeOK
<1>13. NoOverlap'
  <2> SUFFICES ASSUME NEW x \in Blocks', NEW y \in Blocks', x # y
               PROVE  End(x)' <= y \/ End(y)' <= x
    BY DEF NoOverlap
  <2>1. \A a \in Blocks : a \in Nat /\ End(a) \in Nat
    BY <1>i, Extents
  <2>2. CASE x \in Blocks \ {b} /\ y \in Blocks \ {b}
    BY <2>2, <1>i, <1>10 DEF NoOverlap
  <2>3. CASE x \in Blocks \ {b} /\ y \in {b, new}
    BY <2>1, <2>3, <1>5, <1>6, <1>7, <1>8, <1>10
  <2>4. CASE x \in {b, new} /\ y \in Blocks \ {b}
    BY <2>1, <2>4, <1>5, <1>6, <1>7, <1>8, <1>10
  <2>5. CASE x \in {b, new} /\ y \in {b, new}
    BY <2>5, <1>5, <1>7, <1>10
  <2> QED BY <2>2, <2>3, <2>4, <2>5, <1>10
<1>14. InHeap'
  <2> SUFFICES ASSUME NEW x \in Blocks'
               PROVE  Extent(x)' \subseteq HeapBytes(added)
    BY <1>2 DEF InHeap
  <2>0. Extent(x)' = x .. (End(x)' - 1)
    BY DEF Extent
  <2>1. CASE x # b /\ x # new
    BY <2>0, <2>1, <1>i, <1>10 DEF InHeap, Extent
  <2>2. CASE x = b \/ x = new
    <3>1. Extent(b) = b .. (e - 1)
      BY <1>5 DEF Extent
    <3>2. Extent(x)' \subseteq b .. (e - 1)
      BY <2>0, <2>2, <1>5, <1>6, <1>7, <1>10
    <3> QED BY <3>1, <3>2, <1>4, <1>i DEF InHeap
  <2> QED BY <2>1, <2>2
<1>15. ListExact'
  <2>1. ToSet(free_list) = Blocks \ Live /\ Live \subseteq Blocks
    BY <1>i DEF ListExact, FreeBlocks, TypeOK
  <2> QED BY <2>1, <1>4, <1>9, <1>10, <1>11 DEF ListExact, FreeBlocks
<1>16. Aligned'
  BY <1>i, <1>7, <1>10 DEF Aligned
<1>17. Cursor'
  BY <1>i, <1>2 DEF Cursor, TypeOK
<1>18. NoLeak'
  <2> SUFFICES ASSUME NEW a \in HeapBytes(added)
               PROVE  \E x \in Blocks' : a \in Extent(x)'
    BY <1>2 DEF NoLeak
  <2>1. PICK x \in Blocks : a \in Extent(x)
    BY <1>i DEF NoLeak
  <2>2. CASE x # b
    BY <2>1, <2>2, <1>10 DEF Extent
  <2>3. CASE x = b
    <3>1. a \in b .. (e - 1)
      BY <2>1, <2>3, <1>5 DEF Extent
    <3>2. a \in b .. (new - 1) \/ a \in new .. (e - 1)
      BY <3>1, <1>5, <1>7
    <3>3. Extent(b)' = b .. (new - 1) /\ Extent(new)' = new .. (e - 1)
      BY <1>10 DEF Extent
    <3> QED BY <3>2, <3>3, <1>4, <1>10
  <2> QED BY <2>2, <2>3
<1> QED
  BY <1>12, <1>13, <1>14, <1>15, <1>16, <1>17, <1>18 DEF HeapInv

\* Steps that leave the blocks alone.
LEMMA SameBlocks ==
    ASSUME NoOverlap, InHeap, NoLeak, Aligned, size' = size, added' = added
    PROVE  /\ Blocks' = Blocks
           /\ NoOverlap'
           /\ InHeap'
           /\ NoLeak'
           /\ Aligned'
BY DEF Blocks, NoOverlap, InHeap, NoLeak, Aligned, Extent, End, Payload,
       HeapBytes

LEMMA KmallocWholeHeapInv ==
    ASSUME HeapInv, NEW n \in Requests, KmallocWhole(n)
    PROVE  HeapInv'
<1>i. TypeOK /\ NoOverlap /\ InHeap /\ NoLeak /\ ListExact /\ Aligned /\ Cursor
  BY DEF HeapInv
<1>1. PICK i, b :
        /\ i \in 1 .. Len(free_list)
        /\ b = free_list[i]
        /\ free_list' = RemoveAt(free_list, i)
        /\ req' = WithReq(b, n)
  BY DEF KmallocWhole, Unlink
<1>2. pc = "idle" /\ UNCHANGED <<size, pc, added, last_block, pos>>
  BY DEF KmallocWhole
<1>3. /\ Blocks' = Blocks
      /\ NoOverlap'
      /\ InHeap'
      /\ NoLeak'
      /\ Aligned'
  BY <1>2, <1>i, SameBlocks
<1>4. b \in Blocks /\ b \notin Live
  BY <1>1, <1>i, FreeBlock
<1>5. Live' = Live \cup {b}
  BY <1>1 DEF Live, WithReq
<1>6. /\ free_list' \in Seq(Blocks)
      /\ ToSet(free_list') = ToSet(free_list) \ {b}
      /\ IsInjective(free_list')
  <2>1. free_list \in Seq(Blocks) /\ IsInjective(free_list)
    BY <1>i DEF TypeOK, ListExact
  <2>i. i \in 1 .. Len(free_list)
    BY <1>1
  <2>2. RemoveAt(free_list, i) \in Seq(Blocks)
    BY <2>1, <2>i, RemoveAtType
  <2>3. /\ ToSet(RemoveAt(free_list, i)) = ToSet(free_list) \ {free_list[i]}
        /\ IsInjective(RemoveAt(free_list, i))
    BY <2>1, <2>i, RemoveAtSet
  <2> QED BY <2>2, <2>3, <1>1
<1>7. pos' = 1
  BY <1>2, <1>i DEF Cursor
<1>8. TypeOK'
  <2>1. Live' \subseteq Blocks' /\ req' \in [Live' -> Requests]
    BY <1>i, <1>1, <1>3, <1>4, <1>5 DEF TypeOK, WithReq
  <2>2. pos' \in 1 .. (Len(free_list') + 1)
    BY <1>6, <1>7
  <2> QED BY <1>i, <1>2, <1>3, <1>6, <2>1, <2>2 DEF TypeOK
<1>9. ListExact'
  BY <1>i, <1>3, <1>4, <1>5, <1>6 DEF ListExact, FreeBlocks
<1>10. Cursor'
  BY <1>i, <1>2, <1>7 DEF Cursor
<1> QED
  BY <1>3, <1>8, <1>9, <1>10 DEF HeapInv

LEMMA KfreeHeapInv ==
    ASSUME HeapInv, NEW b \in Live, Kfree(b)
    PROVE  HeapInv'
<1>i. TypeOK /\ NoOverlap /\ InHeap /\ NoLeak /\ ListExact /\ Aligned /\ Cursor
  BY DEF HeapInv
<1>1. PICK i \in 1 .. (Len(free_list) + 1) :
        free_list' = InsertAt(free_list, i, b)
  BY DEF Kfree
<1>2. /\ pc = "idle" /\ pc' = "defrag"
      /\ req' = [x \in Live \ {b} |-> req[x]]
      /\ UNCHANGED <<size, added, last_block, pos>>
  BY DEF Kfree
<1>3. /\ Blocks' = Blocks
      /\ NoOverlap'
      /\ InHeap'
      /\ NoLeak'
      /\ Aligned'
  BY <1>2, <1>i, SameBlocks
<1>4. Live' = Live \ {b} /\ b \in Blocks
  BY <1>2, <1>i DEF Live, TypeOK
<1>5. /\ free_list' \in Seq(Blocks)
      /\ ToSet(free_list') = ToSet(free_list) \cup {b}
      /\ IsInjective(free_list')
  <2>1. /\ free_list \in Seq(Blocks)
        /\ IsInjective(free_list)
        /\ b \notin ToSet(free_list)
    BY <1>i DEF TypeOK, ListExact, FreeBlocks
  <2>2. InsertAt(free_list, i, b) \in Seq(Blocks)
    BY <2>1, <1>4, InsertAtType
  <2>3. /\ ToSet(InsertAt(free_list, i, b)) = ToSet(free_list) \cup {b}
        /\ IsInjective(InsertAt(free_list, i, b))
    BY <2>1, <1>4, InsertAtSet
  <2> QED BY <2>2, <2>3, <1>1
<1>6. pos' = 1 /\ last_block' = NULL
  BY <1>2, <1>i DEF Cursor
<1>7. TypeOK'
  <2>1. Live' \subseteq Blocks' /\ req' \in [Live' -> Requests]
    BY <1>i, <1>2, <1>3, <1>4 DEF TypeOK
  <2>2. pos' \in 1 .. (Len(free_list') + 1)
    BY <1>5, <1>6
  <2> QED BY <1>i, <1>2, <1>3, <1>5, <2>1, <2>2 DEF TypeOK
<1>8. ListExact'
  BY <1>i, <1>3, <1>4, <1>5 DEF ListExact, FreeBlocks
<1>9. Cursor'
  BY <1>2, <1>6 DEF Cursor
<1> QED
  BY <1>3, <1>7, <1>8, <1>9 DEF HeapInv

LEMMA DefragMergeHeapInv ==
    ASSUME HeapInv, DefragMerge
    PROVE  HeapInv'
<1>i. TypeOK /\ NoOverlap /\ InHeap /\ NoLeak /\ ListExact /\ Aligned /\ Cursor
  BY DEF HeapInv
<1>1. PICK b, z, l, w :
        /\ b = free_list[pos]
        /\ z = size[b]
        /\ l = last_block
        /\ w = size[l]
  OBVIOUS
<1>2. /\ l # NULL
      /\ SizeT(End(l)) = b
      /\ size' = [x \in Blocks \ {b} |->
                    IF x = l THEN SizeT(w + 24 + z) ELSE size[x]]
      /\ free_list' = RemoveAt(free_list, pos)
      /\ pc = "defrag"
      /\ UNCHANGED <<req, pc, added, last_block, pos>>
  BY <1>1 DEF DefragMerge, Adjacent, MergedSize, Unlink, ALLOC_HEADER_SZ
<1>3. pos \in 1 .. Len(free_list)
  BY <1>i DEF DefragMerge, TypeOK
<1>4. b \in Blocks /\ b \notin Live
  BY <1>1, <1>3, <1>i, FreeBlock
<1>5. pos > 1 /\ l = free_list[pos - 1] /\ pos - 1 \in 1 .. Len(free_list)
  BY <1>1, <1>2, <1>3, <1>i DEF Cursor
<1>6. l \in Blocks /\ l # b
  <2>1. l \in Blocks
    BY <1>5, <1>i, FreeBlock
  <2>2. free_list[pos - 1] # free_list[pos]
    BY <1>3, <1>5, <1>i DEF ListExact, IsInjective, TypeOK
  <2> QED BY <2>1, <2>2, <1>1, <1>5
<1>7. /\ l \in Nat /\ w \in Nat /\ End(l) = l + 24 + w
      /\ b \in Nat /\ z \in Nat /\ End(b) = b + 24 + z
      /\ End(l) < WordMod - 8
      /\ End(b) < WordMod - 8
  BY <1>1, <1>4, <1>6, <1>i, Extents
<1>8. b = l + 24 + w
  BY <1>2, <1>7, SizeTFacts, WordAssumption
<1>9. PICK m : m = w + 24 + z /\ m \in 0 .. (WordMod - 1) /\ m = SizeT(w + 24 + z)
  <2>1. w + 24 + z \in Nat /\ w + 24 + z < WordMod
    BY <1>7, <1>8, WordAssumption
  <2> QED BY <2>1, SizeTFacts
<1>10. /\ Blocks' = Blocks \ {b}
       /\ \A x \in Blocks \ {b, l} : End(x)' = End(x)
       /\ End(l)' = End(b)
  <2>1. Blocks' = Blocks \ {b}
    BY <1>2 DEF Blocks
  <2>2. size'[l] = m /\ \A x \in Blocks \ {b, l} : size'[x] = size[x]
    BY <1>2, <1>6, <1>9
  <2>3. \A x \in Blocks \ {b, l} : End(x)' = End(x)
    BY <2>2 DEF End, Payload
  <2>4. End(l)' = l + 24 + m
    BY <2>2 DEF End, Payload, ALLOC_HEADER_SZ
  <2> QED BY <2>1, <2>3, <2>4, <1>7, <1>8, <1>9
<1>11. /\ free_list' \in Seq(Blocks')
       /\ Len(free_list') = Len(free_list) - 1
       /\ free_list'[pos - 1] = free_list[pos - 1]
       /\ ToSet(free_list') = ToSet(free_list) \ {b}
       /\ IsInjective(free_list')
  <2>1. free_list \in Seq(Blocks) /\ IsInjective(free_list)
    BY <1>i DEF TypeOK, ListExact
  <2>2. /\ RemoveAt(free_list, pos) \in Seq(Blocks)
        /\ Len(RemoveAt(free_list, pos)) = Len(free_list) - 1
        /\ \A j \in 1 .. (pos - 1) :
              RemoveAt(free_list, pos)[j] = free_list[j]
    BY <2>1, <1>3, RemoveAtElements
  <2>3. /\ ToSet(RemoveAt(free_list, pos))
             = ToSet(free_list) \ {free_list[pos]}
        /\ IsInjective(RemoveAt(free_list, pos))
    BY <2>1, <1>3, RemoveAtSet
  <2>4. free_list' \in Seq(ToSet(free_list'))
    BY <2>2, <1>2 DEF ToSet
  <2>5. ToSet(free_list') \subseteq Blocks'
    BY <2>3, <1>1, <1>2, <1>10, <1>i DEF ListExact, FreeBlocks
  <2>6. free_list' \in Seq(Blocks')
    BY <2>4, <2>5, SeqMonotonic
  <2>7. pos - 1 \in 1 .. (pos - 1)
    BY <1>3, <1>5
  <2> QED BY <2>2, <2>3, <2>6, <2>7, <1>1, <1>2
<1>12. TypeOK'
  <2>1. /\ Blocks' \subseteq 0 .. (WordMod - 1)
        /\ size' \in [Blocks' -> 0 .. (WordMod - 1)]
    BY <1>2, <1>9, <1>10, <1>i DEF TypeOK
  <2>2. Live' = Live /\ Live' \subseteq Blocks'
    BY <1>2, <1>4, <1>10, <1>i DEF Live, TypeOK
  <2>3. last_block' \in Blocks'
    BY <1>1, <1>2, <1>6, <1>10
  <2>4. pos' \in 1 .. (Len(free_list') + 1)
    BY <1>2, <1>3, <1>11
  <2> QED BY <2>1, <2>2, <2>3, <2>4, <1>2, <1>11, <1>i DEF TypeOK
<1>13. NoOverlap'
  <2> SUFFICES ASSUME NEW x \in Blocks', NEW y \in Blocks', x # y
               PROVE  End(x)' <= y \/ End(y)' <= x
    BY DEF NoOverlap
  <2>1. \A a \in Blocks : a \in Nat /\ End(a) \in Nat /\ a < End(a)
    BY <1>i, Extents
  <2>2. \A a, c \in Blocks : a # c => End(a) <= c \/ End(c) <= a
    BY <1>i DEF NoOverlap
  <2>3. \A a \in Blocks \ {b, l} : End(a) <= l \/ End(b) <= a
    BY <2>1, <2>2, <1>4, <1>6, <1>7, <1>8
  <2>4. CASE x # l /\ y # l
    BY <2>2, <2>4, <1>10
  <2>5. CASE x = l
    BY <2>3, <2>5, <1>10
  <2>6. CASE y = l
    BY <2>3, <2>6, <1>10
  <2> QED BY <2>4, <2>5, <2>6
<1>14. InHeap'
  <2> SUFFICES ASSUME NEW x \in Blocks'
               PROVE  Extent(x)' \subseteq HeapBytes(added)
    BY <1>2 DEF InHeap
  <2>1. Extent(x)' = x .. (End(x)' - 1)
    BY DEF Extent
  <2>2. CASE x # l
    BY <2>1, <2>2, <1>i, <1>10 DEF InHeap, Extent
  <2>3. CASE x = l
    <3>1. Extent(x)' \subseteq Extent(l) \cup Extent(b)
      BY <2>1, <2>3, <1>7, <1>8, <1>10 DEF Extent
    <3> QED BY <3>1, <1>4, <1>6, <1>i DEF InHeap
  <2> QED BY <2>2, <2>3
<1>15. ListExact'
  <2>1. Live' = Live
    BY <1>2 DEF Live
  <2> QED BY <2>1, <1>4, <1>10, <1>11, <1>i DEF ListExact, FreeBlocks
<1>16. Aligned'
  BY <1>10, <1>i DEF Aligned
<1>17. Cursor'
  BY <1>1, <1>2, <1>5, <1>11, <1>i DEF Cursor
<1>18. NoLeak'
  <2> SUFFICES ASSUME NEW a \in HeapBytes(added)
               PROVE  \E x \in Blocks' : a \in Extent(x)'
    BY <1>2 DEF NoLeak
  <2>1. PICK x \in Blocks : a \in Extent(x)
    BY <1>i DEF NoLeak
  <2>2. CASE x \notin {b, l}
    BY <2>1, <2>2, <1>10 DEF Extent
  <2>3. CASE x \in {b, l}
    <3>1. a \in l .. (End(l) - 1) \/ a \in b .. (End(b) - 1)
      BY <2>1, <2>3 DEF Extent
    <3>2. a \in l .. (End(b) - 1)
      BY <3>1, <1>7, <1>8
    <3>3. Extent(l)' = l .. (End(b) - 1)
      BY <1>10 DEF Extent
    <3> QED BY <3>2, <3>3, <1>6, <1>10
  <2> QED BY <2>2, <2>3
<1> QED
  BY <1>12, <1>13, <1>14, <1>15, <1>16, <1>17, <1>18 DEF HeapInv

LEMMA DefragAdvanceHeapInv ==
    ASSUME HeapInv, DefragAdvance
    PROVE  HeapInv'
<1>i. TypeOK /\ NoOverlap /\ InHeap /\ NoLeak /\ ListExact /\ Aligned /\ Cursor
  BY DEF HeapInv
<1>1. /\ last_block' = free_list[pos]
      /\ pos' = pos + 1
      /\ pc = "defrag"
      /\ UNCHANGED <<size, free_list, req, pc, added>>
  BY DEF DefragAdvance, NextPos
<1>2. pos \in 1 .. Len(free_list)
  BY <1>i DEF DefragAdvance, TypeOK
<1>3. /\ Blocks' = Blocks
      /\ NoOverlap'
      /\ InHeap'
      /\ NoLeak'
      /\ Aligned'
  BY <1>1, <1>i, SameBlocks
<1>4. free_list[pos] \in Blocks
  BY <1>2, <1>i, FreeBlock
<1>5. TypeOK'
  <2>1. pos' \in 1 .. (Len(free_list) + 1)
    BY <1>1, <1>2, <1>i DEF TypeOK
  <2>2. Len(free_list)' = Len(free_list)
    BY <1>1
  <2> QED BY <2>1, <2>2, <1>1, <1>4, <1>i DEF TypeOK, Blocks, Live
<1>6. ListExact'
  BY <1>1, <1>3, <1>i DEF ListExact, FreeBlocks, Live
<1>7. Cursor'
  BY <1>1, <1>2 DEF Cursor
<1> QED
  BY <1>3, <1>5, <1>6, <1>7 DEF HeapInv

LEMMA DefragDoneHeapInv ==
    ASSUME HeapInv, DefragDone
    PROVE  HeapInv'
<1>i. TypeOK /\ NoOverlap /\ InHeap /\ NoLeak /\ ListExact /\ Aligned /\ Cursor
  BY DEF HeapInv
<1>1. /\ pc' = "idle" /\ last_block' = NULL /\ pos' = 1
      /\ UNCHANGED <<size, free_list, req, added>>
  BY DEF DefragDone
<1>2. /\ Blocks' = Blocks
      /\ NoOverlap'
      /\ InHeap'
      /\ NoLeak'
      /\ Aligned'
  BY <1>1, <1>i, SameBlocks
<1>3. TypeOK'
  <2>1. 1 \in 1 .. (Len(free_list) + 1)
    BY <1>i DEF TypeOK
  <2> QED BY <2>1, <1>1, <1>2, <1>i DEF TypeOK, Live
<1>4. ListExact'
  BY <1>1, <1>2, <1>i DEF ListExact, FreeBlocks, Live
<1>5. Cursor'
  BY <1>1 DEF Cursor
<1> QED
  BY <1>2, <1>3, <1>4, <1>5 DEF HeapInv

\* Steps that change at most pc, and do not begin or end a pass.
LEMMA QuietHeapInv ==
    ASSUME HeapInv,
           UNCHANGED <<size, free_list, req, added, last_block, pos>>,
           pc' = pc \/ (pc # "defrag" /\ pc' \in {"idle", "panic"})
    PROVE  HeapInv'
<1>i. TypeOK /\ NoOverlap /\ InHeap /\ NoLeak /\ ListExact /\ Aligned /\ Cursor
  BY DEF HeapInv
<1>1. /\ Blocks' = Blocks
      /\ NoOverlap'
      /\ InHeap'
      /\ NoLeak'
      /\ Aligned'
  BY <1>i, SameBlocks
<1>2. TypeOK'
  BY <1>1, <1>i DEF TypeOK, Live
<1>3. ListExact'
  BY <1>1, <1>i DEF ListExact, FreeBlocks, Live
<1>4. Cursor'
  BY <1>i DEF Cursor
<1> QED
  BY <1>1, <1>2, <1>3, <1>4 DEF HeapInv

LEMMA NextHeapInv ==
    ASSUME RegionsHoldHeader, HeapInv, [Next]_vars
    PROVE  HeapInv'
<1>1. CASE AddBlock
  BY <1>1, AddBlockHeapInv
<1>2. CASE InitDone
  BY <1>2, QuietHeapInv DEF InitDone
<1>3. ASSUME NEW n \in Requests, KmallocSplit(n)
      PROVE  HeapInv'
  BY <1>3, KmallocSplitHeapInv
<1>4. ASSUME NEW n \in Requests, KmallocWhole(n)
      PROVE  HeapInv'
  BY <1>4, KmallocWholeHeapInv
<1>5. ASSUME NEW n \in Requests, InfalliblePanic(n)
      PROVE  HeapInv'
  BY <1>5, QuietHeapInv DEF InfalliblePanic
<1>6. ASSUME NEW b \in Live, Kfree(b)
      PROVE  HeapInv'
  BY <1>6, KfreeHeapInv
<1>7. CASE DefragMerge
  BY <1>7, DefragMergeHeapInv
<1>8. CASE DefragAdvance
  BY <1>8, DefragAdvanceHeapInv
<1>9. CASE DefragDone
  BY <1>9, DefragDoneHeapInv
<1>10. CASE UNCHANGED vars
  BY <1>10, QuietHeapInv DEF vars
<1> QED
  BY <1>1, <1>2, <1>3, <1>4, <1>5, <1>6, <1>7, <1>8, <1>9, <1>10
     DEF Next, Defrag

-----------------------------------------------------------------------------
\* The inductive invariant holds in every reachable state of the heap.
THEOREM HeapInvariant ==
    ASSUME RegionsHoldHeader
    PROVE  Spec => []HeapInv
<1>1. Init => HeapInv
  BY InitHeapInv
<1>2. HeapInv /\ [Next]_vars => HeapInv'
  BY NextHeapInv
<1> QED BY <1>1, <1>2, PTL DEF Spec

\* The variables keep their types: in particular every size and address the
\* allocator computes is the number it means, not one that wrapped.
THEOREM TypeCorrect ==
    ASSUME RegionsHoldHeader
    PROVE  Spec => []TypeOK
<1>1. HeapInv => TypeOK
  BY DEF HeapInv
<1> QED BY <1>1, HeapInvariant, PTL

\* The blocks partition the bytes of the regions: no byte in two blocks, no
\* byte in none, no block beyond the memory kmalloc_init was given.
THEOREM BlocksPartitionHeap ==
    ASSUME RegionsHoldHeader
    PROVE  Spec => [](NoOverlap /\ FillsRegions)
<1>1. HeapInv => NoOverlap /\ FillsRegions
  BY DEF HeapInv, FillsRegions
<1> QED BY <1>1, HeapInvariant, PTL

\* free_list links exactly the blocks that no caller holds, each once.
THEOREM FreeListExact ==
    ASSUME RegionsHoldHeader
    PROVE  Spec => []ListExact
<1>1. HeapInv => ListExact
  BY DEF HeapInv
<1> QED BY <1>1, HeapInvariant, PTL

-----------------------------------------------------------------------------
(***************************************************************************)
(* The promise: a step of kmalloc hands out bytes that nobody else holds,  *)
(* a step of kfree takes them back, and no other step is visible to a      *)
(* caller.                                                                 *)
(***************************************************************************)

GrantsInv == HeapInv /\ GrantsEnough

LEMMA RequestNat == \A n \in Requests : n \in Nat
BY RequestsAssumption, WordAssumption

\* The block a kmalloc step hands out, split or whole: it was free, and it was
\* at least as big as the caller asked for.
LEMMA KmallocGrants ==
    ASSUME RequestsFit, HeapInv, NEW n \in Requests,
           KmallocSplit(n) \/ KmallocWhole(n)
    PROVE  \E b \in Blocks \ Live :
               /\ n > 0
               /\ n <= size[b]
               /\ req' = WithReq(b, n)
               /\ b \in DOMAIN size' /\ size'[b] \in Nat /\ n <= size'[b]
               /\ \A x \in Live : size'[x] = size[x]
<1>i. TypeOK /\ NoOverlap /\ InHeap /\ ListExact
  BY DEF HeapInv
<1>1. n \in Nat /\ AlignUp(n) \in Nat /\ n <= AlignUp(n)
  BY RequestsAssumption, WordAssumption, AlignUpFacts DEF RequestsFit
<1>2. CASE KmallocSplit(n)
  <2>1. PICK i, b, new :
          /\ i \in 1 .. Len(free_list)
          /\ b = free_list[i]
          /\ new = NewBlock(b, AlignUp(n))
          /\ CanSplit(b, AlignUp(n))
          /\ size' = [x \in Blocks \cup {new} |->
                        IF x = new THEN Remainder(b, AlignUp(n))
                        ELSE IF x = b THEN AlignUp(n) ELSE size[x]]
          /\ req' = WithReq(b, n)
    BY <1>2 DEF KmallocSplit
  <2>2. n > 0
    BY <1>2 DEF KmallocSplit
  <2>3. b \in Blocks /\ b \notin Live
    BY <2>1, <1>i, FreeBlock
  <2>4. /\ b \in Nat /\ size[b] \in Nat /\ End(b) = b + 24 + size[b]
        /\ End(b) < WordMod - 8
    BY <2>3, <1>i, Extents
  <2>5. PICK s, z \in Nat : /\ s = AlignUp(n) /\ z = size[b]
                            /\ z - s >= 56 /\ n <= s
    BY <2>1, <2>4, <1>1 DEF CanSplit, MIN_ALLOC_SZ, ALLOC_HEADER_SZ
  <2>e. PICK e \in Nat : /\ e = End(b) /\ e = b + 24 + z /\ e < WordMod
                         /\ b \in Nat /\ z - s >= 56
    BY <2>4, <2>5, WordAssumption
  <2>6. new = b + 24 + s
    <3>1. b + 24 + s \in Nat /\ b + 24 + s < WordMod
      BY <2>e, WordAssumption
    <3>2. new = SizeT(b + 24 + s)
      BY <2>1, <2>5 DEF NewBlock, Payload, ALLOC_HEADER_SZ
    <3> QED BY <3>1, <3>2, SizeTFacts
  <2>7. new \notin Live /\ new # b
    <3>1. \A x \in Blocks : x # b => End(x) <= b \/ End(b) <= x
      BY <2>3, <1>i DEF NoOverlap
    <3>2. \A x \in Blocks : x \in Nat /\ End(x) \in Nat /\ x < End(x)
      BY <1>i, Extents
    <3>3. new \in Nat /\ b < new /\ new < e
      BY <2>6, <2>e
    <3>4. \A x \in Blocks : x # b => x # new
      BY <3>1, <3>2, <3>3, <2>4, <2>e
    <3> QED BY <3>3, <3>4, <2>4, <1>i DEF TypeOK
  <2>8. /\ b \in DOMAIN size' /\ size'[b] = AlignUp(n)
        /\ \A x \in Live : size'[x] = size[x]
    BY <2>1, <2>3, <2>7, <1>i DEF TypeOK
  <2>9. n <= size[b] /\ n <= size'[b] /\ size'[b] \in Nat
    BY <2>5, <2>8, <1>1
  <2> QED BY <2>1, <2>2, <2>3, <2>8, <2>9
<1>3. CASE KmallocWhole(n)
  <2>1. PICK i \in 1 .. Len(free_list) :
          /\ size[free_list[i]] >= AlignUp(n)
          /\ req' = WithReq(free_list[i], n)
    BY <1>3 DEF KmallocWhole, FirstFit
  <2>2. n > 0 /\ size' = size
    BY <1>3 DEF KmallocWhole
  <2>3. free_list[i] \in Blocks \ Live
    BY <1>i, FreeBlock
  <2>4. size[free_list[i]] \in Nat
    BY <2>3, <1>i, Extents
  <2> QED BY <2>1, <2>2, <2>3, <2>4, <1>1 DEF Blocks
<1> QED BY <1>2, <1>3

LEMMA NextGrantsEnough ==
    ASSUME RegionsHoldHeader, RequestsFit, GrantsInv, [Next]_vars
    PROVE  GrantsEnough'
<1>i. HeapInv /\ GrantsEnough /\ TypeOK /\ ListExact
  BY DEF GrantsInv, HeapInv
<1>1. ASSUME NEW n \in Requests, KmallocSplit(n) \/ KmallocWhole(n)
      PROVE  GrantsEnough'
  <2>1. PICK b \in Blocks \ Live :
           /\ req' = WithReq(b, n)
           /\ n <= size'[b]
           /\ \A x \in Live : size'[x] = size[x]
    BY <1>1, <1>i, KmallocGrants
  <2> QED BY <2>1, <1>i DEF GrantsEnough, WithReq, Live
<1>2. ASSUME Live' \subseteq Live,
             \A x \in Live' : req'[x] = req[x] /\ size'[x] = size[x]
      PROVE  GrantsEnough'
  BY <1>2, <1>i DEF GrantsEnough
<1>3. CASE AddBlock
  <2>1. /\ added + 1 \in 1 .. Len(Regions)
        /\ size' = WithSize(RegionStart(added + 1), AddedSize(added + 1))
        /\ req' = req
        /\ pc = "init"
    BY <1>3, <1>i, RegionsAssumption DEF AddBlock, TypeOK
  <2>2. RegionStart(added + 1) \notin Blocks
    BY <1>3, <1>i, AddBlockFresh DEF AddBlock
  <2>3. \A x \in Live : size'[x] = size[x]
    BY <2>1, <2>2, <1>i DEF WithSize, TypeOK
  <2> QED BY <2>1, <2>3, <1>2 DEF Live
<1>4. ASSUME NEW b \in Live, Kfree(b)
      PROVE  GrantsEnough'
  BY <1>4, <1>2 DEF Kfree, Live
<1>5. CASE DefragMerge
  <2>1. PICK b, m : /\ b = free_list[pos]
                    /\ size' = [x \in Blocks \ {b} |->
                                  IF x = last_block THEN m ELSE size[x]]
    BY <1>5 DEF DefragMerge
  <2>2. last_block # NULL /\ req' = req
    BY <1>5 DEF DefragMerge, Adjacent
  <2>3. pos \in 1 .. Len(free_list) /\ pos - 1 \in 1 .. Len(free_list)
        /\ last_block = free_list[pos - 1]
    BY <1>5, <2>2, <1>i DEF DefragMerge, HeapInv, TypeOK, Cursor
  <2>4. b \notin Live /\ last_block \notin Live
    BY <2>1, <2>3, <1>i, FreeBlock
  <2>5. \A x \in Live : size'[x] = size[x]
    BY <2>1, <2>4, <1>i DEF TypeOK
  <2> QED BY <2>2, <2>5, <1>2 DEF Live
<1>6. ASSUME UNCHANGED <<size, req>>
      PROVE  GrantsEnough'
  BY <1>6, <1>2 DEF Live
<1>7. /\ InitDone => UNCHANGED <<size, req>>
      /\ \A n \in Requests : InfalliblePanic(n) => UNCHANGED <<size, req>>
      /\ DefragAdvance => UNCHANGED <<size, req>>
      /\ DefragDone => UNCHANGED <<size, req>>
      /\ UNCHANGED vars => UNCHANGED <<size, req>>
  BY DEF InitDone, InfalliblePanic, DefragAdvance, DefragDone, vars
<1> QED BY <1>1, <1>3, <1>4, <1>5, <1>6, <1>7 DEF Next, Defrag

\* Callers get at least the bytes they asked for.
THEOREM GrantsAreEnough ==
    ASSUME RegionsHoldHeader, RequestsFit
    PROVE  Spec => []GrantsEnough
<1>1. Init => GrantsEnough
  BY DEF Init, GrantsEnough, Live
<1>2. HeapInv /\ GrantsEnough /\ [Next]_vars => GrantsEnough'
  BY NextGrantsEnough DEF GrantsInv
<1> QED BY <1>1, <1>2, HeapInvariant, PTL DEF Spec

-----------------------------------------------------------------------------
\* What the callers hold, as HeapSpec sees it.
Held == [p \in {Payload(b) : b \in Live} |-> req[p - ALLOC_HEADER_SZ]]

\* A kmalloc step is HeapSpec's Alloc of the block's payload.
LEMMA KmallocAllocates ==
    ASSUME RequestsFit, GrantsInv, NEW n \in Requests,
           KmallocSplit(n) \/ KmallocWhole(n)
    PROVE  \E p \in HeapBytes(Len(Regions)) : Promise!Alloc(p, n)
<1>i. HeapInv /\ TypeOK /\ NoOverlap /\ InHeap /\ Aligned /\ GrantsEnough
  BY DEF GrantsInv, HeapInv
<1>1. PICK b \in Blocks \ Live :
         n > 0 /\ n <= size[b] /\ req' = WithReq(b, n)
  BY <1>i, KmallocGrants
<1>n. n \in Nat /\ n > 0
  BY <1>1, RequestsAssumption, WordAssumption
<1>2. PICK p, e, z \in Nat :
        /\ p = b + 24 /\ b \in Nat
        /\ z = size[b]
        /\ e = End(b) /\ e = p + z
        /\ p = Payload(b)
        /\ p % 8 = 0
        /\ p + n <= e
  <2>1. /\ b \in Nat /\ size[b] \in Nat /\ End(b) = b + 24 + size[b]
        /\ b % 8 = 0
    BY <1>i, Extents DEF Aligned
  <2>2. (b + 24) % 8 = 0
    BY <2>1
  <2> QED BY <2>1, <2>2, <1>1, <1>n DEF Payload, ALLOC_HEADER_SZ
<1>3. Promise!Bytes(p, n) \subseteq HeapBytes(Len(Regions))
  <2>1. Promise!Bytes(p, n) \subseteq Extent(b)
    BY <1>2, <1>n DEF Promise!Bytes, Extent
  <2>2. HeapBytes(added) \subseteq HeapBytes(Len(Regions))
    BY <1>i, HeapBytesGrow
  <2> QED BY <2>1, <2>2, <1>i DEF InHeap
<1>4. DOMAIN Held = {Payload(c) : c \in Live}
  BY DEF Held
<1>5. ASSUME NEW q \in DOMAIN Held
      PROVE  p + n <= q \/ q + Held[q] <= p
  <2>1. PICK c \in Live : q = Payload(c)
    BY <1>4
  <2>2. /\ c \in Blocks /\ c # b /\ c \in Nat /\ size[c] \in Nat
        /\ End(c) = c + 24 + size[c]
    BY <1>i, Extents DEF TypeOK
  <2>3. q = c + 24 /\ q - 24 = c
    BY <2>1, <2>2 DEF Payload, ALLOC_HEADER_SZ
  <2>4. Held[q] = req[c]
    BY <2>3 DEF Held, ALLOC_HEADER_SZ
  <2>5. req[c] \in Nat /\ req[c] <= size[c]
    <3>1. req[c] \in Requests
      BY <1>i DEF TypeOK
    <3>2. req[c] \in Nat
      BY <3>1, RequestNat
    <3>3. size[c] >= req[c]
      BY <1>i DEF GrantsEnough
    <3> QED BY <3>2, <3>3, <2>2
  <2>6. End(c) <= b \/ End(b) <= c
    BY <2>2, <1>i DEF NoOverlap
  <2> QED BY <2>2, <2>3, <2>4, <2>5, <2>6, <1>2, <1>n
<1>6. Held' = [q \in DOMAIN Held \cup {p} |-> IF q = p THEN n ELSE Held[q]]
  <2>1. Live' = Live \cup {b}
    BY <1>1 DEF Live, WithReq
  <2>2. {Payload(c) : c \in Live'} = DOMAIN Held \cup {p}
    BY <2>1, <1>2, <1>4
  <2>3. Held' = [q \in DOMAIN Held \cup {p} |-> req'[q - ALLOC_HEADER_SZ]]
    BY <2>2 DEF Held
  <2>4. ASSUME NEW q \in DOMAIN Held \cup {p}
        PROVE  req'[q - ALLOC_HEADER_SZ] = IF q = p THEN n ELSE Held[q]
    <3>1. CASE q = p
      <4>1. q - ALLOC_HEADER_SZ = b
        BY <3>1, <1>2 DEF ALLOC_HEADER_SZ
      <4> QED BY <3>1, <4>1, <1>1 DEF WithReq
    <3>2. CASE q # p
      <4>1. PICK c \in Live : q = Payload(c)
        BY <3>2, <2>4, <1>4
      <4>2. c \in Nat /\ c # b
        BY <1>i, WordAssumption DEF TypeOK
      <4>3. q - ALLOC_HEADER_SZ = c
        BY <4>1, <4>2 DEF Payload, ALLOC_HEADER_SZ
      <4>4. req'[c] = req[c]
        BY <4>2, <1>1 DEF WithReq
      <4>5. Held[q] = req[c]
        BY <4>1, <4>3 DEF Held
      <4> QED BY <3>2, <4>3, <4>4, <4>5
    <3> QED BY <3>1, <3>2
  <2> QED BY <2>3, <2>4
<1>7. p \in HeapBytes(Len(Regions))
  BY <1>2, <1>3, <1>n DEF Promise!Bytes
<1>8. Promise!Alloc(p, n)
  BY <1>2, <1>3, <1>5, <1>6, <1>n DEF Promise!Alloc, Held
<1> QED BY <1>7, <1>8

\* A kfree step is HeapSpec's Free of the payload.
LEMMA KfreeFrees ==
    ASSUME GrantsInv, NEW b \in Live, Kfree(b)
    PROVE  \E p \in DOMAIN Held : Promise!Free(p)
<1>i. TypeOK
  BY DEF GrantsInv, HeapInv
<1>1. req' = [x \in Live \ {b} |-> req[x]]
  BY DEF Kfree
<1>2. \A c \in Live : c \in Nat /\ Payload(c) = c + 24
  BY <1>i, WordAssumption DEF TypeOK, Payload, ALLOC_HEADER_SZ
<1>3. DOMAIN Held = {Payload(c) : c \in Live}
  BY DEF Held
<1>4. Payload(b) \in DOMAIN Held
  BY <1>3
<1>5. Live' = Live \ {b}
  BY <1>1 DEF Live
<1>6. {Payload(c) : c \in Live'} = DOMAIN Held \ {Payload(b)}
  BY <1>2, <1>3, <1>5
<1>7. Held' = [q \in DOMAIN Held \ {Payload(b)} |-> req'[q - ALLOC_HEADER_SZ]]
  BY <1>6 DEF Held
<1>8. ASSUME NEW q \in DOMAIN Held \ {Payload(b)}
      PROVE  req'[q - ALLOC_HEADER_SZ] = Held[q]
  <2>1. PICK c \in Live : q = Payload(c) /\ c # b
    BY <1>8, <1>3
  <2>2. q - ALLOC_HEADER_SZ = c
    BY <2>1, <1>2 DEF ALLOC_HEADER_SZ
  <2>3. Held[q] = req[c]
    BY <2>2, <1>3 DEF Held
  <2> QED BY <2>1, <2>2, <2>3, <1>1
<1>9. Held' = [q \in DOMAIN Held \ {Payload(b)} |-> Held[q]]
  BY <1>7, <1>8
<1> QED BY <1>4, <1>9 DEF Promise!Free, Held

LEMMA InitPromise == Init => Promise!Init
BY DEF Init, Promise!Init, Live

LEMMA NextPromise ==
    ASSUME RequestsFit, GrantsInv, [Next]_vars
    PROVE  [Promise!Next]_Held
<1>1. ASSUME NEW n \in Requests, KmallocSplit(n) \/ KmallocWhole(n)
      PROVE  Promise!Next
  BY <1>1, KmallocAllocates DEF Promise!Next
<1>2. ASSUME NEW b \in Live, Kfree(b)
      PROVE  Promise!Next
  BY <1>2, KfreeFrees DEF Promise!Next, Held
<1>3. ASSUME req' = req
      PROVE  Held' = Held
  BY <1>3 DEF Held, Live
<1>4. /\ AddBlock => req' = req
      /\ InitDone => req' = req
      /\ \A n \in Requests : InfalliblePanic(n) => req' = req
      /\ Defrag => req' = req
      /\ UNCHANGED vars => req' = req
  BY DEF AddBlock, InitDone, InfalliblePanic, Defrag, DefragMerge,
         DefragAdvance, DefragDone, vars
<1> QED BY <1>1, <1>2, <1>3, <1>4 DEF Next

\* kmalloc and kfree give their callers what HeapSpec promises, whatever the
\* memory map, the requests and their order.
THEOREM HeapKeepsPromise ==
    ASSUME RegionsHoldHeader, RequestsFit
    PROVE  Spec => Refines
<1>1. Init => Promise!Init
  BY InitPromise
<1>2. HeapInv /\ GrantsEnough /\ [Next]_vars =>
         [Promise!Next]_[p \in {Payload(b) : b \in Live} |->
                            req[p - ALLOC_HEADER_SZ]]
  BY NextPromise DEF GrantsInv, Held
<1> QED BY <1>1, <1>2, HeapInvariant, GrantsAreEnough, PTL
        DEF Spec, Refines, Promise!Spec

-----------------------------------------------------------------------------
(***************************************************************************)
(* Coalescing.  defrag_free_list compares a block with the one before it   *)
(* in the list only, so what it achieves depends on the list's order,      *)
(* which kfree keeps but kmalloc_init need not begin with.                 *)
(***************************************************************************)

\* A block that stands behind a higher one ends where a region ends: kfree puts
\* a block in front of the first higher one, splitting keeps a block's end and
\* merging takes the end of the higher block.
Ordered ==
    \A j, k \in 1 .. Len(free_list) :
        j < k => free_list[j] < free_list[k] \/ EndsRegion(free_list[k])

\* Until kmalloc_init is done the blocks are whole regions.
WholeRegions ==
    pc = "init" => \A k \in 1 .. Len(free_list) : EndsRegion(free_list[k])

\* As far as the pass has come, no block begins where the one before it ends.
Apart ==
    pc = "defrag" =>
        \A k \in 2 .. Len(free_list) :
            k < pos => \/ free_list[k - 1] = NULL
                       \/ End(free_list[k - 1]) # free_list[k]

OrderInv == Ordered /\ WholeRegions /\ Apart

\* The free list before a step.
LEMMA ListFacts ==
    ASSUME HeapInv
    PROVE  /\ free_list \in Seq(Blocks) /\ Len(free_list) \in Nat
           /\ \A x \in Blocks : x \in Nat /\ End(x) \in Nat /\ x < End(x)
           /\ \A x, y \in Blocks : x # y => End(x) <= y \/ End(y) <= x
           /\ \A j \in 1 .. Len(free_list) : free_list[j] \in Blocks \ Live
           /\ \A j, k \in 1 .. Len(free_list) :
                  free_list[j] = free_list[k] => j = k
<1>1. TypeOK /\ NoOverlap /\ InHeap /\ ListExact
  BY DEF HeapInv
<1>2. free_list \in Seq(Blocks) /\ Len(free_list) \in Nat
  BY <1>1 DEF TypeOK
<1>3. \A x \in Blocks : x \in Nat /\ End(x) \in Nat /\ x < End(x)
  BY <1>1, Extents
<1>4. \A x, y \in Blocks : x # y => End(x) <= y \/ End(y) <= x
  BY <1>1 DEF NoOverlap
<1>5. \A j \in 1 .. Len(free_list) : free_list[j] \in Blocks \ Live
  BY <1>1, FreeBlock
<1>6. \A j, k \in 1 .. Len(free_list) : free_list[j] = free_list[k] => j = k
  BY <1>1, <1>2 DEF ListExact, IsInjective
<1> QED BY <1>2, <1>3, <1>4, <1>5, <1>6

LEMMA InsertFirst ==
    ASSUME NEW S, NEW s \in Seq(S), NEW e \in S
    PROVE  /\ Len(InsertAt(s, 1, e)) = Len(s) + 1
           /\ InsertAt(s, 1, e)[1] = e
           /\ \A j \in 1 .. Len(s) : InsertAt(s, 1, e)[j + 1] = s[j]
<1> DEFINE i == 1
<1>1. i \in 1 .. (Len(s) + 1)
  OBVIOUS
<1> HIDE DEF i
<1>2. /\ Len(InsertAt(s, i, e)) = Len(s) + 1
      /\ InsertAt(s, i, e)[i] = e
      /\ \A j \in i .. Len(s) : InsertAt(s, i, e)[j + 1] = s[j]
  BY <1>1, InsertAtElements
<1> QED BY <1>2 DEF i

LEMMA AddBlockOrder ==
    ASSUME RegionsHoldHeader, HeapInv, OrderInv, AddBlock
    PROVE  OrderInv'
<1>r. PICK r, b : r = added + 1 /\ b = RegionStart(r)
  OBVIOUS
<1>1. /\ pc = "init" /\ pc' = pc /\ r \in 1 .. Len(Regions) /\ added \in Nat
      /\ added' = r
      /\ size' = WithSize(b, AddedSize(r))
      /\ free_list' = InsertAt(free_list, 1, b)
  BY <1>r, RegionsAssumption DEF AddBlock, HeapInv, TypeOK
<1>2. /\ b \in Nat /\ RegionEnd(r) \in Nat /\ b + 24 <= RegionEnd(r)
      /\ RegionEnd(r) + 8 < WordMod
  BY <1>r, <1>1, RegionFacts DEF RegionsHoldHeader, ALLOC_HEADER_SZ
<1>3. AddedSize(r) = RegionEnd(r) - b - 24
  <2>1. /\ RegionEnd(r) - b - 24 \in Nat
        /\ RegionEnd(r) - b - 24 < WordMod
    BY <1>2, WordAssumption
  <2> QED BY <2>1, <1>r, SizeTFacts DEF AddedSize, ALLOC_HEADER_SZ
<1>4. /\ End(b)' = RegionEnd(r)
      /\ \A x \in Blocks : End(x)' = End(x)
  <2>1. \A x \in Blocks : x # b
    BY <1>r, AddBlockFresh DEF AddBlock
  <2>2. size'[b] = RegionEnd(r) - b - 24 /\ \A x \in Blocks : size'[x] = size[x]
    BY <1>1, <1>3, <2>1 DEF WithSize
  <2> QED BY <1>2, <2>2 DEF End, Payload, ALLOC_HEADER_SZ
<1>5. /\ Len(free_list') = Len(free_list) + 1
      /\ free_list'[1] = b
      /\ \A j \in 1 .. Len(free_list) : free_list'[j + 1] = free_list[j]
  <2>1. free_list \in Seq(Blocks \cup {b}) /\ b \in Blocks \cup {b}
    BY ListFacts
  <2> QED BY <2>1, <1>1, InsertFirst
<1>6. ASSUME NEW k \in 1 .. Len(free_list')
      PROVE  EndsRegion(free_list[k])'
  <2>1. CASE k = 1
    <3>1. r \in 1 .. added'
      BY <1>1
    <3> QED BY <2>1, <3>1, <1>4, <1>5 DEF EndsRegion
  <2>2. CASE k # 1
    <3>1. k - 1 \in 1 .. Len(free_list) /\ (k - 1) + 1 = k
      BY <1>5, <2>2, ListFacts
    <3>2. free_list'[k] = free_list[k - 1] /\ free_list[k - 1] \in Blocks
      BY <1>5, <3>1, ListFacts
    <3>3. PICK i \in 1 .. added : End(free_list[k - 1]) = RegionEnd(i)
      BY <1>1, <3>1 DEF OrderInv, WholeRegions, EndsRegion
    <3>4. i \in 1 .. added'
      BY <1>1, <1>r
    <3> QED BY <1>4, <3>2, <3>3, <3>4 DEF EndsRegion
  <2> QED BY <2>1, <2>2
<1> QED BY <1>1, <1>6 DEF OrderInv, Ordered, WholeRegions, Apart

\* The rest of the block that is split ends where the block ended.
LEMMA KmallocSplitOrder ==
    ASSUME HeapInv, OrderInv, NEW n \in Requests, KmallocSplit(n)
    PROVE  OrderInv'
<1>1. PICK i, b, s, new :
        /\ i \in 1 .. Len(free_list)
        /\ b = free_list[i] /\ s = AlignUp(n) /\ new = NewBlock(b, s)
        /\ CanSplit(b, s)
        /\ size' = [x \in Blocks \cup {new} |->
                      IF x = new THEN Remainder(b, s)
                      ELSE IF x = b THEN s ELSE size[x]]
        /\ free_list' = [free_list EXCEPT ![i] = new]
        /\ pc = "idle" /\ pc' = "idle" /\ added' = added
  BY DEF KmallocSplit
<1>2. b \in Blocks /\ b \in Nat /\ s \in Nat /\ size[b] \in Nat
      /\ End(b) = b + 24 + size[b] /\ End(b) \in Nat
      /\ End(b) < WordMod - 8
  <2>1. b \in Blocks
    BY <1>1, ListFacts
  <2>2. s \in Nat
    BY <1>1, RequestsAssumption, AlignUpFacts, WordAssumption
  <2>3. TypeOK /\ InHeap
    BY DEF HeapInv
  <2> QED BY <2>1, <2>2, <2>3, Extents, ListFacts
<1>3. size[b] - s >= 56 /\ Remainder(b, s) = size[b] - s - 24
  BY <1>1 DEF CanSplit, MIN_ALLOC_SZ, Remainder, ALLOC_HEADER_SZ
<1>4. new = b + 24 + s
  <2>1. b + 24 + s \in Nat /\ b + 24 + s < WordMod
    BY <1>2, <1>3, WordAssumption
  <2>2. new = SizeT(b + 24 + s)
    BY <1>1 DEF NewBlock, Payload, ALLOC_HEADER_SZ
  <2> QED BY <2>1, <2>2, SizeTFacts
<1>5. new \notin Blocks
  BY <1>1, <1>2, SplitFresh
<1>6. /\ End(new)' = End(b)
      /\ \A x \in Blocks : x # b => End(x)' = End(x)
  <2>1. /\ size'[new] = size[b] - s - 24
        /\ \A x \in Blocks : x # b => size'[x] = size[x]
    BY <1>1, <1>3, <1>5
  <2> QED BY <1>2, <1>4, <2>1 DEF End, Payload, ALLOC_HEADER_SZ
<1>7. /\ Len(free_list') = Len(free_list)
      /\ free_list'[i] = new
      /\ \A j \in 1 .. Len(free_list) : j # i => free_list'[j] = free_list[j]
  BY <1>1, ListFacts
<1>8. \A k \in 1 .. Len(free_list) :
         EndsRegion(free_list[k]) => EndsRegion(free_list[k])'
  BY <1>1, <1>6, <1>7, ListFacts DEF EndsRegion
<1>9. ASSUME NEW j \in 1 .. Len(free_list), NEW k \in 1 .. Len(free_list), j < k
      PROVE  free_list'[j] < free_list'[k] \/ EndsRegion(free_list[k])'
  <2>1. free_list[j] < free_list[k] \/ EndsRegion(free_list[k])
    BY <1>9 DEF OrderInv, Ordered
  <2>2. CASE EndsRegion(free_list[k])
    BY <1>8, <2>2
  <2>3. CASE free_list[j] < free_list[k]
    <3>1. /\ free_list[j] \in Nat /\ free_list[k] \in Nat
          /\ End(free_list[j]) \in Nat
          /\ free_list[j] # free_list[k]
          /\ End(free_list[j]) <= free_list[k]
      <4>1. /\ free_list[j] \in Blocks /\ free_list[k] \in Blocks
            /\ free_list[j] # free_list[k]
        BY <1>9, ListFacts
      <4>2. /\ free_list[j] \in Nat /\ free_list[k] \in Nat
            /\ End(free_list[j]) \in Nat /\ End(free_list[k]) \in Nat
            /\ free_list[k] < End(free_list[k])
            /\ \/ End(free_list[j]) <= free_list[k]
               \/ End(free_list[k]) <= free_list[j]
        BY <4>1, ListFacts
      <4> QED BY <2>3, <4>1, <4>2
    <3>2. CASE j = i
      <4>1. free_list'[j] = new /\ free_list'[k] = free_list[k] /\ free_list[j] = b
        BY <1>1, <1>7, <1>9, <3>2
      <4> QED BY <1>2, <1>3, <1>4, <3>1, <4>1
    <3>3. CASE k = i
      <4>1. free_list'[j] = free_list[j] /\ free_list'[k] = new /\ free_list[k] = b
        BY <1>1, <1>7, <1>9, <3>3
      <4> QED BY <1>2, <1>4, <2>3, <3>1, <4>1
    <3>4. CASE j # i /\ k # i
      BY <1>7, <2>3, <3>4
    <3> QED BY <3>2, <3>3, <3>4
  <2> QED BY <2>1, <2>2, <2>3
<1>10. Ordered'
  BY <1>7, <1>9 DEF Ordered
<1> QED BY <1>1, <1>10 DEF OrderInv, WholeRegions, Apart

\* A list that loses a block keeps its order.
LEMMA KmallocWholeOrder ==
    ASSUME HeapInv, OrderInv, NEW n \in Requests, KmallocWhole(n)
    PROVE  OrderInv'
<1>1. PICK i \in 1 .. Len(free_list) : free_list' = RemoveAt(free_list, i)
  BY DEF KmallocWhole, Unlink
<1>2. pc = "idle" /\ pc' = pc /\ size' = size /\ added' = added
  BY DEF KmallocWhole
<1>3. /\ Len(free_list') = Len(free_list) - 1
      /\ \A j \in 1 .. (i - 1) : free_list'[j] = free_list[j]
      /\ \A j \in i .. (Len(free_list) - 1) : free_list'[j] = free_list[j + 1]
  BY <1>1, ListFacts, RemoveAtElements
<1> DEFINE old(j) == IF j < i THEN j ELSE j + 1
<1>4. \A j \in 1 .. Len(free_list') :
         old(j) \in 1 .. Len(free_list) /\ free_list'[j] = free_list[old(j)]
  <2>1. Len(free_list) \in Nat
    BY ListFacts
  <2>2. ASSUME NEW j \in 1 .. Len(free_list')
        PROVE  old(j) \in 1 .. Len(free_list) /\ free_list'[j] = free_list[old(j)]
    <3>1. CASE j < i
      BY <1>3, <2>1, <3>1
    <3>2. CASE ~(j < i)
      BY <1>3, <2>1, <3>2
    <3> QED BY <3>1, <3>2
  <2> QED BY <2>2
<1>5. \A j, k \in 1 .. Len(free_list') : j < k => old(j) < old(k)
  BY <1>3, ListFacts
<1> HIDE DEF old
<1>6. ASSUME NEW j \in 1 .. Len(free_list'), NEW k \in 1 .. Len(free_list'), j < k
      PROVE  free_list'[j] < free_list'[k] \/ EndsRegion(free_list[k])'
  <2>1. free_list[old(j)] < free_list[old(k)] \/ EndsRegion(free_list[old(k)])
    BY <1>4, <1>5, <1>6 DEF OrderInv, Ordered
  <2> QED BY <1>2, <1>4, <2>1 DEF EndsRegion, End, Payload
<1>7. Ordered'
  BY <1>6 DEF Ordered
<1> QED BY <1>2, <1>7 DEF OrderInv, WholeRegions, Apart

\* kfree puts the block in front of the first higher one: what follows and is
\* lower was behind that one before.
LEMMA KfreeOrder ==
    ASSUME HeapInv, OrderInv, NEW b \in Live, Kfree(b)
    PROVE  OrderInv'
<1>1. PICK i \in 1 .. (Len(free_list) + 1) :
         InsertPos(i, b) /\ free_list' = InsertAt(free_list, i, b)
  BY DEF Kfree
<1>2. pc = "idle" /\ pc' = "defrag" /\ pos' = 1 /\ size' = size /\ added' = added
  BY DEF Kfree, HeapInv, Cursor
<1>3. b \in Blocks /\ b \in Nat
  BY ListFacts DEF HeapInv, TypeOK
<1>4. /\ Len(free_list') = Len(free_list) + 1
      /\ \A j \in 1 .. (i - 1) : free_list'[j] = free_list[j]
      /\ free_list'[i] = b
      /\ \A j \in i .. Len(free_list) : free_list'[j + 1] = free_list[j]
  BY <1>1, <1>3, ListFacts, InsertAtElements
<1>e. \A x : EndsRegion(x)' <=> EndsRegion(x)
  BY <1>2 DEF EndsRegion, End, Payload
<1>5. /\ \A j \in 1 .. (i - 1) : free_list[j] < b
      /\ \A j \in i .. Len(free_list) : b < free_list[j] \/ EndsRegion(free_list[j])
  <2>1. \A j \in 1 .. Len(free_list) :
           free_list[j] \in Nat /\ free_list[j] # b
    BY ListFacts
  <2>2. ASSUME NEW j \in 1 .. (i - 1)
        PROVE  free_list[j] < b
    <3>1. j \in 1 .. Len(free_list)
      BY <1>1, ListFacts
    <3> QED BY <1>1, <1>3, <2>1, <3>1 DEF InsertPos
  <2>3. ASSUME NEW j \in i .. Len(free_list)
        PROVE  b < free_list[j] \/ EndsRegion(free_list[j])
    <3>1. i \in 1 .. Len(free_list) /\ j \in 1 .. Len(free_list) /\ b < free_list[i]
      BY <1>1, <1>3, <2>1, ListFacts DEF InsertPos
    <3>2. i < j => free_list[i] < free_list[j] \/ EndsRegion(free_list[j])
      BY <3>1 DEF OrderInv, Ordered
    <3> QED BY <1>3, <2>1, <3>1, <3>2
  <2> QED BY <2>2, <2>3
<1>6. ASSUME NEW j \in 1 .. Len(free_list'), NEW k \in 1 .. Len(free_list'), j < k
      PROVE  free_list'[j] < free_list'[k] \/ EndsRegion(free_list'[k])
  <2>1. CASE k < i
    <3>1. j \in 1 .. Len(free_list) /\ k \in 1 .. Len(free_list)
          /\ j \in 1 .. (i - 1) /\ k \in 1 .. (i - 1)
      BY <1>1, <1>6, <2>1, ListFacts
    <3> QED BY <1>4, <1>6, <3>1 DEF OrderInv, Ordered
  <2>2. CASE k = i
    <3>1. j \in 1 .. (i - 1)
      BY <1>6, <2>2
    <3> QED BY <1>4, <1>5, <2>2, <3>1
  <2>3. CASE k > i
    <3>1. /\ k - 1 \in i .. Len(free_list) /\ (k - 1) + 1 = k
          /\ k - 1 \in 1 .. Len(free_list)
      BY <1>1, <1>4, <2>3, ListFacts
    <3>2. free_list'[k] = free_list[k - 1] /\ free_list[k - 1] \in Nat
      BY <1>4, <3>1, ListFacts
    <3>3. CASE j < i
      <4>1. j \in 1 .. (i - 1) /\ j \in 1 .. Len(free_list) /\ j < k - 1
        BY <1>1, <2>3, <3>1, <3>3, ListFacts
      <4>2. free_list'[j] = free_list[j]
        BY <1>4, <4>1
      <4> QED BY <3>1, <3>2, <4>1, <4>2 DEF OrderInv, Ordered
    <3>4. CASE j = i
      BY <1>4, <1>5, <3>1, <3>2, <3>4
    <3>5. CASE j > i
      <4>1. /\ j - 1 \in i .. Len(free_list) /\ (j - 1) + 1 = j
            /\ j - 1 \in 1 .. Len(free_list) /\ j - 1 < k - 1
        BY <1>1, <1>4, <1>6, <3>1, <3>5, ListFacts
      <4>2. free_list'[j] = free_list[j - 1]
        BY <1>4, <4>1
      <4> QED BY <3>1, <3>2, <4>1, <4>2 DEF OrderInv, Ordered
    <3> QED BY <3>3, <3>4, <3>5
  <2> QED BY <2>1, <2>2, <2>3
<1>7. Ordered'
  BY <1>e, <1>6 DEF Ordered
<1> QED BY <1>2, <1>7 DEF OrderInv, WholeRegions, Apart

\* A merged block ends where the higher of the two ended, and what is higher
\* than the one is higher than the other.
LEMMA DefragMergeOrder ==
    ASSUME HeapInv, OrderInv, DefragMerge
    PROVE  OrderInv'
<1>i. TypeOK /\ InHeap
  BY DEF HeapInv
<1>1. PICK b, l :
        /\ b = free_list[pos] /\ l = last_block
        /\ l # NULL /\ SizeT(End(l)) = b
        /\ size' = [x \in Blocks \ {b} |->
                      IF x = l THEN SizeT(size[l] + 24 + size[b]) ELSE size[x]]
  BY DEF DefragMerge, Adjacent, MergedSize, ALLOC_HEADER_SZ
<1>2. /\ pc = "defrag" /\ pc' = "defrag" /\ pos' = pos /\ added' = added
      /\ pos \in 1 .. Len(free_list) /\ Len(free_list) \in Nat
      /\ free_list' = RemoveAt(free_list, pos)
  BY <1>i, ListFacts DEF DefragMerge, Unlink, TypeOK
<1>3. pos - 1 \in 1 .. Len(free_list) /\ l = free_list[pos - 1]
  BY <1>1, <1>2 DEF HeapInv, Cursor
<1>4. /\ b \in Blocks /\ l \in Blocks /\ l # b
      /\ End(l) = b /\ End(l)' = End(b)
      /\ \A x \in Blocks \ {b, l} : End(x)' = End(x)
  <2>1. b \in Blocks /\ l \in Blocks /\ l # b
    BY <1>1, <1>2, <1>3, ListFacts
  <2>2. /\ l \in Nat /\ size[l] \in Nat /\ End(l) = l + 24 + size[l]
        /\ b \in Nat /\ size[b] \in Nat /\ End(b) = b + 24 + size[b]
        /\ End(l) < WordMod - 8
        /\ End(b) < WordMod - 8
    BY <1>i, <2>1, Extents
  <2>3. End(l) = b
    BY <1>1, <2>2, SizeTFacts, WordAssumption
  <2>4. SizeT(size[l] + 24 + size[b]) = size[l] + 24 + size[b]
    <3>1. size[l] + 24 + size[b] \in Nat /\ size[l] + 24 + size[b] < WordMod
      BY <2>2, <2>3, WordAssumption
    <3> QED BY <3>1, SizeTFacts
  <2>5. /\ size'[l] = size[l] + 24 + size[b]
        /\ \A x \in Blocks \ {b, l} : size'[x] = size[x]
    BY <1>1, <2>1, <2>4
  <2>6. End(l)' = l + 24 + size'[l] /\ \A x \in Blocks \ {b, l} : End(x)' = End(x)
    BY <2>5 DEF End, Payload, ALLOC_HEADER_SZ
  <2> QED BY <2>1, <2>2, <2>3, <2>5, <2>6
<1>5. /\ Len(free_list') = Len(free_list) - 1
      /\ \A j \in 1 .. (pos - 1) : free_list'[j] = free_list[j]
      /\ \A j \in pos .. (Len(free_list) - 1) : free_list'[j] = free_list[j + 1]
  BY <1>2, ListFacts, RemoveAtElements
<1> DEFINE old(j) == IF j < pos THEN j ELSE j + 1
<1>6. ASSUME NEW j \in 1 .. Len(free_list')
      PROVE  /\ old(j) \in 1 .. Len(free_list) /\ free_list'[j] = free_list[old(j)]
             /\ old(j) # pos /\ (j # pos - 1 => old(j) # pos - 1)
  <2>1. CASE j < pos
    BY <1>2, <1>5, <2>1
  <2>2. CASE ~(j < pos)
    BY <1>2, <1>5, <2>2
  <2> QED BY <2>1, <2>2
<1>7. \A j, k \in 1 .. Len(free_list') :
         j < k => old(j) < old(k) /\ (k = pos - 1 => old(j) < pos - 1)
  BY <1>2, <1>5, ListFacts
<1> HIDE DEF old
<1>8. ASSUME NEW k \in 1 .. Len(free_list'), k # pos - 1
      PROVE  free_list'[k] \in Blocks \ {b, l} /\ End(free_list[k])' = End(free_list'[k])
  <2>1. /\ old(k) \in 1 .. Len(free_list) /\ free_list'[k] = free_list[old(k)]
        /\ old(k) # pos /\ old(k) # pos - 1
    BY <1>6, <1>8
  <2>2. free_list'[k] \in Blocks \ {b, l}
    BY <1>1, <1>2, <1>3, <2>1, ListFacts
  <2>3. \A x \in Blocks \ {b, l} : x + 24 + size'[x] = End(x)
    BY <1>4 DEF End, Payload, ALLOC_HEADER_SZ
  <2> QED BY <2>2, <2>3 DEF End, Payload, ALLOC_HEADER_SZ
<1>9. ASSUME NEW j \in 1 .. Len(free_list'), NEW k \in 1 .. Len(free_list'), j < k
      PROVE  free_list'[j] < free_list'[k] \/ EndsRegion(free_list[k])'
  <2>1. /\ old(j) \in 1 .. Len(free_list) /\ old(k) \in 1 .. Len(free_list)
        /\ free_list'[j] = free_list[old(j)] /\ free_list'[k] = free_list[old(k)]
        /\ old(j) < old(k)
    BY <1>6, <1>7, <1>9
  <2>2. CASE k # pos - 1
    <3>1. End(free_list[k])' = End(free_list[old(k)])
      BY <1>8, <2>1, <2>2
    <3>2. EndsRegion(free_list[old(k)]) => EndsRegion(free_list[k])'
      BY <1>2, <3>1 DEF EndsRegion
    <3> QED BY <2>1, <3>2 DEF OrderInv, Ordered
  <2>3. CASE k = pos - 1
    <3>1. /\ free_list'[k] = l
          /\ old(j) < pos - 1 /\ old(j) < pos
      BY <1>2, <1>3, <1>5, <1>7, <1>9, <2>1, <2>3
    <3>2. free_list[old(j)] < b \/ EndsRegion(b)
      BY <1>1, <1>2, <2>1, <3>1 DEF OrderInv, Ordered
    <3>3. EndsRegion(b) => EndsRegion(l)'
      BY <1>2, <1>4 DEF EndsRegion
    <3>4. ASSUME free_list[old(j)] < b
          PROVE  free_list[old(j)] < l
      <4>0. old(j) # pos - 1
        BY <1>2, <2>1, <3>1
      <4>1. free_list[old(j)] \in Blocks /\ free_list[old(j)] # l
        BY <1>3, <2>1, <4>0, ListFacts
      <4>2. /\ free_list[old(j)] \in Nat /\ l \in Nat /\ End(free_list[old(j)]) \in Nat
            /\ free_list[old(j)] < End(free_list[old(j)])
            /\ \/ End(free_list[old(j)]) <= l
               \/ End(l) <= free_list[old(j)]
        BY <1>4, <4>1, ListFacts
      <4> QED BY <1>4, <3>4, <4>2
    <3> QED BY <2>1, <3>1, <3>2, <3>3, <3>4
  <2> QED BY <2>2, <2>3
<1>10. ASSUME NEW k \in 2 .. Len(free_list'), k < pos
       PROVE  \/ free_list'[k - 1] = NULL
              \/ End(free_list[k - 1])' # free_list'[k]
  <2>1. /\ k \in 2 .. Len(free_list)
        /\ k \in 1 .. (pos - 1) /\ k - 1 \in 1 .. (pos - 1)
        /\ k - 1 \in 1 .. Len(free_list') /\ k - 1 # pos - 1
    BY <1>2, <1>5, <1>10
  <2>2. /\ free_list'[k] = free_list[k] /\ free_list'[k - 1] = free_list[k - 1]
        /\ End(free_list[k - 1])' = End(free_list'[k - 1])
    BY <1>5, <1>8, <2>1
  <2>3. free_list[k - 1] = NULL \/ End(free_list[k - 1]) # free_list[k]
    BY <1>2, <1>10, <2>1 DEF OrderInv, Apart
  <2> QED BY <2>2, <2>3
<1>11. Ordered'
  BY <1>9 DEF Ordered
<1>12. Apart'
  BY <1>2, <1>10 DEF Apart
<1> QED BY <1>2, <1>11, <1>12 DEF OrderInv, WholeRegions

\* The pass moves on where the block does not begin at the end of the last.
LEMMA DefragAdvanceOrder ==
    ASSUME HeapInv, OrderInv, DefragAdvance
    PROVE  OrderInv'
<1>1. /\ pc = "defrag" /\ pc' = "defrag" /\ pos' = pos + 1 /\ added' = added
      /\ pos \in 1 .. Len(free_list)
      /\ ~Adjacent(free_list[pos])
      /\ UNCHANGED <<size, free_list>>
  BY DEF DefragAdvance, NextPos, HeapInv, TypeOK
<1>2. Ordered'
  BY <1>1 DEF OrderInv, Ordered, EndsRegion, End, Payload
<1>3. ASSUME pos \in 2 .. Len(free_list), free_list[pos - 1] # NULL
      PROVE  End(free_list[pos - 1]) # free_list[pos]
  <2>1. last_block = free_list[pos - 1] /\ last_block \in Blocks
    BY <1>3, ListFacts DEF HeapInv, Cursor
  <2>2. End(last_block) \in Nat /\ End(last_block) < WordMod
    <3>1. TypeOK /\ InHeap /\ last_block \in Blocks
      BY <2>1 DEF HeapInv
    <3> QED BY <3>1, Extents, WordAssumption
  <2>3. SizeT(End(last_block)) = End(last_block)
    BY <2>2, SizeTFacts
  <2> QED BY <1>1, <1>3, <2>1, <2>3 DEF Adjacent
<1>4. ASSUME NEW k \in 2 .. Len(free_list), k < pos + 1
      PROVE  free_list[k - 1] = NULL \/ End(free_list[k - 1]) # free_list[k]
  <2>1. k < pos \/ k = pos
    BY <1>1, <1>4
  <2> QED BY <1>1, <1>3, <1>4, <2>1 DEF OrderInv, Apart
<1>5. Apart'
  BY <1>1, <1>4 DEF Apart, End, Payload
<1> QED BY <1>1, <1>2, <1>5 DEF OrderInv, WholeRegions

\* Steps that leave the list and the blocks alone, and do not begin a pass.
LEMMA QuietOrder ==
    ASSUME OrderInv, UNCHANGED <<size, free_list, added>>,
           pc' # "init", pc' # "defrag"
    PROVE  OrderInv'
BY DEF OrderInv, Ordered, WholeRegions, Apart, EndsRegion, End, Payload

LEMMA NextOrder ==
    ASSUME RegionsHoldHeader, HeapInv, OrderInv, [Next]_vars
    PROVE  OrderInv'
<1>1. CASE AddBlock
  BY <1>1, AddBlockOrder
<1>2. CASE InitDone
  BY <1>2, QuietOrder DEF InitDone
<1>3. ASSUME NEW n \in Requests, KmallocSplit(n)
      PROVE  OrderInv'
  BY <1>3, KmallocSplitOrder
<1>4. ASSUME NEW n \in Requests, KmallocWhole(n)
      PROVE  OrderInv'
  BY <1>4, KmallocWholeOrder
<1>5. ASSUME NEW n \in Requests, InfalliblePanic(n)
      PROVE  OrderInv'
  BY <1>5, QuietOrder DEF InfalliblePanic
<1>6. ASSUME NEW b \in Live, Kfree(b)
      PROVE  OrderInv'
  BY <1>6, KfreeOrder
<1>7. CASE DefragMerge
  BY <1>7, DefragMergeOrder
<1>8. CASE DefragAdvance
  BY <1>8, DefragAdvanceOrder
<1>9. CASE DefragDone
  BY <1>9, QuietOrder DEF DefragDone
<1>10. CASE UNCHANGED vars
  BY <1>10 DEF vars, OrderInv, Ordered, WholeRegions, Apart, EndsRegion, End, Payload
<1> QED
  BY <1>1, <1>2, <1>3, <1>4, <1>5, <1>6, <1>7, <1>8, <1>9, <1>10
     DEF Next, Defrag

\* Of two blocks that abut and are not neighbours in the list, the one that
\* follows the lower is out of order, or the higher is.
LEMMA OrderMerges ==
    ASSUME HeapInv, OrderInv
    PROVE  PassMerges
<1> SUFFICES ASSUME pc = "defrag", pos > Len(free_list),
                    NEW j \in 1 .. Len(free_list), NEW k \in 1 .. Len(free_list),
                    End(free_list[j]) = free_list[k], free_list[j] # NULL
             PROVE  \/ k < j /\ Stray(j)
                    \/ \E m \in (j + 1) .. k : Stray(m)
  BY DEF PassMerges
<1> DEFINE a == free_list[j]
           b == free_list[k]
<1>0. Len(free_list) \in Nat /\ pos \in Nat
  BY DEF HeapInv, TypeOK
<1>1. /\ a \in Blocks /\ b \in Blocks /\ a \in Nat /\ b \in Nat
      /\ a < b /\ j # k
  BY ListFacts
<1>2. ASSUME NEW m \in 1 .. Len(free_list), NEW n \in 1 .. Len(free_list), n < m,
             free_list[n] > free_list[m]
      PROVE  Stray(m)
  <2>1. n \in 1 .. (m - 1)
    BY <1>0, <1>2
  <2>2. ~(free_list[n] < free_list[m])
    <3>1. free_list[n] \in Nat /\ free_list[m] \in Nat
      BY ListFacts
    <3> QED BY <1>2, <3>1
  <2> QED BY <1>2, <2>1, <2>2 DEF Stray, OrderInv, Ordered
<1>3. CASE k < j
  BY <1>1, <1>2, <1>3
<1>4. CASE j < k
  <2>1. j + 1 \in 2 .. Len(free_list) /\ (j + 1) - 1 = j /\ j + 1 < pos
    BY <1>0, <1>4
  <2>2. End(a) # free_list[j + 1]
    BY <2>1 DEF OrderInv, Apart
  <2>3. j + 1 < k
    BY <1>0, <1>4, <2>1, <2>2
  <2>4. PICK z : z = free_list[j + 1]
    OBVIOUS
  <2>5. z \in Blocks /\ z # a /\ z # b
    BY <1>1, <2>1, <2>2, <2>4, ListFacts
  <2>6. z < a \/ z > b
    <3>1. /\ z \in Nat /\ End(z) \in Nat /\ z < End(z)
          /\ End(a) <= z \/ End(z) <= a
      BY <1>1, <2>5, ListFacts
    <3> QED BY <1>1, <2>5, <3>1
  <2>7. CASE z < a
    <3>1. Stray(j + 1)
      BY <1>0, <1>1, <1>2, <2>1, <2>4, <2>5, <2>7, ListFacts
    <3>2. j + 1 \in (j + 1) .. k
      BY <1>0, <2>3
    <3> QED BY <3>1, <3>2
  <2>8. CASE z > b
    <3>1. Stray(k)
      BY <1>0, <1>1, <1>2, <2>1, <2>3, <2>4, <2>5, <2>8, ListFacts
    <3>2. k \in (j + 1) .. k
      BY <1>0, <2>3
    <3> QED BY <3>1, <3>2
  <2> QED BY <2>6, <2>7, <2>8
<1> QED BY <1>1, <1>3, <1>4

\* The pass of each kfree leaves no two free blocks apart that could be one,
\* but behind address 0 and around a last block of a region that stands out of
\* order: whatever the regions, their order, and what is handed out and freed.
THEOREM PassMergesAll ==
    ASSUME RegionsHoldHeader
    PROVE  Spec => []PassMerges
<1>1. Init => OrderInv
  BY DEF Init, OrderInv, Ordered, WholeRegions, Apart
<1>2. HeapInv /\ OrderInv /\ [Next]_vars => OrderInv'
  BY NextOrder
<1>3. HeapInv /\ OrderInv => PassMerges
  BY OrderMerges
<1> QED BY <1>1, <1>2, <1>3, HeapInvariant, PTL DEF Spec

=============================================================================
