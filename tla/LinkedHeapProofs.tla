-------------------------- MODULE LinkedHeapProofs --------------------------
(***************************************************************************)
(* The ring of pointers of linked_list.h does what MallocFreelist says of  *)
(* its list, and so keeps every promise proved there, for every memory map *)
(* whose regions can hold a header and do not hold the list head.          *)
(***************************************************************************)
EXTENDS LinkedHeap, FiniteSetTheorems, SequenceTheorems, TLAPS

\* What is proved of MallocFreelist, of the list the pointers make.
P == INSTANCE MallocFreelistProofs WITH free_list <- list, pos <- Place

-----------------------------------------------------------------------------
(***************************************************************************)
(* M and P are the same module, and have copies of the same operators.     *)
(***************************************************************************)

LEMMA SameSequences ==
    /\ \A s, i, e : P!InsertAt(s, i, e) = InsertAt(s, i, e)
    /\ \A s, i, e : M!InsertAt(s, i, e) = InsertAt(s, i, e)
    /\ \A s, i : P!RemoveAt(s, i) = RemoveAt(s, i)
    /\ \A s, i : M!RemoveAt(s, i) = RemoveAt(s, i)
    /\ \A s : P!ToSet(s) = ToSet(s)
    /\ \A s : M!ToSet(s) = ToSet(s)
    /\ \A s : P!IsInjective(s) <=> IsInjective(s)
    /\ \A s : M!IsInjective(s) <=> IsInjective(s)
BY DEF P!InsertAt, M!InsertAt, InsertAt, P!RemoveAt, M!RemoveAt, RemoveAt,
       P!ToSet, M!ToSet, ToSet, P!IsInjective, M!IsInjective, IsInjective

LEMMA RegionsOfTheCopy ==
    /\ Regions \in Seq([base : Nat, length : Nat])
    /\ \A i \in 1 .. Len(Regions) : P!RegionEnd(i) + 8 < WordMod
    /\ \A i, j \in 1 .. Len(Regions) :
           i # j => \/ P!RegionEnd(i) <= Regions[j].base
                    \/ P!RegionEnd(j) <= Regions[i].base
<1>1. \A i : P!RegionEnd(i) = RegionEnd(i)
  BY DEF P!RegionEnd, RegionEnd
<1> QED BY <1>1, RegionsAssumption, Zenon

LEMMA RemoveAtFacts ==
    ASSUME NEW S, NEW s \in Seq(S), NEW i \in 1 .. Len(s)
    PROVE  /\ RemoveAt(s, i) \in Seq(S)
           /\ Len(RemoveAt(s, i)) = Len(s) - 1
           /\ \A j \in 1 .. (i - 1) : RemoveAt(s, i)[j] = s[j]
           /\ \A j \in i .. (Len(s) - 1) : RemoveAt(s, i)[j] = s[j + 1]
           /\ IsInjective(s) =>
                  /\ ToSet(RemoveAt(s, i)) = ToSet(s) \ {s[i]}
                  /\ IsInjective(RemoveAt(s, i))
<1>1. /\ P!RemoveAt(s, i) \in Seq(S)
      /\ Len(P!RemoveAt(s, i)) = Len(s) - 1
      /\ \A j \in 1 .. (i - 1) : P!RemoveAt(s, i)[j] = s[j]
      /\ \A j \in i .. (Len(s) - 1) : P!RemoveAt(s, i)[j] = s[j + 1]
  BY P!RemoveAtElements, WordAssumption, RequestsAssumption, RegionsOfTheCopy
<1>2. P!IsInjective(s) =>
          /\ P!ToSet(P!RemoveAt(s, i)) = P!ToSet(s) \ {s[i]}
          /\ P!IsInjective(P!RemoveAt(s, i))
  BY P!RemoveAtSet, WordAssumption, RequestsAssumption, RegionsOfTheCopy
<1> QED BY <1>1, <1>2, SameSequences

LEMMA InsertAtFacts ==
    ASSUME NEW S, NEW s \in Seq(S), NEW e \in S, NEW i \in 1 .. (Len(s) + 1)
    PROVE  /\ InsertAt(s, i, e) \in Seq(S)
           /\ Len(InsertAt(s, i, e)) = Len(s) + 1
           /\ \A j \in 1 .. (i - 1) : InsertAt(s, i, e)[j] = s[j]
           /\ InsertAt(s, i, e)[i] = e
           /\ \A j \in i .. Len(s) : InsertAt(s, i, e)[j + 1] = s[j]
           /\ ToSet(InsertAt(s, i, e)) = ToSet(s) \cup {e}
           /\ IsInjective(s) /\ e \notin ToSet(s) => IsInjective(InsertAt(s, i, e))
<1>1. /\ P!InsertAt(s, i, e) \in Seq(S)
      /\ Len(P!InsertAt(s, i, e)) = Len(s) + 1
      /\ \A j \in 1 .. (i - 1) : P!InsertAt(s, i, e)[j] = s[j]
      /\ P!InsertAt(s, i, e)[i] = e
      /\ \A j \in i .. Len(s) : P!InsertAt(s, i, e)[j + 1] = s[j]
  BY P!InsertAtElements, WordAssumption, RequestsAssumption, RegionsOfTheCopy
<1>2. /\ P!ToSet(P!InsertAt(s, i, e)) = P!ToSet(s) \cup {e}
      /\ P!IsInjective(s) /\ e \notin P!ToSet(s) => P!IsInjective(P!InsertAt(s, i, e))
  BY P!InsertAtSet, WordAssumption, RequestsAssumption, RegionsOfTheCopy
<1> QED BY <1>1, <1>2, SameSequences

-----------------------------------------------------------------------------
(***************************************************************************)
(* Walks.                                                                  *)
(***************************************************************************)

\* Every set of natural numbers that has an element has a least one.
LEMMA LeastElement ==
    ASSUME NEW S \in SUBSET Nat, S # {}
    PROVE  \E m \in S : \A n \in S : m <= n
<1>1. IsWellFoundedOn({ss \in Nat \X Nat : ss[1] < ss[2]}, Nat)
  BY ONLY NatLessThanWellFounded, Zenon DEF OpToRel
<1>2. PICK m \in S : \A n \in S : <<n, m>> \notin {ss \in Nat \X Nat : ss[1] < ss[2]}
  BY <1>1, WFMin
<1>3. \A n \in S : ~(n < m)
  BY <1>2
<1> QED BY <1>3

\* The first k steps of a walk from h.
IsWalk(f, h, pointer, k) ==
    f = [n \in 0 .. k |-> IF n = 0 THEN h ELSE pointer[f[n - 1]]]

\* A walk of any length exists: the recursive definition in Walk defines it.
LEMMA WalkExists ==
    ASSUME NEW h, NEW pointer, NEW k \in Nat
    PROVE  \E f : IsWalk(f, h, pointer, k)
<1> DEFINE S == {m \in Nat : \A f : ~IsWalk(f, h, pointer, m)}
<1>1. S \subseteq Nat /\ \A m \in Nat : m \notin S => \E f : IsWalk(f, h, pointer, m)
  OBVIOUS
<1>2. \A m \in S : \A f : ~IsWalk(f, h, pointer, m)
  OBVIOUS
<1> HIDE DEF S
<1>3. ASSUME S # {}
      PROVE  FALSE
  <2>1. PICK m \in S : \A n \in S : m <= n
    BY <1>1, <1>3, LeastElement
  <2>2. m \in Nat
    BY <1>1
  <2>3. CASE m = 0
    <3>1. IsWalk([n \in 0 .. 0 |-> h], h, pointer, 0)
      BY DEF IsWalk
    <3> QED BY <1>2, <2>3, <3>1
  <2>4. CASE m # 0
    <3>1. m - 1 \in Nat /\ m - 1 \notin S
      BY <2>1, <2>2, <2>4
    <3>2. PICK f : IsWalk(f, h, pointer, m - 1)
      BY <1>1, <3>1
    <3> DEFINE g == [n \in 0 .. m |->
                        IF n = m THEN pointer[f[m - 1]] ELSE f[n]]
    <3>3. \A n \in 0 .. (m - 1) :
             f[n] = IF n = 0 THEN h ELSE pointer[f[n - 1]]
      BY <3>1, <3>2 DEF IsWalk
    <3>4. \A n \in 0 .. m : g[n] = IF n = 0 THEN h ELSE pointer[g[n - 1]]
      BY <2>2, <2>4, <3>3
    <3>5. IsWalk(g, h, pointer, m)
      BY <3>4 DEF IsWalk
    <3> QED BY <1>2, <3>5
  <2> QED BY <2>3, <2>4
<1> QED BY <1>1, <1>3

\* The nodes of a ring, with free_list before the first and behind the last.
Node(s, i) == IF i \in 1 .. Len(s) THEN s[i] ELSE head

\* The links lead from each node of the ring to the next.
Linked(link, s) == \A i \in 0 .. Len(s) : link[Node(s, i)] = Node(s, i + 1)

\* A sequence of blocks that a ring can pass through.
Chain(s, S) == s \in Seq(S) /\ IsInjective(s) /\ head \notin S

LEMMA NodeFacts ==
    ASSUME NEW S, NEW s, Chain(s, S)
    PROVE  /\ Len(s) \in Nat
           /\ \A i \in 1 .. Len(s) : Node(s, i) = s[i] /\ s[i] \in S
           /\ Node(s, 0) = head /\ Node(s, Len(s) + 1) = head
           /\ \A i \in Int : Node(s, i) \in S \cup {head}
           /\ \A i, j \in 0 .. Len(s) : Node(s, i) = Node(s, j) => i = j
           /\ \A i, j \in 1 .. (Len(s) + 1) : Node(s, i) = Node(s, j) => i = j
<1>1. s \in Seq(S) /\ head \notin S
  BY DEF Chain
<1>2. \A i, j \in 1 .. Len(s) : s[i] = s[j] => i = j
  BY <1>1 DEF Chain, IsInjective
<1> QED BY <1>1, <1>2 DEF Node

\* What is linked as a ring is what a walk visits.
LEMMA VisitedIsChain ==
    ASSUME NEW link, NEW S, NEW s, IsFiniteSet(DOMAIN link), Chain(s, S),
           S \cup {head} \subseteq DOMAIN link, Linked(link, s)
    PROVE  Visited(link) = s
<1> DEFINE L == Len(s)
           room == Cardinality(DOMAIN link)
           pointer == Total(link)
           walk == Walk(link)
           back == {n \in 1 .. room : walk[n] = head}
<1>1. /\ L \in Nat
      /\ \A i \in 0 .. L : Node(s, i) \in DOMAIN link
      /\ \A i, j \in 0 .. L : Node(s, i) = Node(s, j) => i = j
  BY NodeFacts
<1>2. room \in Nat /\ L + 1 <= room
  <2>1. [i \in 0 .. L |-> Node(s, i)] \in Injection(0 .. L, DOMAIN link)
    BY <1>1 DEF Injection, IsInjective
  <2>2. Cardinality(0 .. L) <= room
    BY <2>1, FS_Injection
  <2>3. Cardinality(0 .. L) = L + 1
    BY <1>1, FS_Interval
  <2> QED BY <2>2, <2>3, FS_CardinalityType
<1>3. \A x \in DOMAIN link : pointer[x] = link[x]
  BY DEF Total
<1>4. walk = [n \in 0 .. room |->
                 IF n = 0 THEN head ELSE pointer[walk[n - 1]]]
  <2>1. \E f : IsWalk(f, head, pointer, room)
    BY <1>2, WalkExists
  <2> QED BY <2>1, Zenon DEF Walk, IsWalk
<1> HIDE DEF L, room, pointer, walk
<1>5. \A n \in 0 .. (L + 1) : walk[n] = Node(s, n)
  <2> DEFINE Off == {n \in 0 .. (L + 1) : walk[n] # Node(s, n)}
  <2>1. Off \subseteq Nat
    BY <1>1
  <2>2. ASSUME Off # {} PROVE FALSE
    <3>1. PICK m \in Off : \A n \in Off : m <= n
      BY <2>1, <2>2, LeastElement
    <3>2. m \in 0 .. (L + 1) /\ walk[m] # Node(s, m)
      OBVIOUS
    <3>3. m # 0
      <4>1. walk[0] = head /\ Node(s, 0) = head
        BY <1>2, <1>4, NodeFacts
      <4> QED BY <3>2, <4>1
    <3>4. m - 1 \in 0 .. L /\ m - 1 \notin Off
      BY <1>1, <3>1, <3>2, <3>3
    <3>5. walk[m - 1] = Node(s, m - 1)
      BY <3>4, <1>1
    <3>6. walk[m] = pointer[walk[m - 1]]
      BY <1>1, <1>2, <1>4, <3>2, <3>3
    <3>7. walk[m] = link[Node(s, m - 1)]
      BY <1>1, <1>3, <3>4, <3>5, <3>6
    <3>8. link[Node(s, m - 1)] = Node(s, (m - 1) + 1)
      BY <3>4 DEF Linked, L
    <3> QED BY <3>2, <3>7, <3>8
  <2> QED BY <2>2
<1>6. L + 1 \in back /\ \A n \in back : L + 1 <= n
  <2>1. Node(s, L + 1) = head /\ Node(s, 0) = head
    BY NodeFacts DEF L
  <2>2. \A n \in 1 .. L : Node(s, n) # head
    BY <1>1, <2>1
  <2> QED BY <1>1, <1>2, <1>5, <2>1, <2>2
<1>7. back # {} /\ Min(back) = L + 1
  <2>1. back \subseteq Nat
    BY <1>2
  <2>2. \A m \in back : (\A n \in back : m <= n) => m = L + 1
    BY <1>6, <1>1, <2>1
  <2> QED BY <1>6, <2>2 DEF Min
<1>8. Visited(link) = [n \in 1 .. L |-> walk[n]]
  BY <1>7, <1>1 DEF Visited, walk, room
<1>9. \A n \in 1 .. L : walk[n] = s[n]
  BY <1>1, <1>5, NodeFacts DEF L
<1>10. s = [n \in 1 .. L |-> s[n]]
  BY DEF Chain, L
<1> QED BY <1>8, <1>9, <1>10

\* The links lead back from each node of the ring to the one before.
BackLinked(link, s) == \A i \in 0 .. Len(s) : link[Node(s, i + 1)] = Node(s, i)

\* The way back round a ring is a ring.
LEMMA BackIsReverse ==
    ASSUME NEW link, NEW S, NEW s, Chain(s, S), BackLinked(link, s)
    PROVE  Chain(Reverse(s), S) /\ Linked(link, Reverse(s))
<1> DEFINE L == Len(s)
           r == Reverse(s)
<1>1. /\ L \in Nat
      /\ \A i \in 1 .. L : s[i] \in S
      /\ \A i, j \in 1 .. L : s[i] = s[j] => i = j
      /\ head \notin S
  BY DEF Chain, IsInjective
<1>2. r = [i \in 1 .. L |-> s[L - i + 1]]
  BY DEF Reverse
<1> HIDE DEF L, r
<1>3. r \in Seq(S) /\ Len(r) = L /\ \A i \in 1 .. L : r[i] = s[L - i + 1]
  BY <1>1, <1>2
<1>4. Chain(r, S)
  BY <1>1, <1>3 DEF Chain, IsInjective
<1>5. \A i \in 0 .. (L + 1) : Node(r, i) = Node(s, L + 1 - i)
  BY <1>1, <1>3 DEF Node, L
<1>6. ASSUME NEW i \in 0 .. L
      PROVE  link[Node(r, i)] = Node(r, i + 1)
  <2>1. L - i \in 0 .. L
    BY <1>1
  <2>2. link[Node(s, (L - i) + 1)] = Node(s, L - i)
    BY <2>1 DEF BackLinked, L
  <2>3. Node(r, i) = Node(s, L + 1 - i) /\ Node(r, i + 1) = Node(s, L + 1 - (i + 1))
    BY <1>1, <1>5
  <2>4. L + 1 - i = (L - i) + 1 /\ L + 1 - (i + 1) = L - i
    BY <1>1
  <2> QED BY <2>2, <2>3, <2>4
<1> QED BY <1>3, <1>4, <1>6 DEF Linked, r

\* A node linked in between two neighbours of the ring (list_add_).
LEMMA RingInsert ==
    ASSUME NEW S, NEW s, Chain(s, S), NEW e \in S, e \notin ToSet(s),
           NEW i \in 1 .. (Len(s) + 1),
           NEW n1, NEW n2, NEW p1, NEW p2,
           Linked(n1, s), BackLinked(p1, s),
           \A k \in ToSet(s) \cup {head, e} :
               /\ n2[k] = IF k = Node(s, i - 1) THEN e
                          ELSE IF k = e THEN Node(s, i) ELSE n1[k]
               /\ p2[k] = IF k = Node(s, i) THEN e
                          ELSE IF k = e THEN Node(s, i - 1) ELSE p1[k]
    PROVE  LET t == InsertAt(s, i, e)
           IN  Chain(t, S) /\ Linked(n2, t) /\ BackLinked(p2, t)
<1> DEFINE t == InsertAt(s, i, e)
           L == Len(s)
<1>1. /\ s \in Seq(S) /\ L \in Nat
      /\ \A j \in 1 .. L : s[j] \in ToSet(s)
      /\ head # e /\ head \notin ToSet(s)
  BY DEF Chain, ToSet
<1>2. /\ t \in Seq(S)
      /\ Len(t) = L + 1
      /\ \A j \in 1 .. (i - 1) : t[j] = s[j]
      /\ t[i] = e
      /\ \A j \in i .. L : t[j + 1] = s[j]
  BY <1>1, InsertAtFacts
<1>3. Chain(t, S)
  BY <1>1, InsertAtFacts DEF Chain
<1> HIDE DEF t, L
<1>4. /\ \A j \in 0 .. (i - 1) : Node(t, j) = Node(s, j)
      /\ Node(t, i) = e
      /\ \A j \in i .. (L + 1) : Node(t, j + 1) = Node(s, j)
  BY <1>1, <1>2 DEF Node, L
<1>5. /\ \A j, k \in 0 .. L : Node(s, j) = Node(s, k) => j = k
      /\ \A j, k \in 1 .. (L + 1) : Node(s, j) = Node(s, k) => j = k
      /\ \A j \in Int : Node(s, j) \in ToSet(s) \cup {head}
      /\ \A j \in Int : Node(s, j) # e
  BY <1>1, NodeFacts DEF Node, L
<1>6. ASSUME NEW j \in 0 .. (L + 1)
      PROVE  n2[Node(t, j)] = Node(t, j + 1)
  <2>1. CASE j < i - 1
    <3>1. Node(t, j) = Node(s, j) /\ Node(t, j + 1) = Node(s, j + 1)
      BY <1>1, <1>4, <2>1
    <3>2. Node(s, j) # Node(s, i - 1) /\ j \in 0 .. L
      BY <1>1, <1>5, <2>1 DEF L
    <3>3. n2[Node(s, j)] = n1[Node(s, j)]
      BY <1>5, <3>2
    <3> QED BY <3>1, <3>2, <3>3 DEF Linked, L
  <2>2. CASE j = i - 1
    BY <1>1, <1>4, <1>5, <2>2
  <2>3. CASE j = i
    <3>1. n2[e] = Node(s, i) /\ Node(t, i + 1) = Node(s, i)
      BY <1>1, <1>4, <1>5, <2>3 DEF L
    <3> QED BY <3>1, <1>4, <2>3
  <2>4. CASE j > i
    <3>1. j - 1 \in i .. L
      BY <1>1, <2>4
    <3>2. Node(t, (j - 1) + 1) = Node(s, j - 1) /\ Node(t, j + 1) = Node(s, j)
      BY <1>1, <1>4, <3>1
    <3>3. Node(s, j - 1) # Node(s, i - 1)
      BY <1>1, <1>5, <3>1 DEF L
    <3>4. n2[Node(s, j - 1)] = n1[Node(s, j - 1)]
      BY <1>5, <3>1, <3>3
    <3>5. n1[Node(s, j - 1)] = Node(s, (j - 1) + 1)
      BY <3>1 DEF Linked, L
    <3> QED BY <3>1, <3>2, <3>4, <3>5
  <2> QED BY <2>1, <2>2, <2>3, <2>4
<1>7. ASSUME NEW j \in 0 .. (L + 1)
      PROVE  p2[Node(t, j + 1)] = Node(t, j)
  <2>1. CASE j < i - 1
    <3>1. Node(t, j) = Node(s, j) /\ Node(t, j + 1) = Node(s, j + 1)
      BY <1>1, <1>4, <2>1
    <3>2. Node(s, j + 1) # Node(s, i) /\ j \in 0 .. L
      BY <1>1, <1>5, <2>1 DEF L
    <3>3. p2[Node(s, j + 1)] = p1[Node(s, j + 1)]
      BY <1>5, <3>2
    <3> QED BY <3>1, <3>2, <3>3 DEF BackLinked, L
  <2>2. CASE j = i - 1
    <3>1. p2[e] = Node(s, i - 1) /\ Node(t, i - 1) = Node(s, i - 1)
      BY <1>1, <1>4, <1>5 DEF L
    <3> QED BY <3>1, <1>4, <2>2
  <2>3. CASE j = i
    <3>1. p2[Node(s, i)] = e /\ Node(t, i + 1) = Node(s, i)
      BY <1>1, <1>4, <1>5, <2>3 DEF L
    <3> QED BY <3>1, <1>4, <2>3
  <2>4. CASE j > i
    <3>1. j - 1 \in i .. L
      BY <1>1, <2>4
    <3>2. Node(t, (j - 1) + 1) = Node(s, j - 1) /\ Node(t, j + 1) = Node(s, j)
      BY <1>1, <1>4, <3>1
    <3>3. Node(s, j) # Node(s, i)
      BY <1>1, <1>5, <3>1, <2>4 DEF L
    <3>4. p2[Node(s, j)] = p1[Node(s, j)]
      BY <1>5, <3>1, <3>3
    <3>5. p1[Node(s, (j - 1) + 1)] = Node(s, j - 1)
      BY <3>1 DEF BackLinked, L
    <3> QED BY <3>1, <3>2, <3>4, <3>5
  <2> QED BY <2>1, <2>2, <2>3, <2>4
<1> QED BY <1>2, <1>3, <1>6, <1>7 DEF Linked, BackLinked, t

\* What list_del does to the pointers of the nodes that stay.
Unlinked(s, i, n1, n2, p1, p2) ==
    \A k \in (ToSet(s) \ {s[i]}) \cup {head} :
        /\ n2[k] = IF k = Node(s, i - 1) THEN Node(s, i + 1) ELSE n1[k]
        /\ p2[k] = IF k = Node(s, i + 1) THEN Node(s, i - 1) ELSE p1[k]

\* A node unlinked from the ring: its neighbours are linked.
LEMMA RingRemove ==
    ASSUME NEW S, NEW s, Chain(s, S), NEW i \in 1 .. Len(s),
           NEW n1, NEW n2, NEW p1, NEW p2,
           Linked(n1, s), BackLinked(p1, s),
           Unlinked(s, i, n1, n2, p1, p2)
    PROVE  LET t == RemoveAt(s, i)
           IN  Chain(t, S \ {s[i]}) /\ Linked(n2, t) /\ BackLinked(p2, t)
<1> USE DEF Unlinked
<1> DEFINE t == RemoveAt(s, i)
           L == Len(s)
<1>1. /\ s \in Seq(S) /\ L \in Nat
      /\ \A j \in 1 .. L : s[j] \in ToSet(s)
      /\ \A j, k \in 1 .. L : s[j] = s[k] => j = k
      /\ head \notin ToSet(s) /\ head \notin S
  BY DEF Chain, ToSet, IsInjective
<1>2. /\ t \in Seq(S)
      /\ Len(t) = L - 1
      /\ \A j \in 1 .. (i - 1) : t[j] = s[j]
      /\ \A j \in i .. (L - 1) : t[j] = s[j + 1]
      /\ ToSet(t) = ToSet(s) \ {s[i]}
      /\ IsInjective(t)
  BY <1>1, RemoveAtFacts DEF Chain
<1> HIDE DEF t, L
<1>3. Chain(t, S \ {s[i]})
  <2>1. \A j \in 1 .. Len(t) : t[j] \in S /\ t[j] \in ToSet(t)
    BY <1>2 DEF ToSet
  <2>2. t \in Seq(S \ {s[i]})
    BY <1>2, <2>1
  <2> QED BY <1>1, <1>2, <2>2 DEF Chain
<1>4. /\ \A j \in 0 .. (i - 1) : Node(t, j) = Node(s, j)
      /\ \A j \in i .. L : Node(t, j) = Node(s, j + 1)
  BY <1>1, <1>2 DEF Node, L
<1>5. /\ \A j, k \in 0 .. L : Node(s, j) = Node(s, k) => j = k
      /\ \A j, k \in 1 .. (L + 1) : Node(s, j) = Node(s, k) => j = k
      /\ \A j \in 0 .. (L + 1) : j # i =>
             Node(s, j) \in (ToSet(s) \ {s[i]}) \cup {head}
  BY <1>1, NodeFacts DEF Node, L
<1>6. ASSUME NEW j \in 0 .. (L - 1)
      PROVE  n2[Node(t, j)] = Node(t, j + 1)
  <2>1. CASE j < i - 1
    <3>1. Node(t, j) = Node(s, j) /\ Node(t, j + 1) = Node(s, j + 1)
      BY <1>1, <1>4, <2>1
    <3>2. Node(s, j) # Node(s, i - 1) /\ j \in 0 .. L /\ j # i
      BY <1>1, <1>5, <2>1 DEF L
    <3>3. n2[Node(s, j)] = n1[Node(s, j)]
      BY <1>1, <1>5, <3>2
    <3> QED BY <3>1, <3>2, <3>3 DEF Linked, L
  <2>2. CASE j = i - 1
    <3>1. Node(t, j) = Node(s, i - 1) /\ Node(t, j + 1) = Node(s, i + 1)
      BY <1>1, <1>4, <2>2
    <3>2. i - 1 \in 0 .. (L + 1) /\ i - 1 # i
      BY <1>1, <2>2
    <3> QED BY <1>5, <3>1, <3>2
  <2>3. CASE j >= i
    <3>1. Node(t, j) = Node(s, j + 1) /\ Node(t, j + 1) = Node(s, (j + 1) + 1)
      BY <1>1, <1>4, <2>3
    <3>2. Node(s, j + 1) # Node(s, i - 1) /\ j + 1 \in 0 .. L /\ j + 1 # i
      BY <1>1, <1>5, <2>3 DEF L
    <3>3. n2[Node(s, j + 1)] = n1[Node(s, j + 1)]
      BY <1>1, <1>5, <3>2
    <3> QED BY <3>1, <3>2, <3>3 DEF Linked, L
  <2> QED BY <2>1, <2>2, <2>3
<1>7. ASSUME NEW j \in 0 .. (L - 1)
      PROVE  p2[Node(t, j + 1)] = Node(t, j)
  <2>1. CASE j < i - 1
    <3>1. Node(t, j) = Node(s, j) /\ Node(t, j + 1) = Node(s, j + 1)
      BY <1>1, <1>4, <2>1
    <3>2. Node(s, j + 1) # Node(s, i + 1) /\ j \in 0 .. L /\ j + 1 # i
      BY <1>1, <1>5, <2>1 DEF L
    <3>3. p2[Node(s, j + 1)] = p1[Node(s, j + 1)]
      BY <1>1, <1>5, <3>2
    <3> QED BY <3>1, <3>2, <3>3 DEF BackLinked, L
  <2>2. CASE j = i - 1
    <3>1. Node(t, j) = Node(s, i - 1) /\ Node(t, j + 1) = Node(s, i + 1)
      BY <1>1, <1>4, <2>2
    <3>2. i + 1 \in 0 .. (L + 1) /\ i + 1 # i
      BY <1>1, <2>2
    <3> QED BY <1>5, <3>1, <3>2
  <2>3. CASE j >= i
    <3>1. Node(t, j) = Node(s, j + 1) /\ Node(t, j + 1) = Node(s, (j + 1) + 1)
      BY <1>1, <1>4, <2>3
    <3>2. /\ Node(s, (j + 1) + 1) # Node(s, i + 1)
          /\ j + 1 \in 0 .. L /\ (j + 1) + 1 # i /\ (j + 1) + 1 \in 0 .. (L + 1)
      BY <1>1, <1>5, <2>3 DEF L
    <3>3. p2[Node(s, (j + 1) + 1)] = p1[Node(s, (j + 1) + 1)]
      BY <1>1, <1>5, <3>2
    <3> QED BY <3>1, <3>2, <3>3 DEF BackLinked, L
  <2> QED BY <2>1, <2>2, <2>3
<1> QED BY <1>2, <1>3, <1>6, <1>7 DEF Linked, BackLinked, t

\* A node put in the place of another (kmalloc's list_insert and list_del).
LEMMA RingReplace ==
    ASSUME NEW S, NEW s, Chain(s, S), NEW i \in 1 .. Len(s),
           NEW e \in S, e \notin ToSet(s),
           NEW n1, NEW n2, NEW p1, NEW p2,
           Linked(n1, s), BackLinked(p1, s),
           \A k \in (ToSet(s) \ {s[i]}) \cup {head, e} :
               /\ n2[k] = IF k = Node(s, i - 1) THEN e
                          ELSE IF k = e THEN Node(s, i + 1) ELSE n1[k]
               /\ p2[k] = IF k = Node(s, i + 1) THEN e
                          ELSE IF k = e THEN Node(s, i - 1) ELSE p1[k]
    PROVE  LET t == [s EXCEPT ![i] = e]
           IN  Chain(t, S) /\ Linked(n2, t) /\ BackLinked(p2, t)
<1> DEFINE t == [s EXCEPT ![i] = e]
           L == Len(s)
<1>1. /\ s \in Seq(S) /\ L \in Nat
      /\ \A j \in 1 .. L : s[j] \in ToSet(s)
      /\ \A j, k \in 1 .. L : s[j] = s[k] => j = k
      /\ head \notin ToSet(s) /\ head \notin S
  BY DEF Chain, ToSet, IsInjective
<1>2. /\ t \in Seq(S)
      /\ Len(t) = L
      /\ \A j \in 1 .. L : t[j] = IF j = i THEN e ELSE s[j]
  BY <1>1
<1> HIDE DEF t, L
<1>3. Chain(t, S)
  <2>1. \A j \in 1 .. L : s[j] # e
    BY <1>1
  <2> QED BY <1>1, <1>2, <2>1 DEF Chain, IsInjective
<1>4. /\ Node(t, i) = e
      /\ \A j \in 0 .. (L + 1) : j # i => Node(t, j) = Node(s, j)
  BY <1>1, <1>2 DEF Node, L
<1>5. /\ \A j, k \in 0 .. L : Node(s, j) = Node(s, k) => j = k
      /\ \A j, k \in 1 .. (L + 1) : Node(s, j) = Node(s, k) => j = k
      /\ \A j \in 0 .. (L + 1) : j # i =>
             Node(s, j) \in (ToSet(s) \ {s[i]}) \cup {head}
      /\ \A j \in 0 .. (L + 1) : Node(s, j) # e
  BY <1>1, NodeFacts DEF Node, L
<1>6. ASSUME NEW j \in 0 .. L
      PROVE  n2[Node(t, j)] = Node(t, j + 1)
  <2>1. CASE j = i - 1
    BY <1>1, <1>4, <1>5, <2>1 DEF L
  <2>2. CASE j = i
    <3>1. n2[e] = Node(s, i + 1)
      BY <1>1, <1>5, <2>2 DEF L
    <3> QED BY <1>1, <1>4, <2>2, <3>1 DEF L
  <2>3. CASE j # i - 1 /\ j # i
    <3>1. Node(t, j) = Node(s, j) /\ Node(t, j + 1) = Node(s, j + 1)
      BY <1>1, <1>4, <2>3
    <3>2. Node(s, j) # Node(s, i - 1)
      BY <1>1, <1>5, <2>3 DEF L
    <3>3. n2[Node(s, j)] = n1[Node(s, j)]
      BY <1>1, <1>5, <2>3, <3>2
    <3> QED BY <3>1, <3>3 DEF Linked, L
  <2> QED BY <2>1, <2>2, <2>3
<1>7. ASSUME NEW j \in 0 .. L
      PROVE  p2[Node(t, j + 1)] = Node(t, j)
  <2>1. CASE j = i - 1
    <3>1. p2[e] = Node(s, i - 1)
      BY <1>1, <1>5, <2>1 DEF L
    <3> QED BY <1>1, <1>4, <2>1, <3>1 DEF L
  <2>2. CASE j = i
    <3>1. p2[Node(s, i + 1)] = e
      BY <1>1, <1>5, <2>2 DEF L
    <3> QED BY <1>1, <1>4, <2>2, <3>1 DEF L
  <2>3. CASE j # i - 1 /\ j # i
    <3>1. Node(t, j) = Node(s, j) /\ Node(t, j + 1) = Node(s, j + 1)
      BY <1>1, <1>4, <2>3
    <3>2. Node(s, j + 1) # Node(s, i + 1) /\ j + 1 \in 0 .. (L + 1) /\ j + 1 # i
      BY <1>1, <1>5, <2>3 DEF L
    <3>3. p2[Node(s, j + 1)] = p1[Node(s, j + 1)]
      BY <1>1, <1>5, <3>2
    <3> QED BY <3>1, <3>3 DEF BackLinked, L
  <2> QED BY <2>1, <2>2, <2>3
<1> QED BY <1>2, <1>3, <1>6, <1>7 DEF Linked, BackLinked, t

-----------------------------------------------------------------------------
(***************************************************************************)
(* The invariant of the ring.                                              *)
(***************************************************************************)

RingInv ==
    /\ IsFiniteSet(M!Blocks)
    /\ next \in [M!Blocks \cup {head} -> M!Blocks \cup {head, NULL}]
    /\ prev \in [M!Blocks \cup {head} -> M!Blocks \cup {head, NULL}]
    /\ Linked(next, list)
    /\ BackLinked(prev, list)
    /\ \A b \in M!Blocks \ ToSet(list) : next[b] = NULL /\ prev[b] = NULL

\* temp is where block will be, read before block may be unlinked.
PassInv ==
    /\ pc = "defrag" => /\ block \in ToSet(list) \cup {head}
                        /\ temp = next[block]
    /\ pc # "defrag" => block = NULL /\ temp = NULL

LinkedInv == P!HeapInv /\ RingInv /\ PassInv

\* The invariant of MallocFreelist, in the terms of this module.
LEMMA HeapFacts ==
    ASSUME HeadApart, P!HeapInv
    PROVE  /\ Chain(list, M!Blocks)
           /\ ToSet(list) = M!Blocks \ M!Live
           /\ M!Live \subseteq M!Blocks
           /\ pc # "defrag" => Place = 1
           /\ M!TypeOK
           /\ M!Blocks = P!Blocks
           /\ head \notin M!Blocks
<1>1. P!TypeOK /\ P!ListExact /\ P!Cursor
  BY DEF P!HeapInv
<1>2. M!Blocks = P!Blocks /\ M!Live = P!Live
  BY DEF M!Blocks, P!Blocks, M!Live, P!Live
<1>3. list \in Seq(M!Blocks) /\ M!Live \subseteq M!Blocks
  BY <1>1, <1>2 DEF P!TypeOK
<1>4. ToSet(list) = M!Blocks \ M!Live /\ IsInjective(list)
  BY <1>1, <1>2, SameSequences DEF P!ListExact, P!FreeBlocks
<1>5. M!TypeOK
  BY <1>1, <1>2 DEF P!TypeOK, M!TypeOK, M!NULL, P!NULL
<1>6. head \notin M!Blocks
  <2>1. \A i : M!RegionBytes(i) = P!RegionBytes(i)
    BY DEF M!RegionBytes, P!RegionBytes, M!RegionStart, P!RegionStart,
           M!AlignUp, P!AlignUp, M!SizeT, P!SizeT, M!RegionEnd, P!RegionEnd
  <2>2. M!HeapBytes(Len(Regions)) = P!HeapBytes(Len(Regions))
    BY <2>1 DEF M!HeapBytes, P!HeapBytes
  <2>3. P!Blocks \subseteq P!HeapBytes(Len(Regions))
    BY P!BlocksInHeapBytes, WordAssumption, RequestsAssumption, RegionsOfTheCopy
  <2> QED BY <1>2, <2>2, <2>3 DEF HeadApart
<1>7. pc # "defrag" => Place = 1
  BY DEF Place
<1> QED BY <1>2, <1>3, <1>4, <1>5, <1>6, <1>7 DEF Chain

\* What is linked as a ring after a step is the list after that step.
LEMMA NextList ==
    ASSUME NEW s, IsFiniteSet(M!Blocks'), DOMAIN next' = M!Blocks' \cup {head},
           Chain(s, M!Blocks'), Linked(next', s)
    PROVE  list' = s
<1>1. IsFiniteSet(DOMAIN next')
  BY FS_AddElement
<1>2. Visited(next') = s
  BY <1>1, VisitedIsChain
<1> QED BY <1>2 DEF list

LEMMA PositionOfNode ==
    ASSUME NEW S, NEW s, Chain(s, S), NEW i \in 1 .. (Len(s) + 1)
    PROVE  Position(s, Node(s, i)) = i
<1>1. /\ s \in Seq(S) /\ Len(s) \in Nat /\ DOMAIN s = 1 .. Len(s)
      /\ \A j, k \in 1 .. Len(s) : s[j] = s[k] => j = k
      /\ head \notin ToSet(s)
  BY DEF Chain, ToSet, IsInjective
<1>2. CASE i <= Len(s)
  <2>1. Node(s, i) = s[i] /\ s[i] \in ToSet(s)
    BY <1>1, <1>2 DEF Node, ToSet
  <2>2. \A j \in DOMAIN s : s[j] = s[i] => j = i
    BY <1>1, <1>2
  <2> QED BY <1>1, <1>2, <2>1, <2>2 DEF Position
<1>3. CASE i = Len(s) + 1
  BY <1>1, <1>3 DEF Node, Position
<1> QED BY <1>1, <1>2, <1>3

\* The operators of the two copies that a step uses.
LEMMA SameOperators ==
    /\ M!NULL = P!NULL /\ M!Blocks = P!Blocks /\ M!Live = P!Live
    /\ M!FreeBlocks = P!FreeBlocks
    /\ \A n : M!AlignUp(n) = P!AlignUp(n)
    /\ \A i : M!RegionStart(i) = P!RegionStart(i)
    /\ \A i : M!AddedSize(i) = P!AddedSize(i)
    /\ \A b, s : M!WithSize(b, s) = P!WithSize(b, s)
    /\ \A b, n : M!WithReq(b, n) = P!WithReq(b, n)
    /\ \A i, n : M!FirstFit(i, n) <=> P!FirstFit(i, n)
    /\ \A b, n : M!CanSplit(b, n) <=> P!CanSplit(b, n)
    /\ \A b, n : M!NewBlock(b, n) = P!NewBlock(b, n)
    /\ \A b, n : M!Remainder(b, n) = P!Remainder(b, n)
    /\ \A i, b : M!InsertPos(i, b) <=> P!InsertPos(i, b)
    /\ \A i : M!Unlink(i) = P!Unlink(i)
    /\ \A b : M!Adjacent(b) <=> P!Adjacent(b)
    /\ \A b : M!MergedSize(b) = P!MergedSize(b)
    /\ M!NextPos = P!NextPos
<1>1. M!NULL = P!NULL /\ M!Blocks = P!Blocks /\ M!Live = P!Live
  BY DEF M!NULL, P!NULL, M!Blocks, P!Blocks, M!Live, P!Live
<1>2. \A x : M!SizeT(x) = P!SizeT(x)
  BY DEF M!SizeT, P!SizeT
<1>3. \A b : M!End(b) = P!End(b) /\ M!Payload(b) = P!Payload(b)
  BY DEF M!End, P!End, M!Payload, P!Payload, M!ALLOC_HEADER_SZ,
         P!ALLOC_HEADER_SZ
<1>4. /\ \A n : M!AlignUp(n) = P!AlignUp(n)
      /\ \A i : M!RegionStart(i) = P!RegionStart(i)
  BY <1>2 DEF M!AlignUp, P!AlignUp, M!RegionStart, P!RegionStart
<1>5. \A i : M!AddedSize(i) = P!AddedSize(i)
  BY <1>2, <1>4 DEF M!AddedSize, P!AddedSize, M!RegionEnd, P!RegionEnd,
                    M!ALLOC_HEADER_SZ, P!ALLOC_HEADER_SZ
<1>6. /\ \A b, s : M!WithSize(b, s) = P!WithSize(b, s)
      /\ \A b, n : M!WithReq(b, n) = P!WithReq(b, n)
  BY <1>1 DEF M!WithSize, P!WithSize, M!WithReq, P!WithReq
<1>7. /\ \A i, n : M!FirstFit(i, n) <=> P!FirstFit(i, n)
      /\ \A i, b : M!InsertPos(i, b) <=> P!InsertPos(i, b)
  BY DEF M!FirstFit, P!FirstFit, M!InsertPos, P!InsertPos
<1>8. /\ \A b, n : M!CanSplit(b, n) <=> P!CanSplit(b, n)
      /\ \A b, n : M!NewBlock(b, n) = P!NewBlock(b, n)
      /\ \A b, n : M!Remainder(b, n) = P!Remainder(b, n)
  BY <1>2, <1>3 DEF M!CanSplit, P!CanSplit, M!NewBlock, P!NewBlock,
                    M!Remainder, P!Remainder, M!MIN_ALLOC_SZ, P!MIN_ALLOC_SZ,
                    M!ALLOC_HEADER_SZ, P!ALLOC_HEADER_SZ
<1>9. /\ \A i : M!Unlink(i) = P!Unlink(i)
      /\ M!FreeBlocks = P!FreeBlocks
  BY SameSequences DEF M!Unlink, P!Unlink, M!FreeBlocks, P!FreeBlocks
<1>10. /\ \A b : M!Adjacent(b) <=> P!Adjacent(b)
       /\ \A b : M!MergedSize(b) = P!MergedSize(b)
       /\ M!NextPos = P!NextPos
  BY <1>1, <1>2, <1>3 DEF M!Adjacent, P!Adjacent, M!MergedSize, P!MergedSize,
         M!ALLOC_HEADER_SZ, P!ALLOC_HEADER_SZ, M!NextPos, P!NextPos
<1> QED BY <1>1, <1>4, <1>5, <1>6, <1>7, <1>8, <1>9, <1>10

LEMMA SameSteps == M!Next <=> P!Next
<1>0. /\ \A n : M!AlignUp(n) = P!AlignUp(n)
      /\ M!Blocks = P!Blocks
      /\ \A b, n : M!WithReq(b, n) = P!WithReq(b, n)
      /\ \A i, n : M!FirstFit(i, n) <=> P!FirstFit(i, n)
      /\ \A b, n : M!CanSplit(b, n) <=> P!CanSplit(b, n)
      /\ \A b, n : M!NewBlock(b, n) = P!NewBlock(b, n)
      /\ \A b, n : M!Remainder(b, n) = P!Remainder(b, n)
  BY SameOperators
<1>3. \A n : M!KmallocSplit(n) <=> P!KmallocSplit(n)
  <2> SUFFICES ASSUME NEW n
               PROVE  M!KmallocSplit(n) <=> P!KmallocSplit(n)
    OBVIOUS
  <2>1. PICK s : s = M!AlignUp(n) /\ s = P!AlignUp(n)
    BY <1>0
  <2> QED BY <1>0, <2>1 DEF M!KmallocSplit, P!KmallocSplit
<1> USE SameOperators
<1>1. M!AddBlock <=> P!AddBlock
  BY SameSequences DEF M!AddBlock, P!AddBlock
<1>2. M!InitDone <=> P!InitDone
  BY DEF M!InitDone, P!InitDone
<1>4. \A n : M!KmallocWhole(n) <=> P!KmallocWhole(n)
  BY DEF M!KmallocWhole, P!KmallocWhole
<1>5. \A n : M!InfalliblePanic(n) <=> P!InfalliblePanic(n)
  BY DEF M!InfalliblePanic, P!InfalliblePanic
<1>6. \A b : M!Kfree(b) <=> P!Kfree(b)
  BY SameSequences DEF M!Kfree, P!Kfree
<1>7. M!DefragMerge <=> P!DefragMerge
  BY DEF M!DefragMerge, P!DefragMerge
<1>8. M!DefragAdvance <=> P!DefragAdvance
  BY DEF M!DefragAdvance, P!DefragAdvance
<1>9. M!DefragDone <=> P!DefragDone
  BY DEF M!DefragDone, P!DefragDone
<1> QED BY <1>1, <1>2, <1>3, <1>4, <1>5, <1>6, <1>7, <1>8, <1>9
        DEF M!Next, P!Next, M!Defrag, P!Defrag

-----------------------------------------------------------------------------
(***************************************************************************)
(* The steps.                                                              *)
(***************************************************************************)

\* A chain of the blocks there are is a chain of the blocks there will be.
LEMMA ChainGrows ==
    ASSUME NEW S, NEW s, Chain(s, S), NEW T, S \subseteq T, head \notin T
    PROVE  Chain(s, T)
BY DEF Chain

\* After a step that leaves a ring of the sequence s, that is the list.
LEMMA RingAfter ==
    ASSUME NEW s, IsFiniteSet(M!Blocks'), Chain(s, M!Blocks'),
           next' \in [M!Blocks' \cup {head} -> M!Blocks' \cup {head, NULL}],
           prev' \in [M!Blocks' \cup {head} -> M!Blocks' \cup {head, NULL}],
           Linked(next', s), BackLinked(prev', s),
           \A b \in M!Blocks' \ ToSet(s) : next'[b] = NULL /\ prev'[b] = NULL
    PROVE  list' = s /\ RingInv'
<1>1. list' = s
  BY NextList
<1> QED BY <1>1 DEF RingInv

LEMMA SameHypotheses ==
    /\ M!RegionsHoldHeader <=> P!RegionsHoldHeader
    /\ M!RequestsFit <=> P!RequestsFit
    /\ M!HeapBytes(Len(Regions)) = P!HeapBytes(Len(Regions))
<1>1. M!RegionsHoldHeader <=> P!RegionsHoldHeader
  BY SameOperators DEF M!RegionsHoldHeader, P!RegionsHoldHeader, M!RegionEnd,
                       P!RegionEnd, M!ALLOC_HEADER_SZ, P!ALLOC_HEADER_SZ
<1>2. M!RequestsFit <=> P!RequestsFit
  BY DEF M!RequestsFit, P!RequestsFit
<1>3. \A i : M!RegionBytes(i) = P!RegionBytes(i)
  BY SameOperators DEF M!RegionBytes, P!RegionBytes, M!RegionEnd, P!RegionEnd
<1> QED BY <1>1, <1>2, <1>3 DEF M!HeapBytes, P!HeapBytes

\* What the invariants say of the ring before a step.
LEMMA RingFacts ==
    ASSUME HeadApart, LinkedInv
    PROVE  /\ Chain(list, M!Blocks)
           /\ list \in Seq(M!Blocks) /\ Len(list) \in Nat
           /\ ToSet(list) = M!Blocks \ M!Live
           /\ M!Live \subseteq M!Blocks
           /\ head \notin M!Blocks
           /\ IsFiniteSet(M!Blocks)
           /\ next \in [M!Blocks \cup {head} -> M!Blocks \cup {head, NULL}]
           /\ prev \in [M!Blocks \cup {head} -> M!Blocks \cup {head, NULL}]
           /\ Linked(next, list) /\ BackLinked(prev, list)
           /\ \A b \in M!Blocks \ ToSet(list) : next[b] = NULL /\ prev[b] = NULL
           /\ \A i \in 1 .. Len(list) : list[i] \in ToSet(list)
           /\ \A i \in 0 .. Len(list) :
                  /\ next[Node(list, i)] = Node(list, i + 1)
                  /\ prev[Node(list, i + 1)] = Node(list, i)
           /\ Node(list, 0) = head /\ Node(list, Len(list) + 1) = head
           /\ \A i \in 1 .. Len(list) : Node(list, i) = list[i]
           /\ \A i \in Int : Node(list, i) \in ToSet(list) \cup {head}
<1>1. P!HeapInv /\ RingInv
  BY DEF LinkedInv
<1>2. Chain(list, M!Blocks)
  BY <1>1, HeapFacts
<1> QED BY <1>1, <1>2, HeapFacts, NodeFacts DEF RingInv, Chain, Linked, BackLinked, ToSet, Node

\* The header of a region is neither a block yet nor the list head.
LEMMA RegionHeader ==
    ASSUME M!RegionsHoldHeader, HeadApart, LinkedInv, added < Len(Regions)
    PROVE  /\ M!RegionStart(added + 1) \notin M!Blocks
           /\ M!RegionStart(added + 1) # head
<1> DEFINE k == added + 1
<1>1. P!HeapInv /\ P!RegionsHoldHeader
  BY SameHypotheses DEF LinkedInv
<1>2. k \in 1 .. Len(Regions)
  BY <1>1, RegionsAssumption DEF P!HeapInv, P!TypeOK
<1>3. P!RegionStart(k) \notin P!Blocks
  BY <1>1, P!AddBlockFresh, WordAssumption, RequestsAssumption, RegionsOfTheCopy
<1>4. /\ P!RegionStart(k) \in Nat /\ P!RegionEnd(k) \in Nat
  BY <1>2, P!RegionFacts, WordAssumption, RequestsAssumption, RegionsOfTheCopy
<1>5. P!RegionStart(k) + 24 <= P!RegionEnd(k)
  BY <1>1, <1>2 DEF P!RegionsHoldHeader, P!ALLOC_HEADER_SZ
<1>6. P!RegionStart(k) \in P!HeapBytes(Len(Regions))
  <2>1. P!RegionStart(k) \in P!RegionBytes(k)
    BY <1>4, <1>5 DEF P!RegionBytes
  <2> QED BY <1>2, <2>1 DEF P!HeapBytes
<1> QED BY <1>3, <1>6, SameOperators, SameHypotheses DEF HeadApart

LEMMA AddBlockRing ==
    ASSUME M!RegionsHoldHeader, HeadApart, LinkedInv, AddBlock
    PROVE  M!AddBlock /\ RingInv' /\ PassInv'
<1> DEFINE new == M!RegionStart(added + 1)
           t == InsertAt(list, 1, new)
<1>1. /\ pc = "init" /\ added < Len(Regions)
      /\ size' = M!WithSize(new, M!AddedSize(added + 1))
      /\ next' = [k \in DOMAIN next \cup {new} |->
                     CASE k = head -> new [] k = new -> next[head]
                       [] OTHER -> next[k]]
      /\ prev' = [k \in DOMAIN prev \cup {new} |->
                     CASE k = next[head] -> new [] k = new -> head
                       [] OTHER -> prev[k]]
      /\ added' = added + 1
      /\ UNCHANGED <<req, pc, last_block, block, temp>>
  BY DEF AddBlock, list_add, list_add_, locals
<1>2. new \notin M!Blocks /\ new # head
  BY <1>1, RegionHeader
<1>3. M!Blocks' = M!Blocks \cup {new}
  BY <1>1 DEF M!WithSize, M!Blocks
<1>4. next[head] = Node(list, 1)
  BY RingFacts
<1> HIDE DEF new
<1>5. /\ Chain(list, M!Blocks') /\ IsFiniteSet(M!Blocks')
      /\ new \notin ToSet(list)
  BY <1>2, <1>3, RingFacts, ChainGrows, FS_AddElement
<1>6. \A k \in ToSet(list) \cup {head, new} :
         /\ next'[k] = IF k = Node(list, 1 - 1) THEN new
                       ELSE IF k = new THEN Node(list, 1) ELSE next[k]
         /\ prev'[k] = IF k = Node(list, 1) THEN new
                       ELSE IF k = new THEN Node(list, 1 - 1) ELSE prev[k]
  <2>1. /\ Node(list, 1 - 1) = head
        /\ Node(list, 1) \in ToSet(list) \cup {head}
        /\ new \notin ToSet(list) \cup {head}
        /\ ToSet(list) \cup {head, new} \subseteq DOMAIN next \cup {new}
        /\ ToSet(list) \cup {head, new} \subseteq DOMAIN prev \cup {new}
    BY <1>2, <1>5, RingFacts
  <2> QED BY <1>1, <1>4, <2>1
<1>7. Chain(t, M!Blocks') /\ Linked(next', t) /\ BackLinked(prev', t)
  BY <1>3, <1>5, <1>6, RingFacts, RingInsert
<1>8. ToSet(t) = ToSet(list) \cup {new}
  BY <1>3, <1>5, InsertAtFacts DEF Chain
<1>9. /\ next' \in [M!Blocks' \cup {head} -> M!Blocks' \cup {head, NULL}]
      /\ prev' \in [M!Blocks' \cup {head} -> M!Blocks' \cup {head, NULL}]
  BY <1>1, <1>2, <1>3, <1>4, RingFacts
<1>10. \A b \in M!Blocks' \ ToSet(t) : next'[b] = NULL /\ prev'[b] = NULL
  BY <1>1, <1>2, <1>3, <1>4, <1>8, RingFacts
<1>11. list' = t /\ RingInv'
  BY <1>5, <1>7, <1>9, <1>10, RingAfter
<1>12. PassInv'
  BY <1>1 DEF PassInv, LinkedInv
<1>13. Place = 1 /\ Place' = 1
  BY <1>1 DEF Place
<1>14. M!AddBlock
  BY <1>1, <1>11, <1>13, SameSequences DEF M!AddBlock, new
<1> QED BY <1>11, <1>12, <1>14

\* The neighbours of a free block.
LEMMA Neighbours ==
    ASSUME HeadApart, LinkedInv, NEW i \in 1 .. Len(list)
    PROVE  /\ next[list[i]] = Node(list, i + 1)
           /\ prev[list[i]] = Node(list, i - 1)
           /\ Node(list, i + 1) \in ToSet(list) \cup {head}
           /\ Node(list, i - 1) \in ToSet(list) \cup {head}
           /\ Node(list, i + 1) # list[i] /\ Node(list, i - 1) # list[i]
           /\ list[i] # head
<1>1. /\ i \in 0 .. Len(list) /\ i - 1 \in 0 .. Len(list)
      /\ i + 1 \in 1 .. (Len(list) + 1) /\ i \in 1 .. (Len(list) + 1)
      /\ Node(list, i) = list[i] /\ (i - 1) + 1 = i
      /\ list[i] # head
  BY RingFacts
<1>2. /\ next[Node(list, i)] = Node(list, i + 1)
      /\ prev[Node(list, (i - 1) + 1)] = Node(list, i - 1)
  BY <1>1, RingFacts
<1>3. Node(list, i + 1) # Node(list, i) /\ Node(list, i - 1) # Node(list, i)
  BY <1>1, RingFacts, NodeFacts
<1> QED BY <1>1, <1>2, <1>3, RingFacts

LEMMA SameRing ==
    ASSUME LinkedInv, UNCHANGED <<size, next, prev>>
    PROVE  list' = list /\ RingInv'
<1>1. list' = list
  BY DEF list
<1>2. M!Blocks' = M!Blocks
  BY DEF M!Blocks
<1> QED BY <1>1, <1>2 DEF RingInv, LinkedInv

LEMMA InitDoneRing ==
    ASSUME LinkedInv, InitDone
    PROVE  M!InitDone /\ RingInv' /\ PassInv'
<1>1. /\ pc = "init" /\ pc' = "idle" /\ added = Len(Regions)
      /\ UNCHANGED <<size, req, added, next, prev, last_block, block, temp>>
  BY DEF InitDone, ring, locals
<1>2. list' = list /\ RingInv'
  BY <1>1, SameRing
<1>3. PassInv' /\ Place = 1 /\ Place' = 1
  BY <1>1 DEF PassInv, LinkedInv, Place
<1> QED BY <1>1, <1>2, <1>3 DEF M!InitDone

LEMMA InfalliblePanicRing ==
    ASSUME LinkedInv, NEW n \in Requests, InfalliblePanic(n)
    PROVE  M!InfalliblePanic(n) /\ RingInv' /\ PassInv'
<1>1. /\ pc = "idle" /\ pc' = "panic"
      /\ n > 0 => \A b \in ToSet(list) : size[b] < M!AlignUp(n)
      /\ UNCHANGED <<size, req, added, next, prev, last_block, block, temp>>
  BY DEF InfalliblePanic, ring, locals
<1>2. list' = list /\ RingInv'
  BY <1>1, SameRing
<1>3. PassInv' /\ Place = 1 /\ Place' = 1
  BY <1>1 DEF PassInv, LinkedInv, Place
<1>4. M!FreeBlocks = ToSet(list)
  BY SameSequences DEF M!FreeBlocks
<1> QED BY <1>1, <1>2, <1>3, <1>4 DEF M!InfalliblePanic

LEMMA KmallocSplitRing ==
    ASSUME HeadApart, LinkedInv, NEW n \in Requests, KmallocSplit(n)
    PROVE  M!KmallocSplit(n) /\ RingInv' /\ PassInv'
<1>1. /\ pc = "idle" /\ n > 0
      /\ UNCHANGED <<pc, added, last_block, block, temp>>
  BY DEF KmallocSplit, locals
<1>2. PICK i, b, s, new :
         /\ i \in DOMAIN list /\ b = list[i] /\ s = M!AlignUp(n) /\ new = M!NewBlock(b, s)
         /\ M!FirstFit(i, s) /\ M!CanSplit(b, s)
         /\ size' = [x \in M!Blocks \cup {new} |->
                        IF x = new THEN M!Remainder(b, s)
                        ELSE IF x = b THEN s ELSE size[x]]
         /\ list_replace(b, new)
         /\ req' = M!WithReq(b, n)
  BY DEF KmallocSplit
<1> DEFINE t == [list EXCEPT ![i] = new]
<1>3. i \in 1 .. Len(list) /\ b \in ToSet(list) /\ b \in M!Blocks
  BY <1>2, RingFacts
<1>4. new \notin M!Blocks /\ new # head
  <2>1. P!HeapInv /\ b \in P!Blocks /\ P!CanSplit(b, P!AlignUp(n))
    BY <1>2, <1>3, SameOperators DEF LinkedInv
  <2>2. /\ P!NewBlock(b, P!AlignUp(n)) \notin P!Blocks
        /\ P!NewBlock(b, P!AlignUp(n)) \in P!HeapBytes(Len(Regions))
    BY <2>1, P!SplitFresh, WordAssumption, RequestsAssumption, RegionsOfTheCopy
  <2> QED BY <1>2, <2>2, SameOperators, SameHypotheses DEF HeadApart
<1>5. M!Blocks' = M!Blocks \cup {new}
  BY <1>2 DEF M!Blocks
<1>6. /\ Chain(list, M!Blocks') /\ IsFiniteSet(M!Blocks')
      /\ new \notin ToSet(list)
  BY <1>4, <1>5, RingFacts, ChainGrows, FS_AddElement
<1>7. /\ next[b] = Node(list, i + 1) /\ prev[b] = Node(list, i - 1)
      /\ Node(list, i + 1) \in ToSet(list) \cup {head}
      /\ Node(list, i - 1) \in ToSet(list) \cup {head}
      /\ b # head /\ new # b
      /\ Node(list, i + 1) # b /\ Node(list, i - 1) # b
  BY <1>2, <1>3, <1>4, Neighbours
<1>8. /\ next' = [k \in DOMAIN next \cup {new} |->
                     CASE k = Node(list, i - 1) -> new
                       [] k = new -> Node(list, i + 1)
                       [] k = b -> NULL [] OTHER -> next[k]]
      /\ prev' = [k \in DOMAIN prev \cup {new} |->
                     CASE k = Node(list, i + 1) -> new
                       [] k = new -> Node(list, i - 1)
                       [] k = b -> NULL [] OTHER -> prev[k]]
  BY <1>2, <1>7 DEF list_replace
<1>9. /\ DOMAIN next = M!Blocks \cup {head} /\ DOMAIN prev = M!Blocks \cup {head}
      /\ ToSet(list) \subseteq M!Blocks
      /\ \A k \in M!Blocks \cup {head} :
             /\ next[k] \in M!Blocks \cup {head, NULL}
             /\ prev[k] \in M!Blocks \cup {head, NULL}
  BY RingFacts
<1> HIDE <1>2
<1>10. \A k \in M!Blocks \cup {head, new} :
         /\ next'[k] = IF k = Node(list, i - 1) THEN new
                       ELSE IF k = new THEN Node(list, i + 1)
                       ELSE IF k = b THEN NULL ELSE next[k]
         /\ prev'[k] = IF k = Node(list, i + 1) THEN new
                       ELSE IF k = new THEN Node(list, i - 1)
                       ELSE IF k = b THEN NULL ELSE prev[k]
  BY <1>4, <1>6, <1>7, <1>8, <1>9
<1>11. Chain(t, M!Blocks') /\ Linked(next', t) /\ BackLinked(prev', t)
  <2>1. \A k \in (ToSet(list) \ {list[i]}) \cup {head, new} :
           /\ next'[k] = IF k = Node(list, i - 1) THEN new
                         ELSE IF k = new THEN Node(list, i + 1) ELSE next[k]
           /\ prev'[k] = IF k = Node(list, i + 1) THEN new
                         ELSE IF k = new THEN Node(list, i - 1) ELSE prev[k]
    BY <1>2, <1>7, <1>9, <1>10
  <2>2. new \in M!Blocks'
    BY <1>5
  <2> QED BY <1>3, <1>6, <2>1, <2>2, RingFacts, RingReplace
<1>12. ToSet(t) = (ToSet(list) \ {b}) \cup {new}
  <2>1. list \in Seq(M!Blocks') /\ P!IsInjective(list)
    BY <1>6, SameSequences DEF Chain
  <2>2. new \in M!Blocks' /\ new \notin P!ToSet(list)
    BY <1>5, <1>6, SameSequences
  <2>3. P!ToSet([list EXCEPT ![i] = new]) = (P!ToSet(list) \ {list[i]}) \cup {new}
    BY <1>3, <2>1, <2>2, P!ReplaceSet, WordAssumption, RequestsAssumption,
       RegionsOfTheCopy
  <2> QED BY <1>2, <2>3, SameSequences
<1>13. /\ next' \in [M!Blocks' \cup {head} -> M!Blocks' \cup {head, NULL}]
       /\ prev' \in [M!Blocks' \cup {head} -> M!Blocks' \cup {head, NULL}]
  <2>1. /\ DOMAIN next' = M!Blocks' \cup {head}
        /\ DOMAIN prev' = M!Blocks' \cup {head}
    BY <1>5, <1>8, <1>9
  <2>2. \A k \in M!Blocks' \cup {head} :
           /\ next'[k] \in M!Blocks' \cup {head, NULL}
           /\ prev'[k] \in M!Blocks' \cup {head, NULL}
    BY <1>5, <1>7, <1>9, <1>10
  <2> QED BY <1>8, <2>1, <2>2
<1>14. \A x \in M!Blocks' \ ToSet(t) : next'[x] = NULL /\ prev'[x] = NULL
  <2>1. \A x \in M!Blocks \ ToSet(list) : next[x] = NULL /\ prev[x] = NULL
    BY RingFacts
  <2> QED BY <1>4, <1>5, <1>6, <1>7, <1>10, <1>12, <2>1, RingFacts
<1>15. list' = t /\ RingInv'
  BY <1>6, <1>11, <1>13, <1>14, RingAfter
<1>16. PassInv' /\ Place = 1 /\ Place' = 1
  BY <1>1 DEF PassInv, LinkedInv, Place
<1>17. M!KmallocSplit(n)
  BY <1>1, <1>2, <1>3, <1>15, <1>16 DEF M!KmallocSplit
<1> QED BY <1>15, <1>16, <1>17

LEMMA KmallocWholeRing ==
    ASSUME HeadApart, LinkedInv, NEW n \in Requests, KmallocWhole(n)
    PROVE  M!KmallocWhole(n) /\ RingInv' /\ PassInv'
<1>1. /\ pc = "idle" /\ n > 0
      /\ UNCHANGED <<size, pc, added, last_block, block, temp>>
  BY DEF KmallocWhole, locals
<1>2. PICK i, b :
         /\ i \in DOMAIN list /\ b = list[i]
         /\ M!FirstFit(i, M!AlignUp(n)) /\ ~M!CanSplit(b, M!AlignUp(n))
         /\ list_del(b)
         /\ req' = M!WithReq(b, n)
  BY DEF KmallocWhole
<1> DEFINE t == RemoveAt(list, i)
<1>3. i \in 1 .. Len(list) /\ b \in ToSet(list) /\ b \in M!Blocks
  BY <1>2, RingFacts
<1>4. M!Blocks' = M!Blocks
  BY <1>1 DEF M!Blocks
<1>5. /\ next[b] = Node(list, i + 1) /\ prev[b] = Node(list, i - 1)
      /\ Node(list, i + 1) \in ToSet(list) \cup {head}
      /\ Node(list, i - 1) \in ToSet(list) \cup {head}
      /\ Node(list, i + 1) # b /\ Node(list, i - 1) # b
      /\ b # head
  BY <1>2, <1>3, Neighbours
<1>6. /\ DOMAIN next = M!Blocks \cup {head} /\ DOMAIN prev = M!Blocks \cup {head}
      /\ ToSet(list) \subseteq M!Blocks
      /\ \A k \in M!Blocks \cup {head} :
             /\ next[k] \in M!Blocks \cup {head, NULL}
             /\ prev[k] \in M!Blocks \cup {head, NULL}
  BY RingFacts
<1>7. /\ next' = [[next EXCEPT ![Node(list, i - 1)] = Node(list, i + 1)]
                    EXCEPT ![b] = NULL]
      /\ prev' = [[prev EXCEPT ![Node(list, i + 1)] = Node(list, i - 1)]
                    EXCEPT ![b] = NULL]
  BY <1>2, <1>5 DEF list_del
<1>8. /\ DOMAIN next' = M!Blocks \cup {head} /\ DOMAIN prev' = M!Blocks \cup {head}
      /\ \A k \in M!Blocks \cup {head} :
            /\ next'[k] = IF k = b THEN NULL
                          ELSE IF k = Node(list, i - 1) THEN Node(list, i + 1)
                          ELSE next[k]
            /\ prev'[k] = IF k = b THEN NULL
                          ELSE IF k = Node(list, i + 1) THEN Node(list, i - 1)
                          ELSE prev[k]
  BY <1>3, <1>5, <1>6, <1>7
<1>9. Chain(t, M!Blocks') /\ Linked(next', t) /\ BackLinked(prev', t)
  <2>1. Unlinked(list, i, next, next', prev, prev')
    BY <1>2, <1>5, <1>6, <1>8 DEF Unlinked
  <2>2. /\ Chain(t, M!Blocks \ {list[i]})
        /\ Linked(next', t) /\ BackLinked(prev', t)
    <3>1. Chain(list, M!Blocks) /\ Linked(next, list) /\ BackLinked(prev, list)
      BY RingFacts
    <3> QED BY <1>3, <2>1, <3>1, RingRemove
  <2> QED BY <1>4, <2>2, RingFacts, ChainGrows
<1>10. ToSet(t) = ToSet(list) \ {b}
  BY <1>2, <1>3, RingFacts, RemoveAtFacts DEF Chain
<1>11. /\ next' \in [M!Blocks' \cup {head} -> M!Blocks' \cup {head, NULL}]
       /\ prev' \in [M!Blocks' \cup {head} -> M!Blocks' \cup {head, NULL}]
  <2>1. \A k \in M!Blocks \cup {head} :
           /\ next'[k] \in M!Blocks \cup {head, NULL}
           /\ prev'[k] \in M!Blocks \cup {head, NULL}
    BY <1>5, <1>6, <1>8
  <2> QED BY <1>4, <1>7, <1>8, <2>1
<1>12. \A x \in M!Blocks' \ ToSet(t) : next'[x] = NULL /\ prev'[x] = NULL
  <2>1. \A x \in M!Blocks \ ToSet(list) : next[x] = NULL /\ prev[x] = NULL
    BY RingFacts
  <2>2. head \notin M!Blocks
    BY RingFacts
  <2> HIDE DEF t
  <2> QED BY <1>4, <1>5, <1>8, <1>10, <2>1, <2>2
<1>13. list' = t /\ RingInv'
  <2>1. IsFiniteSet(M!Blocks')
    BY <1>4, RingFacts
  <2> QED BY <1>9, <1>11, <1>12, <2>1, RingAfter
<1>14. PassInv' /\ Place = 1 /\ Place' = 1
  BY <1>1 DEF PassInv, LinkedInv, Place
<1>15. M!KmallocWhole(n)
  BY <1>1, <1>2, <1>3, <1>13, <1>14, SameSequences DEF M!KmallocWhole, M!Unlink
<1> QED BY <1>13, <1>14, <1>15

\* The place where a node is added is given by the node behind it.
LEMMA KfreeLinks ==
    ASSUME HeadApart, LinkedInv, NEW b \in M!Live, Kfree(b)
    PROVE  \E i \in 1 .. (Len(list) + 1) :
               M!InsertPos(i, b) /\ list_add_(b, Node(list, i - 1), Node(list, i))
<1>1. PICK i \in 1 .. (Len(list) + 1) :
         /\ M!InsertPos(i, b)
         /\ IF i <= Len(list) THEN list_add_(b, prev[list[i]], list[i])
                              ELSE list_add_tail(b)
  BY DEF Kfree
<1>2. CASE i <= Len(list)
  <2>1. i \in 1 .. Len(list)
    BY <1>2, RingFacts
  <2>2. prev[list[i]] = Node(list, i - 1) /\ list[i] = Node(list, i)
    BY <2>1, Neighbours, RingFacts
  <2> QED BY <1>1, <1>2, <2>2
<1>3. CASE ~(i <= Len(list))
  <2>1. i = Len(list) + 1 /\ i - 1 = Len(list) /\ Len(list) \in 0 .. Len(list)
    BY <1>3, RingFacts
  <2>2. /\ Node(list, Len(list) + 1) = head
        /\ prev[Node(list, Len(list) + 1)] = Node(list, Len(list))
    BY <2>1, RingFacts
  <2> QED BY <1>1, <1>3, <2>1, <2>2 DEF list_add_tail
<1> QED BY <1>2, <1>3

LEMMA KfreeRing ==
    ASSUME HeadApart, LinkedInv, NEW b \in M!Live, Kfree(b)
    PROVE  M!Kfree(b) /\ RingInv' /\ PassInv'
<1>1. /\ pc = "idle" /\ pc' = "defrag"
      /\ req' = [x \in M!Live \ {b} |-> req[x]]
      /\ block' = next'[head] /\ temp' = next'[block']
      /\ UNCHANGED <<size, added, last_block>>
  BY DEF Kfree
<1>2. PICK i \in 1 .. (Len(list) + 1) :
         M!InsertPos(i, b) /\ list_add_(b, Node(list, i - 1), Node(list, i))
  BY KfreeLinks
<1> DEFINE t == InsertAt(list, i, b)
<1>3. /\ M!Blocks' = M!Blocks /\ b \in M!Blocks /\ b \notin ToSet(list)
      /\ b # head /\ head \notin M!Blocks
      /\ ToSet(list) \subseteq M!Blocks
      /\ DOMAIN next = M!Blocks \cup {head} /\ DOMAIN prev = M!Blocks \cup {head}
      /\ \A k \in M!Blocks \cup {head} :
             /\ next[k] \in M!Blocks \cup {head, NULL}
             /\ prev[k] \in M!Blocks \cup {head, NULL}
  BY <1>1, RingFacts DEF M!Blocks
<1>4. /\ Node(list, i) \in ToSet(list) \cup {head}
      /\ Node(list, i - 1) \in ToSet(list) \cup {head}
  BY RingFacts
<1>5. /\ next' = [k \in DOMAIN next \cup {b} |->
                     CASE k = Node(list, i - 1) -> b [] k = b -> Node(list, i)
                       [] OTHER -> next[k]]
      /\ prev' = [k \in DOMAIN prev \cup {b} |->
                     CASE k = Node(list, i) -> b [] k = b -> Node(list, i - 1)
                       [] OTHER -> prev[k]]
  BY <1>2 DEF list_add_
<1>6. /\ DOMAIN next' = M!Blocks \cup {head} /\ DOMAIN prev' = M!Blocks \cup {head}
      /\ \A k \in M!Blocks \cup {head} :
            /\ next'[k] = IF k = Node(list, i - 1) THEN b
                          ELSE IF k = b THEN Node(list, i) ELSE next[k]
            /\ prev'[k] = IF k = Node(list, i) THEN b
                          ELSE IF k = b THEN Node(list, i - 1) ELSE prev[k]
  BY <1>3, <1>4, <1>5
<1>7. Chain(t, M!Blocks) /\ Linked(next', t) /\ BackLinked(prev', t)
  <2>1. Chain(list, M!Blocks) /\ Linked(next, list) /\ BackLinked(prev, list)
    BY RingFacts
  <2>2. \A k \in ToSet(list) \cup {head, b} :
           /\ next'[k] = IF k = Node(list, i - 1) THEN b
                         ELSE IF k = b THEN Node(list, i) ELSE next[k]
           /\ prev'[k] = IF k = Node(list, i) THEN b
                         ELSE IF k = b THEN Node(list, i - 1) ELSE prev[k]
    BY <1>3, <1>6
  <2> QED BY <1>3, <2>1, <2>2, RingInsert
<1>8. ToSet(t) = ToSet(list) \cup {b}
  BY <1>3, RingFacts, InsertAtFacts DEF Chain
<1> HIDE DEF t
<1>9. /\ next' \in [M!Blocks' \cup {head} -> M!Blocks' \cup {head, NULL}]
      /\ prev' \in [M!Blocks' \cup {head} -> M!Blocks' \cup {head, NULL}]
  <2>1. \A k \in M!Blocks \cup {head} :
           /\ next'[k] \in M!Blocks \cup {head, NULL}
           /\ prev'[k] \in M!Blocks \cup {head, NULL}
    BY <1>3, <1>4, <1>6
  <2> QED BY <1>3, <1>5, <1>6, <2>1
<1>10. \A x \in M!Blocks' \ ToSet(t) : next'[x] = NULL /\ prev'[x] = NULL
  <2>1. \A x \in M!Blocks \ ToSet(list) : next[x] = NULL /\ prev[x] = NULL
    BY RingFacts
  <2> QED BY <1>3, <1>4, <1>6, <1>8, <2>1
<1>11. list' = t /\ RingInv'
  <2>1. IsFiniteSet(M!Blocks')
    BY <1>3, RingFacts
  <2> QED BY <1>3, <1>7, <1>9, <1>10, <2>1, RingAfter
<1>12. block' = Node(t, 1)
  <2>1. 0 \in 0 .. Len(t) /\ Node(t, 0) = head
    BY <1>7, NodeFacts
  <2>2. next'[Node(t, 0)] = Node(t, 0 + 1)
    BY <1>7, <2>1 DEF Linked
  <2> QED BY <1>1, <2>1, <2>2
<1>13. PassInv'
  <2>1. Node(t, 1) \in ToSet(t) \cup {head}
    BY <1>7 DEF Node, ToSet, Chain
  <2> QED BY <1>1, <1>11, <1>12, <2>1 DEF PassInv
<1>14. Place = 1 /\ Place' = 1
  <2>1. 1 \in 1 .. (Len(t) + 1)
    BY <1>7, NodeFacts
  <2>2. Position(t, Node(t, 1)) = 1
    BY <1>7, <2>1, PositionOfNode
  <2> QED BY <1>1, <1>11, <1>12, <2>2 DEF Place
<1>15. M!Kfree(b)
  BY <1>1, <1>2, <1>11, <1>14, SameSequences DEF M!Kfree, t
<1> QED BY <1>11, <1>13, <1>15

\* Where the pass is.
LEMMA PassFacts ==
    ASSUME HeadApart, LinkedInv, pc = "defrag"
    PROVE  /\ Place \in 1 .. (Len(list) + 1)
           /\ block = Node(list, Place)
           /\ block # head => Place \in 1 .. Len(list) /\ block = list[Place]
           /\ block = head => Place = Len(list) + 1
           /\ temp = next[block]
<1>1. block \in ToSet(list) \cup {head} /\ temp = next[block]
  BY DEF LinkedInv, PassInv
<1>2. PICK i \in 1 .. (Len(list) + 1) :
         /\ block = Node(list, i)
         /\ block # head => i \in 1 .. Len(list) /\ block = list[i]
         /\ block = head => i = Len(list) + 1
  <2>1. CASE block = head
    <3>1. Len(list) + 1 \in 1 .. (Len(list) + 1)
      BY RingFacts
    <3> QED BY <2>1, <3>1, RingFacts
  <2>2. CASE block # head
    <3>1. PICK i \in 1 .. Len(list) : block = list[i]
      BY <1>1, <2>2, RingFacts DEF ToSet
    <3> QED BY <2>2, <3>1, RingFacts
  <2> QED BY <2>1, <2>2
<1>3. Place = i
  BY <1>2, RingFacts, PositionOfNode DEF Place
<1> QED BY <1>1, <1>2, <1>3

\* temp is already where block goes, and the next temp is the node behind it.
LEMMA DefragMergeRing ==
    ASSUME HeadApart, LinkedInv, DefragMerge
    PROVE  M!DefragMerge /\ RingInv' /\ PassInv'
<1>1. /\ pc = "defrag" /\ pc' = "defrag" /\ block # head /\ M!Adjacent(block)
      /\ size' = [x \in M!Blocks \ {block} |->
                     IF x = last_block THEN M!MergedSize(block) ELSE size[x]]
      /\ list_drop(block)
      /\ block' = temp /\ temp' = Total(next')[temp]
      /\ UNCHANGED <<req, added, last_block>>
  BY DEF DefragMerge, Step
<1> DEFINE i == Place
           t == RemoveAt(list, i)
<1>2. i \in 1 .. Len(list) /\ block = list[i] /\ temp = next[block]
  BY <1>1, PassFacts
<1> HIDE DEF i
<1>3. /\ M!Blocks' = M!Blocks \ {block} /\ head \notin M!Blocks
      /\ DOMAIN next = M!Blocks \cup {head} /\ DOMAIN prev = M!Blocks \cup {head}
      /\ ToSet(list) \subseteq M!Blocks
  BY <1>1, RingFacts DEF M!Blocks
<1>4. /\ next[block] = Node(list, i + 1) /\ prev[block] = Node(list, i - 1)
      /\ block # head
      /\ Node(list, i + 1) # block
      /\ Node(list, i + 1) \in ToSet(list) \cup {head}
  BY <1>2, Neighbours
<1>5. /\ next' = [k \in (M!Blocks \cup {head}) \ {block} |->
                     IF k = Node(list, i - 1) THEN Node(list, i + 1) ELSE next[k]]
      /\ prev' = [k \in (M!Blocks \cup {head}) \ {block} |->
                     IF k = Node(list, i + 1) THEN Node(list, i - 1) ELSE prev[k]]
  BY <1>1, <1>3, <1>4 DEF list_drop
<1>6. (M!Blocks \cup {head}) \ {block} = M!Blocks' \cup {head}
  BY <1>3, <1>4
<1>7. Chain(t, M!Blocks') /\ Linked(next', t) /\ BackLinked(prev', t)
  <2>1. Chain(list, M!Blocks) /\ Linked(next, list) /\ BackLinked(prev, list)
    BY RingFacts
  <2>2. Unlinked(list, i, next, next', prev, prev')
    BY <1>2, <1>3, <1>4, <1>5 DEF Unlinked
  <2> QED BY <1>2, <1>3, <2>1, <2>2, RingRemove
<1>8. /\ ToSet(t) = ToSet(list) \ {block}
      /\ \A j \in i .. Len(list) : Node(t, j) = Node(list, j + 1)
      /\ Len(t) = Len(list) - 1
  <2>1. list \in Seq(M!Blocks) /\ IsInjective(list) /\ Len(list) \in Nat
    BY RingFacts DEF Chain
  <2>2. /\ ToSet(t) = ToSet(list) \ {list[i]}
        /\ Len(t) = Len(list) - 1
        /\ \A j \in i .. (Len(list) - 1) : t[j] = list[j + 1]
    BY <1>2, <2>1, RemoveAtFacts
  <2> HIDE DEF t
  <2> QED BY <1>2, <2>1, <2>2 DEF Node
<1> HIDE DEF t
<1>9. \A x \in M!Blocks' \ ToSet(t) : next'[x] = NULL /\ prev'[x] = NULL
  <2>1. \A x \in M!Blocks \ ToSet(list) : next[x] = NULL /\ prev[x] = NULL
    BY RingFacts
  <2>2. Node(list, i - 1) \in ToSet(list) \cup {head}
    BY <1>2, Neighbours
  <2> QED BY <1>3, <1>4, <1>5, <1>6, <1>8, <2>1, <2>2
<1>10. /\ next' \in [M!Blocks' \cup {head} -> M!Blocks' \cup {head, NULL}]
       /\ prev' \in [M!Blocks' \cup {head} -> M!Blocks' \cup {head, NULL}]
  <2>1. ASSUME NEW x \in ToSet(t) \cup {head}
        PROVE  /\ next'[x] \in M!Blocks' \cup {head}
               /\ prev'[x] \in M!Blocks' \cup {head}
    <3>1. PICK j \in 0 .. Len(t) : x = Node(t, j)
      BY <1>7, NodeFacts DEF Chain, ToSet
    <3>2. PICK k \in 0 .. Len(t) : x = Node(t, k + 1)
      <4>1. CASE x = head
        BY <4>1, <1>7, NodeFacts
      <4>2. CASE x # head
        <5>1. j # 0 /\ j - 1 \in 0 .. Len(t) /\ (j - 1) + 1 = j
          BY <3>1, <4>2, <1>7, NodeFacts
        <5> QED BY <3>1, <5>1
      <4> QED BY <4>1, <4>2
    <3>3. next'[x] = Node(t, j + 1) /\ prev'[x] = Node(t, k)
      BY <1>7, <3>1, <3>2 DEF Linked, BackLinked
    <3> QED BY <1>7, <3>3, NodeFacts
  <2> QED BY <1>5, <1>6, <1>9, <2>1
<1>11. list' = t /\ RingInv'
  <2>1. IsFiniteSet(M!Blocks')
    BY <1>3, RingFacts, FS_RemoveElement
  <2> QED BY <1>7, <1>9, <1>10, <2>1, RingAfter
<1>12. /\ block' = Node(t, i) /\ i \in 1 .. (Len(t) + 1)
       /\ block' \in ToSet(t) \cup {head}
  BY <1>1, <1>2, <1>4, <1>8, RingFacts
<1>13. PassInv'
  <2>1. temp \in DOMAIN next'
    BY <1>1, <1>6, <1>10, <1>12, <1>8, <1>3
  <2>2. temp' = next'[temp]
    BY <1>1, <2>1 DEF Total
  <2> QED BY <1>1, <1>11, <1>12, <2>2 DEF PassInv
<1>14. Place' = i
  BY <1>1, <1>7, <1>11, <1>12, PositionOfNode DEF Place
<1>15. M!DefragMerge
  BY <1>1, <1>2, <1>11, <1>14, SameSequences, RingFacts
     DEF M!DefragMerge, M!Unlink, t, i
<1> QED BY <1>11, <1>13, <1>15

LEMMA DefragAdvanceRing ==
    ASSUME HeadApart, LinkedInv, DefragAdvance
    PROVE  M!DefragAdvance /\ RingInv' /\ PassInv'
<1>1. /\ pc = "defrag" /\ pc' = "defrag" /\ block # head /\ ~M!Adjacent(block)
      /\ last_block' = block
      /\ block' = temp /\ temp' = Total(next')[temp]
      /\ UNCHANGED <<size, req, added, next, prev>>
  BY DEF DefragAdvance, Step, ring
<1> DEFINE i == Place
<1>2. i \in 1 .. Len(list) /\ block = list[i] /\ temp = next[block]
  BY <1>1, PassFacts
<1> HIDE DEF i
<1>3. list' = list /\ RingInv'
  BY <1>1, SameRing
<1>4. /\ block' = Node(list, i + 1) /\ i + 1 \in 1 .. (Len(list) + 1)
      /\ block' \in ToSet(list) \cup {head}
  BY <1>1, <1>2, Neighbours, RingFacts
<1>5. PassInv'
  <2>1. temp \in DOMAIN next
    BY <1>1, <1>4, RingFacts
  <2>2. temp' = next'[temp]
    BY <1>1, <2>1 DEF Total
  <2> QED BY <1>1, <1>3, <1>4, <2>2 DEF PassInv
<1>6. Place' = i + 1
  BY <1>1, <1>3, <1>4, RingFacts, PositionOfNode DEF Place
<1>7. M!DefragAdvance
  BY <1>1, <1>2, <1>3, <1>6, RingFacts DEF M!DefragAdvance, M!NextPos, i
<1> QED BY <1>3, <1>5, <1>7

LEMMA DefragDoneRing ==
    ASSUME HeadApart, LinkedInv, DefragDone
    PROVE  M!DefragDone /\ RingInv' /\ PassInv'
<1>1. /\ pc = "defrag" /\ pc' = "idle" /\ block = head
      /\ last_block' = NULL /\ block' = NULL /\ temp' = NULL
      /\ UNCHANGED <<size, req, added, next, prev>>
  BY DEF DefragDone, ring
<1>2. list' = list /\ RingInv'
  BY <1>1, SameRing
<1>3. PassInv' /\ Place' = 1
  BY <1>1 DEF PassInv, Place
<1>4. Place = Len(list) + 1 /\ Len(list) \in Nat
  BY <1>1, PassFacts, RingFacts
<1>5. M!DefragDone
  BY <1>1, <1>2, <1>3, <1>4 DEF M!DefragDone, M!NULL, NULL
<1> QED BY <1>2, <1>3, <1>5

LEMMA InitLinked == HeadApart /\ Init => M!Init /\ LinkedInv
<1> SUFFICES ASSUME HeadApart, Init
             PROVE  M!Init /\ LinkedInv
  OBVIOUS
<1>1. M!Blocks = {}
  BY DEF Init, M!Blocks
<1>2. /\ DOMAIN next = {head} /\ next[head] = head
      /\ DOMAIN prev = {head} /\ prev[head] = head
  BY DEF Init
<1>3. /\ Chain(<< >>, M!Blocks) /\ Linked(next, << >>) /\ BackLinked(prev, << >>)
      /\ ToSet(<< >>) = {}
  BY <1>1, <1>2 DEF Chain, IsInjective, Linked, BackLinked, Node, ToSet
<1>4. IsFiniteSet(M!Blocks) /\ IsFiniteSet(DOMAIN next)
  <2>1. IsFiniteSet({}) /\ IsFiniteSet({head})
    BY FS_EmptySet, FS_Singleton
  <2> QED BY <1>1, <1>2, <2>1
<1>5. list = << >>
  BY <1>1, <1>2, <1>3, <1>4, VisitedIsChain DEF list
<1>6. Place = 1
  BY DEF Init, Place
<1>7. M!Init
  BY <1>5, <1>6 DEF Init, M!Init, M!NULL, NULL
<1>8. P!HeapInv
  <2>1. P!Init
    BY <1>7, SameOperators DEF M!Init, P!Init
  <2> QED BY <2>1, P!InitHeapInv, WordAssumption, RequestsAssumption,
             RegionsOfTheCopy
<1>9. RingInv
  BY <1>1, <1>2, <1>3, <1>4, <1>5 DEF RingInv, Init
<1>10. PassInv
  BY DEF Init, PassInv
<1> QED BY <1>7, <1>8, <1>9, <1>10 DEF LinkedInv

\* Each step is a step of MallocFreelist, and leaves a ring.
LEMMA NextLinked ==
    ASSUME M!RegionsHoldHeader, HeadApart, LinkedInv, [Next]_vars
    PROVE  [M!Next]_(M!vars) /\ LinkedInv'
<1>1. ASSUME AddBlock
      PROVE  M!AddBlock /\ RingInv' /\ PassInv'
  BY <1>1, AddBlockRing
<1>2. ASSUME InitDone
      PROVE  M!InitDone /\ RingInv' /\ PassInv'
  BY <1>2, InitDoneRing
<1>3. ASSUME NEW n \in Requests, KmallocSplit(n)
      PROVE  M!KmallocSplit(n) /\ RingInv' /\ PassInv'
  BY <1>3, KmallocSplitRing
<1>4. ASSUME NEW n \in Requests, KmallocWhole(n)
      PROVE  M!KmallocWhole(n) /\ RingInv' /\ PassInv'
  BY <1>4, KmallocWholeRing
<1>5. ASSUME NEW n \in Requests, InfalliblePanic(n)
      PROVE  M!InfalliblePanic(n) /\ RingInv' /\ PassInv'
  BY <1>5, InfalliblePanicRing
<1>6. ASSUME NEW b \in M!Live, Kfree(b)
      PROVE  M!Kfree(b) /\ RingInv' /\ PassInv'
  BY <1>6, KfreeRing
<1>7. ASSUME DefragMerge
      PROVE  M!DefragMerge /\ RingInv' /\ PassInv'
  BY <1>7, DefragMergeRing
<1>8. ASSUME DefragAdvance
      PROVE  M!DefragAdvance /\ RingInv' /\ PassInv'
  BY <1>8, DefragAdvanceRing
<1>9. ASSUME DefragDone
      PROVE  M!DefragDone /\ RingInv' /\ PassInv'
  BY <1>9, DefragDoneRing
<1>10. ASSUME UNCHANGED vars
       PROVE  UNCHANGED M!vars /\ RingInv' /\ PassInv'
  <2>1. list' = list /\ RingInv'
    BY <1>10, SameRing DEF vars
  <2>2. Place' = Place /\ PassInv'
    BY <1>10, <2>1 DEF vars, Place, PassInv, LinkedInv
  <2> QED BY <1>10, <2>1, <2>2 DEF vars, M!vars
<1>11. [M!Next]_(M!vars) /\ RingInv' /\ PassInv'
  BY <1>1, <1>2, <1>3, <1>4, <1>5, <1>6, <1>7, <1>8, <1>9, <1>10
     DEF Next, Defrag, M!Next, M!Defrag
<1>12. [P!Next]_(P!vars)
  BY <1>11, SameSteps DEF M!vars, P!vars
<1>13. P!HeapInv'
  BY <1>12, P!NextHeapInv, SameHypotheses, WordAssumption, RequestsAssumption,
     RegionsOfTheCopy DEF LinkedInv
<1> QED BY <1>11, <1>13 DEF LinkedInv

-----------------------------------------------------------------------------
\* The inductive invariant holds in every reachable state.
THEOREM LinkedInvariant ==
    ASSUME M!RegionsHoldHeader, HeadApart
    PROVE  Spec => []LinkedInv
<1>1. Init => LinkedInv
  BY InitLinked
<1>2. LinkedInv /\ [Next]_vars => LinkedInv'
  BY NextLinked
<1> QED BY <1>1, <1>2, PTL DEF Spec

\* The loads and stores of linked_list.h do to the list what MallocFreelist
\* says, whatever the memory map, the requests and their order.
THEOREM PointersKeepList ==
    ASSUME M!RegionsHoldHeader, HeadApart
    PROVE  Spec => ListRefines
<1>1. Init => M!Init
  BY InitLinked
<1>2. LinkedInv /\ [Next]_vars => [M!Next]_(M!vars)
  BY NextLinked
<1> QED BY <1>1, <1>2, LinkedInvariant, PTL DEF Spec, ListRefines, M!Spec

\* The variables keep their types; in particular every pointer of a header is
\* to the header of a block or to free_list, or null.
THEOREM PointersTyped ==
    ASSUME M!RegionsHoldHeader, HeadApart
    PROVE  Spec => []TypeOK
<1>1. ASSUME LinkedInv
      PROVE  TypeOK
  <2>1. M!TypeOK
    BY <1>1, HeapFacts DEF LinkedInv
  <2>2. /\ next \in [M!Blocks \cup {head} -> M!Blocks \cup {head, NULL}]
        /\ prev \in [M!Blocks \cup {head} -> M!Blocks \cup {head, NULL}]
        /\ ToSet(list) \subseteq M!Blocks
    BY <1>1, RingFacts
  <2>3. {block, temp} \subseteq M!Blocks \cup {head, NULL}
    BY <1>1, <2>2 DEF LinkedInv, PassInv
  <2> QED BY <2>1, <2>2, <2>3 DEF TypeOK
<1> QED BY <1>1, LinkedInvariant, PTL

\* The ring closes both ways round, and a block in use is out of it.
THEOREM RingsClose ==
    ASSUME M!RegionsHoldHeader, HeadApart
    PROVE  Spec => []RingCloses
<1>1. ASSUME LinkedInv
      PROVE  RingCloses
  <2>1. /\ Chain(list, M!Blocks) /\ BackLinked(prev, list)
        /\ DOMAIN next = M!Blocks \cup {head}
        /\ DOMAIN prev = M!Blocks \cup {head}
        /\ IsFiniteSet(M!Blocks)
        /\ Len(list) \in Nat /\ list \in Seq(M!Blocks)
    BY <1>1, RingFacts
  <2>2. Visited(prev) = Reverse(list)
    <3>1. Chain(Reverse(list), M!Blocks) /\ Linked(prev, Reverse(list))
      BY <2>1, BackIsReverse
    <3>2. IsFiniteSet(DOMAIN prev)
      BY <2>1, FS_AddElement
    <3> QED BY <2>1, <3>1, <3>2, VisitedIsChain
  <2>3. \A i \in 0 .. Len(list) :
           /\ next[Node(list, i)] = Node(list, i + 1)
           /\ prev[Node(list, i + 1)] = Node(list, i)
    BY <1>1, RingFacts
  <2>4. /\ next[Node(list, Len(list))] = head
        /\ prev[Node(list, 1)] = head
    <3>1. 0 \in 0 .. Len(list) /\ Len(list) \in 0 .. Len(list)
      BY <2>1
    <3>2. /\ next[Node(list, Len(list))] = Node(list, Len(list) + 1)
          /\ prev[Node(list, 0 + 1)] = Node(list, 0)
      BY <2>3, <3>1
    <3> QED BY <1>1, <3>2, RingFacts
  <2>5. list = << >> => next[head] = head /\ prev[head] = head
    BY <2>4 DEF Node
  <2>6. list # << >> => next[Last(list)] = head /\ prev[Head(list)] = head
    BY <2>1, <2>4 DEF Node, Last
  <2>7. \A n \in DOMAIN next \ (ToSet(list) \cup {head}) :
           next[n] = NULL /\ prev[n] = NULL
    BY <1>1, <2>1, RingFacts
  <2> QED BY <2>2, <2>5, <2>6, <2>7 DEF RingCloses
<1> QED BY <1>1, LinkedInvariant, PTL

\* What the invariant says of the blocks, in the words of the two copies.
LEMMA BlocksPartition == LinkedInv => NoOverlap /\ FillsRegions
<1> SUFFICES ASSUME LinkedInv
             PROVE  NoOverlap /\ FillsRegions
  OBVIOUS
<1>1. P!NoOverlap /\ P!InHeap /\ P!NoLeak
  BY DEF LinkedInv, P!HeapInv
<1>2. /\ \A b : M!End(b) = P!End(b)
      /\ \A b : M!Extent(b) = P!Extent(b)
      /\ \A i : M!RegionBytes(i) = P!RegionBytes(i)
  BY SameOperators DEF M!Extent, P!Extent, M!End, P!End, M!Payload, P!Payload,
     M!ALLOC_HEADER_SZ, P!ALLOC_HEADER_SZ, M!RegionBytes, P!RegionBytes,
     M!RegionEnd, P!RegionEnd
<1>3. M!HeapBytes(added) = P!HeapBytes(added)
  BY <1>2 DEF M!HeapBytes, P!HeapBytes
<1>4. M!NoOverlap
  BY <1>1, <1>2, SameOperators DEF M!NoOverlap, P!NoOverlap
<1>5. M!InHeap
  BY <1>1, <1>2, <1>3, SameOperators DEF M!InHeap, P!InHeap
<1>6. M!NoLeak
  BY <1>1, <1>2, <1>3, SameOperators DEF M!NoLeak, P!NoLeak
<1> QED BY <1>4, <1>5, <1>6 DEF NoOverlap, FillsRegions, M!FillsRegions

\* No byte is in two blocks, headers included.
THEOREM LinkedBlocksAreDisjoint ==
    ASSUME M!RegionsHoldHeader, HeadApart
    PROVE  Spec => []NoOverlap
<1> QED BY BlocksPartition, LinkedInvariant, PTL

\* Each byte of the regions behind their padding is in a block, and each byte of
\* a block is in the regions.
THEOREM LinkedBlocksFillRegions ==
    ASSUME M!RegionsHoldHeader, HeadApart
    PROVE  Spec => []FillsRegions
<1> QED BY BlocksPartition, LinkedInvariant, PTL

\* The ring links the blocks that no caller holds, each once.
THEOREM RingIsExact ==
    ASSUME M!RegionsHoldHeader, HeadApart
    PROVE  Spec => []ListExact
<1>1. ASSUME LinkedInv
      PROVE  ListExact
  BY <1>1, SameOperators, SameSequences
     DEF LinkedInv, P!HeapInv, P!ListExact, ListExact, M!ListExact
<1> QED BY <1>1, LinkedInvariant, PTL

\* Callers get at least the bytes they asked for.
THEOREM LinkedGrantsAreEnough ==
    ASSUME M!RegionsHoldHeader, HeadApart, M!RequestsFit
    PROVE  Spec => []GrantsEnough
<1>1. GrantsEnough <=> P!GrantsEnough
  BY SameOperators DEF GrantsEnough, M!GrantsEnough, P!GrantsEnough
<1>2. Init => GrantsEnough
  BY DEF Init, GrantsEnough, M!GrantsEnough, M!Live
<1>3. ASSUME LinkedInv, GrantsEnough, [Next]_vars
      PROVE  GrantsEnough'
  <2>1. [P!Next]_(P!vars)
    BY <1>3, NextLinked, SameSteps DEF M!vars, P!vars
  <2>2. P!GrantsInv
    BY <1>1, <1>3 DEF P!GrantsInv, LinkedInv
  <2>3. P!GrantsEnough'
    BY <2>1, <2>2, P!NextGrantsEnough, SameHypotheses, WordAssumption,
       RequestsAssumption, RegionsOfTheCopy
  <2> QED BY <2>3 DEF GrantsEnough, M!GrantsEnough, P!GrantsEnough, M!Live, P!Live
<1> QED BY <1>2, <1>3, LinkedInvariant, PTL DEF Spec

-----------------------------------------------------------------------------

\* What HeapSpec sees of the two copies.
LEMMA SamePromise ==
    /\ M!Promise!Init <=> P!Promise!Init
    /\ M!Promise!Next <=> P!Promise!Next
<1> USE DEF M!Payload, P!Payload, M!ALLOC_HEADER_SZ, P!ALLOC_HEADER_SZ,
            M!Live, P!Live
<1>1. M!Promise!Init <=> P!Promise!Init
  BY DEF M!Promise!Init, P!Promise!Init
<1>2. ASSUME NEW p, NEW n
      PROVE  M!Promise!Alloc(p, n) <=> P!Promise!Alloc(p, n)
  BY SameHypotheses DEF M!Promise!Alloc, P!Promise!Alloc, M!Promise!Bytes,
                        P!Promise!Bytes
<1>3. ASSUME NEW p
      PROVE  M!Promise!Free(p) <=> P!Promise!Free(p)
  BY DEF M!Promise!Free, P!Promise!Free
<1> QED BY <1>1, <1>2, <1>3, SameHypotheses DEF M!Promise!Next, P!Promise!Next

\* The heap with its pointers gives callers what HeapSpec promises.
THEOREM LinkedHeapKeepsPromise ==
    ASSUME M!RegionsHoldHeader, HeadApart, M!RequestsFit
    PROVE  Spec => Refines
<1>1. Init => M!Promise!Init
  <2>1. M!Init => P!Promise!Init
    BY DEF M!Init, P!Promise!Init, P!Live
  <2> QED BY <2>1, InitLinked, SamePromise
<1>2. LinkedInv /\ GrantsEnough /\ [Next]_vars =>
         [M!Promise!Next]_[p \in {M!Payload(b) : b \in M!Live} |->
                              req[p - M!ALLOC_HEADER_SZ]]
  <2> SUFFICES ASSUME LinkedInv, GrantsEnough, [Next]_vars
               PROVE  [M!Promise!Next]_[p \in {M!Payload(b) : b \in M!Live} |->
                                           req[p - M!ALLOC_HEADER_SZ]]
    OBVIOUS
  <2>1. [P!Next]_(P!vars)
    BY NextLinked, SameSteps DEF M!vars, P!vars
  <2>2. P!GrantsInv
    BY SameOperators DEF P!GrantsInv, LinkedInv, GrantsEnough, M!GrantsEnough,
                         P!GrantsEnough
  <2>3. [P!Promise!Next]_(P!Held)
    BY <2>1, <2>2, P!NextPromise, SameHypotheses, WordAssumption,
       RequestsAssumption, RegionsOfTheCopy
  <2> QED BY <2>3, SamePromise DEF P!Held, M!Payload, P!Payload,
             M!ALLOC_HEADER_SZ, P!ALLOC_HEADER_SZ, M!Live, P!Live
<1> QED BY <1>1, <1>2, LinkedInvariant, LinkedGrantsAreEnough, PTL
        DEF Spec, Refines, M!Refines, M!Promise!Spec

-----------------------------------------------------------------------------
\* The pass over the ring leaves no two free blocks apart that could be one, but
\* behind address 0 and around a last block of a region that stands out of
\* order: whatever the regions, their order, and what is handed out and freed.
THEOREM LinkedPassMerges ==
    ASSUME M!RegionsHoldHeader, HeadApart
    PROVE  Spec => []PassMerges
<1>1. Init => P!OrderInv
  <2>1. M!Init => P!OrderInv
    BY DEF M!Init, P!OrderInv, P!Ordered, P!WholeRegions, P!Apart
  <2> QED BY <2>1, InitLinked
<1>2. LinkedInv /\ P!OrderInv /\ [Next]_vars => P!OrderInv'
  <2> SUFFICES ASSUME LinkedInv, P!OrderInv, [Next]_vars
               PROVE  P!OrderInv'
    OBVIOUS
  <2>1. [P!Next]_(P!vars)
    BY NextLinked, SameSteps DEF M!vars, P!vars
  <2>2. P!HeapInv /\ P!RegionsHoldHeader
    BY SameHypotheses DEF LinkedInv
  <2> QED BY <2>1, <2>2, P!NextOrder, WordAssumption, RequestsAssumption,
             RegionsOfTheCopy
<1>3. LinkedInv /\ P!OrderInv => PassMerges
  <2>1. LinkedInv /\ P!OrderInv => P!PassMerges
    BY P!OrderMerges, WordAssumption, RequestsAssumption, RegionsOfTheCopy
       DEF LinkedInv
  <2>2. P!PassMerges <=> M!PassMerges
    BY DEF M!PassMerges, P!PassMerges, M!Stray, P!Stray, M!EndsRegion,
           P!EndsRegion, M!End, P!End, M!Payload, P!Payload,
           M!ALLOC_HEADER_SZ, P!ALLOC_HEADER_SZ, M!RegionEnd, P!RegionEnd,
           M!NULL, P!NULL
  <2> QED BY <2>1, <2>2 DEF PassMerges
<1> QED BY <1>1, <1>2, <1>3, LinkedInvariant, PTL DEF Spec
=============================================================================
