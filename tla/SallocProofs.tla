---------------------------- MODULE SallocProofs ----------------------------
(***************************************************************************)
(* Proofs about Salloc, for a heap of any size that grows any number of    *)
(* times, and any requests, until one fits a free block exactly: with that *)
(* the heap is no longer made of blocks, and nothing is claimed of it.     *)
(*                                                                         *)
(* The properties speak of walks along pointers; a step of the proof       *)
(* speaks of the set B of blocks instead, which each call changes by one   *)
(* or two blocks, and of the set of free ones among them.  That the walks  *)
(* reach exactly these sets is shown once, at the end.                     *)
(***************************************************************************)
EXTENDS Salloc, CommonLemmas, FiniteSetTheorems

-----------------------------------------------------------------------------
(* The inductive invariant.                                                *)

Address == 0 .. MaxWords
Pointer == Address \cup {NULL}

HeapRecord ==
    [total_size : Words .. MaxWords, size : [Address -> Int],
     free : [Address -> BOOLEAN], prev : [Address -> Pointer],
     next_free : [Address -> Pointer], prev_free : [Address -> Pointer],
     free_list : Pointer]

\* The blocks B tile the heap, in sizes from that of a salloc_t on.
Tiles(h, B) ==
    /\ B \subseteq 0 .. h.total_size - 1
    /\ head \in B
    /\ \A b \in B : h.size[b] >= 4 /\ b + h.size[b] \in B \cup {h.total_size}
    /\ \A b, c \in B : b < c => b + h.size[b] <= c

\* salloc aligns to multiples of the smallest region.
Even(h, B) == \A b \in B : h.size[b] % 2 = 0

\* A prev pointer leads to the block before, or nowhere; that of the first
\* block may be out of date.
PrevRight(h, B) ==
    \A b \in B \ {head} : h.prev[b] # NULL =>
        h.prev[b] \in B /\ h.prev[b] + h.size[h.prev[b]] = b

\* What has not been mapped yet will be mapped as zeros.
Fresh(h) == \A a \in Address : a >= h.total_size => h.prev[a] = NULL

FreeOf(h, B) == {b \in B : h.free[b]}

\* The blocks L are on free lists, in both directions.
Rings(h, L) ==
    /\ L \subseteq Address
    /\ h.free_list # NULL => h.free_list \in L
    /\ \A b \in L : /\ h.next_free[b] \in L /\ h.prev_free[h.next_free[b]] = b
                    /\ h.prev_free[b] \in L /\ h.next_free[h.prev_free[b]] = b

Good(h, B) ==
    /\ h \in HeapRecord
    /\ Tiles(h, B) /\ Even(h, B) /\ PrevRight(h, B) /\ Fresh(h)
    /\ Rings(h, FreeOf(h, B))

\* The list has no part that is closed in itself.
OneRing(h, L) ==
    /\ h.free_list = NULL => L = {}
    /\ \A S \in SUBSET L :
         S # {} /\ (\A b \in S : h.next_free[b] \in S) => S = L

\* No two blocks of L are neighbours.
Apart(h, L) == \A b \in L : b + h.size[b] \notin L

\* What growth may spoil.
Exact(h, B) ==
    /\ \A b \in B : h.prev[next(h, b)] = b
    /\ OneRing(h, FreeOf(h, B))
    /\ Apart(h, FreeOf(h, B))

\* The regions lie in blocks of their own that are not free.
InBlocks(h, B, regions) ==
    /\ \A r \in regions :
         /\ r \in [start : Address, len : Requests]
         /\ r.start - HeaderWords \in B \ FreeOf(h, B)
         /\ r.start + r.len <= (r.start - HeaderWords) + h.size[r.start - HeaderWords]
    /\ \A r, s \in regions : r.start = s.start => r = s

HeapInv(B) ==
    /\ Good(heap, B)
    /\ heap.total_size = Words => Exact(heap, B)
    /\ InBlocks(heap, B, live)

Inv == SafeUntilGrowth /\ (exact \/ \E B \in SUBSET Address : HeapInv(B))

\* What a call that makes heap g of heap h leaves alone: what is no header of
\* a block and no link of a block that is free, vanishes or is new.
Untouched(h, B, g, C) ==
    \A a \in Address :
        /\ a \notin B \cup C =>
             g.size[a] = h.size[a] /\ g.free[a] = h.free[a] /\ g.prev[a] = h.prev[a]
        /\ a \notin FreeOf(h, B) \cup FreeOf(g, C) \cup (B \ C) \cup (C \ B) =>
             g.next_free[a] = h.next_free[a] /\ g.prev_free[a] = h.prev_free[a]

-----------------------------------------------------------------------------
(* Sizes.                                                                  *)

\* A number below the divisor is its own remainder.
LEMMA SmallMod ==
    ASSUME NEW b \in Nat \ {0}, NEW a \in 0 .. b - 1
    PROVE  a % b = a
OBVIOUS

LEMMA SizeFacts ==
    /\ MaxWords \in Nat /\ Words \in Nat /\ Words >= 4 /\ Words <= MaxWords
    /\ WordSize \in Nat \ {0} /\ MaxWords < WordSize
    /\ MaxBlocks \in Nat \ {0} /\ 4 * MaxBlocks + 4 > MaxWords
    /\ \A s \in 2 .. MaxWords : usable_size(s) = s - 2
    /\ SALLOC_SMALLEST_REGION = 2
<1>1. Words \in Nat /\ Words >= 4 /\ MaxGrowths \in Nat /\ WordSize \in Nat /\ MaxWords < WordSize
  BY RequestAssumption DEF sizeof_salloc_t
<1>2. MaxWords \in Nat /\ Words <= MaxWords
  <2>1. Words * MaxGrowths \in Nat
    BY <1>1
  <2>2. Words * (MaxGrowths + 1) = Words * MaxGrowths + Words
    BY <1>1
  <2> QED
    BY <1>1, <2>1, <2>2 DEF MaxWords
<1>3. MaxBlocks \in Nat \ {0} /\ 4 * MaxBlocks + 4 > MaxWords
  BY <1>1, <1>2 DEF MaxBlocks, sizeof_salloc_t
<1>4. \A s \in 2 .. MaxWords : usable_size(s) = s - 2
  BY <1>1, <1>2, SmallMod DEF usable_size, HeaderWords
<1>5. SALLOC_SMALLEST_REGION = 2
  BY <1>1, <1>2, <1>4 DEF SALLOC_SMALLEST_REGION, sizeof_salloc_t
<1> QED
  BY <1>1, <1>2, <1>3, <1>4, <1>5

\* What salloc makes of a request.
LEMMA AlignFacts ==
    ASSUME NEW n \in Requests
    PROVE  n \in Nat /\ align(n) \in Nat /\ align(n) >= 2 /\ align(n) >= n /\ align(n) % 2 = 0
<1>1. n \in Nat
  BY RequestAssumption
<1>2. align(n) = IF n < 2 THEN 2 ELSE n + (n % 2)
  BY SizeFacts DEF align
<1> QED
  BY <1>1, <1>2

-----------------------------------------------------------------------------
(* The free list.                                                          *)

\* Heap g is heap h with node linked into the free list L, or taken out of it.
Linked(h, L, node, g) ==
    /\ g \in HeapRecord
    /\ g.total_size = h.total_size /\ g.size = h.size /\ g.prev = h.prev
    /\ g.free = [h.free EXCEPT ![node] = TRUE]
    /\ g.free_list = h.free_list
    /\ \A a \in Address \ (L \cup {node}) :
         g.next_free[a] = h.next_free[a] /\ g.prev_free[a] = h.prev_free[a]
    /\ Rings(g, L \cup {node})
    /\ OneRing(h, L) => OneRing(g, L \cup {node})

Unlinked(h, L, node, g) ==
    /\ g \in HeapRecord
    /\ g.total_size = h.total_size /\ g.size = h.size /\ g.prev = h.prev
    /\ g.free = [h.free EXCEPT ![node] = FALSE]
    /\ \A a \in Address \ L :
         g.next_free[a] = h.next_free[a] /\ g.prev_free[a] = h.prev_free[a]
    /\ Rings(g, L \ {node})
    /\ OneRing(h, L) => OneRing(g, L \ {node})

\* insert_free links a block into the ring of another.
LEMMA InsertFree ==
    ASSUME NEW h \in HeapRecord, NEW L, Rings(h, L),
           NEW list \in L, NEW node \in Address \ L,
           NEW g, g = insert_free(h, list, node)
    PROVE  Linked(h, L, node, g)
<1> DEFINE nf == h.next_free
           pf == h.prev_free
           after == nf[list]
           n1 == [nf EXCEPT ![node] = after]
           n2 == [n1 EXCEPT ![list] = node]
           p1 == [pf EXCEPT ![node] = list]
           p2 == [p1 EXCEPT ![n2[node]] = node]
<1>1. /\ nf \in [Address -> Pointer] /\ pf \in [Address -> Pointer]
      /\ L \subseteq Address /\ node \in Address /\ node \notin L
      /\ \A b \in L : nf[b] \in L /\ pf[nf[b]] = b /\ pf[b] \in L /\ nf[pf[b]] = b
  BY DEF HeapRecord, Rings
<1>2. g = [h EXCEPT !.next_free = n2, !.prev_free = p2, !.free[node] = TRUE]
  BY DEF insert_free
<1>3. /\ n2 \in [Address -> Pointer] /\ p2 \in [Address -> Pointer]
      /\ after \in L /\ n2[list] = node /\ n2[node] = after
      /\ \A a \in Address \ {list, node} : n2[a] = nf[a]
      /\ p2[node] = list /\ p2[after] = node
      /\ \A a \in Address \ {after, node} : p2[a] = pf[a]
  BY <1>1 DEF Pointer
<1> HIDE DEF n2, p2
<1>4. /\ g.next_free = n2 /\ g.prev_free = p2 /\ g \in HeapRecord
      /\ g.total_size = h.total_size /\ g.size = h.size /\ g.prev = h.prev
      /\ g.free = [h.free EXCEPT ![node] = TRUE] /\ g.free_list = h.free_list
  <2>1. [h.free EXCEPT ![node] = TRUE] \in [Address -> BOOLEAN]
    BY <1>1 DEF HeapRecord
  <2> DEFINE free == [h.free EXCEPT ![node] = TRUE]
  <2> HIDE DEF free
  <2>2. g = [h EXCEPT !.next_free = n2, !.prev_free = p2, !.free = free]
    BY <1>2, Zenon DEF free
  <2> QED
    BY <1>3, <2>1, <2>2 DEF HeapRecord, free
<1>5. \A a \in Address \ (L \cup {node}) : n2[a] = nf[a] /\ p2[a] = pf[a]
  BY <1>3
<1>6. ASSUME NEW b \in L \cup {node}
      PROVE  n2[b] \in L \cup {node} /\ p2[n2[b]] = b /\ p2[b] \in L \cup {node} /\ n2[p2[b]] = b
  <2>1. CASE b = node
    BY <1>1, <1>3, <2>1
  <2>2. CASE b # node /\ b = list
    <3>1. n2[b] = node /\ p2[n2[b]] = b
      BY <1>3, <2>2
    <3>2. CASE b = after
      BY <1>3, <2>2, <3>1, <3>2
    <3>3. CASE b # after
      <4>1. p2[b] = pf[b] /\ pf[b] \in L /\ nf[pf[b]] = b /\ pf[b] # list
        BY <1>1, <1>3, <2>2, <3>3
      <4> QED
        BY <1>1, <1>3, <3>1, <4>1
    <3> QED
      BY <3>2, <3>3
  <2>3. CASE b # node /\ b # list
    <3>1. n2[b] = nf[b] /\ nf[b] \in L /\ pf[nf[b]] = b /\ nf[b] # after
      BY <1>1, <1>3, <2>3
    <3>2. p2[n2[b]] = b
      BY <1>1, <1>3, <3>1
    <3>3. CASE b = after
      BY <1>3, <3>1, <3>2, <3>3
    <3>4. CASE b # after
      <4>1. p2[b] = pf[b] /\ pf[b] \in L /\ nf[pf[b]] = b /\ pf[b] # list
        BY <1>1, <1>3, <2>3, <3>4
      <4> QED
        BY <1>1, <1>3, <3>1, <3>2, <4>1
    <3> QED
      BY <3>3, <3>4
  <2> QED
    BY <2>1, <2>2, <2>3
<1>7. Rings(g, L \cup {node})
  BY <1>1, <1>4, <1>6 DEF Rings
<1>8. ASSUME OneRing(h, L) PROVE OneRing(g, L \cup {node})
  <2>1. h.free_list # NULL
    BY <1>8 DEF OneRing
  <2>2. ASSUME NEW S \in SUBSET (L \cup {node}), S # {}, \A b \in S : n2[b] \in S
        PROVE  S = L \cup {node}
    <3>1. ASSUME NEW b \in S \ {node} PROVE nf[b] \in S \ {node}
      <4>1. nf[b] \in L /\ b \in L
        BY <1>1
      <4>2. CASE b = list
        BY <1>1, <1>3, <2>2, <4>1, <4>2
      <4>3. CASE b # list
        BY <1>1, <1>3, <2>2, <4>1, <4>3
      <4> QED
        BY <4>2, <4>3
    <3>2. S \ {node} # {}
      BY <1>1, <1>3, <2>2
    <3>3. S \ {node} = L
      BY <1>8, <3>1, <3>2 DEF OneRing
    <3> QED
      BY <1>3, <2>2, <3>3
  <2> QED
    BY <1>4, <2>1, <2>2 DEF OneRing
<1> QED
  BY <1>4, <1>5, <1>7, <1>8 DEF Linked

\* list_remove_free takes a block out of its ring.
LEMMA RemoveFree ==
    ASSUME NEW h \in HeapRecord, NEW L, Rings(h, L),
           NEW node \in L,
           NEW g, g = list_remove_free(h, node, TRUE) \/ g = list_remove_free(h, node, FALSE)
    PROVE  Unlinked(h, L, node, g)
<1> DEFINE nf == h.next_free
           pf == h.prev_free
           before == pf[node]
           after == nf[node]
           n1 == [nf EXCEPT ![before] = after]
           p1 == [pf EXCEPT ![n1[node]] = before]
           n2 == [n1 EXCEPT ![node] = NULL]
           p2 == [p1 EXCEPT ![node] = NULL]
           fl == IF g = list_remove_free(h, node, TRUE) THEN FreeListWithout(h, node, TRUE)
                 ELSE FreeListWithout(h, node, FALSE)
<1>1. /\ nf \in [Address -> Pointer] /\ pf \in [Address -> Pointer]
      /\ L \subseteq Address
      /\ \A b \in L : nf[b] \in L /\ pf[nf[b]] = b /\ pf[b] \in L /\ nf[pf[b]] = b
      /\ h.free_list # NULL => h.free_list \in L
  BY DEF HeapRecord, Rings
<1>2. g = [h EXCEPT !.free_list = fl, !.next_free = n2, !.prev_free = p2, !.free[node] = FALSE]
  BY DEF list_remove_free
<1>3. /\ before \in L /\ after \in L /\ nf[before] = node /\ pf[after] = node
      /\ before = node <=> after = node
  BY <1>1
<1>4. n1[node] = after
  BY <1>1, <1>3
<1>5. /\ n2 \in [Address -> Pointer] /\ p2 \in [Address -> Pointer]
      /\ before # node => n2[before] = after /\ p2[after] = before
      /\ \A a \in Address \ {before, node} : n2[a] = nf[a]
      /\ \A a \in Address \ {after, node} : p2[a] = pf[a]
  BY <1>1, <1>3, <1>4 DEF Pointer
<1> HIDE DEF n2, p2
<1>6. fl \in Pointer /\ (fl # NULL => fl \in L \ {node}) /\ (fl = NULL => h.free_list = NULL \/ before = node)
  <2>1. NULL \notin Address
    BY DEF NULL, Address
  <2> QED
    BY <1>1, <1>3, <2>1 DEF FreeListWithout, HeapRecord, Pointer
<1> HIDE DEF fl
<1>7. /\ g.next_free = n2 /\ g.prev_free = p2 /\ g \in HeapRecord
      /\ g.total_size = h.total_size /\ g.size = h.size /\ g.prev = h.prev
      /\ g.free = [h.free EXCEPT ![node] = FALSE] /\ g.free_list = fl
  <2>1. [h.free EXCEPT ![node] = FALSE] \in [Address -> BOOLEAN]
    BY <1>1 DEF HeapRecord
  <2> DEFINE free == [h.free EXCEPT ![node] = FALSE]
  <2> HIDE DEF free
  <2>2. g = [h EXCEPT !.free_list = fl, !.next_free = n2, !.prev_free = p2, !.free = free]
    BY <1>2, Zenon DEF free
  <2> QED
    BY <1>5, <1>6, <2>1, <2>2 DEF HeapRecord, free
<1>8. \A a \in Address \ L : n2[a] = nf[a] /\ p2[a] = pf[a]
  BY <1>3, <1>5
<1>9. ASSUME NEW b \in L \ {node}
      PROVE  n2[b] \in L \ {node} /\ p2[n2[b]] = b /\ p2[b] \in L \ {node} /\ n2[p2[b]] = b
  <2>1. n2[b] \in L \ {node} /\ p2[n2[b]] = b
    <3>1. CASE b = before
      BY <1>1, <1>3, <1>5, <3>1
    <3>2. CASE b # before
      <4>1. n2[b] = nf[b] /\ nf[b] \in L /\ nf[b] # node /\ nf[b] # after /\ pf[nf[b]] = b
        BY <1>1, <1>3, <1>5, <3>2
      <4> QED
        BY <1>1, <1>5, <4>1
    <3> QED
      BY <3>1, <3>2
  <2>2. p2[b] \in L \ {node} /\ n2[p2[b]] = b
    <3>1. CASE b = after
      BY <1>1, <1>3, <1>5, <3>1
    <3>2. CASE b # after
      <4>1. p2[b] = pf[b] /\ pf[b] \in L /\ pf[b] # node /\ pf[b] # before /\ nf[pf[b]] = b
        BY <1>1, <1>3, <1>5, <3>2
      <4> QED
        BY <1>1, <1>5, <4>1
    <3> QED
      BY <3>1, <3>2
  <2> QED
    BY <2>1, <2>2
<1>10. Rings(g, L \ {node})
  BY <1>1, <1>6, <1>7, <1>9 DEF Rings
<1>11. ASSUME OneRing(h, L) PROVE OneRing(g, L \ {node})
  <2>1. ASSUME before = node PROVE L = {node}
    <3>1. {node} \in SUBSET L /\ \A b \in {node} : nf[b] \in {node}
      BY <1>3, <2>1
    <3> QED
      BY <1>11, <3>1 DEF OneRing
  <2>2. fl = NULL => L \ {node} = {}
    BY <1>6, <1>11, <2>1 DEF OneRing
  <2>3. ASSUME NEW S \in SUBSET (L \ {node}), S # {}, \A b \in S : n2[b] \in S
        PROVE  S = L \ {node}
    <3> DEFINE T == IF before \in S THEN S \cup {node} ELSE S
    <3>1. before # node
      BY <2>1, <2>3
    <3>2. ASSUME NEW b \in T PROVE nf[b] \in T
      <4>1. CASE b = node
        <5>1. before \in S
          BY <2>3, <3>2, <4>1
        <5> QED
          BY <1>5, <2>3, <3>1, <4>1, <5>1
      <4>2. CASE b # node /\ b = before
        BY <1>3, <3>2, <4>2
      <4>3. CASE b # node /\ b # before
        <5>1. b \in S /\ b \in Address
          BY <1>1, <2>3, <3>2, <4>3
        <5>2. n2[b] = nf[b] /\ n2[b] \in S
          BY <1>5, <2>3, <4>3, <5>1
        <5> QED
          BY <5>2
      <4> QED
        BY <4>1, <4>2, <4>3
    <3>3. T \in SUBSET L /\ T # {}
      BY <2>3
    <3>4. T = L
      <4> HIDE DEF T
      <4> QED
        BY <1>11, <3>2, <3>3 DEF OneRing
    <3> QED
      BY <2>3, <3>4
  <2> QED
    BY <1>7, <2>2, <2>3 DEF OneRing
<1> QED
  BY <1>7, <1>8, <1>10, <1>11 DEF Unlinked

\* Heap g is heap h with a free list of node alone, next to what was on L.
Alone(h, L, node, g) ==
    /\ g \in HeapRecord
    /\ g.total_size = h.total_size /\ g.size = h.size /\ g.prev = h.prev
    /\ g.free = [h.free EXCEPT ![node] = TRUE]
    /\ \A a \in Address \ {node} :
         g.next_free[a] = h.next_free[a] /\ g.prev_free[a] = h.prev_free[a]
    /\ Rings(g, L \cup {node})
    /\ L = {} => OneRing(g, {node})

\* sfree and increase_heap_size make a free list of one block.
LEMMA AloneFree ==
    ASSUME NEW h \in HeapRecord, NEW L, Rings(h, L), NEW node \in Address \ L,
           NEW g, g = [h EXCEPT !.free_list = node, !.next_free[node] = node,
                                !.prev_free[node] = node, !.free[node] = TRUE]
    PROVE  Alone(h, L, node, g)
<1> DEFINE nf == [h.next_free EXCEPT ![node] = node]
           pf == [h.prev_free EXCEPT ![node] = node]
           fr == [h.free EXCEPT ![node] = TRUE]
<1>1. /\ h.free \in [Address -> BOOLEAN]
      /\ h.next_free \in [Address -> Pointer] /\ h.prev_free \in [Address -> Pointer]
      /\ node \in Address /\ node \notin L /\ L \subseteq Address /\ node \in Pointer
      /\ \A b \in L : /\ h.next_free[b] \in L /\ h.prev_free[h.next_free[b]] = b
                      /\ h.prev_free[b] \in L /\ h.next_free[h.prev_free[b]] = b
  BY DEF HeapRecord, Rings, Pointer
<1> HIDE DEF nf, pf, fr
<1>2. /\ nf \in [Address -> Pointer] /\ nf[node] = node
      /\ \A a \in Address : a # node => nf[a] = h.next_free[a]
  BY <1>1 DEF nf
<1>3. /\ pf \in [Address -> Pointer] /\ pf[node] = node
      /\ \A a \in Address : a # node => pf[a] = h.prev_free[a]
  BY <1>1 DEF pf
<1>4. fr \in [Address -> BOOLEAN]
  BY <1>1 DEF fr
<1>5. g = [h EXCEPT !.free_list = node, !.next_free = nf, !.prev_free = pf, !.free = fr]
  BY Zenon DEF nf, pf, fr
<1>6. /\ g \in HeapRecord
      /\ g.total_size = h.total_size /\ g.size = h.size /\ g.prev = h.prev
      /\ g.free_list = node /\ g.next_free = nf /\ g.prev_free = pf /\ g.free = fr
  <2>1. /\ nf \in [Address -> Pointer] /\ pf \in [Address -> Pointer]
        /\ fr \in [Address -> BOOLEAN] /\ node \in Pointer
    BY <1>1, <1>2, <1>3, <1>4
  <2>2. g \in HeapRecord
    BY <1>5, <2>1 DEF HeapRecord
  <2>3. /\ g.total_size = h.total_size /\ g.size = h.size /\ g.prev = h.prev
        /\ g.free_list = node
    BY <1>5 DEF HeapRecord
  <2>4. g.next_free = nf /\ g.prev_free = pf /\ g.free = fr
    BY <1>5 DEF HeapRecord
  <2> QED
    BY <2>2, <2>3, <2>4
<1>7. Rings(g, L \cup {node})
  <2>1. ASSUME NEW b \in L \cup {node}
        PROVE  nf[b] \in L \cup {node} /\ pf[nf[b]] = b /\ pf[b] \in L \cup {node} /\ nf[pf[b]] = b
    BY <1>1, <1>2, <1>3
  <2> QED
    BY <1>1, <1>6, <2>1 DEF Rings
<1>8. OneRing(g, {node})
  <2>1. node # NULL
    BY <1>1, SizeFacts DEF Address, NULL
  <2> QED
    BY <1>6, <2>1 DEF OneRing
<1> QED
  BY <1>2, <1>3, <1>6, <1>7, <1>8 DEF Alone, fr

-----------------------------------------------------------------------------
(* The blocks.                                                             *)

\* Sums of even numbers are even.
LEMMA EvenSum ==
    ASSUME NEW a \in Int, NEW b \in Int, a % 2 = 0, b % 2 = 0
    PROVE  (a + b) % 2 = 0 /\ (a - b) % 2 = 0
OBVIOUS

\* What the arithmetic of blocks rests on.
LEMMA TileFacts ==
    ASSUME NEW h \in HeapRecord, NEW B, Tiles(h, B)
    PROVE  /\ MaxWords \in Nat /\ h.total_size \in Nat
           /\ Words <= h.total_size /\ h.total_size <= MaxWords
           /\ \A a : a \in Address <=> a \in Nat /\ a <= MaxWords
           /\ B \subseteq Address /\ head \in B /\ head = 0
           /\ \A b \in B : /\ b \in Nat /\ b < h.total_size
                           /\ h.size[b] \in Int /\ h.size[b] >= 4
                           /\ b + h.size[b] \in B \/ b + h.size[b] = h.total_size
                           /\ b + h.size[b] <= h.total_size
           /\ \A b, c \in B : b < c => b + h.size[b] <= c
<1>1. /\ MaxWords \in Nat /\ h.total_size \in Words .. MaxWords /\ Words \in Nat
      /\ h.size \in [Address -> Int]
  BY SizeFacts DEF HeapRecord
<1>2. \A a : a \in Address <=> a \in Nat /\ a <= MaxWords
  BY <1>1 DEF Address
<1>3. \A b \in B : b \in Nat /\ b < h.total_size /\ b <= MaxWords
  BY <1>1 DEF Tiles
<1>4. B \subseteq Address
  BY <1>2, <1>3
<1>5. \A b \in B : h.size[b] \in Int
  BY <1>1, <1>4
<1>6. /\ \A b \in B : h.size[b] >= 4 /\ (b + h.size[b] \in B \/ b + h.size[b] = h.total_size)
      /\ \A b, c \in B : b < c => b + h.size[b] <= c
      /\ head \in B
  BY DEF Tiles
<1>7. \A b \in B : b + h.size[b] <= h.total_size
  BY <1>1, <1>3, <1>5, <1>6
<1> QED
  BY <1>1, <1>2, <1>3, <1>4, <1>5, <1>6, <1>7 DEF head

\* The block behind b, or the first one behind the last.
LEMMA NextFacts ==
    ASSUME NEW h \in HeapRecord, NEW B, Tiles(h, B), NEW b \in B
    PROVE  /\ next(h, b) = IF b + h.size[b] = h.total_size THEN head ELSE b + h.size[b]
           /\ next(h, b) \in B
<1> DEFINE after == b + h.size[b]
<1>1. after \in Nat /\ after <= h.total_size /\ h.total_size \in Nat /\ h.total_size <= MaxWords
  BY TileFacts
<1>2. after % WordSize = after
  <2>1. WordSize \in Nat \ {0} /\ after \in 0 .. WordSize - 1
    BY <1>1, SizeFacts
  <2> HIDE DEF after
  <2> QED
    BY <2>1, SmallMod
<1>3. past_end(h, after) <=> after = h.total_size
  BY <1>1 DEF past_end
<1>4. next(h, b) = IF after = h.total_size THEN head ELSE after
  BY <1>2, <1>3, Zenon DEF next
<1>5. next(h, b) \in B
  BY <1>4, TileFacts
<1> QED
  BY <1>4, <1>5

\* It is the block behind no other.
LEMMA NextInjective ==
    ASSUME NEW h \in HeapRecord, NEW B, Tiles(h, B), NEW b \in B, NEW c \in B,
           b + h.size[b] = c + h.size[c] \/ next(h, b) = next(h, c)
    PROVE  b = c
<1>1. /\ next(h, b) = IF b + h.size[b] = h.total_size THEN head ELSE b + h.size[b]
      /\ next(h, c) = IF c + h.size[c] = h.total_size THEN head ELSE c + h.size[c]
  BY NextFacts
<1>2. b + h.size[b] = c + h.size[c]
  BY <1>1, TileFacts
<1> QED
  BY <1>2, TileFacts

\* Only sizes count for it.
LEMMA NextSame ==
    ASSUME NEW h, NEW g, NEW b, g.total_size = h.total_size, g.size[b] = h.size[b]
    PROVE  next(g, b) = next(h, b)
BY DEF next, past_end

\* The block in front of one that is not the first, or of the end.
LEMMA BlockBefore ==
    ASSUME NEW h \in HeapRecord, NEW B, Tiles(h, B),
           NEW c, (c \in B /\ c # head) \/ c = h.total_size
    PROVE  \E b \in B : b + h.size[b] = c /\ b < c
<1> DEFINE S == {b \in B : b < c}
<1>1. c \in Nat /\ c <= h.total_size /\ head \in S /\ S \subseteq Nat /\ \A b \in S : b <= c
  BY TileFacts, SizeFacts
<1>2. PICK b \in S : \A d \in S : d <= b
  <2> HIDE DEF S
  <2> QED
    BY <1>1, GreatestElement
<1>3. b \in B /\ b < c
  OBVIOUS
<1>4. b + h.size[b] <= c
  BY <1>1, <1>3, TileFacts
<1>5. ~(b + h.size[b] < c)
  <2> SUFFICES ASSUME b + h.size[b] < c PROVE FALSE
    OBVIOUS
  <2>1. b + h.size[b] \in S
    BY <1>1, <1>3, TileFacts
  <2> QED
    BY <1>1, <1>2, <1>3, <2>1, TileFacts
<1>6. b \in Nat /\ h.size[b] \in Int
  BY <1>3, TileFacts
<1> QED
  BY <1>1, <1>3, <1>4, <1>5, <1>6

\* A step that changes neither sizes nor prev pointers.
LEMMA SameBlocks ==
    ASSUME NEW h \in HeapRecord, NEW B, Tiles(h, B), Even(h, B), PrevRight(h, B), Fresh(h),
           NEW g \in HeapRecord,
           g.total_size = h.total_size, g.size = h.size, g.prev = h.prev
    PROVE  /\ Tiles(g, B) /\ Even(g, B) /\ PrevRight(g, B) /\ Fresh(g)
           /\ \A b : next(g, b) = next(h, b)
<1>1. Tiles(g, B)
  BY Zenon DEF Tiles
<1>2. Even(g, B) /\ PrevRight(g, B) /\ Fresh(g)
  BY Zenon DEF Even, PrevRight, Fresh
<1>3. \A b : next(g, b) = next(h, b)
  BY Zenon DEF next, past_end
<1> QED
  BY <1>1, <1>2, <1>3

\* _salloc hands out a block whole.
TakenIn(h, B, curr, g) ==
    /\ Good(g, B)
    /\ g.total_size = h.total_size /\ g.size = h.size
    /\ FreeOf(g, B) = FreeOf(h, B) \ {curr}
    /\ Exact(h, B) => Exact(g, B)
    /\ Untouched(h, B, g, B)

LEMMA TakeWhole ==
    ASSUME NEW h, NEW B, Good(h, B), NEW curr \in FreeOf(h, B),
           NEW g, g = list_remove_free(h, curr, FALSE)
    PROVE  TakenIn(h, B, curr, g)
<1> DEFINE L == FreeOf(h, B)
<1>1. /\ h \in HeapRecord /\ Rings(h, L) /\ Tiles(h, B)
      /\ Even(h, B) /\ PrevRight(h, B) /\ Fresh(h)
  BY DEF Good
<1>2. B \subseteq Address /\ h.free \in [Address -> BOOLEAN]
      /\ L = {b \in B : h.free[b]} /\ curr \in L
  BY <1>1, TileFacts DEF FreeOf, HeapRecord
<1> HIDE DEF L
<1>3. Unlinked(h, L, curr, g)
  BY <1>1, <1>2, RemoveFree
<1>4. FreeOf(g, B) = L \ {curr}
  BY <1>2, <1>3 DEF FreeOf, Unlinked
<1>5. Tiles(g, B) /\ Even(g, B) /\ PrevRight(g, B) /\ Fresh(g) /\ \A b : next(g, b) = next(h, b)
  BY <1>1, <1>3, SameBlocks DEF Unlinked
<1>6. Good(g, B)
  BY <1>3, <1>4, <1>5 DEF Good, Unlinked
<1>7. ASSUME Exact(h, B) PROVE Exact(g, B)
  <2>1. (\A b \in B : h.prev[next(h, b)] = b) /\ OneRing(h, L) /\ Apart(h, L)
    BY <1>7 DEF Exact, L
  <2>2. \A b \in B : g.prev[next(g, b)] = b
    BY <1>3, <1>5, <2>1 DEF Unlinked
  <2>3. OneRing(g, L \ {curr}) /\ Apart(g, L \ {curr})
    BY <1>3, <2>1 DEF Apart, Unlinked
  <2> QED
    BY <1>4, <2>2, <2>3 DEF Exact
<1>8. Untouched(h, B, g, B)
  <2>1. \A a \in Address : a \notin B => g.free[a] = h.free[a]
    BY <1>2, <1>3 DEF Unlinked
  <2>2. \A a \in Address : a \notin L \cup (L \ {curr}) =>
           g.next_free[a] = h.next_free[a] /\ g.prev_free[a] = h.prev_free[a]
    BY <1>3 DEF Unlinked
  <2> QED
    BY <1>3, <1>4, <2>1, <2>2 DEF Untouched, L, Unlinked
<1> QED
  BY <1>3, <1>4, <1>6, <1>7, <1>8 DEF L, Unlinked, TakenIn

\* _salloc splits a block behind the first size words of its region.
SplitIn(h, B, curr, size, half, g) ==
    /\ half \in Address \ B
    /\ Good(g, B \cup {half})
    /\ g.total_size = h.total_size
    /\ \A b \in B \ {curr} : g.size[b] = h.size[b]
    /\ g.size[curr] = size + 2
    /\ FreeOf(g, B \cup {half}) = (FreeOf(h, B) \cup {half}) \ {curr}
    /\ Exact(h, B) => Exact(g, B \cup {half})
    /\ Untouched(h, B, g, B \cup {half})

LEMMA TakeHalf ==
    ASSUME NEW h, NEW B, Good(h, B), NEW curr \in FreeOf(h, B),
           NEW size \in Nat, size >= 2, size % 2 = 0, h.size[curr] - 2 - size >= 4,
           NEW g, g = list_remove_free(Split(h, curr, size), curr, FALSE),
           NEW half, half = curr + 2 + size
    PROVE  SplitIn(h, B, curr, size, half, g)
<1> DEFINE L == FreeOf(h, B)
           C == B \cup {half}
           M == (L \cup {half}) \ {curr}
           left == h.size[curr] - 2 - size
           sizes == [h.size EXCEPT ![half] = left, ![curr] = (@ - left) % WordSize]
           frees == [h.free EXCEPT ![half] = TRUE, ![curr] = FALSE]
           h1 == [h EXCEPT !.size = sizes, !.free = frees]
           last == next(h, curr)
           prevs == [h.prev EXCEPT ![half] = curr, ![last] = half]
           h2 == [h EXCEPT !.size = sizes, !.free = frees, !.prev = prevs]
           h3 == insert_free(h2, curr, half)
<1>1. /\ h \in HeapRecord /\ Rings(h, L) /\ Tiles(h, B)
      /\ Even(h, B) /\ PrevRight(h, B) /\ Fresh(h)
  BY DEF Good
<1>2. /\ h.size \in [Address -> Int] /\ h.free \in [Address -> BOOLEAN]
      /\ h.prev \in [Address -> Pointer]
      /\ L = {b \in B : h.free[b]} /\ curr \in L /\ L \subseteq B /\ curr \in B
  BY <1>1 DEF FreeOf, HeapRecord
<1>3. /\ last \in B
      /\ last = IF curr + h.size[curr] = h.total_size THEN head ELSE curr + h.size[curr]
  BY <1>1, <1>2, NextFacts
<1> HIDE DEF L, left, sizes, frees, h1, last, prevs, h2, h3
<1>4. /\ left \in Nat /\ left >= 4 /\ half + left = curr + h.size[curr]
      /\ half \in Nat /\ curr \in Nat /\ half > curr /\ half < h.total_size /\ half \in Address
      /\ half # curr + h.size[curr] /\ h.size[curr] - left = size + 2
      /\ size + 2 <= MaxWords
  BY <1>1, <1>2, TileFacts DEF left
<1>5. half \notin B /\ half # curr /\ half # last /\ half \notin L
  BY <1>1, <1>2, <1>3, <1>4, TileFacts
<1>6. left % 2 = 0 /\ (size + 2) % 2 = 0
  <2>1. h.size[curr] % 2 = 0 /\ h.size[curr] \in Int
    BY <1>1, <1>2, TileFacts DEF Even
  <2>2. (h.size[curr] - 2) % 2 = 0 /\ h.size[curr] - 2 \in Int
    BY <2>1
  <2>3. (h.size[curr] - 2 - size) % 2 = 0
    BY <2>2, EvenSum
  <2> QED
    BY <2>3 DEF left
<1>7. B \subseteq Address
  BY <1>1, TileFacts
<1>8. /\ sizes \in [Address -> Int] /\ sizes[half] = left /\ sizes[curr] = size + 2
      /\ \A a \in Address \ {curr, half} : sizes[a] = h.size[a]
  <2>1. (h.size[curr] - left) % WordSize = size + 2
    <3>1. WordSize \in Nat \ {0} /\ size + 2 \in 0 .. WordSize - 1
      BY <1>4, SizeFacts
    <3>2. (size + 2) % WordSize = size + 2
      BY <3>1, SmallMod
    <3> QED
      BY <1>4, <3>2
  <2>2. sizes = [h.size EXCEPT ![half] = left, ![curr] = size + 2]
    BY <2>1, Zenon DEF sizes
  <2> QED
    BY <1>2, <1>4, <1>5, <1>7, <2>2
<1>9. /\ frees \in [Address -> BOOLEAN] /\ frees[half] = TRUE /\ frees[curr] = FALSE
      /\ \A a \in Address \ {curr, half} : frees[a] = h.free[a]
  BY <1>2, <1>4, <1>5, <1>7 DEF frees
<1>10. /\ prevs \in [Address -> Pointer] /\ prevs[half] = curr /\ prevs[last] = half
       /\ \A a \in Address \ {half, last} : prevs[a] = h.prev[a]
  BY <1>2, <1>3, <1>4, <1>5, <1>7 DEF prevs, Pointer
<1>11. Split(h, curr, size) = h3
  <2>1. usable_size(h.size[curr]) = h.size[curr] - 2
    <3>1. h.size[curr] \in 2 .. MaxWords
      BY <1>1, <1>2, TileFacts
    <3> QED
      BY <3>1, SizeFacts
  <2>2. BottomHalf(curr, size) = half
    BY DEF BottomHalf, HeaderWords
  <2>3. usable_size(h.size[curr]) - size = left
    BY <2>1 DEF left
  <2>4. Split(h, curr, size) = insert_free(insert(h1, curr, half), curr, half)
    BY <2>2, <2>3, Zenon DEF Split, sizes, frees, h1
  <2> DEFINE k == [h1 EXCEPT !.prev[half] = curr]
  <2>5. k.size = sizes /\ k.total_size = h.total_size
    BY <1>1 DEF HeapRecord, h1
  <2> HIDE DEF k
  <2>6. next(k, half) = last
    <3>1. half + k.size[half] = curr + h.size[curr]
      BY <1>4, <1>8, <2>5
    <3>2. next(k, half) = next(h, curr)
      BY <2>5, <3>1, Zenon DEF next, past_end
    <3> QED
      BY <3>2 DEF last
  <2>7. insert(h1, curr, half) = [k EXCEPT !.prev[last] = half]
    BY <2>6, Zenon DEF insert, k
  <2>8. [k EXCEPT !.prev[last] = half] = h2
    BY <1>1 DEF HeapRecord, k, h1, h2, prevs
  <2> QED
    BY <2>4, <2>7, <2>8, Zenon DEF h3
<1>12. /\ h2 \in HeapRecord
       /\ h2.total_size = h.total_size /\ h2.size = sizes /\ h2.free = frees /\ h2.prev = prevs
       /\ h2.next_free = h.next_free /\ h2.prev_free = h.prev_free /\ h2.free_list = h.free_list
  BY <1>1, <1>8, <1>9, <1>10 DEF HeapRecord, h2
<1>13. Rings(h2, L) /\ (OneRing(h, L) => OneRing(h2, L))
  BY <1>1, <1>12, Zenon DEF Rings, OneRing
<1>14. Linked(h2, L, half, h3)
  BY <1>2, <1>4, <1>5, <1>12, <1>13, InsertFree DEF h3
<1>15. Unlinked(h3, L \cup {half}, curr, g)
  <2>1. g = list_remove_free(h3, curr, FALSE) /\ curr \in L \cup {half}
    BY <1>2, <1>11
  <2>2. h3 \in HeapRecord /\ Rings(h3, L \cup {half})
    BY <1>14 DEF Linked
  <2> QED
    BY <2>1, <2>2, RemoveFree
<1>16. /\ g \in HeapRecord
       /\ g.total_size = h.total_size /\ g.size = sizes /\ g.prev = prevs
       /\ g.free = frees
       /\ \A a \in Address \ (L \cup {half}) :
            g.next_free[a] = h.next_free[a] /\ g.prev_free[a] = h.prev_free[a]
       /\ Rings(g, M)
       /\ OneRing(h, L) => OneRing(g, M)
  <2>1. g.free = frees
    <3>1. g.free = [[frees EXCEPT ![half] = TRUE] EXCEPT ![curr] = FALSE]
      BY <1>12, <1>14, <1>15 DEF Linked, Unlinked
    <3> QED
      BY <1>9, <3>1, ZenonT(40)
  <2>2. \A a \in Address \ (L \cup {half}) :
            g.next_free[a] = h.next_free[a] /\ g.prev_free[a] = h.prev_free[a]
    BY <1>12, <1>14, <1>15, ZenonT(40) DEF Linked, Unlinked
  <2>3. g \in HeapRecord /\ g.total_size = h.total_size /\ g.size = sizes /\ g.prev = prevs
    BY <1>12, <1>14, <1>15 DEF Linked, Unlinked
  <2>4. Rings(g, M) /\ (OneRing(h, L) => OneRing(g, M))
    BY <1>13, <1>14, <1>15 DEF Linked, Unlinked
  <2> QED
    BY <2>1, <2>2, <2>3, <2>4
<1>17. FreeOf(g, C) = M
  BY <1>2, <1>4, <1>5, <1>7, <1>9, <1>16, ZenonT(40) DEF FreeOf
<1>18. /\ h.total_size \in Nat /\ h.total_size <= MaxWords /\ head \in B /\ head = 0
       /\ \A b \in B : /\ b \in Nat /\ b < h.total_size
                       /\ h.size[b] \in Int /\ h.size[b] >= 4
                       /\ b + h.size[b] \in B \/ b + h.size[b] = h.total_size
       /\ \A b, c \in B : b < c => b + h.size[b] <= c
       /\ \A a : a \in Address <=> a \in Nat /\ a <= MaxWords
       /\ MaxWords \in Nat
  BY <1>1, TileFacts
<1>19. /\ g.size[half] = left /\ g.size[curr] = size + 2 /\ curr + (size + 2) = half
       /\ \A b \in B : b # curr => g.size[b] = h.size[b]
  <2>1. curr \in Address /\ half \in Address
    BY <1>2, <1>4, <1>7
  <2>2. curr + (size + 2) = half
    BY <1>4
  <2>3. g.size[half] = left /\ g.size[curr] = size + 2
    BY <1>8, <1>16
  <2>4. ASSUME NEW b \in B, b # curr PROVE g.size[b] = h.size[b]
    BY <1>5, <1>7, <1>8, <1>16, <2>4
  <2> QED
    BY <2>2, <2>3, <2>4
<1>20. Tiles(g, C)
  <2>1. C \subseteq 0 .. g.total_size - 1 /\ head \in C
    <3>1. \A b \in C : b \in Nat /\ b < h.total_size
      BY <1>4, <1>18
    <3>2. \A b \in C : b \in 0 .. h.total_size - 1
      BY <1>18, <3>1
    <3> QED
      BY <1>16, <1>18, <3>2
  <2>2. ASSUME NEW b \in C
        PROVE  g.size[b] >= 4 /\ b + g.size[b] \in C \cup {g.total_size}
    <3>1. CASE b = half
      BY <1>2, <1>4, <1>16, <1>18, <1>19, <3>1
    <3>2. CASE b = curr
      <4>1. g.size[b] = size + 2 /\ b + g.size[b] = half
        BY <1>19, <3>2
      <4>2. size + 2 >= 4 /\ half \in C
        OBVIOUS
      <4> QED
        BY <4>1, <4>2, Zenon
    <3>3. CASE b # half /\ b # curr
      BY <1>16, <1>18, <1>19, <3>3
    <3> QED
      BY <3>1, <3>2, <3>3
  <2>3. ASSUME NEW b \in C, NEW c \in C, b < c PROVE b + g.size[b] <= c
    <3>1. CASE b = half
      <4>1. c \in B /\ curr < c
        BY <1>4, <1>18, <2>3, <3>1
      <4>2. curr + h.size[curr] <= c
        BY <1>2, <1>18, <4>1
      <4> QED
        BY <1>4, <1>19, <3>1, <4>2
    <3>2. CASE b = curr
      <4>1. c = half \/ (c \in B /\ curr < c)
        BY <2>3, <3>2
      <4>2. c \in B /\ curr < c => curr + h.size[curr] <= c
        BY <1>2, <1>18
      <4> QED
        <5>1. b + g.size[b] = half /\ half \in Nat
          BY <1>4, <1>19, <3>2
        <5>2. CASE c = half
          <6>1. half <= half
            BY <5>1
          <6> QED
            BY <5>1, <5>2, <6>1, Zenon
        <5>3. CASE c \in B /\ curr < c
          <6>1. curr + h.size[curr] <= c /\ c \in Nat
            BY <1>18, <4>2, <5>3
          <6>2. half <= curr + h.size[curr] /\ curr + h.size[curr] \in Nat
            BY <1>4
          <6>3. half <= c
            <7> DEFINE e == curr + h.size[curr]
            <7> HIDE DEF e
            <7>1. e <= c /\ half <= e /\ e \in Nat
              BY <6>1, <6>2 DEF e
            <7> QED
              BY <5>1, <6>1, <7>1
          <6> QED
            BY <5>1, <6>3
        <5> QED
          BY <4>1, <5>2, <5>3
    <3>3. CASE b # half /\ b # curr
      <4>1. b \in B /\ g.size[b] = h.size[b]
        BY <1>19, <3>3
      <4>2. CASE c = half
        <5>1. b \in Nat /\ curr \in B /\ b < half
          BY <1>2, <1>18, <2>3, <4>1, <4>2
        <5>2. curr < b => curr + h.size[curr] <= b
          BY <1>18, <4>1, <5>1
        <5>3. half + left = curr + h.size[curr] /\ curr \in Nat /\ half \in Nat /\ left >= 4 /\ left \in Nat
          BY <1>4
        <5>4. b < curr
          BY <3>3, <5>1, <5>2, <5>3
        <5>5. b + h.size[b] <= curr
          BY <1>18, <4>1, <5>1, <5>4
        <5>6. h.size[b] \in Int
          BY <1>18, <4>1
        <5>7. b + h.size[b] <= half
          BY <1>4, <5>1, <5>5, <5>6
        <5> QED
          BY <4>1, <4>2, <5>7
      <4>3. CASE c # half
        BY <1>18, <2>3, <4>1, <4>3
      <4> QED
        BY <4>2, <4>3
    <3> QED
      BY <3>1, <3>2, <3>3
  <2> QED
    BY <2>1, <2>2, <2>3 DEF Tiles
<1>21. Even(g, C)
  BY <1>1, <1>6, <1>19 DEF Even
<1>22. PrevRight(g, C)
  <2>1. ASSUME NEW b \in C \ {head}, g.prev[b] # NULL
        PROVE  g.prev[b] \in C /\ g.prev[b] + g.size[g.prev[b]] = b
    <3>1. CASE b = half
      BY <1>2, <1>4, <1>5, <1>10, <1>16, <1>19, <3>1, ZenonT(40)
    <3>2. CASE b # half /\ b = last
      <4>1. b = curr + h.size[curr]
        BY <1>3, <2>1, <3>2
      <4> QED
        BY <1>4, <1>10, <1>16, <1>19, <3>2, <4>1
    <3>3. CASE b # half /\ b # last
      <4>1. b \in B /\ g.prev[b] = h.prev[b]
        BY <1>7, <1>10, <1>16, <3>3
      <4>2. h.prev[b] \in B /\ h.prev[b] + h.size[h.prev[b]] = b
        BY <1>1, <2>1, <4>1 DEF PrevRight
      <4>3. h.prev[b] # curr
        BY <1>3, <1>18, <3>3, <4>1, <4>2
      <4> QED
        BY <1>5, <1>19, <4>1, <4>2, <4>3
    <3> QED
      BY <3>1, <3>2, <3>3
  <2> QED
    BY <2>1 DEF PrevRight
<1>23. Fresh(g)
  <2>1. ASSUME NEW a \in Address, a >= h.total_size PROVE g.prev[a] = NULL
    <3>1. a # half /\ a # last
      BY <1>3, <1>4, <1>18, <2>1
    <3>2. h.prev[a] = NULL
      BY <1>1, <2>1 DEF Fresh
    <3> QED
      BY <1>10, <1>16, <3>1, <3>2
  <2> QED
    BY <1>16, <2>1 DEF Fresh
<1>24. Good(g, C)
  BY <1>16, <1>17, <1>20, <1>21, <1>22, <1>23 DEF Good
<1>25. ASSUME Exact(h, B) PROVE Exact(g, C)
  <2>1. (\A b \in B : h.prev[next(h, b)] = b) /\ OneRing(h, L) /\ Apart(h, L)
    BY <1>25 DEF Exact, L
  <2>2. ASSUME NEW b \in C PROVE g.prev[next(g, b)] = b
    <3>1. next(g, b) = IF b + g.size[b] = g.total_size THEN head ELSE b + g.size[b]
      BY <1>16, <1>20, NextFacts
    <3>2. CASE b = curr
      <4>1. next(g, b) = half
        <5>1. b + g.size[b] = half
          BY <1>4, <1>19, <3>2
        <5>2. half # h.total_size
          BY <1>4, <1>18
        <5>3. half # g.total_size
          BY <1>16, <5>2, Zenon
        <5> QED
          BY <3>1, <5>1, <5>3, Zenon
      <4> QED
        BY <1>10, <1>16, <3>2, <4>1
    <3>3. CASE b = half
      <4>1. next(g, b) = last
        BY <1>3, <1>4, <1>16, <1>19, <3>1, <3>3
      <4> QED
        BY <1>10, <1>16, <3>3, <4>1
    <3>4. CASE b # curr /\ b # half
      <4>1. b \in B /\ g.size[b] = h.size[b]
        BY <1>19, <3>4
      <4>2. next(g, b) = next(h, b)
        BY <1>16, <4>1, NextSame
      <4>3. h.prev[next(h, b)] = b /\ next(h, b) \in B
        BY <1>1, <2>1, <4>1, NextFacts
      <4>4. next(h, b) # last
        BY <1>1, <1>2, <3>4, <4>1, NextInjective DEF last
      <4> QED
        BY <1>5, <1>7, <1>10, <1>16, <4>2, <4>3, <4>4
    <3> QED
      BY <3>2, <3>3, <3>4
  <2>3. OneRing(g, M)
    BY <1>16, <2>1
  <2>4. ASSUME NEW b \in M PROVE b + g.size[b] \notin M
    <3>1. CASE b = half
      <4>1. b + g.size[b] = curr + h.size[curr]
        BY <1>4, <1>19, <3>1
      <4> QED
        BY <1>2, <1>4, <2>1, <4>1 DEF Apart
    <3>2. CASE b # half
      <4>1. b \in L /\ b \in B /\ b # curr /\ g.size[b] = h.size[b]
        BY <1>2, <1>19, <3>2
      <4>2. b + h.size[b] \notin L
        BY <2>1, <4>1 DEF Apart
      <4>3. b + h.size[b] # half
        BY <1>4, <1>5, <1>18, <4>1
      <4> QED
        BY <4>1, <4>2, <4>3
    <3> QED
      BY <3>1, <3>2
  <2>5. Apart(g, M)
    BY <2>4 DEF Apart
  <2> QED
    BY <1>17, <2>2, <2>3, <2>5 DEF Exact
<1>26. Untouched(h, B, g, C)
  <2>1. ASSUME NEW a \in Address, a \notin B \cup C
        PROVE  g.size[a] = h.size[a] /\ g.free[a] = h.free[a] /\ g.prev[a] = h.prev[a]
    BY <1>2, <1>3, <1>8, <1>9, <1>10, <1>16, <2>1, ZenonT(40)
  <2>2. L \cup {half} = L \cup M
    BY <1>2
  <2> QED
    BY <1>16, <1>17, <2>1, <2>2 DEF Untouched, L
<1> QED
  BY <1>4, <1>5, <1>16, <1>17, <1>19, <1>2, <1>24, <1>25, <1>26 DEF L, SplitIn

\* coalesce makes one block of two neighbours.
Merged(h, B, block, n, g) ==
    /\ Good(g, B \ {n})
    /\ g.total_size = h.total_size
    /\ g.size[block] = h.size[block] + h.size[n]
    /\ \A b \in B \ {block, n} : g.size[b] = h.size[b]
    /\ \A b \in B \ {n} : n + h.size[n] # b /\ b # head => g.prev[b] = h.prev[b]
    /\ FreeOf(g, B \ {n}) = FreeOf(h, B) \ {n}
    /\ (\A b \in B : h.prev[next(h, b)] = b) => \A b \in B \ {n} : g.prev[next(g, b)] = b
    /\ OneRing(h, FreeOf(h, B)) => OneRing(g, FreeOf(h, B) \ {n})
    /\ Untouched(h, B, g, B \ {n})

LEMMA Merge ==
    ASSUME NEW h, NEW B, Good(h, B), NEW block \in B, NEW n \in FreeOf(h, B), n # head,
           block + h.size[block] = n,
           NEW g, g = list_remove_free(list_remove([h EXCEPT !.size[block] = @ + h.size[n]], n), n, TRUE)
    PROVE  Merged(h, B, block, n, g)
<1> DEFINE L == FreeOf(h, B)
           C == B \ {n}
           M == L \ {n}
           sizes == [h.size EXCEPT ![block] = @ + h.size[n]]
           last == next(h, n)
           prevs == [h.prev EXCEPT ![last] = h.prev[n], ![n] = NULL]
           h1 == [h EXCEPT !.size = sizes]
           h2 == [h EXCEPT !.size = sizes, !.prev = prevs]
<1>1. /\ h \in HeapRecord /\ Rings(h, L) /\ Tiles(h, B)
      /\ Even(h, B) /\ PrevRight(h, B) /\ Fresh(h)
  BY DEF Good
<1>2. /\ h.size \in [Address -> Int] /\ h.free \in [Address -> BOOLEAN]
      /\ h.prev \in [Address -> Pointer]
      /\ L = {b \in B : h.free[b]} /\ n \in L /\ L \subseteq B /\ n \in B
  BY <1>1 DEF FreeOf, HeapRecord
<1>3. /\ last \in B
      /\ last = IF n + h.size[n] = h.total_size THEN head ELSE n + h.size[n]
  BY <1>1, <1>2, NextFacts
<1> HIDE DEF L, sizes, last, prevs, h1, h2
<1>4. /\ h.total_size \in Nat /\ h.total_size <= MaxWords /\ head \in B /\ head = 0
      /\ \A b \in B : /\ b \in Nat /\ b < h.total_size
                      /\ h.size[b] \in Int /\ h.size[b] >= 4
                      /\ b + h.size[b] \in B \/ b + h.size[b] = h.total_size
      /\ \A b, c \in B : b < c => b + h.size[b] <= c
      /\ \A a : a \in Address <=> a \in Nat /\ a <= MaxWords
      /\ MaxWords \in Nat
  BY <1>1, TileFacts
<1>5. B \subseteq Address /\ NULL \in Pointer
  BY <1>1, TileFacts DEF Pointer
<1>6. block \in Nat /\ n \in Nat /\ h.size[block] \in Int /\ h.size[n] \in Int
      /\ h.size[block] >= 4 /\ h.size[n] >= 4
      /\ block # n /\ block < n /\ last # n
  BY <1>2, <1>3, <1>4
<1>7. /\ sizes \in [Address -> Int] /\ sizes[block] = h.size[block] + h.size[n]
      /\ \A a \in Address \ {block} : sizes[a] = h.size[a]
  BY <1>2, <1>5, <1>6 DEF sizes
<1>8. /\ prevs \in [Address -> Pointer] /\ prevs[last] = h.prev[n]
      /\ \A a \in Address \ {last, n} : prevs[a] = h.prev[a]
  BY <1>2, <1>3, <1>5, <1>6 DEF prevs
<1>9. list_remove([h EXCEPT !.size[block] = @ + h.size[n]], n) = h2
  <2>1. [h EXCEPT !.size[block] = @ + h.size[n]] = h1
    BY Zenon DEF h1, sizes
  <2>2. h1.size = sizes /\ h1.total_size = h.total_size /\ h1.prev = h.prev
    BY <1>1 DEF HeapRecord, h1
  <2>3. next(h1, n) = last
    <3>1. h1.size[n] = h.size[n]
      BY <1>2, <1>5, <1>6, <1>7, <2>2
    <3> QED
      BY <2>2, <3>1, NextSame DEF last
  <2>4. list_remove(h1, n) = [h1 EXCEPT !.prev = prevs]
    BY <2>2, <2>3, Zenon DEF list_remove, prevs
  <2>5. [h1 EXCEPT !.prev = prevs] = h2
    BY <1>1 DEF HeapRecord, h1, h2
  <2> QED
    BY <2>1, <2>4, <2>5, Zenon
<1>10. /\ h2 \in HeapRecord
       /\ h2.total_size = h.total_size /\ h2.size = sizes /\ h2.free = h.free /\ h2.prev = prevs
       /\ h2.next_free = h.next_free /\ h2.prev_free = h.prev_free /\ h2.free_list = h.free_list
  BY <1>1, <1>7, <1>8 DEF HeapRecord, h2
<1>11. Rings(h2, L) /\ (OneRing(h, L) => OneRing(h2, L))
  BY <1>1, <1>10, Zenon DEF Rings, OneRing
<1>12. Unlinked(h2, L, n, g)
  BY <1>2, <1>9, <1>10, <1>11, RemoveFree
<1>13. /\ g \in HeapRecord
       /\ g.total_size = h.total_size /\ g.size = sizes /\ g.prev = prevs
       /\ g.free = [h.free EXCEPT ![n] = FALSE]
       /\ \A a \in Address \ L :
            g.next_free[a] = h.next_free[a] /\ g.prev_free[a] = h.prev_free[a]
       /\ Rings(g, M)
       /\ OneRing(h, L) => OneRing(g, M)
  <2>1. /\ g \in HeapRecord
        /\ g.total_size = h2.total_size /\ g.size = h2.size /\ g.prev = h2.prev
        /\ g.free = [h2.free EXCEPT ![n] = FALSE]
        /\ Rings(g, M)
        /\ OneRing(h2, L) => OneRing(g, M)
    BY <1>12, Zenon DEF Unlinked
  <2>2. \A a \in Address \ L :
          g.next_free[a] = h2.next_free[a] /\ g.prev_free[a] = h2.prev_free[a]
    BY <1>12, Zenon DEF Unlinked
  <2>3. OneRing(h, L) => OneRing(g, M)
    BY <1>11, <2>1
  <2>4. /\ g.total_size = h.total_size /\ g.size = sizes /\ g.prev = prevs
        /\ g.free = [h.free EXCEPT ![n] = FALSE]
    BY <1>10, <2>1, Zenon
  <2>5. \A a \in Address \ L :
          g.next_free[a] = h.next_free[a] /\ g.prev_free[a] = h.prev_free[a]
    BY <1>10, <2>2, Zenon
  <2> QED
    BY <2>1, <2>3, <2>4, <2>5, Zenon
<1>14. FreeOf(g, C) = M
  BY <1>2, <1>5, <1>13, ZenonT(40) DEF FreeOf
<1>15. /\ g.size[block] = h.size[block] + h.size[n]
       /\ \A b \in B : b # block => g.size[b] = h.size[b]
       /\ block + g.size[block] = n + h.size[n]
  <2>1. g.size[block] = h.size[block] + h.size[n]
    BY <1>7, <1>13
  <2>2. block + (h.size[block] + h.size[n]) = n + h.size[n]
    BY <1>6
  <2>3. \A b \in B : b # block => g.size[b] = h.size[b]
    BY <1>5, <1>7, <1>13
  <2> QED
    BY <2>1, <2>2, <2>3
<1>16. Tiles(g, C)
  <2>1. C \subseteq 0 .. g.total_size - 1 /\ head \in C
    <3>1. \A b \in C : b \in 0 .. h.total_size - 1
      BY <1>4
    <3> QED
      BY <1>4, <1>13, <3>1
  <2>2. ASSUME NEW b \in C
        PROVE  g.size[b] >= 4 /\ b + g.size[b] \in C \cup {g.total_size}
    <3>1. CASE b = block
      <4>1. h.size[block] + h.size[n] >= 4
        BY <1>6
      <4>2. n + h.size[n] \in B \cup {h.total_size} /\ n + h.size[n] # n
        BY <1>2, <1>4, <1>6
      <4> QED
        BY <1>13, <1>15, <3>1, <4>1, <4>2, Zenon
    <3>2. CASE b # block
      <4>1. b + h.size[b] # n
        BY <1>1, <3>2, NextInjective
      <4> QED
        <5>1. h.size[b] >= 4 /\ b + h.size[b] \in C \cup {h.total_size}
          BY <1>4, <4>1
        <5>2. g.size[b] = h.size[b] /\ g.total_size = h.total_size
          BY <1>13, <1>15, <3>2
        <5> QED
          BY <5>1, <5>2, Zenon
    <3> QED
      BY <3>1, <3>2
  <2>3. ASSUME NEW b \in C, NEW c \in C, b < c PROVE b + g.size[b] <= c
    <3>1. CASE b = block
      <4>1. n <= c /\ c \in Nat
        BY <1>4, <2>3, <3>1
      <4>2. n < c
        BY <1>6, <4>1
      <4>3. n + h.size[n] <= c
        BY <1>2, <1>4, <4>2
      <4> QED
        BY <1>15, <3>1, <4>3, Zenon
    <3>2. CASE b # block
      <4>1. b + h.size[b] <= c
        BY <1>4, <2>3
      <4> QED
        BY <1>15, <3>2, <4>1
    <3> QED
      BY <3>1, <3>2
  <2> QED
    BY <2>1, <2>2, <2>3 DEF Tiles
<1>17. Even(g, C)
  <2>1. \A b \in B : h.size[b] % 2 = 0
    BY <1>1 DEF Even
  <2>2. (h.size[block] + h.size[n]) % 2 = 0
    BY <1>2, <1>6, <2>1, EvenSum
  <2>3. ASSUME NEW b \in C PROVE g.size[b] % 2 = 0
    <3>1. CASE b = block
      BY <1>15, <2>2, <3>1, Zenon
    <3>2. CASE b # block
      BY <1>15, <2>1, <3>2
    <3> QED
      BY <3>1, <3>2
  <2> QED
    BY <2>3 DEF Even
<1>18. PrevRight(g, C)
  <2>1. ASSUME NEW b \in C \ {head}, g.prev[b] # NULL
        PROVE  g.prev[b] \in C /\ g.prev[b] + g.size[g.prev[b]] = b
    <3>1. CASE b = last
      <4>1. g.prev[b] = h.prev[n] /\ b = n + h.size[n]
        BY <1>3, <1>8, <1>13, <2>1, <3>1
      <4>2. h.prev[n] \in B /\ h.prev[n] + h.size[h.prev[n]] = n
        BY <1>1, <1>2, <2>1, <4>1 DEF PrevRight
      <4>3. h.prev[n] = block
        BY <1>1, <4>2, NextInjective
      <4> QED
        BY <1>6, <1>15, <4>1, <4>3, ZenonT(40)
    <3>2. CASE b # last
      <4>1. b \in B /\ g.prev[b] = h.prev[b]
        BY <1>5, <1>8, <1>13, <3>2
      <4>2. h.prev[b] \in B /\ h.prev[b] + h.size[h.prev[b]] = b
        BY <1>1, <2>1, <4>1 DEF PrevRight
      <4>3. h.prev[b] # block /\ h.prev[b] # n
        BY <1>3, <1>4, <2>1, <3>2, <4>1, <4>2
      <4> QED
        BY <1>15, <4>1, <4>2, <4>3
    <3> QED
      BY <3>1, <3>2
  <2> QED
    BY <2>1 DEF PrevRight
<1>19. Fresh(g)
  <2>1. ASSUME NEW a \in Address, a >= h.total_size PROVE g.prev[a] = NULL
    <3>1. a # n /\ a # last
      BY <1>2, <1>3, <1>4, <2>1
    <3>2. h.prev[a] = NULL
      BY <1>1, <2>1 DEF Fresh
    <3> QED
      BY <1>8, <1>13, <3>1, <3>2
  <2> QED
    BY <1>13, <2>1 DEF Fresh
<1>20. Good(g, C)
  BY <1>13, <1>14, <1>16, <1>17, <1>18, <1>19 DEF Good
<1>21. ASSUME \A b \in B : h.prev[next(h, b)] = b PROVE \A b \in C : g.prev[next(g, b)] = b
  <2> SUFFICES ASSUME NEW b \in C PROVE g.prev[next(g, b)] = b
    OBVIOUS
  <2>1. h.prev[n] = block
    <3>1. next(h, block) = n
      BY <1>1, <1>2, <1>4, NextFacts
    <3> QED
      BY <1>21, <3>1
  <2>2. CASE b = block
    <3>1. next(g, b) = last
      BY <1>13, <1>15, <2>2, Zenon DEF next, past_end, last
    <3> QED
      BY <1>8, <1>13, <2>1, <2>2, <3>1
  <2>3. CASE b # block
    <3>1. next(g, b) = next(h, b)
      <4>1. b \in B /\ g.size[b] = h.size[b]
        BY <1>15, <2>3
      <4> QED
        BY <1>13, <4>1, NextSame, ZenonT(40)
    <3>2. next(h, b) \in B /\ h.prev[next(h, b)] = b
      BY <1>1, <1>21, NextFacts
    <3>3. next(h, b) # last
      BY <1>1, <1>2, NextInjective DEF last
    <3>4. next(h, b) # n
      BY <2>1, <2>3, <3>2
    <3>5. next(h, b) \in Address \ {last, n}
      BY <1>5, <3>2, <3>3, <3>4
    <3>6. prevs[next(h, b)] = h.prev[next(h, b)]
      BY <1>8, <3>5
    <3> QED
      BY <1>13, <3>1, <3>2, <3>6, Zenon
  <2> QED
    BY <2>2, <2>3
<1>22. Untouched(h, B, g, C)
  <2>1. ASSUME NEW a \in Address, a \notin B \cup C
        PROVE  g.size[a] = h.size[a] /\ g.free[a] = h.free[a] /\ g.prev[a] = h.prev[a]
    <3>1. a # n /\ a # last /\ a # block
      BY <1>2, <1>3, <2>1
    <3> QED
      BY <1>2, <1>7, <1>8, <1>13, <3>1, ZenonT(40)
  <2> QED
    BY <1>13, <1>14, <2>1 DEF Untouched, L
<1>23. ASSUME NEW b \in C, n + h.size[n] # b, b # head PROVE g.prev[b] = h.prev[b]
  BY <1>3, <1>5, <1>8, <1>13, <1>23
<1> QED
  BY <1>13, <1>14, <1>15, <1>20, <1>21, <1>22, <1>23 DEF Merged, L

\* sfree puts a block behind a free one.
AddedIn(h, B, block, g) ==
    /\ Good(g, B)
    /\ g.total_size = h.total_size /\ g.size = h.size /\ g.prev = h.prev
    /\ \A b : next(g, b) = next(h, b)
    /\ FreeOf(g, B) = FreeOf(h, B) \cup {block}
    /\ OneRing(h, FreeOf(h, B)) => OneRing(g, FreeOf(h, B) \cup {block})
    /\ Untouched(h, B, g, B)

LEMMA AddFree ==
    ASSUME NEW h, NEW B, Good(h, B), NEW block \in B \ FreeOf(h, B), NEW list \in FreeOf(h, B),
           NEW g, g = insert_free(h, list, block)
    PROVE  AddedIn(h, B, block, g)
<1> DEFINE L == FreeOf(h, B)
<1>1. /\ h \in HeapRecord /\ Rings(h, L) /\ Tiles(h, B)
      /\ Even(h, B) /\ PrevRight(h, B) /\ Fresh(h)
  BY DEF Good
<1>2. B \subseteq Address /\ h.free \in [Address -> BOOLEAN]
      /\ L = {b \in B : h.free[b]} /\ list \in L /\ block \in B /\ block \notin L
  BY <1>1, TileFacts DEF FreeOf, HeapRecord
<1> HIDE DEF L
<1>3. Linked(h, L, block, g)
  BY <1>1, <1>2, InsertFree
<1>4. FreeOf(g, B) = L \cup {block}
  BY <1>2, <1>3 DEF FreeOf, Linked
<1>5. Tiles(g, B) /\ Even(g, B) /\ PrevRight(g, B) /\ Fresh(g) /\ \A b : next(g, b) = next(h, b)
  BY <1>1, <1>3, SameBlocks DEF Linked
<1>6. Good(g, B)
  BY <1>3, <1>4, <1>5 DEF Good, Linked
<1>7. Untouched(h, B, g, B)
  <2>1. \A a \in Address : a \notin B => g.free[a] = h.free[a]
    BY <1>2, <1>3 DEF Linked
  <2>2. \A a \in Address : a \notin L \cup (L \cup {block}) =>
           g.next_free[a] = h.next_free[a] /\ g.prev_free[a] = h.prev_free[a]
    BY <1>3 DEF Linked
  <2> QED
    BY <1>3, <1>4, <2>1, <2>2 DEF Untouched, L, Linked
<1> QED
  BY <1>3, <1>4, <1>5, <1>6, <1>7 DEF L, Linked, AddedIn

\* sfree makes a free list of one block.
LEMMA AddAlone ==
    ASSUME NEW h, NEW B, Good(h, B), NEW block \in B \ FreeOf(h, B),
           NEW g, g = [h EXCEPT !.free_list = block, !.next_free[block] = block,
                                !.prev_free[block] = block, !.free[block] = TRUE]
    PROVE  /\ Good(g, B)
           /\ g.total_size = h.total_size /\ g.size = h.size
           /\ FreeOf(g, B) = FreeOf(h, B) \cup {block}
           /\ FreeOf(h, B) = {} /\ Exact(h, B) => Exact(g, B)
           /\ Untouched(h, B, g, B)
<1> DEFINE L == FreeOf(h, B)
<1>1. /\ h \in HeapRecord /\ Rings(h, L) /\ Tiles(h, B)
      /\ Even(h, B) /\ PrevRight(h, B) /\ Fresh(h)
  BY DEF Good
<1>2. /\ B \subseteq Address /\ h.free \in [Address -> BOOLEAN]
      /\ L = {b \in B : h.free[b]} /\ block \in B /\ block \notin L /\ block \in Address
  BY <1>1, TileFacts DEF FreeOf, HeapRecord
<1> HIDE DEF L
<1>3. Alone(h, L, block, g)
  BY <1>1, <1>2, AloneFree
<1>4. FreeOf(g, B) = L \cup {block}
  BY <1>2, <1>3 DEF FreeOf, Alone
<1>5. Tiles(g, B) /\ Even(g, B) /\ PrevRight(g, B) /\ Fresh(g) /\ \A b : next(g, b) = next(h, b)
  BY <1>1, <1>3, SameBlocks DEF Alone
<1>6. Good(g, B)
  BY <1>3, <1>4, <1>5 DEF Good, Alone
<1>7. ASSUME L = {}, Exact(h, B) PROVE Exact(g, B)
  <2>1. \A b \in B : g.prev[next(g, b)] = b
    BY <1>3, <1>5, <1>7 DEF Exact, Alone
  <2>2. OneRing(g, {block})
    BY <1>3, <1>7 DEF Alone
  <2>3. Apart(g, {block})
    <3>1. block + h.size[block] # block
      BY <1>1, <1>2, TileFacts
    <3> QED
      BY <1>3, <3>1 DEF Apart, Alone
  <2> QED
    BY <1>4, <1>7, <2>1, <2>2, <2>3 DEF Exact
<1>8. Untouched(h, B, g, B)
  <2>1. g.free = [h.free EXCEPT ![block] = TRUE]
    BY <1>3 DEF Alone
  <2>2. \A a \in Address : a \notin B => g.free[a] = h.free[a]
    BY <1>2, <2>1
  <2> QED
    BY <1>3, <1>4, <2>2 DEF Untouched, L, Alone
<1> QED
  BY <1>3, <1>4, <1>6, <1>7, <1>8 DEF L, Alone

\* A step that merges free blocks, and what it keeps.
Shrunk(h, B, g, C) ==
    /\ C \subseteq B
    /\ Good(g, C)
    /\ g.total_size = h.total_size
    /\ FreeOf(g, C) = FreeOf(h, B) \cap C
    /\ \A b \in B \ FreeOf(h, B) : b \in C /\ g.size[b] = h.size[b]
    /\ (\A b \in B : h.prev[next(h, b)] = b) => \A b \in C : g.prev[next(g, b)] = b
    /\ OneRing(h, FreeOf(h, B)) => OneRing(g, FreeOf(g, C))
    /\ Untouched(h, B, g, C)

LEMMA ShrunkNot ==
    ASSUME NEW h, NEW B, Good(h, B)
    PROVE  Shrunk(h, B, h, B)
BY DEF Shrunk, Untouched, FreeOf

LEMMA ShrunkTwice ==
    ASSUME NEW h, NEW B, NEW g, NEW C, NEW k, NEW D,
           Shrunk(h, B, g, C), Shrunk(g, C, k, D)
    PROVE  Shrunk(h, B, k, D)
<1>1. /\ C \subseteq B /\ D \subseteq C
      /\ FreeOf(g, C) = FreeOf(h, B) \cap C /\ FreeOf(k, D) = FreeOf(g, C) \cap D
      /\ FreeOf(h, B) \subseteq B
  BY DEF Shrunk, FreeOf
<1>2. Untouched(h, B, k, D)
  <2>1. Untouched(h, B, g, C) /\ Untouched(g, C, k, D)
    BY DEF Shrunk
  <2>2. ASSUME NEW a \in Address, a \notin B \cup D
        PROVE  k.size[a] = h.size[a] /\ k.free[a] = h.free[a] /\ k.prev[a] = h.prev[a]
    BY <1>1, <2>1, <2>2 DEF Untouched
  <2>3. ASSUME NEW a \in Address, a \notin FreeOf(h, B) \cup FreeOf(k, D) \cup (B \ D) \cup (D \ B)
        PROVE  k.next_free[a] = h.next_free[a] /\ k.prev_free[a] = h.prev_free[a]
    <3>1. a \notin FreeOf(h, B) \cup FreeOf(g, C) \cup (B \ C) \cup (C \ B)
      BY <1>1, <2>3
    <3>2. a \notin FreeOf(g, C) \cup FreeOf(k, D) \cup (C \ D) \cup (D \ C)
      BY <1>1, <2>3
    <3> QED
      BY <2>1, <3>1, <3>2 DEF Untouched
  <2> QED
    BY <2>2, <2>3 DEF Untouched
<1>3. \A b \in B \ FreeOf(h, B) : b \in D /\ k.size[b] = h.size[b]
  BY <1>1 DEF Shrunk
<1> QED
  BY <1>1, <1>2, <1>3 DEF Shrunk

\* Merging free blocks is such a step.
MergedFree(h, B, block, n, g) ==
    /\ Shrunk(h, B, g, B \ {n})
    /\ block # n /\ block + g.size[block] = n + h.size[n]
    /\ \A b \in B \ {block, n} : g.size[b] = h.size[b]
    /\ n + h.size[n] # block /\ block # head => g.prev[block] = h.prev[block]

LEMMA MergeFree ==
    ASSUME NEW h, NEW B, Good(h, B), NEW block \in FreeOf(h, B), NEW n \in FreeOf(h, B), n # head,
           block + h.size[block] = n,
           NEW g, g = list_remove_free(list_remove([h EXCEPT !.size[block] = @ + h.size[n]], n), n, TRUE)
    PROVE  MergedFree(h, B, block, n, g)
<1>1. block \in B /\ n \in B /\ FreeOf(h, B) \subseteq B
  BY DEF FreeOf
<1>2. Merged(h, B, block, n, g)
  BY <1>1, Merge
<1>3. Shrunk(h, B, g, B \ {n})
  BY <1>1, <1>2 DEF Merged, Shrunk
<1>4. h \in HeapRecord /\ Tiles(h, B)
  BY DEF Good
<1>5. /\ block \in Nat /\ h.size[block] \in Int /\ h.size[block] >= 4
      /\ n \in Nat /\ h.size[n] \in Int
  BY <1>1, <1>4, TileFacts
<1>6. block # n /\ block + (h.size[block] + h.size[n]) = n + h.size[n]
  BY <1>5
<1>7. block + g.size[block] = n + h.size[n]
  BY <1>2, <1>6 DEF Merged
<1> QED
  BY <1>1, <1>2, <1>3, <1>6, <1>7 DEF Merged, MergedFree

\* Only block may have a free neighbour.
ApartBut(h, L, block) == \A b \in L \ {block} : b + h.size[b] \notin L \ {block}

\* coalesce
LEMMA Coalesce ==
    ASSUME NEW h, NEW B, Good(h, B), NEW block \in FreeOf(h, B),
           block # head => h.prev[block] # NULL,
           NEW g, g = coalesce(h, block)
    PROVE  \E C : /\ Shrunk(h, B, g, C)
                  /\ ApartBut(h, FreeOf(h, B), block) => Apart(g, FreeOf(g, C))
<1> DEFINE L == FreeOf(h, B)
           n == next(h, block)
           k == CombineNext(h, block)
<1>1. /\ h \in HeapRecord /\ Tiles(h, B) /\ PrevRight(h, B)
      /\ L = {b \in B : h.free[b]} /\ block \in L /\ block \in B
  BY DEF Good, FreeOf
<1>2. /\ n \in B
      /\ n = IF block + h.size[block] = h.total_size THEN head ELSE block + h.size[block]
  BY <1>1, NextFacts
<1>3. \A b \in B : /\ b \in Nat /\ b < h.total_size
                   /\ h.size[b] \in Int /\ h.size[b] >= 4
  BY <1>1, TileFacts
<1> HIDE DEF L, n, k
<1>4. \E C : /\ Shrunk(h, B, k, C) /\ block \in C
             /\ block # head => k.prev[block] = h.prev[block]
             /\ ApartBut(h, L, block) =>
                  ApartBut(k, FreeOf(k, C), block) /\ block + k.size[block] \notin FreeOf(k, C)
  <2>1. CASE n # head /\ h.free[n]
    <3>1. block + h.size[block] = n /\ n \in L
      BY <1>1, <1>2, <2>1
    <3>2. k = list_remove_free(list_remove([h EXCEPT !.size[block] = @ + h.size[n]], n), n, TRUE)
      BY <2>1, Zenon DEF k, n, CombineNext
    <3>3. /\ Shrunk(h, B, k, B \ {n})
          /\ block # n /\ block + k.size[block] = n + h.size[n]
          /\ \A b \in B \ {block, n} : k.size[b] = h.size[b]
          /\ n + h.size[n] # block /\ block # head => k.prev[block] = h.prev[block]
      <4>1. MergedFree(h, B, block, n, k)
        BY <1>1, <2>1, <3>1, <3>2, MergeFree DEF L
      <4> QED
        BY <4>1 DEF MergedFree
    <3>4. n + h.size[n] # block
      BY <1>1, <1>2, <1>3, <3>1
    <3>5. FreeOf(k, B \ {n}) = L \ {n}
      BY <1>1, <3>3 DEF Shrunk, L
    <3>6. ASSUME ApartBut(h, L, block)
          PROVE  ApartBut(k, L \ {n}, block) /\ block + k.size[block] \notin L \ {n}
      <4>1. ApartBut(k, L \ {n}, block)
        BY <1>1, <3>3, <3>6 DEF ApartBut
      <4>2. n + h.size[n] \notin L
        BY <3>1, <3>3, <3>4, <3>6 DEF ApartBut
      <4> QED
        BY <3>3, <4>1, <4>2
    <3> QED
      BY <1>1, <3>3, <3>4, <3>5, <3>6
  <2>2. CASE ~(n # head /\ h.free[n])
    <3>1. k = h
      BY <2>2, Zenon DEF k, n, CombineNext
    <3>2. block + h.size[block] \notin L
      <4>1. block + h.size[block] # head
        BY <1>1, <1>3 DEF head
      <4> QED
        BY <1>1, <1>2, <1>3, <2>2, <4>1
    <3> QED
      BY <1>1, <3>1, <3>2, ShrunkNot DEF L
  <2> QED
    BY <2>1, <2>2
<1>5. PICK C : /\ Shrunk(h, B, k, C) /\ block \in C
               /\ block # head => k.prev[block] = h.prev[block]
               /\ ApartBut(h, L, block) =>
                    ApartBut(k, FreeOf(k, C), block) /\ block + k.size[block] \notin FreeOf(k, C)
  BY <1>4
<1> DEFINE M == FreeOf(k, C)
           p == k.prev[block]
<1>6. /\ Good(k, C) /\ k \in HeapRecord /\ Tiles(k, C) /\ PrevRight(k, C)
      /\ M = {b \in C : k.free[b]} /\ block \in M
  BY <1>1, <1>5 DEF Shrunk, Good, FreeOf, L
<1> HIDE DEF M, p
<1>7. g = CombinePrev(k, block)
  BY DEF coalesce, k
<1>8. block # head => p \in C /\ p + k.size[p] = block
  BY <1>5, <1>6 DEF PrevRight, p
<1>9. CASE block # head /\ k.free[p]
  <2>1. p + k.size[p] = block /\ p \in M
    BY <1>6, <1>8, <1>9
  <2>2. g = list_remove_free(list_remove([k EXCEPT !.size[p] = @ + k.size[block]], block), block, TRUE)
    BY <1>7, <1>9, Zenon DEF p, CombinePrev
  <2>3. /\ Shrunk(k, C, g, C \ {block})
        /\ p # block /\ p + g.size[p] = block + k.size[block]
        /\ \A b \in C \ {p, block} : g.size[b] = k.size[b]
    <3>1. MergedFree(k, C, p, block, g)
      BY <1>6, <1>9, <2>1, <2>2, MergeFree DEF M
    <3> QED
      BY <3>1 DEF MergedFree
  <2>4. FreeOf(g, C \ {block}) = M \ {block}
    BY <1>6, <2>3 DEF Shrunk, M
  <2>5. ASSUME ApartBut(h, L, block) PROVE Apart(g, M \ {block})
    <3>1. ApartBut(k, M, block) /\ block + k.size[block] \notin M
      BY <1>5, <2>5 DEF M
    <3>2. ASSUME NEW b \in M \ {block} PROVE b + g.size[b] \notin M \ {block}
      <4>1. CASE b = p
        BY <2>3, <3>1, <4>1
      <4>2. CASE b # p
        BY <1>6, <2>3, <3>1, <4>2 DEF ApartBut
      <4> QED
        BY <4>1, <4>2
    <3> QED
      BY <3>2 DEF Apart
  <2>6. Shrunk(h, B, g, C \ {block})
    BY <1>5, <2>3, ShrunkTwice
  <2> QED
    BY <2>4, <2>5, <2>6 DEF L
<1>10. CASE ~(block # head /\ k.free[p])
  <2>1. g = k
    BY <1>7, <1>10, Zenon DEF p, CombinePrev
  <2>2. ASSUME ApartBut(h, L, block) PROVE Apart(k, M)
    <3>1. ApartBut(k, M, block) /\ block + k.size[block] \notin M
      BY <1>5, <2>2 DEF M
    <3>2. ASSUME NEW b \in M PROVE b + k.size[b] \notin M
      <4>1. CASE b = block
        BY <3>1, <4>1
      <4>2. CASE b # block
        <5>1. b + k.size[b] # block
          <6> SUFFICES ASSUME b + k.size[b] = block PROVE FALSE
            OBVIOUS
          <6>1. b \in C /\ k.free[b]
            BY <1>6
          <6>2. block # head
            BY <1>6, <6>1, TileFacts
          <6>3. p = b
            BY <1>6, <1>8, <6>1, <6>2, NextInjective
          <6> QED
            BY <1>10, <6>1, <6>2, <6>3
        <5> QED
          BY <3>1, <4>2, <5>1 DEF ApartBut
      <4> QED
        BY <4>1, <4>2
    <3> QED
      BY <3>2 DEF Apart
  <2> QED
    BY <1>5, <2>1, <2>2 DEF L, M
<1> QED
  BY <1>9, <1>10

\* increase_heap_size adds a block at the end.
Grown(h, B, new, g) ==
    /\ new \in Address \ B /\ new \notin FreeOf(h, B)
    /\ g \in HeapRecord
    /\ g.total_size = h.total_size + Words /\ g.total_size > Words
    /\ \A a \in Address \ {new} : g.size[a] = h.size[a] /\ g.free[a] = h.free[a]
    /\ g.prev = h.prev /\ g.free[new] = TRUE
    /\ g.next_free = h.next_free /\ g.prev_free = h.prev_free
    /\ FreeOf(g, B \cup {new}) = FreeOf(h, B) \cup {new}
    /\ Tiles(g, B \cup {new}) /\ Even(g, B \cup {new}) /\ PrevRight(g, B \cup {new}) /\ Fresh(g)
    /\ Rings(g, FreeOf(h, B))

LEMMA Grow ==
    ASSUME NEW h, NEW B, Good(h, B), h.total_size + Words <= MaxWords
    PROVE  Grown(h, B, h.total_size, NewBlock(h))
<1> DEFINE new == h.total_size
           L == FreeOf(h, B)
           C == B \cup {new}
           total == h.total_size + Words
           sizes == [h.size EXCEPT ![new] = Words]
           frees == [h.free EXCEPT ![new] = TRUE]
           g == NewBlock(h)
<1>1. /\ h \in HeapRecord /\ Rings(h, L) /\ Tiles(h, B)
      /\ Even(h, B) /\ PrevRight(h, B) /\ Fresh(h)
  BY DEF Good
<1>2. /\ h.size \in [Address -> Int] /\ h.free \in [Address -> BOOLEAN]
      /\ L = {b \in B : h.free[b]} /\ L \subseteq B
  BY <1>1 DEF FreeOf, HeapRecord
<1>3. /\ MaxWords \in Nat /\ new \in Nat /\ Words \in Nat /\ Words >= 4
      /\ Words <= new /\ new + Words <= MaxWords
      /\ \A a : a \in Address <=> a \in Nat /\ a <= MaxWords
      /\ B \subseteq Address /\ head \in B /\ head = 0
      /\ \A b \in B : /\ b \in Nat /\ b < new
                      /\ h.size[b] \in Int /\ h.size[b] >= 4
                      /\ b + h.size[b] \in B \/ b + h.size[b] = new
                      /\ b + h.size[b] <= new
      /\ \A b, c \in B : b < c => b + h.size[b] <= c
  BY <1>1, TileFacts, SizeFacts
<1> HIDE DEF new, L, total, sizes, frees, g
<1>4. /\ new \in Address /\ new \notin B /\ new \notin L
      /\ total \in Words .. MaxWords /\ total > Words /\ new < total /\ total \in Nat
  BY <1>2, <1>3 DEF total, new
<1>5. /\ sizes \in [Address -> Int] /\ sizes[new] = Words
      /\ \A a \in Address \ {new} : sizes[a] = h.size[a]
  BY <1>2, <1>3, <1>4 DEF sizes
<1>6. /\ frees \in [Address -> BOOLEAN] /\ frees[new] = TRUE
      /\ \A a \in Address \ {new} : frees[a] = h.free[a]
  BY <1>2, <1>4 DEF frees
<1>7. g = [h EXCEPT !.total_size = total, !.size = sizes, !.free = frees]
  BY Zenon DEF NewBlock, g, new, total, sizes, frees
<1>8. /\ g \in HeapRecord
      /\ g.total_size = total /\ g.size = sizes /\ g.free = frees /\ g.prev = h.prev
      /\ g.next_free = h.next_free /\ g.prev_free = h.prev_free /\ g.free_list = h.free_list
  BY <1>1, <1>4, <1>5, <1>6, <1>7 DEF HeapRecord
<1>9. /\ g.size[new] = Words
      /\ \A a \in Address \ {new} : g.size[a] = h.size[a] /\ g.free[a] = h.free[a]
      /\ g.free[new] = TRUE
  BY <1>5, <1>6, <1>8
<1>10. \A b \in B : g.size[b] = h.size[b] /\ g.free[b] = h.free[b]
  BY <1>3, <1>4, <1>9
<1>11. FreeOf(g, C) = L \cup {new}
  BY <1>2, <1>9, <1>10 DEF FreeOf
<1>12. Tiles(g, C)
  <2>1. C \subseteq 0 .. g.total_size - 1 /\ head \in C
    <3>1. \A b \in C : b \in 0 .. total - 1
      BY <1>3, <1>4
    <3> QED
      BY <1>3, <1>8, <3>1
  <2>2. ASSUME NEW b \in C
        PROVE  g.size[b] >= 4 /\ b + g.size[b] \in C \cup {g.total_size}
    <3>1. CASE b = new
      <4>1. new + Words = total
        BY DEF new, total
      <4> QED
        BY <1>3, <1>8, <1>9, <3>1, <4>1, Zenon
    <3>2. CASE b # new
      BY <1>3, <1>10, <3>2
    <3> QED
      BY <3>1, <3>2
  <2>3. ASSUME NEW b \in C, NEW c \in C, b < c PROVE b + g.size[b] <= c
    <3>1. b \in B
      BY <1>3, <2>3
    <3> QED
      BY <1>3, <1>10, <2>3, <3>1
  <2> QED
    BY <2>1, <2>2, <2>3 DEF Tiles
<1>13. Even(g, C)
  <2>1. Words % 2 = 0
    BY RequestAssumption
  <2> QED
    BY <1>1, <1>9, <1>10, <2>1 DEF Even
<1>14. PrevRight(g, C)
  <2>1. h.prev[new] = NULL
    BY <1>1, <1>3, <1>4 DEF Fresh, new
  <2> QED
    BY <1>1, <1>8, <1>10, <2>1 DEF PrevRight
<1>15. Fresh(g)
  <2>1. ASSUME NEW a \in Address, a >= total PROVE h.prev[a] = NULL
    <3>1. a >= new
      BY <1>3, <1>4, <2>1
    <3> QED
      BY <1>1, <3>1 DEF Fresh, new
  <2> QED
    BY <1>8, <2>1 DEF Fresh
<1>16. Rings(g, L)
  BY <1>1, <1>8 DEF Rings
<1> QED
  BY <1>4, <1>8, <1>9, <1>11, <1>12, <1>13, <1>14, <1>15, <1>16 DEF Grown, L, new, total, g

\* The heap grows, and the new block is free on a list of its own or on that
\* of another block.
Enlarged(h, B, new, g) ==
    /\ new \notin B
    /\ Good(g, B \cup {new})
    /\ g.total_size > Words
    /\ \A b \in B : g.size[b] = h.size[b]
    /\ FreeOf(g, B \cup {new}) = FreeOf(h, B) \cup {new}
    /\ Untouched(h, B, g, B \cup {new})

LEMMA GrowFree ==
    ASSUME NEW h, NEW B, Good(h, B), h.total_size + Words <= MaxWords,
           NEW g, \/ g = increase_heap_size(h)
                  \/ \E list \in FreeOf(h, B) : g = insert_free(NewBlock(h), list, h.total_size)
    PROVE  Enlarged(h, B, h.total_size, g)
<1> DEFINE new == h.total_size
           L == FreeOf(h, B)
           C == B \cup {new}
           k == NewBlock(h)
<1>1. Grown(h, B, new, k)
  BY Grow
<1>2. B \subseteq Address /\ L \subseteq B
  BY TileFacts DEF FreeOf, Good
<1>3. /\ g \in HeapRecord
      /\ g.total_size = k.total_size /\ g.size = k.size /\ g.prev = k.prev
      /\ g.free = [k.free EXCEPT ![new] = TRUE]
      /\ \A a \in Address \ (L \cup {new}) :
           g.next_free[a] = k.next_free[a] /\ g.prev_free[a] = k.prev_free[a]
      /\ Rings(g, L \cup {new})
  <2>1. k \in HeapRecord /\ Rings(k, L) /\ new \in Address \ L
    BY <1>1 DEF Grown
  <2>2. CASE g = increase_heap_size(h)
    <3>1. k.free \in [Address -> BOOLEAN] /\ k.free[new] = TRUE
      BY <1>1 DEF Grown, HeapRecord
    <3>2. k.free = [k.free EXCEPT ![new] = TRUE]
      BY <3>1
    <3> HIDE DEF new, k, L
    <3>3. g = [k EXCEPT !.free_list = new, !.next_free[new] = new, !.prev_free[new] = new]
      BY <2>2, Zenon DEF increase_heap_size, new, k
    <3>4. g = [k EXCEPT !.free_list = new, !.next_free[new] = new, !.prev_free[new] = new,
                        !.free[new] = TRUE]
      BY <2>1, <3>2, <3>3 DEF HeapRecord
    <3>5. Alone(k, L, new, g)
      BY <2>1, <3>4, AloneFree
    <3> QED
      BY <3>5 DEF Alone
  <2>3. ASSUME NEW list \in L, g = insert_free(NewBlock(h), list, new)
        PROVE  Linked(k, L, new, g)
    <3> HIDE DEF new, L
    <3> QED
      BY <2>1, <2>3, InsertFree
  <2> HIDE DEF new, k
  <2>4. CASE \E list \in L : g = insert_free(k, list, new)
    BY <2>3, <2>4 DEF Linked, k
  <2> QED
    BY <2>2, <2>4 DEF k, new
<1> HIDE DEF new, L, k
<1>4. /\ new \in Address /\ new \notin B /\ new \notin L /\ k \in HeapRecord
      /\ k.total_size > Words
      /\ \A a \in Address \ {new} : k.size[a] = h.size[a] /\ k.free[a] = h.free[a]
      /\ k.prev = h.prev /\ k.free[new] = TRUE
      /\ k.next_free = h.next_free /\ k.prev_free = h.prev_free
      /\ FreeOf(k, C) = L \cup {new}
      /\ Tiles(k, C) /\ Even(k, C) /\ PrevRight(k, C) /\ Fresh(k)
  BY <1>1 DEF Grown, L
<1>5. g.free = k.free
  BY <1>3, <1>4 DEF HeapRecord
<1>6. FreeOf(g, C) = L \cup {new}
  BY <1>4, <1>5 DEF FreeOf
<1>7. Tiles(g, C) /\ Even(g, C) /\ PrevRight(g, C) /\ Fresh(g)
  BY <1>3, <1>4, SameBlocks
<1>8. Good(g, C)
  BY <1>3, <1>6, <1>7 DEF Good
<1>9. Untouched(h, B, g, C)
  <2>1. ASSUME NEW a \in Address, a \notin B \cup C
        PROVE  g.size[a] = h.size[a] /\ g.free[a] = h.free[a] /\ g.prev[a] = h.prev[a]
    <3>1. a # new
      BY <2>1
    <3> QED
      BY <1>3, <1>4, <1>5, <3>1
  <2>2. ASSUME NEW a \in Address, a \notin L \cup (L \cup {new})
        PROVE  g.next_free[a] = h.next_free[a] /\ g.prev_free[a] = h.prev_free[a]
    <3>1. g.next_free[a] = k.next_free[a] /\ g.prev_free[a] = k.prev_free[a]
      BY <1>3, <2>2
    <3> QED
      BY <1>4, <3>1
  <2> QED
    BY <1>6, <2>1, <2>2 DEF Untouched, L
<1> QED
  BY <1>2, <1>3, <1>4, <1>6, <1>8, <1>9, ZenonT(40) DEF new, L, Enlarged

-----------------------------------------------------------------------------
(* _salloc.                                                                *)

\* The search stays on the free list.
LEMMA FreeWalkFacts ==
    ASSUME NEW h, NEW L, Rings(h, L), h.free_list # NULL, NEW w, w = FreeWalk(h)
    PROVE  WalksIn(w, L, h.free_list, h.next_free, MaxBlocks)
<1>1. h.free_list \in L /\ MaxBlocks \in Nat /\ \A b \in L : h.next_free[b] \in L
  BY SizeFacts DEF Rings
<1>2. w = Walk(h.free_list, h.next_free, MaxBlocks)
  BY Zenon DEF FreeWalk, Walk, IsWalk
<1>3. h.free_list \in L /\ \A b \in L : h.next_free[b] \in L
  BY <1>1
<1>4. MaxBlocks \in Nat
  BY <1>1
<1> QED
  BY <1>2, <1>3, <1>4, Iteration

\* It ends at a block that is big enough.
LEMMA FirstFitFacts ==
    ASSUME NEW h, NEW L, Rings(h, L), NEW size, CanFit(h, size)
    PROVE  FirstFit(h, size) \in L /\ usable_size(h.size[FirstFit(h, size)]) >= size
<1> DEFINE w == FreeWalk(h)
           S == Fits(h, size)
           first == CHOOSE k \in S : \A j \in S : k <= j
<1>1. h.free_list # NULL /\ S # {}
  BY DEF CanFit
<1>2. S \subseteq 0 .. MaxBlocks /\ \A k \in S : usable_size(h.size[w[k]]) >= size
  BY DEF Fits, Searched
<1>3. \A k \in 0 .. MaxBlocks : w[k] \in L
  BY <1>1, FreeWalkFacts, ZenonT(40) DEF WalksIn
<1>4. first \in S
  <2>1. S \subseteq Nat
    BY <1>2
  <2>2. \E k \in S : \A j \in S : k <= j
    <3> HIDE DEF S
    <3> QED
      BY <1>1, <2>1, LeastElement
  <2> HIDE DEF S
  <2> QED
    BY <2>2, Zenon
<1>5. FirstFit(h, size) = w[first]
  BY Zenon DEF FirstFit
<1> HIDE DEF w, S, first
<1> QED
  BY <1>2, <1>3, <1>4, <1>5

\* _salloc with a block that is big enough, but not exactly as big.
HandedOut(h, B, regions, region, g) ==
    /\ \E C : /\ B \subseteq C /\ Good(g, C) /\ g.total_size = h.total_size
              /\ Exact(h, B) => Exact(g, C)
              /\ Untouched(h, B, g, C)
              /\ InBlocks(g, C, regions \cup {region})
    /\ \A r \in regions : r.start # region.start

LEMMA Take ==
    ASSUME NEW h, NEW B, Good(h, B), NEW regions, InBlocks(h, B, regions),
           NEW n \in Requests, CanFit(h, align(n)), ~ExactFit(h, n),
           NEW curr, curr = FirstFit(h, align(n)),
           NEW g, g = TakeBlock(h, curr, align(n)),
           NEW region, region = [start |-> curr + HeaderWords, len |-> n]
    PROVE  HandedOut(h, B, regions, region, g) /\ HeaderMapped(h, curr, align(n))
<1> DEFINE L == FreeOf(h, B)
           size == align(n)
           left == h.size[curr] - 2 - size
           half == curr + 2 + size
<1>1. h \in HeapRecord /\ Tiles(h, B) /\ Even(h, B) /\ Rings(h, L) /\ L \subseteq B
  BY DEF Good, FreeOf
<1>2. size \in Nat /\ size >= 2 /\ size >= n /\ n \in Nat /\ size % 2 = 0
  BY AlignFacts
<1>3. curr \in L /\ usable_size(h.size[curr]) >= size /\ usable_size(h.size[curr]) # size
  BY <1>1, FirstFitFacts DEF ExactFit
<1>4. /\ curr \in B /\ curr \in Nat /\ h.size[curr] \in Int /\ h.size[curr] >= 4
      /\ curr + h.size[curr] <= MaxWords /\ h.size[curr] <= MaxWords /\ MaxWords \in Nat
      /\ curr + h.size[curr] <= h.total_size /\ h.total_size \in Nat
      /\ \A a : a \in Address <=> a \in Nat /\ a <= MaxWords
      /\ h.size[curr] % 2 = 0
  BY <1>1, <1>3, TileFacts DEF Even
<1> HIDE DEF L, size, left, half
<1>5. usable_size(h.size[curr]) = h.size[curr] - 2
  BY <1>4, SizeFacts
<1>6. left \in Nat /\ left >= 2 /\ left <= MaxWords
  <2>1. left \in Nat /\ left # 0 /\ left <= MaxWords
    BY <1>2, <1>3, <1>4, <1>5 DEF left
  <2>2. left % 2 = 0
    <3>1. (h.size[curr] - 2) % 2 = 0 /\ h.size[curr] - 2 \in Int
      BY <1>4
    <3> QED
      BY <1>2, <3>1, EvenSum DEF left
  <2> QED
    BY <2>1, <2>2
<1>7. TakenWhole(h, curr, size) <=> left < 4
  <2>1. usable_size(h.size[curr]) - size = left
    BY <1>5 DEF left
  <2>2. usable_size(left) = left - 2
    BY <1>6, SizeFacts
  <2>3. TakenWhole(h, curr, size) <=> usable_size(left) < 2
    BY <2>1, SizeFacts, Zenon DEF TakenWhole
  <2> QED
    BY <1>6, <2>2, <2>3
<1>8. /\ region.start = curr + 2 /\ region.len = n
      /\ region \in [start : Address, len : Requests]
      /\ region.start - HeaderWords = curr
      /\ region.start + region.len <= curr + (size + 2)
      /\ size + 2 <= h.size[curr]
  <2>1. region.start = curr + 2 /\ region.len = n /\ region = [start |-> curr + 2, len |-> n]
    BY DEF HeaderWords
  <2>2. curr + 2 \in Address
    BY <1>4
  <2>3. region \in [start : Address, len : Requests]
    BY <2>1, <2>2
  <2>4. (curr + 2) - HeaderWords = curr /\ (curr + 2) + n <= curr + (size + 2)
    BY <1>2, <1>4 DEF HeaderWords
  <2>5. size + 2 <= h.size[curr]
    BY <1>2, <1>4, <1>6 DEF left
  <2> QED
    BY <2>1, <2>3, <2>4, <2>5, Zenon
<1>9. \A r \in regions : r.start # region.start
  <2> SUFFICES ASSUME NEW r \in regions, r.start = region.start PROVE FALSE
    OBVIOUS
  <2>1. r.start - HeaderWords \in B \ L
    BY DEF InBlocks, L
  <2>2. r.start - HeaderWords = curr
    BY <1>8, Zenon
  <2> QED
    BY <1>3, <2>1, <2>2
\* In either case the new region and the old ones have blocks of their own.
<1>10. ASSUME NEW C, B \subseteq C, FreeOf(g, C) \cap B = L \ {curr}, curr \in C \ FreeOf(g, C),
             g.size[curr] >= size + 2, g.size[curr] \in Int,
             \A b \in B \ {curr} : g.size[b] = h.size[b]
      PROVE  InBlocks(g, C, regions \cup {region})
  <2>1. /\ region.start - HeaderWords \in C \ FreeOf(g, C)
        /\ region.start + region.len
             <= (region.start - HeaderWords) + g.size[region.start - HeaderWords]
    <3>1. curr + (size + 2) <= curr + g.size[curr]
      BY <1>2, <1>4, <1>10
    <3>2. region.start + region.len \in Int
      BY <1>2, <1>4, <1>8
    <3>3. region.start + region.len <= curr + g.size[curr]
      BY <1>2, <1>4, <1>8, <1>10, <3>1, <3>2
    <3> QED
      BY <1>8, <1>10, <3>3, Zenon
  <2>2. ASSUME NEW r \in regions
        PROVE  /\ r \in [start : Address, len : Requests]
               /\ r.start - HeaderWords \in C \ FreeOf(g, C)
               /\ r.start + r.len <= (r.start - HeaderWords) + g.size[r.start - HeaderWords]
               /\ r.start # region.start
    <3>1. /\ r \in [start : Address, len : Requests]
          /\ r.start - HeaderWords \in B \ L
          /\ r.start + r.len <= (r.start - HeaderWords) + h.size[r.start - HeaderWords]
      BY DEF InBlocks, L
    <3>2. r.start - HeaderWords # curr
      BY <1>3, <3>1
    <3>3. r.start - HeaderWords \in C \ FreeOf(g, C)
      BY <1>10, <3>1, <3>2
    <3>4. g.size[r.start - HeaderWords] = h.size[r.start - HeaderWords]
      BY <1>10, <3>1, <3>2
    <3>5. r.start # region.start
      BY <1>8, <3>2, Zenon
    <3> QED
      BY <3>1, <3>3, <3>4, <3>5, Zenon
  <2>3. \A r, s \in regions : r.start = s.start => r = s
    BY DEF InBlocks
  <2> QED
    BY <1>8, <2>1, <2>2, <2>3, ZenonT(40) DEF InBlocks
<1>11. ASSUME left < 4 PROVE HandedOut(h, B, regions, region, g)
  <2>1. g = list_remove_free(h, curr, FALSE)
    BY <1>7, <1>11, Zenon DEF TakeBlock, size
  <2>2. /\ Good(g, B)
        /\ g.total_size = h.total_size /\ g.size = h.size
        /\ FreeOf(g, B) = L \ {curr}
        /\ Exact(h, B) => Exact(g, B)
        /\ Untouched(h, B, g, B)
    <3>1. TakenIn(h, B, curr, g)
      BY <1>3, <2>1, TakeWhole DEF L
    <3> QED
      BY <3>1 DEF TakenIn, L
  <2>3. InBlocks(g, B, regions \cup {region})
    <3>1. FreeOf(g, B) \cap B = L \ {curr}
      BY <1>1, <2>2
    <3>2. g.size[curr] >= size + 2 /\ g.size[curr] \in Int
      BY <1>2, <1>4, <1>8, <2>2
    <3> QED
      BY <1>4, <1>10, <2>2, <3>1, <3>2
  <2> QED
    BY <1>9, <2>2, <2>3 DEF HandedOut
<1>12. ASSUME ~(left < 4) PROVE HandedOut(h, B, regions, region, g)
  <2>1. g = list_remove_free(Split(h, curr, size), curr, FALSE)
    BY <1>7, <1>12, Zenon DEF TakeBlock, size
  <2>2. h.size[curr] - 2 - size >= 4
    BY <1>6, <1>12 DEF left
  <2>3. /\ half \in Address \ B
        /\ Good(g, B \cup {half})
        /\ g.total_size = h.total_size
        /\ \A b \in B \ {curr} : g.size[b] = h.size[b]
        /\ g.size[curr] = size + 2
        /\ FreeOf(g, B \cup {half}) = (L \cup {half}) \ {curr}
        /\ Exact(h, B) => Exact(g, B \cup {half})
        /\ Untouched(h, B, g, B \cup {half})
    <3>1. SplitIn(h, B, curr, size, half, g)
      BY <1>2, <1>3, <2>1, <2>2, TakeHalf DEF L, half
    <3> QED
      BY <3>1 DEF SplitIn, L
  <2>4. InBlocks(g, B \cup {half}, regions \cup {region})
    <3>1. FreeOf(g, B \cup {half}) \cap B = L \ {curr} /\ curr \in (B \cup {half}) \ FreeOf(g, B \cup {half})
      BY <1>1, <1>4, <2>3
    <3>2. g.size[curr] >= size + 2 /\ g.size[curr] \in Int
      BY <1>2, <2>3
    <3> QED
      BY <1>10, <2>3, <3>1, <3>2
  <2> QED
    BY <1>9, <2>3, <2>4 DEF HandedOut
<1>13. HandedOut(h, B, regions, region, g)
  BY <1>11, <1>12
<1>14. HeaderMapped(h, curr, size)
  <2>1. ~(left < 4) => half + 4 <= h.total_size
    BY <1>2, <1>4, <1>6 DEF left, half
  <2>2. BottomHalf(curr, size) = half /\ sizeof_salloc_t = 4
    BY DEF BottomHalf, HeaderWords, half, sizeof_salloc_t
  <2> QED
    BY <1>7, <2>1, <2>2, Zenon DEF HeaderMapped
<1> QED
  BY <1>13, <1>14 DEF size

\* Every region has a block.
HaveBlocks(h, B, regions) ==
    \A r \in regions :
        /\ r \in [start : Address, len : Requests]
        /\ r.start - HeaderWords \in B
        /\ r.start + r.len <= (r.start - HeaderWords) + h.size[r.start - HeaderWords]

\* The region of a block that is big enough, even of one that fits exactly.
LEMMA NewRegion ==
    ASSUME NEW h, NEW B, Good(h, B), NEW regions, InBlocks(h, B, regions),
           NEW n \in Requests, CanFit(h, align(n)),
           NEW curr, curr = FirstFit(h, align(n)),
           NEW region, region = [start |-> curr + HeaderWords, len |-> n]
    PROVE  /\ HaveBlocks(h, B, regions \cup {region})
           /\ \A r \in regions : r.start # region.start
<1>1. h \in HeapRecord /\ Tiles(h, B) /\ Rings(h, FreeOf(h, B)) /\ FreeOf(h, B) \subseteq B
  BY DEF Good, FreeOf
<1>2. align(n) \in Nat /\ align(n) >= 2 /\ align(n) >= n /\ n \in Nat
  BY AlignFacts
<1>3. curr \in FreeOf(h, B) /\ usable_size(h.size[curr]) >= align(n)
  BY <1>1, FirstFitFacts
<1>4. /\ curr \in B /\ curr \in Nat /\ h.size[curr] \in Int /\ h.size[curr] >= 4
      /\ curr + h.size[curr] <= MaxWords /\ h.size[curr] <= MaxWords /\ MaxWords \in Nat
      /\ \A a : a \in Address <=> a \in Nat /\ a <= MaxWords
  BY <1>1, <1>3, TileFacts
<1>5. usable_size(h.size[curr]) = h.size[curr] - 2
  BY <1>4, SizeFacts
<1>6. /\ region \in [start : Address, len : Requests]
      /\ region.start - HeaderWords = curr
      /\ region.start + region.len <= curr + h.size[curr]
  <2>1. curr + 2 \in Address /\ (curr + 2) - 2 = curr
    BY <1>4
  <2>2. (curr + 2) + n <= curr + h.size[curr]
    BY <1>2, <1>3, <1>4, <1>5
  <2>3. region = [start |-> curr + 2, len |-> n]
    BY DEF HeaderWords
  <2> QED
    BY <2>1, <2>2, <2>3 DEF HeaderWords
<1>7. HaveBlocks(h, B, regions \cup {region})
  <2>1. HaveBlocks(h, B, regions)
    BY DEF InBlocks, HaveBlocks
  <2>2. HaveBlocks(h, B, {region})
    BY <1>4, <1>6, Zenon DEF HaveBlocks
  <2> QED
    BY <2>1, <2>2, Zenon DEF HaveBlocks
<1>8. \A r \in regions : r.start # region.start
  <2> SUFFICES ASSUME NEW r \in regions, r.start = region.start PROVE FALSE
    OBVIOUS
  <2>1. r.start - HeaderWords \in B \ FreeOf(h, B)
    BY DEF InBlocks
  <2>2. r.start - HeaderWords = curr
    BY <1>6, Zenon
  <2> QED
    BY <1>3, <2>1, <2>2
<1> QED
  BY <1>7, <1>8

-----------------------------------------------------------------------------
(* Walks: that they reach all blocks, or all free ones.                    *)

\* The walk over the sizes is at a block as far from head as it has steps, or
\* at the end.
LEMMA BlockWalkFacts ==
    ASSUME NEW h \in HeapRecord, NEW B, Tiles(h, B), NEW w, w = BlockWalk(h)
    PROVE  /\ w[0] = head
           /\ \A k \in 0 .. MaxBlocks :
                w[k] \in B \cup {h.total_size} /\ (w[k] = h.total_size \/ w[k] >= 4 * k)
           /\ \A k \in 0 .. MaxBlocks : k < MaxBlocks /\ w[k] \in B =>
                w[k + 1] = w[k] + h.size[w[k]]
<1> DEFINE V == B \cup {h.total_size}
           after == [b \in Nat |-> IF past_end(h, b) THEN h.total_size ELSE b + h.size[b]]
<1>1. /\ h.total_size \in Nat /\ head \in B /\ head = 0
      /\ \A b \in B : /\ b \in Nat /\ b < h.total_size
                      /\ h.size[b] \in Int /\ h.size[b] >= 4
                      /\ b + h.size[b] \in B \/ b + h.size[b] = h.total_size
  BY TileFacts
<1>2. MaxBlocks \in Nat
  BY SizeFacts
<1>3. \A b \in B : after[b] = b + h.size[b]
  <2> SUFFICES ASSUME NEW b \in B PROVE after[b] = b + h.size[b]
    OBVIOUS
  <2>1. ~past_end(h, b) /\ b \in Nat
    BY <1>1 DEF past_end
  <2> QED
    BY <2>1
<1>4. after[h.total_size] = h.total_size
  BY <1>1 DEF past_end
<1>5. w = Walk(head, after, MaxBlocks)
  BY Zenon DEF BlockWalk, Walk, IsWalk
<1> HIDE DEF after
<1>6. WalksIn(w, V, head, after, MaxBlocks)
  <2>1. \A v \in V : after[v] \in V
    BY <1>1, <1>3, <1>4
  <2>2. head \in V
    BY <1>1
  <2> HIDE DEF V
  <2> QED
    BY <1>2, <1>5, <2>1, <2>2, Iteration
<1>7. w[0] = head /\ \A k \in 0 .. MaxBlocks : w[k] \in V
  BY <1>2, <1>6 DEF WalksIn
<1>8. ASSUME NEW k \in Nat, k < MaxBlocks PROVE w[k + 1] = after[w[k]]
  <2>1. k + 1 \in 1 .. MaxBlocks /\ (k + 1) - 1 = k
    BY <1>2, <1>8
  <2>2. \A i \in 1 .. MaxBlocks : w[i] = after[w[i - 1]]
    BY <1>6 DEF WalksIn
  <2> QED
    BY <2>1, <2>2, Zenon
<1> DEFINE S == {k \in Nat : k <= MaxBlocks => w[k] = h.total_size \/ w[k] >= 4 * k}
<1>9. 0 \in S
  BY <1>1, <1>7
<1>10. ASSUME NEW k \in Nat, k \in S PROVE k + 1 \in S
  <2> SUFFICES ASSUME k + 1 <= MaxBlocks PROVE w[k + 1] = h.total_size \/ w[k + 1] >= 4 * (k + 1)
    OBVIOUS
  <2>1. k < MaxBlocks /\ k \in 0 .. MaxBlocks
    BY <1>2
  <2>2. w[k + 1] = after[w[k]] /\ w[k] \in V
    BY <1>7, <1>8, <2>1
  <2>3. CASE w[k] = h.total_size
    BY <1>4, <2>2, <2>3
  <2>4. CASE w[k] # h.total_size
    <3>1. w[k] \in B /\ w[k] >= 4 * k
      BY <1>10, <2>1, <2>2, <2>4
    <3>2. w[k + 1] = w[k] + h.size[w[k]]
      BY <1>3, <2>2, <3>1
    <3> DEFINE b == w[k]
               s == h.size[w[k]]
    <3>3. b \in Nat /\ s \in Int /\ s >= 4 /\ b >= 4 * k
      BY <1>1, <3>1
    <3> HIDE DEF b, s
    <3>4. b + s >= 4 * (k + 1)
      BY <3>3
    <3> QED
      BY <3>2, <3>4 DEF b, s
  <2> QED
    BY <2>3, <2>4
<1>11. \A k \in 0 .. MaxBlocks : w[k] = h.total_size \/ w[k] >= 4 * k
  <2>1. Nat \subseteq S
    <3> HIDE DEF S
    <3> QED
      BY <1>9, <1>10, SetInduction
  <2> QED
    BY <1>2, <2>1
<1>12. \A k \in 0 .. MaxBlocks : k < MaxBlocks /\ w[k] \in B => w[k + 1] = w[k] + h.size[w[k]]
  BY <1>2, <1>3, <1>8
<1> QED
  BY <1>7, <1>11, <1>12

\* So what lies behind a block of the walk is on the walk.
LEMMA BlockWalkSteps ==
    ASSUME NEW h \in HeapRecord, NEW B, Tiles(h, B), NEW w, w = BlockWalk(h),
           NEW k \in 0 .. MaxBlocks, w[k] \in B
    PROVE  k + 1 \in 0 .. MaxBlocks /\ w[k + 1] = w[k] + h.size[w[k]]
<1>1. w[k] \in Nat /\ w[k] + 4 <= MaxWords /\ w[k] >= 4 * k
  <2>1. /\ w[k] \in Nat /\ w[k] < h.total_size /\ h.size[w[k]] \in Int /\ h.size[w[k]] >= 4
        /\ w[k] + h.size[w[k]] <= h.total_size /\ h.total_size <= MaxWords /\ h.total_size \in Nat
        /\ MaxWords \in Nat
    BY TileFacts
  <2>2. w[k] = h.total_size \/ w[k] >= 4 * k
    BY BlockWalkFacts
  <2> QED
    BY <2>1, <2>2
<1>2. k < MaxBlocks /\ MaxBlocks \in Nat
  BY <1>1, SizeFacts
<1> QED
  BY <1>2, BlockWalkFacts

LEMMA BlocksAre ==
    ASSUME NEW h \in HeapRecord, NEW B, Tiles(h, B)
    PROVE  /\ Blocks(h) = B
           /\ \E k \in 0 .. MaxBlocks : BlockWalk(h)[k] = h.total_size
<1> DEFINE w == BlockWalk(h)
           W == {w[k] : k \in 0 .. MaxBlocks}
<1>1. Blocks(h) = W \ {h.total_size}
  BY DEF Blocks
<1>2. /\ w[0] = head /\ W \subseteq B \cup {h.total_size} /\ h.total_size \notin B /\ head \in B
      /\ B \subseteq Nat /\ 0 \in 0 .. MaxBlocks
  BY BlockWalkFacts, TileFacts, SizeFacts
<1>3. ASSUME NEW b \in B, b \in W PROVE b + h.size[b] \in W
  <2>1. PICK k \in 0 .. MaxBlocks : w[k] = b
    BY <1>3
  <2>2. k + 1 \in 0 .. MaxBlocks /\ w[k + 1] = b + h.size[b]
    BY <2>1, BlockWalkSteps
  <2> QED
    BY <2>2
<1>4. head \in W
  BY <1>2
<1> HIDE DEF W
<1>5. B \subseteq W
  <2> DEFINE S == B \ W
  <2> SUFFICES ASSUME S # {} PROVE FALSE
    OBVIOUS
  <2>1. PICK b \in S : \A c \in S : b <= c
    <3>1. S \subseteq Nat
      BY <1>2
    <3> HIDE DEF S
    <3> QED
      BY <3>1, LeastElement
  <2>2. b \in B /\ b # head
    BY <1>4
  <2>3. PICK c \in B : c + h.size[c] = b /\ c < b
    BY <2>2, BlockBefore
  <2>4. c \in W
    BY <1>2, <2>1, <2>2, <2>3
  <2> QED
    BY <1>3, <2>3, <2>4
<1>6. h.total_size \in W
  <2>1. PICK c \in B : c + h.size[c] = h.total_size
    BY BlockBefore
  <2> QED
    BY <1>3, <1>5, <2>1
<1>7. \E k \in 0 .. MaxBlocks : w[k] = h.total_size
  BY <1>6 DEF W
<1> QED
  BY <1>1, <1>2, <1>5, <1>7

\* There are at most MaxBlocks blocks, so that a longer walk returns to one.
LEMMA WalkRepeats ==
    ASSUME NEW h \in HeapRecord, NEW B, Tiles(h, B), NEW w \in [0 .. MaxBlocks -> B]
    PROVE  \E i, j \in 0 .. MaxBlocks : i < j /\ w[i] = w[j]
<1> DEFINE f == [k \in 0 .. MaxBlocks |-> w[k] \div 4]
<1>1. MaxBlocks \in Nat /\ MaxBlocks # 0 /\ 4 * MaxBlocks + 4 > MaxWords
  BY SizeFacts
<1>2. \A b \in B : b \in Nat /\ b + 4 <= MaxWords /\ MaxWords \in Nat
  <2> SUFFICES ASSUME NEW b \in B PROVE b \in Nat /\ b + 4 <= MaxWords /\ MaxWords \in Nat
    OBVIOUS
  <2>1. /\ b \in Nat /\ h.size[b] \in Int /\ h.size[b] >= 4
        /\ b + h.size[b] <= h.total_size /\ h.total_size <= MaxWords /\ h.total_size \in Nat
        /\ MaxWords \in Nat
    BY TileFacts
  <2> QED
    BY <2>1
<1>3. \A b \in B : b \div 4 \in 0 .. MaxBlocks - 1
  <2> SUFFICES ASSUME NEW b \in B PROVE b \div 4 \in 0 .. MaxBlocks - 1
    OBVIOUS
  <2>1. b \in Nat /\ b < 4 * MaxBlocks
    BY <1>1, <1>2
  <2> QED
    BY <1>1, <2>1
<1>4. \A b, c \in B : b \div 4 = c \div 4 => b = c
  <2> SUFFICES ASSUME NEW b \in B, NEW c \in B, b \div 4 = c \div 4, b < c PROVE FALSE
    BY <1>2
  <2>1. b \in Nat /\ c \in Nat /\ h.size[b] \in Int /\ h.size[b] >= 4 /\ b + h.size[b] <= c
    BY TileFacts
  <2>2. b + 4 <= c
    BY <2>1
  <2> QED
    BY <2>1, <2>2
<1>5. f \in [0 .. MaxBlocks -> 0 .. MaxBlocks - 1]
  BY <1>3
<1>6. \E i, j \in 0 .. MaxBlocks : i # j /\ f[i] = f[j]
  <2>1. /\ IsFiniteSet(0 .. MaxBlocks) /\ Cardinality(0 .. MaxBlocks) = MaxBlocks + 1
        /\ IsFiniteSet(0 .. MaxBlocks - 1) /\ Cardinality(0 .. MaxBlocks - 1) = MaxBlocks
    <3>1. 0 \in Int /\ MaxBlocks \in Int /\ MaxBlocks - 1 \in Int
      BY <1>1
    <3>2. /\ IsFiniteSet(0 .. MaxBlocks)
          /\ Cardinality(0 .. MaxBlocks) = IF 0 > MaxBlocks THEN 0 ELSE MaxBlocks - 0 + 1
      BY <3>1, FS_Interval, Zenon
    <3>3. /\ IsFiniteSet(0 .. MaxBlocks - 1)
          /\ Cardinality(0 .. MaxBlocks - 1)
               = IF 0 > MaxBlocks - 1 THEN 0 ELSE (MaxBlocks - 1) - 0 + 1
      BY <3>1, FS_Interval, Zenon
    <3> QED
      BY <1>1, <3>2, <3>3
  <2>2. Cardinality(0 .. MaxBlocks - 1) < Cardinality(0 .. MaxBlocks)
    BY <1>1, <2>1
  <2> HIDE DEF f
  <2> QED
    BY <1>5, <2>1, <2>2, FS_PigeonHole
<1>7. PICK i \in 0 .. MaxBlocks, j \in 0 .. MaxBlocks : i # j /\ w[i] \div 4 = w[j] \div 4
  BY <1>6
<1>8. w[i] = w[j]
  BY <1>4, <1>7
<1>9. i < j \/ j < i
  BY <1>1, <1>7
<1> QED
  BY <1>8, <1>9

\* A walk that can be walked backwards returns to its start first.
Backwards(w, back, n) == \A k \in 1 .. n : back[w[k]] = w[k - 1]

LEMMA FirstRepeat ==
    ASSUME NEW n \in Nat, NEW w, NEW back, Backwards(w, back, n),
           NEW i \in 0 .. n, NEW j \in 0 .. n, i < j, w[i] = w[j]
    PROVE  j - i \in 1 .. n /\ w[j - i] = w[0]
<1> DEFINE S == {m \in Nat : m <= i => w[i - m] = w[j - m]}
<1>1. 0 \in S
  OBVIOUS
<1>2. ASSUME NEW m \in Nat, m \in S PROVE m + 1 \in S
  <2> SUFFICES ASSUME m + 1 <= i PROVE w[i - (m + 1)] = w[j - (m + 1)]
    OBVIOUS
  <2>1. w[i - m] = w[j - m]
    BY <1>2
  <2>2. i - m \in 1 .. n /\ j - m \in 1 .. n /\ (i - m) - 1 = i - (m + 1) /\ (j - m) - 1 = j - (m + 1)
    OBVIOUS
  <2>3. back[w[i - m]] = w[i - (m + 1)] /\ back[w[j - m]] = w[j - (m + 1)]
    BY <2>2 DEF Backwards
  <2> QED
    BY <2>1, <2>3, Zenon
<1>3. i \in S
  <2>1. Nat \subseteq S
    <3> HIDE DEF S
    <3> QED
      BY <1>1, <1>2, SetInduction
  <2> QED
    BY <2>1
<1>4. w[i - i] = w[j - i] /\ i - i = 0
  BY <1>3
<1> QED
  BY <1>4

\* The search of _salloc visits all free blocks if they are on one list.
LEMMA SearchVisitsAll ==
    ASSUME NEW h, NEW B, Good(h, B), OneRing(h, FreeOf(h, B)), h.free_list # NULL,
           NEW w, w = FreeWalk(h)
    PROVE  {w[k] : k \in Searched(h)} = FreeOf(h, B)
<1> DEFINE L == FreeOf(h, B)
           T == {w[k] : k \in Searched(h)}
<1>1. /\ h \in HeapRecord /\ Tiles(h, B) /\ Rings(h, L) /\ L \subseteq B
      /\ \A b \in L : h.next_free[b] \in L /\ h.prev_free[h.next_free[b]] = b
  BY DEF Good, FreeOf, Rings
<1>2. MaxBlocks \in Nat
  BY SizeFacts
<1> HIDE DEF L
<1>3. WalksIn(w, L, h.free_list, h.next_free, MaxBlocks)
  BY <1>1, FreeWalkFacts
<1>4. /\ w \in [0 .. MaxBlocks -> L] /\ w[0] = h.free_list
      /\ \A k \in 1 .. MaxBlocks : w[k] = h.next_free[w[k - 1]]
  BY <1>3 DEF WalksIn
<1>5. Searched(h) = {k \in 0 .. MaxBlocks : \A j \in 1 .. k : w[j] # h.free_list}
  BY Zenon DEF Searched
<1>6. MaxBlocks \notin Searched(h)
  <2> SUFFICES ASSUME MaxBlocks \in Searched(h) PROVE FALSE
    OBVIOUS
  <2>1. w \in [0 .. MaxBlocks -> B]
    BY <1>1, <1>4
  <2>2. PICK i \in 0 .. MaxBlocks, j \in 0 .. MaxBlocks : i < j /\ w[i] = w[j]
    BY <1>1, <2>1, WalkRepeats, ZenonT(40)
  <2>3. \A k \in 1 .. MaxBlocks : h.prev_free[w[k]] = w[k - 1]
    <3> SUFFICES ASSUME NEW k \in 1 .. MaxBlocks PROVE h.prev_free[w[k]] = w[k - 1]
      OBVIOUS
    <3>1. w[k - 1] \in L
      BY <1>2, <1>4
    <3> QED
      BY <1>1, <1>4, <3>1
  <2>4. j - i \in 1 .. MaxBlocks /\ w[j - i] = w[0]
    <3>1. Backwards(w, h.prev_free, MaxBlocks)
      BY <2>3 DEF Backwards
    <3> QED
      BY <1>2, <2>2, <3>1, FirstRepeat
  <2> QED
    BY <1>4, <1>5, <2>4
<1>7. ASSUME NEW k \in Searched(h) PROVE h.next_free[w[k]] \in T
  <2>1. k \in 0 .. MaxBlocks /\ k # MaxBlocks /\ \A j \in 1 .. k : w[j] # h.free_list
    BY <1>5, <1>6
  <2>2. k + 1 \in 1 .. MaxBlocks /\ (k + 1) - 1 = k
    BY <1>2, <2>1
  <2>3. w[k + 1] = h.next_free[w[k]]
    BY <1>4, <2>2, Zenon
  <2>4. CASE w[k + 1] = h.free_list
    <3>1. 0 \in Searched(h)
      BY <1>2, <1>5
    <3> QED
      BY <1>4, <2>3, <2>4, <3>1
  <2>5. CASE w[k + 1] # h.free_list
    <3>1. \A j \in 1 .. k + 1 : j \in 1 .. k \/ j = k + 1
      BY <2>1
    <3>2. k + 1 \in Searched(h)
      BY <1>5, <2>1, <2>2, <2>5, <3>1
    <3> QED
      BY <2>3, <3>2
  <2> QED
    BY <2>4, <2>5
<1>8. T \subseteq L /\ T # {}
  <2>1. 0 \in Searched(h) /\ Searched(h) \subseteq 0 .. MaxBlocks
    BY <1>2, <1>5
  <2> QED
    BY <1>4, <2>1
<1>9. \A b \in T : h.next_free[b] \in T
  BY <1>7
<1> HIDE DEF T
<1>10. T = L
  BY <1>8, <1>9 DEF OneRing, L
<1> QED
  BY <1>10 DEF T, L

\* The ring of all blocks, backwards.
LEMMA PrevFacts ==
    ASSUME NEW h \in HeapRecord, NEW B, Tiles(h, B), \A b \in B : h.prev[next(h, b)] = b,
           NEW c \in B
    PROVE  h.prev[c] \in B /\ next(h, h.prev[c]) = c
<1>1. \E b \in B : next(h, b) = c
  <2>1. CASE c = head
    <3>1. PICK b \in B : b + h.size[b] = h.total_size
      BY BlockBefore
    <3> QED
      BY <2>1, <3>1, NextFacts
  <2>2. CASE c # head
    <3>1. PICK b \in B : b + h.size[b] = c
      BY <2>2, BlockBefore
    <3>2. c # h.total_size
      BY TileFacts
    <3> QED
      BY <3>1, <3>2, NextFacts
  <2> QED
    BY <2>1, <2>2
<1> QED
  BY <1>1

\* What the search of sfree does with its start, in any heap.
LEMMA PrevWalkStart ==
    ASSUME NEW h \in HeapRecord, NEW block \in Address
    PROVE  PrevWalk(h, block)[0] = h.prev[block]
<1> DEFINE before == [b \in Int |-> IF b = NULL THEN NULL ELSE h.prev[b]]
           w == PrevWalk(h, block)
<1>1. w = Walk(h.prev[block], before, MaxBlocks)
  BY Zenon DEF PrevWalk, Walk, IsWalk
<1>2. \A v \in Pointer : before[v] \in Pointer
  <2> SUFFICES ASSUME NEW v \in Pointer PROVE before[v] \in Pointer
    OBVIOUS
  <2>1. v \in Int /\ NULL \in Pointer
    BY SizeFacts DEF Pointer, Address, NULL
  <2>2. v = NULL \/ v \in Address
    BY DEF Pointer
  <2>3. h.prev \in [Address -> Pointer]
    BY DEF HeapRecord
  <2> QED
    BY <2>1, <2>2, <2>3
<1>3. h.prev[block] \in Pointer /\ MaxBlocks \in Nat
  BY SizeFacts DEF HeapRecord
<1> HIDE DEF before, w
<1>4. WalksIn(w, Pointer, h.prev[block], before, MaxBlocks)
  BY <1>1, <1>2, <1>3, Iteration
<1> QED
  BY <1>4 DEF WalksIn, w

\* And how it goes on where prev leads to all blocks.
LEMMA PrevWalkFacts ==
    ASSUME NEW h \in HeapRecord, NEW B, Tiles(h, B), \A b \in B : h.prev[next(h, b)] = b,
           NEW block \in B, NEW w, w = PrevWalk(h, block)
    PROVE  WalksIn(w, B, h.prev[block], h.prev, MaxBlocks)
<1> DEFINE before == [b \in Int |-> IF b = NULL THEN NULL ELSE h.prev[b]]
<1>1. w = Walk(h.prev[block], before, MaxBlocks)
  BY Zenon DEF PrevWalk, Walk, IsWalk
<1>2. \A v \in B : before[v] = h.prev[v] /\ before[v] \in B
  <2> SUFFICES ASSUME NEW v \in B PROVE before[v] = h.prev[v] /\ before[v] \in B
    OBVIOUS
  <2>1. v \in Nat /\ v # NULL /\ v \in Int
    BY TileFacts DEF NULL
  <2>2. h.prev[v] \in B
    BY PrevFacts
  <2> QED
    BY <2>1, <2>2
<1>3. h.prev[block] \in B /\ MaxBlocks \in Nat
  BY SizeFacts, PrevFacts
<1> HIDE DEF before
<1>4. WalksIn(w, B, h.prev[block], before, MaxBlocks)
  BY <1>1, <1>2, <1>3, Iteration
<1>5. ASSUME NEW k \in 1 .. MaxBlocks PROVE w[k] = h.prev[w[k - 1]]
  <2>1. w[k - 1] \in B
    BY <1>3, <1>4 DEF WalksIn
  <2> QED
    BY <1>2, <1>4, <2>1 DEF WalksIn
<1> QED
  BY <1>4, <1>5 DEF WalksIn

\* The search of sfree comes to an end where prev leads to all blocks.
LEMMA SearchStops ==
    ASSUME NEW h \in HeapRecord, NEW B, Tiles(h, B), \A b \in B : h.prev[next(h, b)] = b,
           NEW block \in B
    PROVE  Stops(h, block) # {}
<1> SUFFICES ASSUME Stops(h, block) = {} PROVE FALSE
  OBVIOUS
<1> DEFINE w == PrevWalk(h, block)
           back == [b \in B |-> next(h, b)]
<1>1. WalksIn(w, B, h.prev[block], h.prev, MaxBlocks)
  BY PrevWalkFacts
<1> HIDE DEF w
<1>2. /\ w \in [0 .. MaxBlocks -> B] /\ w[0] = h.prev[block]
      /\ \A k \in 1 .. MaxBlocks : w[k] = h.prev[w[k - 1]]
  BY <1>1 DEF WalksIn
<1>3. MaxBlocks \in Nat /\ MaxBlocks # 0
  BY SizeFacts
<1>4. \A k \in 0 .. MaxBlocks : ~(w[k] = block /\ k > 0)
  BY Zenon DEF Stops, w
<1>5. \A k \in 1 .. MaxBlocks : back[w[k]] = w[k - 1]
  <2> SUFFICES ASSUME NEW k \in 1 .. MaxBlocks PROVE back[w[k]] = w[k - 1]
    OBVIOUS
  <2>1. w[k] \in B /\ w[k - 1] \in B
    BY <1>2, <1>3
  <2>2. next(h, w[k]) = w[k - 1]
    BY <1>2, <2>1, PrevFacts
  <2> QED
    BY <2>1, <2>2
<1>6. PICK i \in 0 .. MaxBlocks, j \in 0 .. MaxBlocks : i < j /\ w[i] = w[j]
  <2>1. w \in [0 .. MaxBlocks -> B]
    BY <1>2
  <2>2. \E i, j \in 0 .. MaxBlocks : i < j /\ w[i] = w[j]
    BY <2>1, WalkRepeats, Zenon
  <2> QED
    BY <2>2, Zenon
<1> HIDE DEF back
<1>7. j - i \in 1 .. MaxBlocks /\ w[j - i] = w[0]
  <2>1. Backwards(w, back, MaxBlocks)
    BY <1>5 DEF Backwards
  <2> QED
    BY <1>3, <1>6, <2>1, FirstRepeat
<1> DEFINE k == j - i
<1> HIDE DEF k
<1>8. k \in 1 .. MaxBlocks /\ w[k] = h.prev[block] /\ k - 1 \in 0 .. MaxBlocks
  BY <1>2, <1>3, <1>7 DEF k
<1>9. next(h, h.prev[block]) = block
  BY PrevFacts
<1>10. w[k - 1] = block
  <2>1. back[w[k]] = next(h, w[k])
    BY <1>2, <1>8 DEF back
  <2> QED
    BY <1>5, <1>8, <1>9, <2>1
<1>11. k - 1 = 0
  BY <1>4, <1>8, <1>10
<1>12. w[0] = block
  BY <1>10, <1>11
<1>13. h.prev[block] = block /\ 1 \in 1 .. MaxBlocks /\ 1 \in 0 .. MaxBlocks
  BY <1>2, <1>3, <1>12
<1>14. w[1] = h.prev[w[0]]
  <2>1. 1 - 1 = 0
    OBVIOUS
  <2> QED
    BY <1>2, <1>13, <2>1
<1> QED
  BY <1>4, <1>12, <1>13, <1>14

\* It has seen all blocks when it is back at block.
LEMMA ClosedUnderPrev ==
    ASSUME NEW h \in HeapRecord, NEW B, Tiles(h, B), \A b \in B : h.prev[next(h, b)] = b,
           NEW V, V \subseteq B, V # {}, \A b \in V : h.prev[b] \in V
    PROVE  V = B
<1>1. B \subseteq Nat /\ MaxWords \in Nat /\ \A b \in B : b <= MaxWords
  BY TileFacts
<1>2. head \in V
  <2>1. PICK m \in V : \A b \in V : m <= b
    BY <1>1, LeastElement
  <2>2. CASE m # head
    <3>1. PICK b \in B : b + h.size[b] = m /\ b < m
      BY <2>2, BlockBefore
    <3>2. m # h.total_size
      BY TileFacts
    <3>3. next(h, b) = m
      BY <3>1, <3>2, NextFacts
    <3>4. b \in V
      BY <3>1, <3>3
    <3> QED
      BY <1>1, <2>1, <3>1, <3>4
  <2> QED
    BY <2>1, <2>2
<1>3. SUFFICES ASSUME B \ V # {} PROVE FALSE
  OBVIOUS
<1>4. PICK c \in B \ V : \A b \in B \ V : b <= c
  <2>1. B \ V \subseteq Nat /\ \A b \in B \ V : b <= MaxWords
    BY <1>1
  <2> QED
    BY <1>1, <1>3, <2>1, GreatestElement
<1>5. next(h, c) \in V
  <2>1. /\ next(h, c) = IF c + h.size[c] = h.total_size THEN head ELSE c + h.size[c]
        /\ next(h, c) \in B
    BY NextFacts
  <2>2. CASE next(h, c) = head
    BY <1>2, <2>2
  <2>3. CASE next(h, c) # head
    <3>1. next(h, c) = c + h.size[c] /\ c + h.size[c] > c /\ c \in Nat /\ h.size[c] \in Int
      BY <2>1, <2>3, TileFacts
    <3>2. ~(next(h, c) <= c)
      BY <3>1
    <3> QED
      BY <1>4, <2>1, <3>2
  <2> QED
    BY <2>2, <2>3
<1>6. h.prev[next(h, c)] = c
  BY <1>4
<1> QED
  BY <1>4, <1>5, <1>6

-----------------------------------------------------------------------------
(* sfree.                                                                  *)

\* The search ends at its first stop.
LEMMA FirstStop ==
    ASSUME NEW h, NEW block, Stops(h, block) # {}
    PROVE  \E k \in Stops(h, block) :
             /\ \A j \in Stops(h, block) : k <= j
             /\ PreviousFree(h, block) = PrevWalk(h, block)[k]
<1> DEFINE S == Stops(h, block)
           first == CHOOSE k \in S : \A j \in S : k <= j
<1>1. S \subseteq Nat /\ S # {}
  BY SizeFacts DEF Stops
<1>2. \E k \in S : \A j \in S : k <= j
  <2> HIDE DEF S
  <2> QED
    BY <1>1, LeastElement
<1>3. first \in S /\ \A j \in S : first <= j
  <2> HIDE DEF S
  <2> QED
    BY <1>2, Zenon
<1>4. PreviousFree(h, block) = PrevWalk(h, block)[first]
  BY Zenon DEF PreviousFree
<1> HIDE DEF S, first
<1> QED
  BY <1>3, <1>4, Zenon DEF S

\* A search without fault ends at a free block or at block.
LEMMA SearchFacts ==
    ASSUME NEW h, NEW B, Good(h, B), NEW block \in B, ~exact,
           SfreeFault(h, block) = "none", NEW curr, curr = PreviousFree(h, block)
    PROVE  /\ curr # block => curr \in FreeOf(h, B)
           /\ block # head => h.prev[block] # NULL
<1> DEFINE w == PrevWalk(h, block)
           S == Stops(h, block)
<1>1. h \in HeapRecord /\ Tiles(h, B) /\ SearchedBlocks(h) = B /\ B \subseteq Address
  BY BlocksAre, TileFacts DEF Good, SearchedBlocks
<1>2. S # {} /\ curr # NULL /\ curr \in SearchedBlocks(h) \cup {NULL}
  BY DEF SfreeFault
<1>3. curr \in B
  BY <1>1, <1>2
<1>4. PICK k \in S : (\A j \in S : k <= j) /\ curr = w[k]
  BY <1>2, FirstStop
<1>5. S = {j \in 0 .. MaxBlocks : w[j] \notin B \/ (w[j] = block /\ j > 0) \/ h.free[w[j]]}
  BY <1>1, Zenon DEF Stops
<1>6. w[0] = h.prev[block]
  BY <1>1, PrevWalkStart
<1> HIDE DEF w, S
<1>7. curr # block => curr \in FreeOf(h, B)
  BY <1>3, <1>4, <1>5 DEF FreeOf
<1>8. ASSUME h.prev[block] = NULL PROVE FALSE
  <2>1. NULL \notin B
    BY <1>1, SizeFacts DEF Address, NULL
  <2>2. 0 \in 0 .. MaxBlocks
    BY SizeFacts
  <2>3. 0 \in S
    BY <1>5, <1>6, <1>8, <2>1, <2>2
  <2>4. k = 0
    BY <1>4, <1>5, <2>3
  <2> QED
    BY <1>2, <1>4, <1>6, <1>8, <2>4
<1> QED
  BY <1>7, <1>8

\* Where prev leads to all blocks there is no fault.
LEMMA SearchSafe ==
    ASSUME NEW h, NEW B, Good(h, B), Exact(h, B), NEW block \in B, ~exact
    PROVE  SfreeFault(h, block) = "none"
<1>1. /\ h \in HeapRecord /\ Tiles(h, B) /\ \A b \in B : h.prev[next(h, b)] = b
      /\ SearchedBlocks(h) = B /\ B \subseteq Address /\ h.size[block] # 0
  BY BlocksAre, TileFacts DEF Good, Exact, SearchedBlocks
<1>2. Stops(h, block) # {}
  BY <1>1, SearchStops
<1>3. PICK k \in Stops(h, block) : PreviousFree(h, block) = PrevWalk(h, block)[k]
  BY <1>2, FirstStop
<1>4. k \in 0 .. MaxBlocks
  BY DEF Stops
<1>5. WalksIn(PrevWalk(h, block), B, h.prev[block], h.prev, MaxBlocks)
  BY <1>1, PrevWalkFacts
<1>6. PreviousFree(h, block) \in B
  BY <1>3, <1>4, <1>5 DEF WalksIn
<1>7. NULL \notin B
  BY <1>1, SizeFacts DEF Address, NULL
<1> QED
  BY <1>1, <1>2, <1>6, <1>7 DEF SfreeFault

\* And "there are no other free segments" if it comes back to block.
LEMMA NoOtherFree ==
    ASSUME NEW h, NEW B, Good(h, B), Exact(h, B), NEW block \in B \ FreeOf(h, B),
           ~exact, PreviousFree(h, block) = block
    PROVE  FreeOf(h, B) = {}
<1> DEFINE w == PrevWalk(h, block)
           S == Stops(h, block)
<1>1. /\ h \in HeapRecord /\ Tiles(h, B) /\ \A b \in B : h.prev[next(h, b)] = b
      /\ SearchedBlocks(h) = B
  BY BlocksAre DEF Good, Exact, SearchedBlocks
<1>2. S # {}
  BY <1>1, SearchStops
<1>3. PICK k \in S : (\A j \in S : k <= j) /\ w[k] = block
  BY <1>2, FirstStop
<1>4. S = {j \in 0 .. MaxBlocks : w[j] \notin B \/ (w[j] = block /\ j > 0) \/ h.free[w[j]]}
  BY <1>1, Zenon DEF Stops
<1>5. WalksIn(w, B, h.prev[block], h.prev, MaxBlocks)
  BY <1>1, PrevWalkFacts
<1>6. /\ w \in [0 .. MaxBlocks -> B] /\ w[0] = h.prev[block]
      /\ \A j \in 1 .. MaxBlocks : w[j] = h.prev[w[j - 1]]
  BY <1>5 DEF WalksIn
<1> HIDE DEF w, S
<1>7. MaxBlocks \in Nat /\ k \in 0 .. MaxBlocks
  BY <1>4, SizeFacts
<1> DEFINE V == {w[j] : j \in 0 .. k}
<1>8. V \subseteq B /\ V # {} /\ block \in V
  <2>1. 0 .. k \subseteq 0 .. MaxBlocks /\ k \in 0 .. k
    BY <1>7
  <2> QED
    BY <1>3, <1>6, <2>1
<1>9. \A b \in V : ~h.free[b]
  <2> SUFFICES ASSUME NEW j \in 0 .. k PROVE ~h.free[w[j]]
    OBVIOUS
  <2>1. CASE j = k
    BY <1>3, <2>1 DEF FreeOf
  <2>2. CASE j # k
    <3>1. j \in 0 .. MaxBlocks /\ ~(k <= j)
      BY <1>7, <2>2
    <3>2. j \notin S
      BY <1>3, <3>1
    <3> QED
      BY <1>4, <3>1, <3>2
  <2> QED
    BY <2>1, <2>2
<1>10. ASSUME NEW b \in V PROVE h.prev[b] \in V
  <2>1. PICK j \in 0 .. k : w[j] = b
    OBVIOUS
  <2>2. CASE j = k
    <3>1. h.prev[b] = w[0] /\ 0 \in 0 .. k
      BY <1>3, <1>6, <1>7, <2>1, <2>2
    <3> QED
      BY <3>1
  <2>3. CASE j # k
    <3>1. j + 1 \in 1 .. MaxBlocks /\ j + 1 \in 0 .. k /\ (j + 1) - 1 = j
      BY <1>7, <2>3
    <3>2. w[j + 1] = h.prev[b]
      BY <1>6, <2>1, <3>1, Zenon
    <3> QED
      BY <3>1, <3>2
  <2> QED
    BY <2>2, <2>3
<1> HIDE DEF V
<1>11. V = B
  BY <1>1, <1>8, <1>10, ClosedUnderPrev
<1> QED
  BY <1>9, <1>11 DEF FreeOf

\* A call of sfree that returns.
LEMMA Free ==
    ASSUME NEW h, NEW B, Good(h, B), NEW regions, InBlocks(h, B, regions),
           NEW r \in regions, NEW block, block = r.start - HeaderWords,
           ~exact, SfreeFault(h, block) = "none",
           NEW g, g = FreeBlock(h, block)
    PROVE  \E C : /\ Good(g, C) /\ g.total_size = h.total_size
                  /\ Exact(h, B) => Exact(g, C)
                  /\ Untouched(h, B, g, C)
                  /\ InBlocks(g, C, regions \ {r})
<1> DEFINE L == FreeOf(h, B)
           curr == PreviousFree(h, block)
<1>1. block \in B \ L
  BY DEF InBlocks
<1>2. (curr # block => curr \in L) /\ (block # head => h.prev[block] # NULL)
  BY <1>1, SearchFacts
<1>3. ASSUME NEW C, FreeOf(g, C) \subseteq L \cup {block},
             \A b \in B \ (L \cup {block}) : b \in C /\ g.size[b] = h.size[b]
      PROVE  InBlocks(g, C, regions \ {r})
  <2>1. \A s, t \in regions : s.start = t.start => s = t
    BY DEF InBlocks
  <2>2. ASSUME NEW s \in regions \ {r}
        PROVE  /\ s \in [start : Address, len : Requests]
               /\ s.start - HeaderWords \in C \ FreeOf(g, C)
               /\ s.start + s.len <= (s.start - HeaderWords) + g.size[s.start - HeaderWords]
    <3> DEFINE b == s.start - HeaderWords
    <3>1. /\ s \in [start : Address, len : Requests]
          /\ b \in B \ L
          /\ s.start + s.len <= b + h.size[b]
      BY DEF InBlocks
    <3>2. b # block
      <4>1. s.start # r.start
        BY <2>1, <2>2
      <4>2. s.start \in Int /\ r.start \in Int
        BY SizeFacts DEF InBlocks, Address
      <4> QED
        BY <4>1, <4>2 DEF HeaderWords
    <3> HIDE DEF b
    <3>3. b \in C \ FreeOf(g, C) /\ g.size[b] = h.size[b]
      BY <1>3, <3>1, <3>2
    <3> QED
      BY <3>1, <3>3 DEF b
  <2> QED
    BY <2>1, <2>2 DEF InBlocks
<1>4. CASE curr = block
  <2>1. g = [h EXCEPT !.free_list = block, !.next_free[block] = block,
                      !.prev_free[block] = block, !.free[block] = TRUE]
    BY <1>4, Zenon DEF FreeBlock
  <2>2. /\ Good(g, B)
        /\ g.total_size = h.total_size /\ g.size = h.size
        /\ FreeOf(g, B) = L \cup {block}
        /\ L = {} /\ Exact(h, B) => Exact(g, B)
        /\ Untouched(h, B, g, B)
    BY <1>1, <2>1, AddAlone
  <2>3. Exact(h, B) => Exact(g, B)
    BY <1>1, <1>4, <2>2, NoOtherFree
  <2>4. InBlocks(g, B, regions \ {r})
    BY <1>3, <2>2
  <2> QED
    BY <2>2, <2>3, <2>4
<1>5. CASE curr # block
  <2> DEFINE k == insert_free(h, curr, block)
  <2>1. g = coalesce(k, block)
    BY <1>5, Zenon DEF FreeBlock
  <2>2. /\ Good(k, B)
        /\ k.total_size = h.total_size /\ k.size = h.size /\ k.prev = h.prev
        /\ \A b : next(k, b) = next(h, b)
        /\ FreeOf(k, B) = L \cup {block}
        /\ OneRing(h, L) => OneRing(k, L \cup {block})
        /\ Untouched(h, B, k, B)
    <3>1. AddedIn(h, B, block, k)
      BY <1>1, <1>2, <1>5, AddFree
    <3> QED
      BY <3>1 DEF AddedIn
  <2> HIDE DEF k
  <2>3. PICK C : /\ Shrunk(k, B, g, C)
                 /\ ApartBut(k, L \cup {block}, block) => Apart(g, FreeOf(g, C))
    <3>1. block \in FreeOf(k, B) /\ (block # head => k.prev[block] # NULL)
      BY <1>2, <2>2
    <3> QED
      BY <2>1, <2>2, <3>1, Coalesce
  <2>4. /\ C \subseteq B /\ Good(g, C) /\ g.total_size = h.total_size
        /\ FreeOf(g, C) = (L \cup {block}) \cap C
        /\ \A b \in B \ (L \cup {block}) : b \in C /\ g.size[b] = h.size[b]
    BY <2>2, <2>3 DEF Shrunk
  <2>5. ASSUME Exact(h, B) PROVE Exact(g, C)
    <3>1. (\A b \in B : h.prev[next(h, b)] = b) /\ OneRing(h, L) /\ Apart(h, L)
      BY <2>5 DEF Exact
    <3>2. \A b \in C : g.prev[next(g, b)] = b
      <4>1. \A b \in B : k.prev[next(k, b)] = b
        BY <2>2, <3>1
      <4> QED
        BY <2>3, <4>1 DEF Shrunk
    <3>3. OneRing(g, FreeOf(g, C))
      BY <2>2, <2>3, <3>1 DEF Shrunk
    <3>4. ApartBut(k, L \cup {block}, block)
      BY <1>1, <2>2, <3>1 DEF ApartBut, Apart
    <3> QED
      BY <2>3, <3>2, <3>3, <3>4 DEF Exact
  <2>6. Untouched(h, B, g, C)
    <3>1. Untouched(k, B, g, C)
      BY <2>3 DEF Shrunk
    <3>2. ASSUME NEW a \in Address, a \notin B \cup C
          PROVE  g.size[a] = h.size[a] /\ g.free[a] = h.free[a] /\ g.prev[a] = h.prev[a]
      BY <2>2, <3>1, <3>2 DEF Untouched
    <3>3. ASSUME NEW a \in Address, a \notin L \cup FreeOf(g, C) \cup (B \ C) \cup (C \ B)
          PROVE  g.next_free[a] = h.next_free[a] /\ g.prev_free[a] = h.prev_free[a]
      <4>1. a \notin FreeOf(k, B)
        BY <1>1, <2>2, <2>4, <3>3
      <4> QED
        BY <2>2, <2>4, <3>1, <3>3, <4>1 DEF Untouched
    <3> QED
      BY <3>2, <3>3 DEF Untouched
  <2>7. InBlocks(g, C, regions \ {r})
    BY <1>3, <2>4
  <2> QED
    BY <2>4, <2>5, <2>6, <2>7
<1> QED
  BY <1>4, <1>5

-----------------------------------------------------------------------------
(* The steps.                                                              *)

\* Two regions share no word, and neither leaves the memory.
LEMMA RegionsApart ==
    ASSUME NEW h \in HeapRecord, NEW B, Tiles(h, B), NEW regions, HaveBlocks(h, B, regions),
           NEW r \in regions
    PROVE  /\ r \in Abstract!Region /\ Abstract!Extent(r) \subseteq 0 .. MaxWords - 1
           /\ \A s \in regions : s.start # r.start => Abstract!Disjoint(r, s)
<1>1. h \in HeapRecord /\ Tiles(h, B)
  OBVIOUS
<1>2. ASSUME NEW s \in regions
      PROVE  /\ s \in [start : Address, len : Requests]
             /\ s.start \in Nat /\ s.start >= 2 /\ s.len \in Nat
             /\ s.start - 2 \in B /\ s.start - 2 \in Nat
             /\ h.size[s.start - 2] \in Int /\ h.size[s.start - 2] >= 4
             /\ s.start + s.len <= (s.start - 2) + h.size[s.start - 2]
             /\ (s.start - 2) + h.size[s.start - 2] <= MaxWords /\ MaxWords \in Nat
  <2>1. /\ s \in [start : Address, len : Requests]
        /\ s.start - 2 \in B
        /\ s.start + s.len <= (s.start - 2) + h.size[s.start - 2]
    BY DEF HaveBlocks, HeaderWords
  <2>2. s.start \in Nat /\ s.len \in Nat
    BY <1>1, <2>1, TileFacts, RequestAssumption
  <2>3. /\ s.start - 2 \in Nat /\ h.size[s.start - 2] \in Int /\ h.size[s.start - 2] >= 4
        /\ (s.start - 2) + h.size[s.start - 2] <= h.total_size
        /\ h.total_size <= MaxWords /\ MaxWords \in Nat /\ h.total_size \in Nat
    BY <1>1, <2>1, TileFacts
  <2>4. s.start >= 2
    BY <2>2, <2>3
  <2>5. (s.start - 2) + h.size[s.start - 2] <= MaxWords
    BY <2>3
  <2> QED
    BY <2>1, <2>2, <2>3, <2>4, <2>5
<1>3. r.start + r.len <= MaxWords /\ r.start < MaxWords /\ r.start \in Nat /\ r.len \in Nat /\ MaxWords \in Nat
  BY <1>2
<1>4. r \in Abstract!Region
  <2>1. r \in [start : Address, len : Requests]
    BY <1>2
  <2>2. r.start \in 0 .. MaxWords - 1
    BY <1>3
  <2> QED
    BY <2>1, <2>2 DEF Abstract!Region
<1>5. Abstract!Extent(r) \subseteq 0 .. MaxWords - 1
  BY <1>3 DEF Abstract!Extent
<1>6. ASSUME NEW s \in regions, NEW t \in regions, s.start < t.start
      PROVE  s.start + s.len <= t.start
  <2> DEFINE b == s.start - 2
             c == t.start - 2
  <2>1. s.start \in Nat /\ t.start \in Nat /\ s.len \in Nat
        /\ b \in B /\ c \in B /\ h.size[b] \in Int /\ s.start + s.len <= b + h.size[b]
    BY <1>2
  <2>2. b < c
    BY <1>6, <2>1
  <2> HIDE DEF b, c
  <2>3. b + h.size[b] <= c
    BY <1>1, <2>1, <2>2, TileFacts
  <2>4. c <= t.start /\ b \in Int /\ c \in Int
    BY <2>1 DEF b, c
  <2> QED
    BY <2>1, <2>3, <2>4
<1>7. ASSUME NEW s \in regions, s.start # r.start PROVE Abstract!Disjoint(r, s)
  <2>1. s.start \in Nat /\ s.len \in Nat /\ r.start \in Nat /\ r.len \in Nat
    BY <1>2
  <2>2. s.start + s.len <= r.start \/ r.start + r.len <= s.start
    BY <1>6, <1>7, <2>1
  <2>3. Abstract!Extent(r) \cap Abstract!Extent(s) = {}
    BY <2>1, <2>2 DEF Abstract!Extent
  <2> QED
    BY <2>3 DEF Abstract!Disjoint
<1> QED
  BY <1>4, <1>5, <1>7

\* What every step keeps, from the blocks B: all of it if no request has fit
\* exactly, and that regions are disjoint up to and with the first that has.
Kept(B) ==
    /\ ~exact' =>
         \E C : /\ Good(heap', C) /\ InBlocks(heap', C, live')
                /\ heap'.total_size = Words => Exact(heap', C)
                /\ Untouched(heap, B, heap', C)
    /\ SafeUntilGrowth'
    /\ Abstract!Alloc \/ Abstract!Free \/ live' = live

\* _salloc, on the heap that it finds or has made bigger.
TryKeeps(h, B) ==
    /\ ~exact' =>
         \E C : /\ B \subseteq C /\ Good(heap', C) /\ InBlocks(heap', C, live')
                /\ heap'.total_size = Words => Exact(heap', C)
                /\ Untouched(h, B, heap', C)
    /\ SafeUntilGrowth'
    /\ Abstract!Alloc \/ live' = live

LEMMA TryStep ==
    ASSUME NEW h, NEW B, Good(h, B), InBlocks(h, B, live),
           h.total_size = Words => Exact(h, B), ~exact,
           fault = "none", NEW n \in Requests, TryOnce(h, n)
    PROVE  TryKeeps(h, B)
<1> DEFINE curr == FirstFit(h, align(n))
           region == [start |-> curr + HeaderWords, len |-> n]
<1>1. CASE CanFit(h, align(n)) /\ HandOut(h, n)
  <2>1. /\ exact' = (exact \/ ExactFit(h, n))
        /\ \/ /\ ~HeaderMapped(h, curr, align(n)) /\ live' = live
           \/ /\ heap' = TakeBlock(h, curr, align(n))
              /\ live' = live \cup {region}
              /\ fault' = IF \E r \in live : Extent(r) \cap Extent(region) # {}
                          THEN "held_twice" ELSE HeapFault
    BY <1>1, Zenon DEF HandOut
  <2> HIDE DEF region
  <2>2. HaveBlocks(h, B, live \cup {region}) /\ \A r \in live : r.start # region.start
    BY <1>1, NewRegion DEF region
  <2>3. /\ region \in Abstract!Region /\ Abstract!Extent(region) \subseteq 0 .. MaxWords - 1
        /\ \A s \in live : Abstract!Disjoint(region, s)
    <3>1. h \in HeapRecord /\ Tiles(h, B) /\ region \in live \cup {region}
      BY DEF Good
    <3>2. /\ region \in Abstract!Region /\ Abstract!Extent(region) \subseteq 0 .. MaxWords - 1
          /\ \A s \in live \cup {region} :
               s.start # region.start => Abstract!Disjoint(region, s)
      BY <2>2, <3>1, RegionsApart
    <3> QED
      BY <2>2, <3>2
  <2>4. Abstract!Alloc \/ live' = live
    BY <2>1, <2>3 DEF Abstract!Alloc
  <2>5. \A r \in live : Extent(r) \cap Extent(region) = {}
    BY <2>3, Zenon DEF Abstract!Disjoint, Abstract!Extent, Extent
  <2>6. CASE ExactFit(h, n)
    BY <2>1, <2>4, <2>6 DEF SafeUntilGrowth, TryKeeps
  <2>7. CASE ~ExactFit(h, n)
    <3>1. /\ \A g, k : g = TakeBlock(h, curr, align(n)) /\ k = region =>
                HandedOut(h, B, live, k, g)
          /\ HeaderMapped(h, curr, align(n))
      BY <1>1, <2>7, Take DEF region
    <3> HIDE DEF curr
    <3>2. /\ ~exact' /\ live' = live \cup {region}
          /\ HandedOut(h, B, live, region, heap') /\ fault' = "none"
      BY <2>1, <2>5, <2>7, <3>1, Zenon DEF HeapFault
    <3>3. \E C : /\ B \subseteq C /\ Good(heap', C) /\ heap'.total_size = h.total_size
                 /\ Exact(h, B) => Exact(heap', C)
                 /\ Untouched(h, B, heap', C)
                 /\ InBlocks(heap', C, live')
      BY <3>2 DEF HandedOut
    <3> QED
      BY <2>4, <3>2, <3>3 DEF SafeUntilGrowth, TryKeeps
  <2> QED
    BY <2>6, <2>7
<1>2. CASE heap' = h /\ live' = live /\ fault' = fault /\ exact' = exact
  <2>1. SafeUntilGrowth'
    BY <1>2 DEF SafeUntilGrowth
  <2>2. Untouched(h, B, heap', B)
    BY <1>2 DEF Untouched
  <2> QED
    BY <1>2, <2>1, <2>2 DEF TryKeeps
<1> QED
  BY <1>1, <1>2 DEF TryOnce

LEMMA SallocCallStep ==
    ASSUME NEW B, HeapInv(B), ~exact, NEW n \in Requests, SallocCall(n)
    PROVE  Kept(B)
<1>1. fault = "none" /\ TryOnce(heap, n)
  BY DEF SallocCall, Call, Running
<1>2. TryKeeps(heap, B)
  BY <1>1, TryStep DEF HeapInv
<1> QED
  BY <1>2, Zenon DEF Kept, TryKeeps

\* The regions after growth.
LEMMA GrownRegions ==
    ASSUME NEW h, NEW B, NEW regions, InBlocks(h, B, regions), NEW new, new \notin B,
           NEW g, \A b \in B : g.size[b] = h.size[b],
           FreeOf(g, B \cup {new}) = FreeOf(h, B) \cup {new}
    PROVE  InBlocks(g, B \cup {new}, regions)
<1>1. ASSUME NEW r \in regions
      PROVE  /\ r \in [start : Address, len : Requests]
             /\ r.start - HeaderWords \in (B \cup {new}) \ FreeOf(g, B \cup {new})
             /\ r.start + r.len <= (r.start - HeaderWords) + g.size[r.start - HeaderWords]
  <2> DEFINE b == r.start - HeaderWords
  <2>1. /\ r \in [start : Address, len : Requests] /\ b \in B \ FreeOf(h, B)
        /\ r.start + r.len <= b + h.size[b]
    BY DEF InBlocks
  <2> HIDE DEF b
  <2>2. b \in (B \cup {new}) \ FreeOf(g, B \cup {new}) /\ g.size[b] = h.size[b]
    BY <2>1
  <2> QED
    BY <2>1, <2>2 DEF b
<1>2. \A r, s \in regions : r.start = s.start => r = s
  BY DEF InBlocks
<1> QED
  BY <1>1, <1>2 DEF InBlocks

LEMMA SallocGrowsStep ==
    ASSUME NEW B, HeapInv(B), ~exact, NEW n \in Requests, SallocGrows(n)
    PROVE  Kept(B)
<1> DEFINE h == increase_heap_size(heap)
           new == heap.total_size
           D == B \cup {new}
<1>1. fault = "none" /\ TryOnce(h, n) /\ heap.total_size + Words <= MaxWords
  BY DEF SallocGrows, Call, Running, CanGrow
<1>2. Good(heap, B) /\ InBlocks(heap, B, live)
  BY DEF HeapInv
<1>3. /\ new \notin B /\ Good(h, D) /\ h.total_size > Words
      /\ \A b \in B : h.size[b] = heap.size[b]
      /\ FreeOf(h, D) = FreeOf(heap, B) \cup {new}
      /\ Untouched(heap, B, h, D)
  <2>1. Enlarged(heap, B, new, h)
    BY <1>1, <1>2, GrowFree
  <2> HIDE DEF h, new
  <2> QED
    BY <2>1 DEF Enlarged
<1> HIDE DEF h, new
<1>4. InBlocks(h, D, live)
  BY <1>2, <1>3, GrownRegions
<1>5. h.total_size # Words
  BY <1>3, SizeFacts, TileFacts DEF Good
<1>6. TryKeeps(h, D)
  BY <1>1, <1>3, <1>4, <1>5, TryStep
<1>7. ASSUME ~exact'
      PROVE  \E C : /\ Good(heap', C) /\ InBlocks(heap', C, live')
                    /\ heap'.total_size = Words => Exact(heap', C)
                    /\ Untouched(heap, B, heap', C)
  <2> \E C : /\ D \subseteq C /\ Good(heap', C) /\ InBlocks(heap', C, live')
             /\ heap'.total_size = Words => Exact(heap', C)
             /\ Untouched(h, D, heap', C)
    <3> HIDE DEF D
    <3> QED
      BY <1>6, <1>7, Zenon DEF TryKeeps
  <2>1. PICK C : /\ D \subseteq C /\ Good(heap', C) /\ InBlocks(heap', C, live')
                 /\ heap'.total_size = Words => Exact(heap', C)
                 /\ Untouched(h, D, heap', C)
    OBVIOUS
  <2>2. ASSUME NEW a \in Address, a \notin B \cup C
        PROVE  heap'.size[a] = heap.size[a] /\ heap'.free[a] = heap.free[a] /\ heap'.prev[a] = heap.prev[a]
    BY <1>3, <2>1, <2>2 DEF Untouched
  <2>3. ASSUME NEW a \in Address, a \notin FreeOf(heap, B) \cup FreeOf(heap', C) \cup (B \ C) \cup (C \ B)
        PROVE  heap'.next_free[a] = heap.next_free[a] /\ heap'.prev_free[a] = heap.prev_free[a]
    <3>1. a \notin FreeOf(heap, B) \cup FreeOf(h, D) \cup (B \ D) \cup (D \ B)
      BY <1>3, <2>1, <2>3
    <3>2. a \notin FreeOf(h, D) \cup FreeOf(heap', C) \cup (D \ C) \cup (C \ D)
      BY <1>3, <2>1, <2>3
    <3> QED
      BY <1>3, <2>1, <3>1, <3>2 DEF Untouched
  <2>4. Untouched(heap, B, heap', C)
    BY <2>2, <2>3 DEF Untouched
  <2> QED
    BY <2>1, <2>4
<1> QED
  BY <1>6, <1>7 DEF Kept, TryKeeps

LEMMA SallocGrowsInVainStep ==
    ASSUME NEW B, HeapInv(B), ~exact, NEW n \in Requests, SallocGrowsInVain(n)
    PROVE  Kept(B)
<1> DEFINE new == heap.total_size
           D == B \cup {new}
           last == heap.prev_free[heap.free_list]
<1>1. /\ heap.total_size + Words <= MaxWords /\ heap.free_list # NULL
      /\ heap' = insert_free(NewBlock(heap), last, new) /\ live' = live
  BY DEF SallocGrowsInVain, CanGrow
<1>2. Good(heap, B) /\ InBlocks(heap, B, live)
  BY DEF HeapInv
<1>3. last \in FreeOf(heap, B)
  BY <1>1, <1>2 DEF Good, Rings
<1>4. /\ new \notin B /\ Good(heap', D) /\ heap'.total_size > Words
      /\ \A b \in B : heap'.size[b] = heap.size[b]
      /\ FreeOf(heap', D) = FreeOf(heap, B) \cup {new}
      /\ Untouched(heap, B, heap', D)
  <2> DEFINE k == heap'
  <2>1. \E list \in FreeOf(heap, B) : k = insert_free(NewBlock(heap), list, heap.total_size)
    BY <1>1, <1>3
  <2> HIDE DEF k
  <2>2. Enlarged(heap, B, new, k)
    BY <1>1, <1>2, <2>1, GrowFree
  <2> HIDE DEF new
  <2> QED
    BY <2>2 DEF Enlarged, k
<1> HIDE DEF new
<1>5. InBlocks(heap', D, live')
  BY <1>1, <1>2, <1>4, GrownRegions
<1>6. heap'.total_size # Words
  BY <1>4, SizeFacts, TileFacts DEF Good
<1>7. SafeUntilGrowth'
  BY <1>4 DEF SafeUntilGrowth
<1> QED
  BY <1>1, <1>4, <1>5, <1>6, <1>7 DEF Kept

LEMMA SfreeStep ==
    ASSUME NEW B, HeapInv(B), ~exact, NEW r \in live, SfreeCall(r)
    PROVE  Kept(B)
<1> DEFINE block == r.start - HeaderWords
<1>1. /\ SfreeFault(heap, block) = "none" /\ heap' = FreeBlock(heap, block)
      /\ live' = live \ {r} /\ fault' = "none"
  BY DEF SfreeCall, HeapFault
<1>2. Good(heap, B) /\ InBlocks(heap, B, live) /\ (heap.total_size = Words => Exact(heap, B))
  BY DEF HeapInv
<1>3. \E C : /\ Good(heap', C) /\ heap'.total_size = heap.total_size
             /\ Exact(heap, B) => Exact(heap', C)
             /\ Untouched(heap, B, heap', C)
             /\ InBlocks(heap', C, live \ {r})
  <2> HIDE DEF block
  <2> QED
    BY <1>1, <1>2, Free DEF block
<1>4. SafeUntilGrowth'
  BY <1>1 DEF SafeUntilGrowth
<1>5. Abstract!Free
  BY <1>1 DEF Abstract!Free
<1> QED
  BY <1>1, <1>2, <1>3, <1>4, <1>5 DEF Kept

\* A step that changes no block and no region.
LEMMA IdleStep ==
    ASSUME NEW B, HeapInv(B), heap' = heap, live' = live, SafeUntilGrowth'
    PROVE  Kept(B)
<1>1. Untouched(heap, B, heap', B)
  BY DEF Untouched
<1> QED
  BY <1>1 DEF HeapInv, Kept

LEMMA SfreeFaultsStep ==
    ASSUME NEW B, HeapInv(B), ~exact, NEW r \in live, SfreeFaults(r)
    PROVE  Kept(B)
<1> DEFINE block == r.start - HeaderWords
<1>1. SfreeFault(heap, block) # "none" /\ heap' = heap /\ live' = live
  BY DEF SfreeFaults
<1>2. /\ Good(heap, B) /\ (heap.total_size = Words => Exact(heap, B)) /\ block \in B
  BY DEF HeapInv, InBlocks
<1>3. heap.total_size # Words
  BY <1>1, <1>2, SearchSafe
<1>4. heap.total_size > Words
  BY <1>2, <1>3, TileFacts, SizeFacts DEF Good
<1>5. SafeUntilGrowth'
  BY <1>1, <1>4 DEF SafeUntilGrowth
<1> QED
  BY <1>1, <1>5, IdleStep

LEMMA NextStep ==
    ASSUME NEW B, HeapInv(B), ~exact, SafeUntilGrowth, [Next]_vars
    PROVE  Kept(B)
<1>1. ASSUME NEW n \in Requests, SallocCall(n) PROVE Kept(B)
  BY <1>1, SallocCallStep
<1>2. ASSUME NEW n \in Requests, SallocGrows(n) PROVE Kept(B)
  BY <1>2, SallocGrowsStep
<1>3. ASSUME NEW n \in Requests, SallocGrowsInVain(n) PROVE Kept(B)
  BY <1>3, SallocGrowsInVainStep
<1>4. ASSUME NEW n \in Requests, SallocNull(n) PROVE Kept(B)
  <2>1. heap' = heap /\ live' = live /\ SafeUntilGrowth'
    BY <1>4 DEF SallocNull, SafeUntilGrowth
  <2> QED
    BY <2>1, IdleStep
<1>5. ASSUME NEW r \in live, SfreeCall(r) PROVE Kept(B)
  BY <1>5, SfreeStep
<1>6. ASSUME NEW r \in live, SfreeFaults(r) PROVE Kept(B)
  BY <1>6, SfreeFaultsStep
<1>7. CASE UNCHANGED vars
  <2>1. heap' = heap /\ live' = live /\ SafeUntilGrowth'
    BY <1>7 DEF vars, SafeUntilGrowth
  <2> QED
    BY <2>1, IdleStep
<1> QED
  BY <1>1, <1>2, <1>3, <1>4, <1>5, <1>6, <1>7 DEF Next, Finished

-----------------------------------------------------------------------------
(* The invariant, and what it says about the walks.                        *)

LEMMA InitHeapInv ==
    ASSUME Init
    PROVE  HeapInv({head})
<1> DEFINE h == InitialHeap
           B == {head}
<1>1. heap = h /\ live = {}
  BY DEF Init
<1>2. /\ MaxWords \in Nat /\ Words \in Nat /\ Words >= 4 /\ Words <= MaxWords
      /\ Words % 2 = 0 /\ 0 \in Address /\ head = 0 /\ NULL = -1
  BY SizeFacts, RequestAssumption DEF Address, head, NULL
<1>3. /\ h.total_size = Words /\ h.free_list = 0
      /\ h.size = [a \in Address |-> IF a = 0 THEN Words ELSE 0]
      /\ h.free = [a \in Address |-> a = 0]
      /\ h.prev = [[a \in Address |-> NULL] EXCEPT ![0] = 0]
      /\ h.next_free = [[a \in Address |-> NULL] EXCEPT ![0] = 0]
      /\ h.prev_free = [[a \in Address |-> NULL] EXCEPT ![0] = 0]
  BY DEF InitialHeap, Address, head
<1>4. h \in HeapRecord
  <2>1. h.size \in [Address -> Int] /\ h.free \in [Address -> BOOLEAN]
    BY <1>2, <1>3
  <2>2. [[a \in Address |-> NULL] EXCEPT ![0] = 0] \in [Address -> Pointer]
    BY <1>2 DEF Pointer
  <2>3. Words \in Words .. MaxWords /\ 0 \in Pointer
    BY <1>2 DEF Pointer
  <2> QED
    BY <2>1, <2>2, <2>3 DEF HeapRecord, InitialHeap, Address, head
<1>5. /\ h.size[0] = Words /\ h.free[0] = TRUE /\ h.prev[0] = 0
      /\ h.next_free[0] = 0 /\ h.prev_free[0] = 0
      /\ \A a \in Address : a # 0 => h.prev[a] = NULL
  <2> DEFINE none == [a \in Address |-> NULL]
             mine == [none EXCEPT ![0] = 0]
  <2>1. mine[0] = 0 /\ \A a \in Address : a # 0 => mine[a] = NULL
    BY <1>2
  <2>2. h.prev = mine /\ h.next_free = mine /\ h.prev_free = mine
    BY <1>2, <1>3, Zenon
  <2> HIDE DEF none, mine, h
  <2>3. h.size[0] = Words /\ h.free[0] = TRUE
    <3>1. h.free = [a \in Address |-> a = 0]
      BY <1>3, Zenon
    <3>2. [a \in Address |-> a = 0][0] = TRUE
      BY <1>2, Zenon
    <3>3. h.size[0] = Words
      BY <1>2, <1>3
    <3> QED
      BY <3>1, <3>2, <3>3, Zenon
  <2> QED
    BY <2>1, <2>2, <2>3
<1> HIDE DEF h
<1>6. Tiles(h, B)
  BY <1>2, <1>3, <1>5 DEF Tiles
<1>7. Even(h, B) /\ PrevRight(h, B)
  BY <1>2, <1>5 DEF Even, PrevRight
<1>8. Fresh(h)
  BY <1>2, <1>3, <1>5 DEF Fresh, Address
<1>9. FreeOf(h, B) = {0}
  BY <1>2, <1>5 DEF FreeOf
<1>10. Rings(h, {0})
  BY <1>2, <1>3, <1>5 DEF Rings
<1>11. Good(h, B)
  BY <1>4, <1>6, <1>7, <1>8, <1>9, <1>10 DEF Good
<1>12. Exact(h, B)
  <2>1. next(h, 0) = 0
    BY <1>4, <1>6, NextFacts DEF head
  <2>2. OneRing(h, {0})
    <3>1. \A S \in SUBSET {0} : S # {} => S = {0}
      OBVIOUS
    <3>2. h.free_list # NULL
      BY <1>2, <1>3
    <3> QED
      BY <3>1, <3>2 DEF OneRing
  <2>3. Apart(h, {0})
    BY <1>2, <1>5 DEF Apart
  <2> QED
    BY <1>2, <1>5, <1>9, <2>1, <2>2, <2>3 DEF Exact
<1>13. InBlocks(h, B, {})
  BY DEF InBlocks
<1> QED
  BY <1>1, <1>11, <1>12, <1>13 DEF HeapInv

LEMMA GoodAddresses ==
    ASSUME NEW h, NEW B, Good(h, B)
    PROVE  B \in SUBSET Address
BY TileFacts DEF Good

\* Once a request has fit exactly, that stays so.
LEMMA ExactStays ==
    ASSUME exact, [Next]_vars
    PROVE  exact'
<1>1. ASSUME NEW n \in Requests, NEW h, TryOnce(h, n) PROVE exact'
  BY <1>1, Zenon DEF TryOnce, HandOut
<1>2. ASSUME NEW n \in Requests, SallocCall(n) \/ SallocGrows(n) PROVE exact'
  BY <1>1, <1>2 DEF SallocCall, SallocGrows
<1>3. ASSUME NEW n \in Requests, SallocGrowsInVain(n) \/ SallocNull(n) PROVE exact'
  BY <1>3 DEF SallocGrowsInVain, SallocNull
<1>4. ASSUME NEW r \in live, SfreeCall(r) \/ SfreeFaults(r) PROVE exact'
  BY <1>4 DEF SfreeCall, SfreeFaults
<1>5. CASE UNCHANGED vars
  BY <1>5 DEF vars
<1> QED
  BY <1>2, <1>3, <1>4, <1>5 DEF Next, Finished

\* The inductive invariant: until a request fits exactly, the headers are those of a set of blocks that tile
\* the heap, the links those of free lists, and every region has a block.
THEOREM Invariance == Spec => []Inv
<1>1. Init => Inv
  <2> SUFFICES ASSUME Init PROVE Inv
    OBVIOUS
  <2>1. HeapInv({head})
    BY InitHeapInv
  <2>2. {head} \in SUBSET Address
    BY <2>1, GoodAddresses DEF HeapInv
  <2>3. SafeUntilGrowth
    BY DEF Init, SafeUntilGrowth
  <2> QED
    BY <2>1, <2>2, <2>3 DEF Inv
<1>2. Inv /\ [Next]_vars => Inv'
  <2> SUFFICES ASSUME Inv, [Next]_vars PROVE Inv'
    OBVIOUS
  <2>1. CASE exact
    <3>1. exact'
      BY <2>1, ExactStays
    <3> QED
      BY <3>1 DEF Inv, SafeUntilGrowth
  <2>2. CASE ~exact
    <3>1. PICK B \in SUBSET Address : HeapInv(B)
      BY <2>2 DEF Inv
    <3>2. Kept(B)
      BY <2>2, <3>1, NextStep DEF Inv
    <3>3. CASE exact'
      BY <3>2, <3>3 DEF Inv, Kept
    <3>4. CASE ~exact'
      <4>1. PICK C : /\ Good(heap', C) /\ InBlocks(heap', C, live')
                     /\ heap'.total_size = Words => Exact(heap', C)
        BY <3>2, <3>4, Zenon DEF Kept
      <4>2. C \in SUBSET Address
        BY <4>1, GoodAddresses
      <4> QED
        BY <3>2, <4>1, <4>2 DEF Inv, HeapInv, Kept
    <3> QED
      BY <3>3, <3>4
  <2> QED
    BY <2>1, <2>2
<1> QED
  BY <1>1, <1>2, PTL DEF Spec

\* Until a request fits exactly, however often the heap has grown, the sizes tile it with blocks that can
\* hold a header and the smallest region, and prev pointers are right or null.
THEOREM BlocksTiling == Spec => []BlocksTile
<1>1. ASSUME NEW B, HeapInv(B) PROVE BlocksTile
  <2>1. /\ heap \in HeapRecord /\ Tiles(heap, B) /\ PrevRight(heap, B)
        /\ heap.total_size = Words => \A b \in B : heap.prev[next(heap, b)] = b
    BY <1>1 DEF HeapInv, Good, Exact
  <2>2. Blocks(heap) = B /\ \E k \in 0 .. MaxBlocks : BlockWalk(heap)[k] = heap.total_size
    BY <2>1, BlocksAre
  <2>3. ASSUME NEW b \in B
        PROVE  /\ b < heap.total_size
               /\ heap.size[b] >= sizeof_salloc_t
    BY <2>1, TileFacts DEF sizeof_salloc_t
  <2>4. ASSUME NEW b \in B, b # head, heap.prev[b] # NULL
        PROVE  heap.prev[b] \in B /\ next(heap, heap.prev[b]) = b
    <3>1. heap.prev[b] \in B /\ heap.prev[b] + heap.size[heap.prev[b]] = b
      BY <2>1, <2>4 DEF PrevRight
    <3>2. b # heap.total_size
      BY <2>1, TileFacts
    <3> QED
      BY <2>1, <3>1, <3>2, NextFacts
  <2> QED
    BY <2>1, <2>2, <2>3, <2>4 DEF BlocksTile
<1>2. Inv => BlocksTile
  BY <1>1 DEF Inv, BlocksTile
<1> QED
  BY <1>2, Invariance, PTL

\* Until a request fits exactly, the free list holds free blocks only, in both
\* directions; until the heap has grown, free_list leads to all of them.
THEOREM FreeListIsExact == Spec => []FreeListExact
<1>1. ASSUME NEW B, HeapInv(B) PROVE FreeListExact
  <2> DEFINE L == FreeOf(heap, B)
  <2>1. /\ Good(heap, B) /\ heap \in HeapRecord /\ Tiles(heap, B) /\ Rings(heap, L)
        /\ heap.total_size = Words => OneRing(heap, L)
    BY <1>1 DEF HeapInv, Good, Exact
  <2>2. FreeBlocks = L
    BY <2>1, BlocksAre DEF FreeBlocks, FreeOf
  <2>3. ASSUME heap.free_list # NULL, OneRing(heap, L) PROVE Listed = L
    <3> DEFINE w == FreeWalk(heap)
    <3>1. Listed = {w[k] : k \in Searched(heap)}
      BY DEF Listed
    <3> HIDE DEF w
    <3>2. {w[k] : k \in Searched(heap)} = FreeOf(heap, B)
      BY <2>1, <2>3, SearchVisitsAll DEF w
    <3> QED
      BY <3>1, <3>2
  <2> HIDE DEF L
  <2> QED
    BY <2>1, <2>2, <2>3 DEF FreeListExact, Rings, OneRing
<1>2. Inv => FreeListExact
  BY <1>1 DEF Inv, FreeListExact
<1> QED
  BY <1>2, Invariance, PTL

\* Until the heap has grown or a request fits exactly, no two free blocks are
\* neighbours.
THEOREM Coalesced == Spec => []FullyCoalesced
<1>1. ASSUME NEW B, HeapInv(B) PROVE FullyCoalesced
  <2> SUFFICES ASSUME heap.total_size = Words, NEW b \in FreeBlocks, next(heap, b) # head
               PROVE  ~heap.free[next(heap, b)]
    BY DEF FullyCoalesced
  <2>1. heap \in HeapRecord /\ Tiles(heap, B) /\ Apart(heap, FreeOf(heap, B))
    BY <1>1 DEF HeapInv, Good, Exact
  <2>2. b \in B /\ b \in FreeOf(heap, B)
    BY <2>1, BlocksAre DEF FreeBlocks, FreeOf
  <2>3. next(heap, b) = b + heap.size[b] /\ next(heap, b) \in B
    BY <2>1, <2>2, NextFacts
  <2>4. next(heap, b) \notin FreeOf(heap, B)
    BY <2>1, <2>2, <2>3 DEF Apart
  <2> QED
    BY <2>3, <2>4 DEF FreeOf
<1>2. Inv => FullyCoalesced
  BY <1>1 DEF Inv, FullyCoalesced
<1> QED
  BY <1>2, Invariance, PTL

\* Until the heap has grown or a request fits exactly, no call runs into
\* undefined behaviour: no search meets a null or stale pointer or runs in a
\* circle, no header is written past the end, no region is held twice.
THEOREM Safe == Spec => []SafeUntilGrowth
<1>1. Inv => SafeUntilGrowth
  BY DEF Inv
<1> QED
  BY <1>1, Invariance, PTL

-----------------------------------------------------------------------------
(* The regions.                                                            *)

\* No header lies in a region, and the only links that do are those of the
\* region's own block, which is not free.
LEMMA OwnBlock ==
    ASSUME NEW h, NEW B, Good(h, B), NEW regions, InBlocks(h, B, regions),
           NEW r \in regions, NEW b \in B
    PROVE  /\ {b, b + 1} \cap (r.start .. r.start + r.len - 1) = {}
           /\ {b + 2, b + 3} \cap (r.start .. r.start + r.len - 1) # {} =>
                b = r.start - 2 /\ b \notin FreeOf(h, B)
<1> DEFINE c == r.start - 2
           end == r.start + r.len
<1>1. h \in HeapRecord /\ Tiles(h, B)
  BY DEF Good
<1>2. /\ r \in [start : Address, len : Requests]
      /\ c \in B \ FreeOf(h, B) /\ end <= c + h.size[c]
  BY DEF InBlocks, HeaderWords
<1>3. r.start \in Nat /\ r.len \in Nat /\ end \in Nat /\ c \in Nat /\ r.start = c + 2
  <2>1. r.start \in Nat /\ r.len \in Nat
    BY <1>1, <1>2, TileFacts, RequestAssumption
  <2>2. c \in Nat
    BY <1>1, <1>2, TileFacts
  <2> QED
    BY <2>1, <2>2
<1> HIDE DEF c, end
<1>4. b \in Nat /\ h.size[b] \in Int /\ h.size[b] >= 4 /\ h.size[c] \in Int
  BY <1>1, <1>2, TileFacts
<1>5. c < b => end <= b
  <2>1. c < b => c + h.size[c] <= b
    BY <1>1, <1>2, TileFacts
  <2> QED
    BY <1>2, <1>3, <1>4, <2>1
<1>6. b < c => b + 4 <= c
  <2>1. b < c => b + h.size[b] <= c
    BY <1>1, <1>2, TileFacts
  <2> QED
    BY <1>3, <1>4, <2>1
<1>7. \A a \in r.start .. r.start + r.len - 1 : a \in Int /\ c + 2 <= a /\ a < end
  BY <1>3 DEF end
<1>8. b \notin r.start .. r.start + r.len - 1 /\ b + 1 \notin r.start .. r.start + r.len - 1
  BY <1>3, <1>4, <1>5, <1>6, <1>7
<1>9. b # c => /\ b + 2 \notin r.start .. r.start + r.len - 1
               /\ b + 3 \notin r.start .. r.start + r.len - 1
  BY <1>3, <1>4, <1>5, <1>6, <1>7
<1>10. b = c => b = r.start - 2 /\ b \notin FreeOf(h, B)
  BY <1>2 DEF c
<1> QED
  BY <1>8, <1>9, <1>10, Zenon

LEMMA UntouchedRegion ==
    ASSUME NEW B, Good(heap, B), InBlocks(heap, B, live),
           NEW C, Good(heap', C), InBlocks(heap', C, live'),
           Untouched(heap, B, heap', C), NEW r \in live \cap live'
    PROVE  LeavesAlone(r)
<1> DEFINE words == r.start .. r.start + r.len - 1
<1>1. ASSUME NEW b \in 0 .. MaxWords, {b, b + 1} \cap words # {}
      PROVE  /\ heap'.size[b] = heap.size[b]
             /\ heap'.free[b] = heap.free[b]
             /\ heap'.prev[b] = heap.prev[b]
  <2>1. b \notin B \cup C
    BY <1>1, OwnBlock
  <2> QED
    BY <2>1 DEF Untouched, Address
<1>2. ASSUME NEW b \in 0 .. MaxWords, {b + 2, b + 3} \cap words # {}
      PROVE  /\ heap'.next_free[b] = heap.next_free[b]
             /\ heap'.prev_free[b] = heap.prev_free[b]
  <2>1. b \in B => b = r.start - 2 /\ b \notin FreeOf(heap, B)
    BY <1>2, OwnBlock
  <2>2. b \in C => b = r.start - 2 /\ b \notin FreeOf(heap', C)
    BY <1>2, OwnBlock
  <2>3. r.start - 2 \in B /\ r.start - 2 \in C
    BY DEF InBlocks, HeaderWords
  <2>4. b \notin FreeOf(heap, B) \cup FreeOf(heap', C) \cup (B \ C) \cup (C \ B)
    BY <2>1, <2>2, <2>3 DEF FreeOf
  <2> QED
    BY <2>4 DEF Untouched, Address
<1> QED
  BY <1>1, <1>2, Zenon DEF LeavesAlone, Extent

\* Until a request fits exactly, no call writes to a region that the client
\* holds before and after it.
THEOREM Untouching == Spec => RegionsUntouched
<1>1. Inv /\ [Next]_vars => [~exact' => \A r \in live \cap live' : LeavesAlone(r)]_vars
  <2> SUFFICES ASSUME Inv, [Next]_vars, ~exact', NEW r \in live \cap live'
               PROVE  LeavesAlone(r)
    OBVIOUS
  <2>0. ~exact
    BY ExactStays
  <2>1. PICK B \in SUBSET Address : HeapInv(B)
    BY <2>0 DEF Inv
  <2>2. Kept(B)
    BY <2>0, <2>1, NextStep DEF Inv
  <2>3. PICK C : /\ Good(heap', C) /\ InBlocks(heap', C, live')
                 /\ Untouched(heap, B, heap', C)
    BY <2>2, Zenon DEF Kept
  <2> QED
    BY <2>1, <2>3, UntouchedRegion DEF HeapInv
<1> QED
  BY <1>1, Invariance, PTL DEF Spec, RegionsUntouched

\* The allocator implements the abstract one: up to and with the first request
\* that fits a block exactly, regions that calls hand out lie in the memory and
\* share no word with those that are held.
THEOREM Implementation == Spec => RegionsDisjoint
<1>1. Init => Abstract!AllocInit
  BY DEF Init, Abstract!AllocInit
<1>2. Inv /\ [Next]_vars => [Abstract!Alloc \/ Abstract!Free \/ exact]_live
  <2> SUFFICES ASSUME Inv, [Next]_vars, ~exact
               PROVE  Abstract!Alloc \/ Abstract!Free \/ live' = live
    OBVIOUS
  <2>1. PICK B \in SUBSET Address : HeapInv(B)
    BY DEF Inv
  <2>2. Kept(B)
    BY <2>1, NextStep DEF Inv
  <2> QED
    BY <2>2 DEF Kept
<1> QED
  BY <1>1, <1>2, Invariance, PTL DEF Spec, RegionsDisjoint, Abstract!AllocSpec
=============================================================================
