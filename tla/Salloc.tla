------------------------------- MODULE Salloc -------------------------------
(***************************************************************************)
(* The shared memory allocator of sched_test_app (salloc.c) at the level   *)
(* of its pointers.  The unit of addresses and sizes is the 8-byte word of *)
(* a 64-bit build: a block starts with its size, free bit and prev pointer *)
(* (2 words); next_free and prev_free (2 words) follow, and are the first  *)
(* words of the caller's region while the block is allocated.              *)
(*                                                                         *)
(* The client makes up to MaxAllocs calls of salloc(), with calls of       *)
(* sfree() in between, and gives up (fatal_error) when salloc() returns    *)
(* NULL.  When no block is big enough the code maps another                *)
(* SALLOC_ALLOC_SIZE at the end of the heap; the mapping may fail.         *)
(*                                                                         *)
(* A request that fills a free block exactly is split off a block of size  *)
(* 0, whose header is that of the next block: `exact' says that this has   *)
(* happened.  Calls go on after it, on a heap whose sizes, prev pointers   *)
(* and free list are no longer right; the client is taken not to write     *)
(* over the free list pointers that are now in one of its regions.         *)
(*                                                                         *)
(* `fault' says how a run ends in undefined behaviour.  On a heap that has *)
(* grown, or after an exact fit, a null or stale pointer is dereferenced   *)
(* or a search goes on for ever (increase_heap_size() links the new block  *)
(* into the free list but not into the list of all blocks).  After an      *)
(* exact fit a header may also be written past the end of the heap, a      *)
(* region be handed out that is held, or a free block have words that the  *)
(* client holds.                                                           *)
(***************************************************************************)
EXTENDS Integers, FiniteSets

CONSTANTS
    Words,        \* SALLOC_ALLOC_SIZE
    MaxGrowths,   \* how often the heap may grow
    Requests,     \* sizes passed to salloc()
    MaxAllocs,    \* how often salloc() is called
    WordSize      \* number of values of a size_t

NULL == -1
head == 0

VARIABLES
    heap,     \* the block headers and free_list
    live,     \* the regions the client holds
    allocs,   \* calls of salloc() so far
    exited,   \* the client has met a NULL
    exact,    \* a request has filled a free block exactly
    fault     \* undefined behaviour that a call has run into

vars == <<heap, live, allocs, exited, exact, fault>>

\* The words the heap can have in the end.
MaxWords == Words * (MaxGrowths + 1)

\* The client goes on calling.
Running == ~exited /\ fault = "none"

HeaderWords == 2     \* offset of region_start
sizeof_salloc_t == 4

\* _usable_size: an unsigned subtraction
usable_size(size) == (size - HeaderWords) % WordSize

SALLOC_SMALLEST_REGION == usable_size(sizeof_salloc_t)

ASSUME RequestAssumption ==
    /\ Words \in Nat /\ Words >= sizeof_salloc_t /\ MaxGrowths \in Nat
    /\ WordSize \in Nat /\ MaxWords < WordSize /\ Words % 2 = 0
    /\ Requests \subseteq Nat
    /\ MaxAllocs \in Nat

-----------------------------------------------------------------------------
(* Pointers.  h is the heap a statement finds, b a block.                  *)

past_end(h, b) == b >= h.total_size

\* No list of blocks is longer than this.
MaxBlocks == MaxWords \div sizeof_salloc_t

\* next: an address is a number of words that wraps
next(h, b) ==
    LET after == (b + h.size[b]) % WordSize
    IN  IF past_end(h, after) THEN head ELSE after

\* Variant: the new block does not know the block before it.
InsertOneSided(h, list, node) == [h EXCEPT !.prev[next(h, node)] = node]

\* insert: node into the list of all blocks, after list
insert(h, list, node) ==
    LET h1 == [h EXCEPT !.prev[node] = list]
    IN  [h1 EXCEPT !.prev[next(h1, node)] = node]

\* Variant: the block after node keeps pointing at it.
RemoveOneSided(h, node) == [h EXCEPT !.prev[node] = NULL]

\* list_remove
list_remove(h, node) ==
    [h EXCEPT !.prev = [h.prev EXCEPT ![next(h, node)] = h.prev[node],
                                      ![node] = NULL]]

\* insert_free: node into the free list, after list
insert_free(h, list, node) ==
    LET after == h.next_free[list]
        n1 == [h.next_free EXCEPT ![node] = after]
        n2 == [n1 EXCEPT ![list] = node]
        p1 == [h.prev_free EXCEPT ![node] = list]
        p2 == [p1 EXCEPT ![n2[node]] = node]
    IN  [h EXCEPT !.next_free = n2, !.prev_free = p2, !.free[node] = TRUE]

\* Variant: free_list keeps pointing at the block that leaves the list.
FreeListNotMoved(h, node, combined) == h.free_list

\* list_remove_free: where free_list points afterwards
FreeListWithout(h, node, combined) ==
    CASE node # h.free_list -> h.free_list
      [] node = h.free_list /\ h.prev_free[node] = node -> NULL
      [] node = h.free_list /\ h.prev_free[node] # node /\ combined ->
           h.prev_free[node]
      [] OTHER -> h.next_free[node]

\* list_remove_free.  When node is the only free block its own pointers are
\* read again after the two assignments, which leave them as they are.
list_remove_free(h, node, combined) ==
    LET n1 == [h.next_free EXCEPT ![h.prev_free[node]] = h.next_free[node]]
        p1 == [h.prev_free EXCEPT ![n1[node]] = h.prev_free[node]]
    IN  [h EXCEPT !.free_list = FreeListWithout(h, node, combined),
                  !.next_free = [n1 EXCEPT ![node] = NULL],
                  !.prev_free = [p1 EXCEPT ![node] = NULL],
                  !.free[node] = FALSE]

\* coalesce, first half: combine with the free block that follows
CombineNext(h, block) ==
    LET n == next(h, block)
        h1 == [h EXCEPT !.size[block] = @ + h.size[n]]
    IN  IF n # head /\ h.free[n]
        THEN list_remove_free(list_remove(h1, n), n, TRUE)
        ELSE h

\* coalesce, second half: combine with the free block that precedes
CombinePrev(h, block) ==
    LET p == h.prev[block]
        h1 == [h EXCEPT !.size[p] = @ + h.size[block]]
    IN  IF block # head /\ h.free[p]
        THEN list_remove_free(list_remove(h1, block), block, TRUE)
        ELSE h

\* Variant: a freed block is combined with its successor only.
CoalesceForward(h, block) == CombineNext(h, block)

coalesce(h, block) == CombinePrev(CombineNext(h, block), block)

\* init_salloc
InitialHeap ==
    LET none == [b \in 0 .. MaxWords |-> NULL]
    IN  [total_size |-> Words,
         size |-> [b \in 0 .. MaxWords |-> IF b = head THEN Words ELSE 0],
         free |-> [b \in 0 .. MaxWords |-> b = head],
         prev |-> [none EXCEPT ![head] = head],
         next_free |-> [none EXCEPT ![head] = head],
         prev_free |-> [none EXCEPT ![head] = head],
         free_list |-> head]

\* increase_heap_size: the new block is free, its prev is the 0 of a fresh
\* mapping, and no prev points at it.
NewBlock(h) ==
    LET new == h.total_size
    IN  [h EXCEPT !.total_size = @ + Words, !.size[new] = Words,
                  !.free[new] = TRUE]

\* increase_heap_size when no block is free: a free list of one.
increase_heap_size(h) ==
    LET new == h.total_size
    IN  [NewBlock(h) EXCEPT !.free_list = new, !.next_free[new] = new,
                            !.prev_free[new] = new]

-----------------------------------------------------------------------------
(* salloc() and sfree().                                                   *)

\* salloc: "Align size to multiple of SALLOC_SMALLEST_REGION"
align(n) ==
    IF n < SALLOC_SMALLEST_REGION THEN SALLOC_SMALLEST_REGION
    ELSE n + (n % SALLOC_SMALLEST_REGION)

\* The free list in the order of the search of _salloc.
FreeWalk(h) ==
    LET walk[k \in 0 .. MaxBlocks] ==
          IF k = 0 THEN h.free_list ELSE h.next_free[walk[k - 1]]
    IN  walk

\* The positions of the search, up to the one that is back at free_list.
Searched(h) ==
    LET walk == FreeWalk(h)
    IN  {k \in 0 .. MaxBlocks : \A j \in 1 .. k : walk[j] # h.free_list}

\* _salloc: the blocks that are big enough, by position
Fits(h, size) ==
    LET walk == FreeWalk(h)
    IN  {k \in Searched(h) : usable_size(h.size[walk[k]]) >= size}

\* Variant: the header of the block that is split is forgotten.
BottomHalfTooLow(curr, size) == curr + size

\* _salloc: region_start(curr) + size
BottomHalf(curr, size) == curr + HeaderWords + size

\* _salloc: curr is split behind a region of that size; the rest is free, and
\* curr still is in the free list.
Split(h, curr, size) ==
    LET split_size == usable_size(h.size[curr]) - size
        bottom_half == BottomHalf(curr, size)
        h1 == [h EXCEPT !.size = [h.size EXCEPT ![bottom_half] = split_size,
                                                ![curr] = (@ - split_size) % WordSize],
                        !.free = [h.free EXCEPT ![bottom_half] = TRUE,
                                                ![curr] = FALSE]]
    IN  insert_free(insert(h1, curr, bottom_half), curr, bottom_half)

\* _salloc: what is left behind the region would be too small for a block.
TakenWhole(h, curr, size) ==
    usable_size(usable_size(h.size[curr]) - size) < SALLOC_SMALLEST_REGION

\* Variant: a block that is not split stays in the free list.
TakeWholeKept(h, curr, size) ==
    IF TakenWhole(h, curr, size) THEN h
    ELSE list_remove_free(Split(h, curr, size), curr, FALSE)

\* _salloc: the block is handed out whole, or split
TakeBlock(h, curr, size) ==
    IF TakenWhole(h, curr, size) THEN list_remove_free(h, curr, FALSE)
    ELSE list_remove_free(Split(h, curr, size), curr, FALSE)

\* The block that the search of _salloc ends at.
FirstFit(h, size) ==
    LET first == CHOOSE k \in Fits(h, size) : \A j \in Fits(h, size) : k <= j
    IN  FreeWalk(h)[first]

CanFit(h, size) == h.free_list # NULL /\ Fits(h, size) # {}

\* The first block that is big enough has exactly that size: split_size is 0,
\* and _usable_size(split_size) wraps to a huge number.
ExactFit(h, n) == usable_size(h.size[FirstFit(h, align(n))]) = align(n)

\* The header of the block that is split off lies in the heap.
HeaderMapped(h, curr, size) ==
    TakenWhole(h, curr, size) \/ BottomHalf(curr, size) + sizeof_salloc_t <= h.total_size

Extent(r) == r.start .. r.start + r.len - 1

\* The headers there are after an exact fit, when sizes do not lead to them.
Headers(h, regions) ==
    {b \in 0 .. MaxWords : h.free[b]} \cup {r.start - HeaderWords : r \in regions}

\* A free block has words that the client holds, or ends where none begins.
FreeOverHeld(h, regions) ==
    \E b \in 0 .. MaxWords :
        /\ h.free[b] /\ h.size[b] # 0
        /\ \/ b + h.size[b] \notin Headers(h, regions) \cup {h.total_size}
           \/ \E r \in regions : (b .. b + h.size[b] - 1) \cap Extent(r) # {}

\* What is wrong with the heap a call leaves, once a request has fit exactly.
HeapFault ==
    IF exact' /\ FreeOverHeld(heap', live') THEN "free_over_held" ELSE "none"

\* _salloc with a block that is big enough, for n words from heap h: a region.
HandOut(h, n) ==
    LET curr == FirstFit(h, align(n))
        region == [start |-> curr + HeaderWords, len |-> n]
    IN  /\ exact' = (exact \/ ExactFit(h, n))
        /\ \/ /\ ~HeaderMapped(h, curr, align(n))
              /\ heap' = h /\ live' = live
              /\ fault' = "past_end"
           \/ /\ HeaderMapped(h, curr, align(n))
              /\ heap' = TakeBlock(h, curr, align(n))
              /\ live' = live \cup {region}
              /\ fault' = IF \E r \in live : Extent(r) \cap Extent(region) # {}
                           THEN "held_twice" ELSE HeapFault
        /\ UNCHANGED exited

\* _salloc without a retry, for n words from heap h: a region, or NULL.
TryOnce(h, n) ==
    \/ CanFit(h, align(n)) /\ HandOut(h, n)
    \/ /\ ~CanFit(h, align(n))
       /\ exited' = TRUE
       /\ heap' = h /\ UNCHANGED <<live, exact, fault>>

\* A call of salloc(), counted.
Call == Running /\ allocs < MaxAllocs /\ allocs' = allocs + 1

\* A call of salloc() with a block that is big enough.
SallocCall(n) == Call /\ CanFit(heap, align(n)) /\ TryOnce(heap, n)

CanGrow == heap.total_size + Words <= MaxWords

\* No block is free: the heap grows, and the new block is tried.
SallocGrows(n) ==
    /\ Call /\ CanGrow
    /\ heap.free_list = NULL
    /\ TryOnce(increase_heap_size(heap), n)

\* Blocks are free, but none is big enough: the heap grows, and coalesce(new)
\* looks at the block before the new one through new->prev, which is null.
SallocGrowsInVain(n) ==
    /\ Call /\ CanGrow
    /\ heap.free_list # NULL /\ ~CanFit(heap, align(n))
    /\ LET last == heap.prev_free[heap.free_list]
       IN  heap' = insert_free(NewBlock(heap), last, heap.total_size)
    /\ fault' = "null_pointer"
    /\ UNCHANGED <<live, exited, exact>>

\* A call of salloc() that returns NULL: no block is big enough, and
\* increase_heap_size() cannot map more memory.
SallocNull(n) ==
    /\ Call
    /\ ~CanFit(heap, align(n))
    /\ exited' = TRUE
    /\ UNCHANGED <<heap, live, exact, fault>>

\* The blocks of a heap, reached from head over the sizes.
BlockWalk(h) ==
    LET after == [b \in Nat |-> IF past_end(h, b) THEN h.total_size ELSE b + h.size[b]]
        walk[k \in 0 .. MaxBlocks] == IF k = 0 THEN head ELSE after[walk[k - 1]]
    IN  walk

Blocks(h) ==
    LET walk == BlockWalk(h)
    IN  {walk[k] : k \in 0 .. MaxBlocks} \ {h.total_size}

\* sfree: the search backwards through all blocks for a free one
PrevWalk(h, block) ==
    LET before == [b \in Int |-> IF b = NULL THEN NULL ELSE h.prev[b]]
        walk[k \in 0 .. MaxBlocks] ==
          IF k = 0 THEN h.prev[block] ELSE before[walk[k - 1]]
    IN  walk

\* The blocks there are for that search.
SearchedBlocks(h) == IF exact THEN Headers(h, live) ELSE Blocks(h)

\* Positions at which that search stops: a free block, block itself, or an
\* address at which there is no block.
Stops(h, block) ==
    LET walk == PrevWalk(h, block)
        blocks == SearchedBlocks(h)
    IN  {k \in 0 .. MaxBlocks : \/ walk[k] \notin blocks
                                \/ walk[k] = block /\ k > 0
                                \/ h.free[walk[k]]}

\* Where it stops first.
PreviousFree(h, block) ==
    LET first == CHOOSE k \in Stops(h, block) :
                    \A j \in Stops(h, block) : k <= j
    IN  PrevWalk(h, block)[first]

\* What is wrong with the search: prev pointers that have missed the growth of
\* the heap lead it in a circle without block, or to what is no block.  After
\* the search, coalesce combines a block of size 0 with itself, which makes its
\* prev null, and reads that.
SfreeFault(h, block) ==
    CASE Stops(h, block) = {} -> "endless_search"
      [] Stops(h, block) # {} /\ PreviousFree(h, block) = NULL -> "null_pointer"
      [] Stops(h, block) # {} /\ PreviousFree(h, block) \notin SearchedBlocks(h) \cup {NULL} ->
           "stale_pointer"
      [] Stops(h, block) # {} /\ PreviousFree(h, block) \in SearchedBlocks(h) \ {block}
         /\ h.size[block] = 0 /\ block # head -> "null_pointer"
      [] OTHER -> "none"

FreeBlock(h, block) ==
    LET curr == PreviousFree(h, block)
    IN  IF curr = block
        THEN [h EXCEPT !.free_list = block, !.next_free[block] = block,
                       !.prev_free[block] = block, !.free[block] = TRUE]
        ELSE coalesce(insert_free(h, curr, block), block)

SfreeCall(r) ==
    /\ Running /\ r \in live
    /\ SfreeFault(heap, r.start - HeaderWords) = "none"
    /\ heap' = FreeBlock(heap, r.start - HeaderWords)
    /\ live' = live \ {r}
    /\ UNCHANGED <<allocs, exited, exact>>
    /\ fault' = HeapFault

\* The search of sfree() reads a null pointer or a header that is none, or
\* does not return.
SfreeFaults(r) ==
    /\ Running /\ r \in live
    /\ SfreeFault(heap, r.start - HeaderWords) # "none"
    /\ fault' = SfreeFault(heap, r.start - HeaderWords)
    /\ UNCHANGED <<heap, live, allocs, exited, exact>>

\* The client has freed everything and makes no more calls, or is gone.
Finished ==
    /\ ~Running \/ (live = {} /\ allocs = MaxAllocs)
    /\ UNCHANGED vars

Init ==
    /\ heap = InitialHeap
    /\ live = {} /\ allocs = 0 /\ exited = FALSE /\ exact = FALSE
    /\ fault = "none"

Next ==
    \/ \E n \in Requests :
         \/ SallocCall(n) \/ SallocGrows(n) \/ SallocGrowsInVain(n) \/ SallocNull(n)
    \/ \E r \in live : SfreeCall(r) \/ SfreeFaults(r)
    \/ Finished

Spec == Init /\ [][Next]_vars

-----------------------------------------------------------------------------
(* Properties.                                                             *)

FreeBlocks == {b \in Blocks(heap) : heap.free[b]}

\* The blocks on the free list.
Listed ==
    LET walk == FreeWalk(heap)
    IN  {walk[k] : k \in Searched(heap)}

\* Until a request fits exactly, the sizes tile the heap with blocks that hold
\* a header and the smallest region, however often it has grown; prev is the
\* block before, or, in the first block and in one that growth has added, may
\* be out of date or null.  Until the heap has grown, too, it is the inverse
\* of next on the ring of all blocks.
BlocksTile ==
    ~exact =>
      /\ \E k \in 0 .. MaxBlocks : BlockWalk(heap)[k] = heap.total_size
      /\ \A b \in Blocks(heap) :
           /\ b < heap.total_size
           /\ heap.size[b] >= sizeof_salloc_t
           /\ LET p == heap.prev[b]
              IN  b # head /\ p # NULL => p \in Blocks(heap) /\ next(heap, p) = b
           /\ heap.total_size = Words => heap.prev[next(heap, b)] = b

\* Until a request fits exactly, prev_free is the inverse of next_free on the
\* free blocks, and free_list is one of them.  It leads to all of them until
\* the heap has grown; then sfree may take the only free block its search can
\* reach for the only one there is.
FreeListExact ==
    ~exact =>
      /\ heap.free_list # NULL => heap.free_list \in FreeBlocks
      /\ \A b \in FreeBlocks :
           /\ heap.next_free[b] \in FreeBlocks
           /\ heap.prev_free[heap.next_free[b]] = b
      /\ heap.total_size = Words =>
           /\ heap.free_list = NULL <=> FreeBlocks = {}
           /\ heap.free_list # NULL => Listed = FreeBlocks

\* Until a request fits exactly or the heap has grown, no call returns with two
\* free blocks side by side: with everything freed the heap is one block again.
FullyCoalesced ==
    ~exact /\ heap.total_size = Words =>
        \A b \in FreeBlocks :
            next(heap, b) # head => ~heap.free[next(heap, b)]

\* A call leaves a region the client holds before and after it alone: it
\* writes neither the header words of a block that starts in the region, nor
\* the free list pointers of a block whose third and fourth words are in it.
LeavesAlone(r) ==
    \A b \in 0 .. MaxWords :
        /\ {b, b + 1} \cap Extent(r) # {} =>
             /\ heap'.size[b] = heap.size[b]
             /\ heap'.free[b] = heap.free[b]
             /\ heap'.prev[b] = heap.prev[b]
        /\ {b + 2, b + 3} \cap Extent(r) # {} =>
             /\ heap'.next_free[b] = heap.next_free[b]
             /\ heap'.prev_free[b] = heap.prev_free[b]

\* What salloc.c says of the pointers on the free list: "must not be read or
\* written on allocated blocks", whatever is requested.
HeldUntouched == [][\A r \in live \cap live' : LeavesAlone(r)]_vars

\* No call writes to a held region before a request fits exactly.
RegionsUntouched == [][~exact' => \A r \in live \cap live' : LeavesAlone(r)]_vars

\* No call runs into undefined behaviour before the heap has grown or a
\* request has fit exactly.
SafeUntilGrowth == fault # "none" => heap.total_size > Words \/ exact

\* The regions handed out, up to and with the first for a request that fits
\* exactly, are those of an allocator of all the words.
Abstract == INSTANCE Allocator
                WITH Words <- MaxWords, Requests <- Requests, live <- live,
                     corrupted <- exact
RegionsDisjoint == Abstract!AllocSpec
=============================================================================
