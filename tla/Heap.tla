-------------------------------- MODULE Heap --------------------------------
(***************************************************************************)
(* The kernel heap (kernel/mm/heap.c): blocks laid out one after another   *)
(* between heap_start_ptr and heap_brk, each behind a header, and a doubly *)
(* linked list through the headers of the free ones.                       *)
(*                                                                         *)
(* Addresses count units of HEAP_ALIGN bytes from heap_start_ptr.  A       *)
(* header is memory: one that has become the inside of a larger block      *)
(* keeps its contents until somebody writes over them.                     *)
(*                                                                         *)
(* The code is sequential and a call is one step.  Its helpers are         *)
(* operators from a heap to the heap they leave.                           *)
(***************************************************************************)
EXTENDS Integers, FiniteSets, FiniteSetsExt, SequencesExt

CONSTANTS
    HDR,          \* BLOCK_HDR_SIZE in units (2 in the code)
    PAGE,         \* PAGE_SIZE in units (256 in the code)
    HEAP_SIZE,    \* the size given to heap_init, in units
    Sizes,        \* the sizes that are requested, in units
    NULL

Addr == 0..(HEAP_SIZE - 1)

ASSUME HeapAssumption ==
    /\ {HDR, PAGE, HEAP_SIZE} \subseteq Nat \ {0}
    /\ Sizes \subseteq Nat \ {0}
    /\ NULL \notin Addr

VARIABLES
    heap,    \* [hdr, free_list, brk, used_bytes]: the heap's own state
    live,    \* history: the blocks callers hold, in the order of their allocation
    intact   \* history: whatever coalesce joined with a block lay right before it

hvars == <<heap, live, intact>>

MIN_BLOCK == HDR + 1

\* Memory that holds no header.
JUNK == [magic |-> "junk", size |-> 0, prev_phys |-> NULL,
         next_free |-> NULL, prev_free |-> NULL]

AlignUp(n, a) == ((n + a - 1) \div a) * a

----------------------------------------------------------------------------
\* Link block b in at the head of the free list.
Push(h, b) ==
    LET linked == [h.hdr EXCEPT ![b].next_free = h.free_list, ![b].prev_free = NULL] IN
    [h EXCEPT !.hdr = IF h.free_list = NULL THEN linked
                      ELSE [linked EXCEPT ![h.free_list].prev_free = b],
              !.free_list = b]

free_list_remove(h, b) ==
    LET prev == h.hdr[b].prev_free
        next == h.hdr[b].next_free
        back == IF prev = NULL THEN h.hdr ELSE [h.hdr EXCEPT ![prev].next_free = next]
        both == IF next = NULL THEN back ELSE [back EXCEPT ![next].prev_free = prev]
    IN  [h EXCEPT !.hdr = [both EXCEPT ![b].next_free = NULL, ![b].prev_free = NULL],
                  !.free_list = IF prev = NULL THEN next ELSE @]

\* A new free block at the end of the heap, if there is room.
heap_expand(h, min_size) ==
    LET expand == AlignUp(min_size + HDR, PAGE)
        blk == [JUNK EXCEPT !.magic = "FREE", !.size = expand - HDR]
    IN  IF h.brk + expand > HEAP_SIZE THEN h
        ELSE Push([h EXCEPT !.hdr[h.brk] = blk, !.brk = @ + expand], h.brk)

\* Mutant: the block that is split keeps its size.
maybe_split_NoShrink(h, b, size) ==
    IF h.hdr[b].size < size + MIN_BLOCK THEN h
    ELSE LET r == b + HDR + size
             blk == [JUNK EXCEPT !.magic = "FREE", !.size = h.hdr[b].size - size - HDR,
                                 !.prev_phys = b]
         IN  Push([h EXCEPT !.hdr[r] = blk], r)

\* The rest of block b beyond `size` becomes a free block, if it is worth it.
maybe_split(h, b, size) ==
    IF h.hdr[b].size < size + MIN_BLOCK THEN h
    ELSE LET r == b + HDR + size
             blk == [JUNK EXCEPT !.magic = "FREE", !.size = h.hdr[b].size - size - HDR,
                                 !.prev_phys = b]
         IN  Push([h EXCEPT !.hdr[r] = blk, !.hdr[b].size = size], r)

\* Mutant: the header of the absorbed block is forgotten.
JoinNext_NoHeader(h, b) ==
    LET next == b + HDR + h.hdr[b].size IN
    IF next < h.brk /\ h.hdr[next].magic = "FREE"
    THEN [free_list_remove(h, next) EXCEPT !.hdr[b].size = @ + h.hdr[next].size]
    ELSE h

\* Join block b with the free block behind it.
JoinNext(h, b) ==
    LET next == b + HDR + h.hdr[b].size IN
    IF next < h.brk /\ h.hdr[next].magic = "FREE"
    THEN [free_list_remove(h, next) EXCEPT !.hdr[b].size = @ + HDR + h.hdr[next].size]
    ELSE h

\* Join block b with the free block before it, and put the result on the list.
JoinPrev(h, b) ==
    LET prev == h.hdr[b].prev_phys IN
    IF prev # NULL /\ h.hdr[prev].magic = "FREE"
    THEN Push([free_list_remove(h, prev) EXCEPT !.hdr[prev].size = @ + HDR + h.hdr[b].size], prev)
    ELSE Push(h, b)

coalesce(h, b) == JoinPrev(JoinNext(h, b), b)

\* The part s of the free list and one block more.
Follow(h, s) == IF s = <<>> \/ h.hdr[Last(s)].next_free = NULL THEN s
                ELSE Append(s, h.hdr[Last(s)].next_free)

\* The free list from its head; a list with a cycle is cut off.
FreeSeq(h) ==
    LET list[k \in 0..HEAP_SIZE] ==
            IF k > 0 THEN Follow(h, list[k - 1])
            ELSE IF h.free_list = NULL THEN <<>> ELSE <<h.free_list>>
    IN  list[HEAP_SIZE]

\* The first free block that is large enough, or NULL.
FirstFit(h, size) ==
    LET list == FreeSeq(h)
        fits == {k \in DOMAIN list : h.hdr[list[k]].magic = "FREE" /\ h.hdr[list[k]].size >= size}
    IN  IF fits = {} THEN NULL ELSE list[Min(fits)]

----------------------------------------------------------------------------
\* An empty heap, expanded by heap_expand(PAGE_SIZE).
HeapInit ==
    /\ heap = heap_expand([hdr |-> [a \in Addr |-> JUNK], free_list |-> NULL,
                           brk |-> 0, used_bytes |-> 0], PAGE)
    /\ live = <<>> /\ intact = TRUE

\* The heap kmalloc finds its block in: when nothing fits, it expands and
\* tries again.
Searched(size) ==
    IF FirstFit(heap, size) = NULL THEN heap_expand(heap, size) ELSE heap

\* Take block b out of heap h, split it and mark it.
Taken(h, b, size) ==
    LET s == maybe_split(free_list_remove(h, b), b, size) IN
    [s EXCEPT !.hdr[b].magic = "USED", !.used_bytes = @ + s.hdr[b].size]

\* Whoever writes the first n units of block b destroys the headers that have
\* become part of them.
Written(h, b, n) ==
    LET inside == (b + HDR)..(b + HDR + n - 1) IN
    [h EXCEPT !.hdr = [a \in Addr |-> IF a \in inside THEN JUNK ELSE h.hdr[a]]]

\* The owner of block b writes all of it or leaves it as it is.
WrittenOrNot(h, b) == {h, Written(h, b, h.hdr[b].size)}

\* When nothing fits and the heap cannot be expanded the call returns NULL
\* and changes nothing.
kmalloc(size) ==
    LET b == FirstFit(Searched(size), size)
        t == Taken(Searched(size), b, size)
    IN  /\ b # NULL
        /\ heap' \in WrittenOrNot(t, b)
        /\ live' = Append(live, [blk |-> b, size |-> t.hdr[b].size])
        /\ UNCHANGED intact

MarkedFree(h, b) == [h EXCEPT !.hdr[b].magic = "FREE", !.used_bytes = @ - h.hdr[b].size]

\* A header that is not USED is reported and left alone.
Freed(h, b) == IF h.hdr[b].magic # "USED" THEN h ELSE coalesce(MarkedFree(h, b), b)

\* If coalesce joins block b with the one prev_phys names, that one is on the
\* free list and ends where b begins.  prev_phys is written when a block is
\* split off and never again: in between, the block it names can have been
\* joined, given out or split, and what it points at can be the inside of
\* another block.
JoinsNeighbour(h, b) ==
    LET prev == h.hdr[b].prev_phys IN
    \/ prev = NULL
    \/ h.hdr[prev].magic # "FREE"
    \/ prev \in ToSet(FreeSeq(h)) /\ prev + HDR + h.hdr[prev].size = b

FreedRight(h, b) == h.hdr[b].magic = "USED" => JoinsNeighbour(JoinNext(MarkedFree(h, b), b), b)

\* kfree of the k-th block that callers hold.
kfree(k) ==
    /\ heap' = Freed(heap, live[k].blk)
    /\ live' = RemoveAt(live, k)
    /\ intact' = FreedRight(heap, live[k].blk)

\* krealloc of the k-th block to a size it does not have: the contents are
\* copied into a new block, and the old one is freed.
krealloc(k, size) ==
    LET old == live[k].blk
        b == FirstFit(Searched(size), size)
        t == Taken(Searched(size), b, size)
        copied == Written(t, b, heap.hdr[old].size)
    IN  /\ heap.hdr[old].size < size
        /\ b # NULL
        /\ heap' \in WrittenOrNot(Freed(copied, old), b)
        /\ live' = Append(RemoveAt(live, k), [blk |-> b, size |-> t.hdr[b].size])
        /\ intact' = FreedRight(copied, old)

----------------------------------------------------------------------------
\* Callers give back what they hold in any order.
Calls ==
    /\ intact
    /\ \/ \E size \in Sizes : kmalloc(size)
       \/ \E k \in DOMAIN live : kfree(k) \/ \E size \in Sizes : krealloc(k, size)

\* Once coalesce has joined the wrong block, callers' memory is written over:
\* the model ends.
Corrupted == ~ intact /\ UNCHANGED hvars

HeapNext == Calls \/ Corrupted

HeapSpec == HeapInit /\ [][HeapNext]_hvars

----------------------------------------------------------------------------
Listed == ToSet(FreeSeq(heap))
Extent(b) == b..(b + HDR + heap.hdr[b].size - 1)
LiveBlocks == {live[k].blk : k \in DOMAIN live}

\* The sizes of the blocks in s, together.
SizeSum(s) ==
    LET sum[k \in 0..Len(s)] == IF k = 0 THEN 0 ELSE sum[k - 1] + s[k].size
    IN  sum[Len(s)]

\* "Coalesce with previous physical block": whichever order callers free in,
\* no caller's memory is part of another block, given out or free.
BlocksApart ==
    /\ Cardinality(LiveBlocks) = Len(live)
    /\ \A b, d \in LiveBlocks \cup Listed : b # d => Extent(b) \cap Extent(d) = {}

\* The same, as long as the block coalesce joined through prev_phys was the
\* one right before: the splits, the join with the next block, the expansion
\* and the links of the free list are right for any order of the calls.
BlocksDisjoint == intact => BlocksApart

\* Up to a wrong join nothing is lost: the blocks given out and the free ones
\* fill the heap, and used_bytes, which heap_get_stats reports, is what callers
\* hold.
NothingLeaks ==
    intact => /\ UNION {Extent(b) : b \in LiveBlocks \cup Listed} = 0..(heap.brk - 1)
              /\ heap.used_bytes = SizeSum(live)
=============================================================================
