-------------------------------- MODULE Pmm --------------------------------
(***************************************************************************)
(* The physical memory manager (kernel/mm/pmm.c): a buddy allocator over   *)
(* the usable regions of the firmware's memory map, with one set of free   *)
(* lists per zone.  The lists are the code's: doubly linked through the    *)
(* page descriptors.                                                       *)
(*                                                                         *)
(* The code is sequential.  Its loops (over the memory map, over a range,  *)
(* splitting, merging) are unrolled into one step per iteration, and no    *)
(* call starts before the previous one has returned.                       *)
(***************************************************************************)
EXTENDS Integers, FiniteSets, FiniteSetsExt, SequencesExt

CONSTANTS
    PMM_MAX_ORDER,   \* 11 in the code
    Size,            \* Size[o] = 1 << o
    NPages,          \* page descriptors: frames 0 .. NPages - 1
    LowEnd,          \* first frame above 1MB; the kernel image starts here
    KernelEnd,       \* first frame above the kernel image (2MB)
    DmaEnd,          \* first frame above 16MB
    NormalEnd,       \* first frame above 896MB
    Maps,            \* the memory maps the firmware may give
    NULL

Orders == 0..PMM_MAX_ORDER
Pfn == 0..(NPages - 1)
DMA == "DMA"
NORMAL == "Normal"
HIGHMEM == "HighMem"
Zones == {DMA, NORMAL, HIGHMEM}

ASSUME OrderAssumption ==
    /\ PMM_MAX_ORDER \in Nat
    /\ Size \in [Orders -> Nat]
    /\ Size[0] = 1
    /\ \A o \in Orders : o > 0 => Size[o] = 2 * Size[o - 1]
ASSUME LayoutAssumption ==
    /\ {NPages, LowEnd, KernelEnd, DmaEnd, NormalEnd} \subseteq Nat
    /\ 0 < LowEnd /\ LowEnd < KernelEnd /\ KernelEnd < DmaEnd
    /\ DmaEnd < NormalEnd /\ NormalEnd <= NPages
    /\ DmaEnd % Size[PMM_MAX_ORDER] = 0 /\ NormalEnd % Size[PMM_MAX_ORDER] = 0
\* A memory map is a sequence of disjoint entries, given in frames.
ASSUME MapAssumption ==
    \A map \in Maps :
        /\ map \in Seq([base : Pfn, end : 0..NPages, usable : BOOLEAN])
        /\ \A j, k \in 1..Len(map) :
              j < k => map[j].end <= map[k].base \/ map[k].end <= map[j].base
ASSUME NullAssumption == NULL \notin Pfn

VARIABLES
    flags, ref_count, order, next, prev,     \* the page descriptors
    free_list, free_count, free_pages, total_pages,   \* the zones
    Map,     \* the memory map of this machine: read only
    total_page_frames, pmm_ready,
    pc,      \* which loop is running, "idle" between calls
    zone,    \* locals of the running call: its zone,
    cur,     \*   the frame it works on,
    ord,     \*   the order it has reached,
    goal,    \*   where it stops (an order or a frame),
    i,       \*   and pmm_init's index into the map
    live     \* history: the blocks <<pfn, order>> the callers hold

pages == <<flags, ref_count, order, next, prev>>
lists == <<free_list, free_count, free_pages>>
conf  == <<Map, total_pages, total_page_frames, pmm_ready>>
regs  == <<pc, zone, cur, ord, goal, i>>
vars  == <<pages, lists, conf, regs, live>>

pfn_valid(pfn) == pfn < total_page_frames

\* Mutant: the buddy is always the block to the right.
buddy_pfn_Right(pfn, o) == pfn + Size[o]

\* pfn ^ (1 << o)
buddy_pfn(pfn, o) == IF (pfn \div Size[o]) % 2 = 0 THEN pfn + Size[o] ELSE pfn - Size[o]

select_zone(pfn) == CASE pfn < DmaEnd -> DMA
                      [] pfn >= DmaEnd /\ pfn < NormalEnd -> NORMAL
                      [] OTHER -> HIGHMEM

ZoneEnd(z) == CASE z = DMA -> DmaEnd [] z = NORMAL -> NormalEnd [] OTHER -> NPages

\* The largest order whose block is aligned at pfn and ends by `end`; 0 if
\* there is none.
RangeOrder(pfn, end) ==
    Max({0} \cup {o \in Orders : pfn % Size[o] = 0 /\ pfn + Size[o] <= end})

\* The call returns: its locals are gone.
Return == pc' = "idle" /\ zone' = DMA /\ cur' = 0 /\ ord' = 0 /\ goal' = 0

----------------------------------------------------------------------------
\* The free lists.

\* Put the block of order o at frame p at the head of its list.
Push(z, p, o) ==
    LET head == free_list[z][o] IN
    /\ flags' = [flags EXCEPT ![p] = {"FREE"}]
    /\ order' = [order EXCEPT ![p] = o]
    /\ next' = [next EXCEPT ![p] = head]
    /\ prev' = [q \in Pfn |-> IF q = head THEN p ELSE IF q = p THEN NULL ELSE prev[q]]
    /\ free_list' = [free_list EXCEPT ![z][o] = p]
    /\ free_count' = [free_count EXCEPT ![z][o] = @ + 1]
    /\ free_pages' = [free_pages EXCEPT ![z] = @ + Size[o]]

\* Mutant: the successor's prev is not updated.
Unlink_StalePrev(z, p, o) ==
    /\ next' = IF prev[p] = NULL THEN next ELSE [next EXCEPT ![prev[p]] = next[p]]
    /\ free_list' = IF prev[p] = NULL THEN [free_list EXCEPT ![z][o] = next[p]]
                                      ELSE free_list
    /\ free_count' = [free_count EXCEPT ![z][o] = @ - 1]
    /\ free_pages' = [free_pages EXCEPT ![z] = @ - Size[o]]
    /\ UNCHANGED prev

\* Take the block at frame p, of order o, out of its list, wherever it is.
Unlink(z, p, o) ==
    /\ next' = IF prev[p] = NULL THEN next ELSE [next EXCEPT ![prev[p]] = next[p]]
    /\ free_list' = IF prev[p] = NULL THEN [free_list EXCEPT ![z][o] = next[p]]
                                      ELSE free_list
    /\ prev' = IF next[p] = NULL THEN prev ELSE [prev EXCEPT ![next[p]] = prev[p]]
    /\ free_count' = [free_count EXCEPT ![z][o] = @ - 1]
    /\ free_pages' = [free_pages EXCEPT ![z] = @ - Size[o]]

\* Take the first block p off its list.
PopHead(z, p, o) ==
    /\ free_list' = [free_list EXCEPT ![z][o] = next[p]]
    /\ prev' = IF next[p] = NULL THEN prev ELSE [prev EXCEPT ![next[p]] = NULL]
    /\ free_count' = [free_count EXCEPT ![z][o] = @ - 1]
    /\ free_pages' = [free_pages EXCEPT ![z] = @ - Size[o]]
    /\ UNCHANGED next

----------------------------------------------------------------------------
\* Static storage is zeroed; pmm_init starts.
Init ==
    /\ flags = [p \in Pfn |-> {}] /\ ref_count = [p \in Pfn |-> 0]
    /\ order = [p \in Pfn |-> 0]
    /\ next = [p \in Pfn |-> NULL] /\ prev = [p \in Pfn |-> NULL]
    /\ free_list = [z \in Zones |-> [o \in Orders |-> NULL]]
    /\ free_count = [z \in Zones |-> [o \in Orders |-> 0]]
    /\ free_pages = [z \in Zones |-> 0] /\ total_pages = [z \in Zones |-> 0]
    /\ Map \in Maps
    /\ total_page_frames = 0 /\ pmm_ready = FALSE
    /\ pc = "map" /\ zone = DMA /\ cur = 0 /\ ord = 0 /\ goal = 0 /\ i = 1
    /\ live = {}

\* The usable part of a map entry: above 1MB.
EntryStart(e) == IF e.base < LowEnd THEN LowEnd ELSE e.base
EntryTaken(e) == e.usable /\ e.end > LowEnd /\ e.end > EntryStart(e)

\* Next entry of the map: mark its descriptors free and start adding its
\* frames to the zone its first frame is in.
InitEntry ==
    /\ pc = "map" /\ i <= Len(Map)
    /\ LET e == Map[i]
           start == EntryStart(e)
           range == start..(e.end - 1)
           z == select_zone(start)
       IN  IF EntryTaken(e)
           THEN /\ total_page_frames' = IF e.end > total_page_frames THEN e.end
                                                                    ELSE total_page_frames
                /\ flags' = [p \in Pfn |-> IF p \in range THEN {"FREE"} ELSE flags[p]]
                /\ ref_count' = [p \in Pfn |-> IF p \in range THEN 0 ELSE ref_count[p]]
                /\ next' = [p \in Pfn |-> IF p \in range THEN NULL ELSE next[p]]
                /\ prev' = [p \in Pfn |-> IF p \in range THEN NULL ELSE prev[p]]
                /\ pc' = "range" /\ zone' = z /\ cur' = start
                /\ goal' = IF e.end > ZoneEnd(z) THEN ZoneEnd(z) ELSE e.end
                /\ UNCHANGED i
           ELSE /\ i' = i + 1
                /\ UNCHANGED <<total_page_frames, flags, ref_count, next, prev, pc, zone, cur, goal>>
    /\ UNCHANGED <<order, lists, Map, total_pages, pmm_ready, ord, live>>

\* One iteration of buddy_free_range, for the entry's own zone ("range") or
\* for the part of it that lies in NORMAL ("span").
FreeRangeStep ==
    /\ pc \in {"range", "span"} /\ cur < goal
    /\ LET o == RangeOrder(cur, goal) IN
       /\ Push(zone, cur, o)
       /\ cur' = cur + Size[o]
    /\ UNCHANGED <<ref_count, conf, pc, zone, ord, goal, i, live>>

\* The NORMAL part of an entry.
SpanStart(e) == IF EntryStart(e) > DmaEnd THEN EntryStart(e) ELSE DmaEnd
SpanEnd(e) == IF e.end < NormalEnd THEN e.end ELSE NormalEnd
Spans(e) == e.end > DmaEnd /\ EntryStart(e) < NormalEnd /\ SpanStart(e) < SpanEnd(e)

\* The first range is in its lists: go on to the NORMAL zone if the entry
\* reaches it.
SpanStep ==
    /\ pc = "range" /\ cur >= goal
    /\ pc' = "span"
    /\ IF Spans(Map[i])
       THEN zone' = NORMAL /\ cur' = SpanStart(Map[i]) /\ goal' = SpanEnd(Map[i])
       ELSE UNCHANGED <<zone, cur, goal>>
    /\ UNCHANGED <<pages, lists, conf, ord, i, live>>

\* The entry is done: the zone of its first frame is credited with all of it.
EntryDone ==
    /\ pc = "span" /\ cur >= goal
    /\ LET e == Map[i] IN
       total_pages' = [total_pages EXCEPT ![select_zone(EntryStart(e))] = @ + e.end - EntryStart(e)]
    /\ i' = i + 1 /\ pc' = "map"
    /\ UNCHANGED <<pages, lists, Map, total_page_frames, pmm_ready, zone, cur, ord, goal, live>>

\* Mark the kernel image, and accept calls.
ReserveKernel ==
    /\ pc = "map" /\ i > Len(Map)
    /\ flags' = [p \in Pfn |-> IF p \in LowEnd..(KernelEnd - 1) THEN {"KERNEL", "RESERVED"}
                                                              ELSE flags[p]]
    /\ ref_count' = [p \in Pfn |-> IF p \in LowEnd..(KernelEnd - 1) THEN 1 ELSE ref_count[p]]
    /\ pmm_ready' = TRUE
    /\ Return
    /\ UNCHANGED <<order, next, prev, lists, Map, total_pages, total_page_frames, i, live>>

----------------------------------------------------------------------------
\* pmm_alloc_pages(o).

\* The orders buddy_alloc can serve the request from in zone z.
Available(z, o) == {f \in Orders : f >= o /\ free_list[z][f] # NULL}

\* NORMAL first, then DMA; the smallest block that is large enough.  When
\* neither zone has one the call returns 0 and changes nothing.
AllocStart(o) ==
    /\ pc = "idle" /\ pmm_ready
    /\ Available(NORMAL, o) \cup Available(DMA, o) # {}
    /\ LET z == IF Available(NORMAL, o) # {} THEN NORMAL ELSE DMA
           f == Min(Available(z, o))
           p == free_list[z][f]
       IN  /\ PopHead(z, p, f)
           /\ zone' = z /\ cur' = p /\ ord' = f /\ goal' = o
    /\ pc' = "split"
    /\ UNCHANGED <<flags, ref_count, order, conf, i, live>>

\* Mutant: the offset of the right half is computed before the order drops.
SplitStep_OldOrder ==
    /\ pc = "split" /\ ord > goal
    /\ ord' = ord - 1
    /\ LET b == cur + Size[ord] IN
       IF pfn_valid(b) THEN Push(zone, b, ord - 1)
                       ELSE UNCHANGED <<flags, order, next, prev, lists>>
    /\ UNCHANGED <<ref_count, conf, pc, zone, cur, goal, i, live>>

\* Halve the block; the right half becomes a free block.
SplitStep ==
    /\ pc = "split" /\ ord > goal
    /\ ord' = ord - 1
    /\ LET b == cur + Size[ord - 1] IN
       IF pfn_valid(b) THEN Push(zone, b, ord - 1)
                       ELSE UNCHANGED <<flags, order, next, prev, lists>>
    /\ UNCHANGED <<ref_count, conf, pc, zone, cur, goal, i, live>>

\* Mutant: the reference count is incremented instead of set.
AllocDone_RefIncremented ==
    /\ pc = "split" /\ ord = goal
    /\ flags' = [flags EXCEPT ![cur] = @ \ {"FREE"}]
    /\ order' = [order EXCEPT ![cur] = goal]
    /\ ref_count' = [ref_count EXCEPT ![cur] = @ + 1]
    /\ live' = live \cup {<<cur, goal>>}
    /\ Return
    /\ UNCHANGED <<next, prev, lists, conf, i>>

AllocDone ==
    /\ pc = "split" /\ ord = goal
    /\ flags' = [flags EXCEPT ![cur] = @ \ {"FREE"}]
    /\ order' = [order EXCEPT ![cur] = goal]
    /\ ref_count' = [ref_count EXCEPT ![cur] = 1]
    /\ live' = live \cup {<<cur, goal>>}
    /\ Return
    /\ UNCHANGED <<next, prev, lists, conf, i>>

----------------------------------------------------------------------------
\* pmm_free_pages(p, o), called with a block its caller holds.
FreeStart(p, o) ==
    /\ pc = "idle" /\ pmm_ready
    /\ <<p, o>> \in live
    /\ live' = live \ {<<p, o>>}
    /\ IF pfn_valid(p)
       THEN /\ ref_count' = [ref_count EXCEPT ![p] = 0]
            /\ pc' = "merge" /\ zone' = select_zone(p) /\ cur' = p /\ ord' = o
       ELSE UNCHANGED <<ref_count, pc, zone, cur, ord>>
    /\ UNCHANGED <<flags, order, next, prev, lists, conf, goal, i>>

\* Mutant: merging stops one order too early.
Mergeable_StopsEarly ==
    LET b == buddy_pfn(cur, ord) IN
    /\ ord < PMM_MAX_ORDER - 1
    /\ pfn_valid(b)
    /\ "FREE" \in flags[b] /\ order[b] = ord

\* The buddy of the block in hand is a free block of the same order.
Mergeable ==
    LET b == buddy_pfn(cur, ord) IN
    /\ ord < PMM_MAX_ORDER
    /\ pfn_valid(b)
    /\ "FREE" \in flags[b] /\ order[b] = ord

MergeStep ==
    /\ pc = "merge" /\ Mergeable
    /\ LET b == buddy_pfn(cur, ord) IN
       /\ Unlink(zone, b, ord)
       /\ flags' = [flags EXCEPT ![b] = {}]
       /\ cur' = IF b < cur THEN b ELSE cur
       /\ ord' = ord + 1
    /\ UNCHANGED <<ref_count, order, conf, pc, zone, goal, i, live>>

FreeDone ==
    /\ pc = "merge" /\ ~Mergeable
    /\ Push(zone, cur, ord)
    /\ Return
    /\ UNCHANGED <<ref_count, conf, i, live>>

----------------------------------------------------------------------------
pmm_init == InitEntry \/ FreeRangeStep \/ SpanStep \/ EntryDone \/ ReserveKernel
pmm_alloc_pages == SplitStep \/ AllocDone \/ \E o \in Orders : AllocStart(o)
pmm_free_pages == MergeStep \/ FreeDone \/ \E b \in live : FreeStart(b[1], b[2])

Next == pmm_init \/ pmm_alloc_pages \/ pmm_free_pages

Spec == Init /\ [][Next]_vars

----------------------------------------------------------------------------
\* Reading the state.

\* A free list read from its head to the NULL that ends it.  A list of
\* blocks of order o without a cycle has at most Longest(o) of them.
Longest(o) == NPages \div Size[o]
Follow(s) == LET p == s[Len(s)] IN IF p = NULL THEN s ELSE Append(s, next[p])
Chain(z, o) ==
    LET chain[n \in 0..Longest(o)] ==
            IF n = 0 THEN <<free_list[z][o]>> ELSE Follow(chain[n - 1])
    IN  chain[Longest(o)]
Ends(z, o) == LET s == Chain(z, o) IN s[Len(s)] = NULL

Listed(z, o) == ToSet(Chain(z, o)) \ {NULL}
FreeBlocks(z) == UNION {{<<p, o>> : p \in Listed(z, o)} : o \in Orders}

Frames(b) == b[1]..(b[1] + Size[b[2]] - 1)

\* The block a running call has taken off the lists.
InHand == IF pc \in {"split", "merge"} THEN {<<cur, ord>>} ELSE {}

\* The frames pmm_init puts into the lists: of each usable entry, those in
\* the zone of its first frame and those in NORMAL.  The frames of the kernel
\* image are among them: the loop that marks them RESERVED leaves them in
\* their lists (KernelStaysReserved below).
Managed ==
    {p \in Pfn : \E k \in 1..Len(Map) :
        /\ EntryTaken(Map[k])
        /\ p \in EntryStart(Map[k])..(Map[k].end - 1)
        /\ select_zone(p) \in {NORMAL, select_zone(EntryStart(Map[k]))}}

Initialised == pc \in {"idle", "split", "merge"}

----------------------------------------------------------------------------
TypeOK ==
    /\ flags \in [Pfn -> SUBSET {"FREE", "KERNEL", "RESERVED"}]
    /\ ref_count \in [Pfn -> {0, 1}]
    /\ order \in [Pfn -> Orders]
    /\ next \in [Pfn -> Pfn \cup {NULL}] /\ prev \in [Pfn -> Pfn \cup {NULL}]
    /\ free_list \in [Zones -> [Orders -> Pfn \cup {NULL}]]
    /\ free_count \in [Zones -> [Orders -> Nat]]
    /\ free_pages \in [Zones -> Nat] /\ total_pages \in [Zones -> Nat]
    /\ total_page_frames \in 0..NPages /\ pmm_ready \in BOOLEAN
    /\ pc \in {"map", "range", "span", "idle", "split", "merge"}
    /\ zone \in Zones /\ cur \in 0..NPages /\ ord \in Orders
    /\ goal \in (0..NPages) \cup Orders
    /\ Map \in Maps /\ i \in 1..(Len(Map) + 1)
    /\ live \subseteq Pfn \X Orders

\* After any sequence of splits and merges every free list is a proper
\* doubly linked list: it ends, prev undoes next, its blocks have its order
\* and lie in its zone, free_count is its length, and the zone's free_pages,
\* which pmm_get_stats reports, the frames of its lists.
ListsWellFormed ==
    /\ \A z \in Zones : free_pages[z] = Cardinality(UNION {Frames(b) : b \in FreeBlocks(z)})
    /\ \A z \in Zones, o \in Orders :
           LET L == Listed(z, o) IN
           /\ Ends(z, o)
           /\ Cardinality(L) = free_count[z][o]
           /\ free_list[z][o] # NULL => prev[free_list[z][o]] = NULL
           /\ \A p \in L : /\ order[p] = o
                            /\ select_zone(p) = z
                            /\ next[p] # NULL => prev[next[p]] = p

\* No frame is in two blocks at once (on a list, with a caller, or in the
\* hands of a running call), and once pmm_init has returned none is lost:
\* together the blocks are exactly the frames pmm_init put into the lists.
\* It says nothing of which frames those should be: they include the kernel
\* image, which KernelStaysReserved is about.
BlocksPartitionMemory ==
    LET blocks == (UNION {FreeBlocks(z) : z \in Zones}) \cup live \cup InHand IN
    /\ \A b, d \in blocks : b # d => Frames(b) \cap Frames(d) = {}
    /\ Initialised => UNION {Frames(b) : b \in blocks} = Managed

\* pmm_alloc_pages(o) returns 0 only if no aligned run of 2^o frames is free
\* in the two zones it serves from: freeing always merges as far as it can.
NoFalseOOM ==
    pc = "idle" =>
        LET free == UNION {Frames(b) : b \in FreeBlocks(DMA) \cup FreeBlocks(NORMAL)} IN
        \A o \in Orders : Available(NORMAL, o) \cup Available(DMA, o) = {} =>
            ~ \E p \in free : p % Size[o] = 0 /\ Frames(<<p, o>>) \subseteq free

\* The allocator implements FrameAllocator: it hands out aligned blocks of
\* frames pmm_init put into the lists, the kernel image's among them, and
\* never a frame another caller holds.
Abstract == INSTANCE FrameAllocator
ImplementsFrameAllocator == Abstract!FSpec

\* "Also add to normal zone if spanning": every frame of an entry enters the
\* lists once, so the lists end.
RangeAddedOnce ==
    \A z \in Zones, o \in Orders : Ends(z, o)

\* "Reserve kernel pages (mark as used)": no caller is given a frame of the
\* kernel image.
KernelStaysReserved ==
    \A b \in live : Frames(b) \cap (LowEnd..(KernelEnd - 1)) = {}
=============================================================================
