--------------------------- MODULE FrameAllocator ---------------------------
(***************************************************************************)
(* What the physical memory manager gives the paging code: a block it      *)
(* hands out is an aligned run of frames the firmware reported usable, and *)
(* no frame of it belongs to another block until it has been given back.   *)
(* Which free block is chosen, and when an allocation fails, is open.      *)
(* Usable is the firmware's word: where its map covers the kernel image,   *)
(* the frames of the image are not excepted (see Pmm.KernelStaysReserved). *)
(***************************************************************************)
EXTENDS Naturals

CONSTANTS Orders,    \* 0 .. PMM_MAX_ORDER
          Size       \* Size[o]: how many frames a block of order o has

VARIABLES Managed,   \* the frames the allocator was given, the kernel image's included
          live       \* the blocks <<pfn, order>> that callers hold

Frames(b) == b[1]..(b[1] + Size[b[2]] - 1)

FInit == live = {}

Allocate(pfn, o) ==
    /\ pfn % Size[o] = 0
    /\ Frames(<<pfn, o>>) \subseteq Managed
    /\ \A b \in live : Frames(b) \cap Frames(<<pfn, o>>) = {}
    /\ live' = live \cup {<<pfn, o>>}

Release(b) == live' = live \ {b}

FNext == /\ \/ \E pfn \in Managed, o \in Orders : Allocate(pfn, o)
            \/ \E b \in live : Release(b)
         /\ UNCHANGED Managed

FSpec == FInit /\ [][FNext]_<<Managed, live>>
=============================================================================
