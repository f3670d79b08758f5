------------------------------- MODULE MCPmm -------------------------------
(***************************************************************************)
(* Instances of Pmm for TLC.  Blocks have up to four frames, frame 0 is    *)
(* the memory below 1MB and frame 1 the kernel image.  As in the code, the *)
(* kernel image is one aligned block whose buddy is low memory, and the    *)
(* zone boundaries are multiples of the largest block.                     *)
(***************************************************************************)
EXTENDS Pmm

MCSize == [o \in 0..PMM_MAX_ORDER |-> CASE o = 0 -> 1 [] o = 1 -> 2 [] OTHER -> 4]

Entry(base, end) == [base |-> base, end |-> end, usable |-> TRUE]
Reserved(base, end) == [base |-> base, end |-> end, usable |-> FALSE]

\* An entry that starts below 1MB and leaves a single frame, a reserved hole,
\* and an entry that reaches one frame into NORMAL, where memory ends.
HoleMap == <<Entry(0, 2), Reserved(2, 4), Entry(4, 9)>>

\* Low memory only; an entry across the three zones; one inside HIGHMEM.
ZoneMap == <<Entry(0, 1), Entry(7, 13), Entry(14, 16)>>

GoodMaps == {HoleMap, ZoneMap}

\* One entry over low memory, the kernel image and the rest of DMA.
BootMaps == {<<Entry(0, 8)>>}

\* An entry that starts above 16MB.
HighEntryMaps == {<<Entry(1, 3), Entry(4, 8)>>}
=============================================================================
