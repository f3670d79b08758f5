------------------------------ MODULE MCMemory ------------------------------
(***************************************************************************)
(* An instance of Vmm and of Heap for TLC.  They share no state, and a run *)
(* uses one of them.  Directories and tables have four entries: the first  *)
(* two cover the pages mapped at their own address, the third is the       *)
(* users', the last the kernel's.  The heap's headers have two units as in *)
(* the code; its pages are small.                                          *)
(***************************************************************************)
EXTENDS Vmm, Heap

VARIABLE use

\* A machine whose memory ends with the identity mapping, and one with
\* memory in the Normal zone above it.
MCMachines == {{2, 3, 4, 5, 6}, {2, 3, 7}}
MCNormal == {7}
MCPages == {8, 9, 12}

MCInit ==
    /\ Init /\ HeapInit /\ use \in {"paging", "heap"}
    /\ use = "heap" => pc = "idle" /\ own = {2, 3, 7}

MCNext ==
    \/ use = "paging" /\ Next /\ UNCHANGED <<hvars, use>>
    \/ use = "heap" /\ HeapNext /\ UNCHANGED <<vars, use>>

MCSpec == MCInit /\ [][MCNext]_<<vars, hvars, use>>
=============================================================================
