------------------------------- MODULE MCHeap -------------------------------
(***************************************************************************)
(* An instance of Heap for TLC: headers of two units as in the code,      *)
(* small pages.                                                            *)
(***************************************************************************)
EXTENDS Heap
=============================================================================
