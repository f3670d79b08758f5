------------------------------- MODULE MCText -------------------------------
(***************************************************************************)
(* An instance of Text for TLC: arithmetic over 0, 1, 8, a blank and the   *)
(* four operators, and addresses over 1, 3 and the dot, as long as the     *)
(* longest with two digits in each field, or over 1, the dot and a letter. *)
(***************************************************************************)
EXTENDS Text

MCAlphabets == {[chars |-> {48, 49, 56, 32, 42, 43, 45, 47}, len |-> 6],
                [chars |-> {49, 51, 46}, len |-> 11],
                [chars |-> {49, 46, 120}, len |-> 9]}
=============================================================================
