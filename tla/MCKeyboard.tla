----------------------------- MODULE MCKeyboard -----------------------------
(***************************************************************************)
(* Instances of Keyboard for TLC.  The tables are the driver's restricted  *)
(* to the keys that are pressed; every other entry is 0, as for the keys   *)
(* without a character in the code.                                        *)
(***************************************************************************)
EXTENDS Keyboard

KeyA == 30      \* 0x1E

MCChar == {97, 65}   \* a A
MCAscii == [sc \in 0..127 |-> IF sc = KeyA THEN 97 ELSE 0]
MCShift == [sc \in 0..127 |-> IF sc = KeyA THEN 65 ELSE 0]

TypedKeys == {KeyA, RSHIFT}
ArrowUp == {72}      \* 0x48, with no entry in either table
=============================================================================
