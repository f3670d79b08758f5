----------------------------- MODULE MCSession -----------------------------
(***************************************************************************)
(* Instances of Session for TLC: one letter, a word that is a command and  *)
(* a longer one that is logout, on a screen of two short rows.             *)
(***************************************************************************)
EXTENDS Session

MCGlyph == {"a", " ", "?", "#"}
MCCommands == {<<"a">>}
MCLogout == <<"a", "a">>
=============================================================================
