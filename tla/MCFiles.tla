------------------------------ MODULE MCFiles -------------------------------
(***************************************************************************)
(* An instance of Shell, and of the Vfs below it, for TLC.  A run of the   *)
(* kernel is put to one of three uses, each with bounds of its own: calls  *)
(* that change the tree (names, links, references, listings), calls on the *)
(* contents of one file, or the commands of the shell, on a tree that      *)
(* starts as /e with the file h in it: commands on a few relative and      *)
(* absolute paths, on a file whose first text is longer than the one that  *)
(* is written to it, and both are of several reads of cat's buffer.        *)
(***************************************************************************)
EXTENDS Shell

VARIABLE use

TreePaths == {<<"a">>, <<"b">>, <<"a", "b">>, <<"a", DOT>>}
TreeCalls == Calls(TreePaths, {{}, {"CREAT"}, {"DIRECTORY"}}, {}, {1}, {})

FileCalls == Calls({<<"a">>}, {{"CREAT"}, {"CREAT", "TRUNC"}, {"APPEND"}},
                   {<<1>>, <<2, 1>>}, {0, 1, 3}, {-1, 0, 3})

Rel(p) == [abs |-> FALSE, comps |-> p]
Abs(p) == [abs |-> TRUE, comps |-> p]
MCArgs == {Rel(<<"h">>), Rel(<<"..">>), Rel(<<"..", "h">>), Rel(<<"h..">>), Abs(<<"e">>)}
MCTexts == {<<<<1>>, <<1>>>>}
MCInitialDirs == <<"e">>
MCHostText == <<1, 1, 1, 1, 3>>

\* How many inodes each use allocates at most.
Inodes == [tree |-> 4, file |-> 2, shell |-> 3]

Within == next_ino' <= Inodes[use] + 1 /\ UNCHANGED use

\* Where the descriptors of that use may point.
Near == \A fd \in FD : fd_table'[fd].pos \in -1..4

MCInit == SInit /\ use \in DOMAIN Inodes

MCNext ==
    \/ use = "tree" /\ TreeCalls /\ UNCHANGED shell /\ Within
    \/ use = "file" /\ (FileCalls \/ Undefined) /\ UNCHANGED shell /\ Within /\ Near
    \/ use = "shell" /\ SNext /\ Within

MCSpec == MCInit /\ [][MCNext]_<<svars, use>>
=============================================================================
