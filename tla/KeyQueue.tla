------------------------------ MODULE KeyQueue ------------------------------
(***************************************************************************)
(* What the keyboard driver promises its reader (keyboard_getchar): a      *)
(* bounded first-in first-out queue of characters.  A character that       *)
(* arrives while the queue is full is dropped and counted; nothing is      *)
(* duplicated, reordered or lost once it has been accepted.                *)
(***************************************************************************)
EXTENDS Naturals, Sequences

CONSTANTS Char,      \* the characters the translation tables produce
          Capacity   \* KB_BUF_SIZE - 1: one slot of the ring stays empty

VARIABLES queue,     \* accepted and not yet returned, oldest first
          got,       \* everything returned to the reader, oldest first
          dropped    \* how many characters found the queue full

qvars == <<queue, got, dropped>>

QInit ==
    /\ queue = <<>>
    /\ got = <<>>
    /\ dropped = 0

\* A character arrives and there is room for it.
Accept(c) ==
    /\ Len(queue) < Capacity
    /\ queue' = Append(queue, c)
    /\ UNCHANGED <<got, dropped>>

\* A character arrives and there is none.
Drop ==
    /\ Len(queue) = Capacity
    /\ dropped' = dropped + 1
    /\ UNCHANGED <<queue, got>>

\* The reader takes the oldest character.
Return ==
    /\ queue # <<>>
    /\ got' = Append(got, Head(queue))
    /\ queue' = Tail(queue)
    /\ UNCHANGED dropped

QNext == Return \/ Drop \/ \E c \in Char : Accept(c)

QSpec == QInit /\ [][QNext]_qvars
=============================================================================
