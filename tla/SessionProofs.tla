--------------------------- MODULE SessionProofs ---------------------------
(***************************************************************************)
(* Proofs about the terminal session, for every size of the screen and of  *)
(* the buffers, every alphabet and command table, and any number of keys   *)
(* and of characters logged by handlers.                                   *)
(***************************************************************************)
EXTENDS Session, SequenceTheorems, FiniteSetTheorems, NaturalLemmas, TLAPS

\* What the thread prints.
Printed == Glyph \cup {NL, BS}

----------------------------------------------------------------------------
\* The cursor.

LEMMA ScreenSize == VGA_ROWS \in Nat \ {0} /\ VGA_COLS \in Nat \ {0}
BY ScreenAssumption

\* A place in the screen's rows, or in the row below them, is a cell; so is the
\* one behind the end of a row on the screen.
LEMMA CellInside ==
    ASSUME NEW r \in Nat, NEW c \in Nat,
           (r <= VGA_ROWS /\ c < VGA_COLS) \/ (r < VGA_ROWS /\ c <= VGA_COLS)
    PROVE  CellAt(r, c) \in Cells
<1> DEFINE R == VGA_ROWS
           C == VGA_COLS
           N == (VGA_ROWS + 1) * VGA_COLS
<1>1. R \in Nat /\ C \in Nat \ {0} /\ Cells = 0..(N - 1) /\ CellAt(r, c) = r * C + c
  BY ScreenSize DEF Cells, CellAt
<1>2. CASE r <= R /\ c < C
  <2> DEFINE k == R - r
             rc == r * C
             kc == k * C
  <2>1. k \in Nat /\ R = r + k
    BY <1>1, <1>2
  <2>2. N = rc + kc + C /\ kc \in Nat /\ rc \in Nat
    <3> HIDE DEF k
    <3> QED BY <1>1, <2>1
  <2> HIDE DEF rc, kc, N
  <2>3. rc + c \in 0..(N - 1)
    BY <1>1, <1>2, <2>2
  <2> QED BY <1>1, <2>3 DEF rc
<1>3. CASE r < R /\ c <= C
  <2> DEFINE k == R - r - 1
             rc == r * C
             kc == k * C
  <2>1. k \in Nat /\ R = r + k + 1
    BY <1>1, <1>3
  <2>2. N = rc + kc + C + C /\ kc \in Nat /\ rc \in Nat
    <3> HIDE DEF k
    <3> QED BY <1>1, <2>1
  <2> HIDE DEF rc, kc, N
  <2>3. rc + c \in 0..(N - 1)
    BY <1>1, <1>3, <2>2
  <2> QED BY <1>1, <2>3 DEF rc
<1> QED BY <1>2, <1>3

(***************************************************************************)
(* The inductive invariant of the console.  The row gets past the screen   *)
(* only between its increment and the scroll of the thread, and then the   *)
(* register holds that row too, so that either of them makes it scroll.    *)
(* In the same way the column gets past the last one only before its test. *)
(***************************************************************************)
Places == {"ready", "store", "right", "wrap", "row", "erase", "scroll", "move", "bottom"}

CursorInv ==
    /\ out \in Seq(Printed)
    /\ at \in Places
    /\ at # "ready" => out # <<>>
    /\ console_row \in 0..VGA_ROWS /\ console_col \in 0..VGA_COLS
    /\ at \notin {"scroll", "move", "bottom"} => console_row < VGA_ROWS
    /\ at # "wrap" => console_col < VGA_COLS
    /\ at \in {"store", "right", "wrap", "row", "erase"} => reg[1] \in 0..(VGA_ROWS - 1)
    /\ at \in {"store", "right", "erase"} => reg[2] \in 0..(VGA_COLS - 1)
    /\ at = "wrap" => reg[2] \in 0..VGA_COLS
    /\ at = "wrap" /\ console_col = VGA_COLS => reg[2] = VGA_COLS
    /\ at = "scroll" /\ console_row = VGA_ROWS => reg[1] = VGA_ROWS
    /\ far = FALSE

LEMMA CursorInit == Init => CursorInv
BY ScreenSize DEF Init, ConsoleInit, CursorInv, Places

LEMMA Distinct == NL # BS /\ NL # TAB /\ TAB # BS /\ TAB \notin Printed
BY ScreenAssumption DEF NL, BS, TAB, Printed

\* A step of the console, the thread's or a handler's.
LEMMA CursorConsole == CursorInv /\ ConsoleNext => CursorInv'
<1> SUFFICES ASSUME CursorInv, ConsoleNext PROVE CursorInv'
  OBVIOUS
<1>0. VGA_ROWS \in Nat \ {0} /\ VGA_COLS \in Nat \ {0}
  BY ScreenSize
<1> USE DEF CursorInv, cursor, Places, Rows, Cols
<1>1. CASE PutLoad
  <2>1. reg'[1] = console_row /\ reg'[2] = console_col
    BY <1>1 DEF PutLoad
  <2> QED BY <1>0, <1>1, <2>1 DEF PutLoad
<1>2. CASE PutGlyph
  <2>1. PICK r \in Rows, c \in Cols : PutEntry(Head(out), r, c) /\ reg' = <<r, c>>
    BY <1>2 DEF PutGlyph
  <2>2. at = "store" /\ r \in 0..(VGA_ROWS - 1) /\ c \in 0..(VGA_COLS - 1)
    BY <1>0, <1>2 DEF PutGlyph
  <2>3. CellAt(r, c) \in Cells
    BY <1>0, <2>2, CellInside
  <2>5. far' = FALSE
    BY <2>1, <2>3 DEF PutEntry
  <2>4. reg'[1] = r /\ reg'[2] = c
    BY <2>1
  <2> QED BY <1>2, <2>2, <2>4, <2>5 DEF PutGlyph
<1>3. CASE PutRight
  <2>1. PICK c \in Cols : console_col' = c + 1 /\ reg' = <<reg[1], c + 1>>
    BY <1>3 DEF PutRight
  <2>2. reg'[1] = reg[1] /\ reg'[2] = c + 1 /\ c \in 0..(VGA_COLS - 1)
    BY <1>0, <1>3, <2>1 DEF PutRight
  <2> QED BY <1>0, <1>3, <2>1, <2>2 DEF PutRight
<1>4. CASE PutWrap
  BY <1>0, <1>4 DEF PutWrap
<1>5. CASE PutNewline
  BY <1>0, <1>5 DEF PutNewline
<1>6. CASE PutRow
  <2>1. PICK r \in Rows : console_row' = r + 1 /\ reg' = <<r + 1, reg[2]>>
    BY <1>6 DEF PutRow
  <2>2. reg'[1] = r + 1 /\ r \in 0..(VGA_ROWS - 1)
    BY <1>0, <1>6, <2>1 DEF PutRow
  <2> QED BY <1>0, <1>6, <2>1, <2>2 DEF PutRow
<1>7. CASE PutBackspace
  <2>1. at = "store" /\ reg[1] \in 0..(VGA_ROWS - 1) /\ reg[2] \in 0..(VGA_COLS - 1)
    BY <1>7 DEF PutBackspace
  <2>2. CASE reg[2] > 0
    <3>1. reg'[1] = reg[1] /\ reg'[2] = reg[2] - 1 /\ console_col' = reg[2] - 1 /\ at' = "erase"
      BY <1>7, <2>2 DEF PutBackspace
    <3>2. reg[2] - 1 \in 0..(VGA_COLS - 1) /\ reg[2] - 1 \in 0..VGA_COLS /\ reg[2] - 1 < VGA_COLS
      BY <1>0, <2>1, <2>2
    <3> QED BY <1>7, <2>1, <3>1, <3>2 DEF PutBackspace
  <2>3. CASE ~(reg[2] > 0)
    BY <1>0, <1>7, <2>1, <2>3 DEF PutBackspace
  <2> QED BY <2>2, <2>3
<1>8. CASE PutErase
  <2>1. PICK r \in Rows, c \in Cols : PutEntry(SPACE, r, c)
    BY <1>8 DEF PutErase
  <2>2. at = "erase" /\ r \in 0..(VGA_ROWS - 1) /\ c \in 0..(VGA_COLS - 1)
    BY <1>0, <1>8 DEF PutErase
  <2>3. CellAt(r, c) \in Cells
    BY <1>0, <2>2, CellInside
  <2>5. far' = FALSE
    BY <2>1, <2>3 DEF PutEntry
  <2> QED BY <1>0, <1>8, <2>2, <2>5 DEF PutErase
<1>9. CASE PutScroll
  <2>1. at = "scroll" /\ UNCHANGED <<console_row, console_col, far>>
    BY <1>9 DEF PutScroll
  <2>2. CASE at' = "move" /\ UNCHANGED out
    BY <2>1, <2>2
  <2>3. CASE Done /\ \E r \in Rows : ~MustScroll(r)
    <3>1. console_row < VGA_ROWS
      BY <1>0, <2>1, <2>3 DEF MustScroll
    <3>2. out' \in Seq(Printed) /\ at' = "ready"
      BY <2>1, <2>3, HeadTailProperties DEF Done
    <3> QED BY <2>1, <3>1, <3>2
  <2> QED BY <1>9, <2>2, <2>3 DEF PutScroll
<1>10. CASE ScrollMove \/ ScrollClear
  BY <1>10 DEF ScrollMove, ScrollClear
<1>11. CASE ScrollBottom
  <2>1. out' \in Seq(Printed) /\ at' = "ready"
    BY <1>11, HeadTailProperties DEF ScrollBottom, Done
  <2> QED BY <1>0, <1>11, <2>1 DEF ScrollBottom
<1>12. ASSUME NEW ch \in {SPACE, NL}, HandlerPrints(ch) PROVE CursorInv'
  <2> DEFINE wraps == ch = NL \/ console_col + 1 >= VGA_COLS
             row == IF wraps THEN console_row + 1 ELSE console_row
  <2>1. /\ console_col' = IF wraps THEN 0 ELSE console_col + 1
        /\ console_row' = IF MustScroll(row) THEN VGA_ROWS - 1 ELSE row
        /\ far' = (far \/ (ch # NL /\ CellAt(console_row, console_col) \notin Cells))
        /\ out' = out /\ at' = at /\ reg' = reg
    BY <1>12 DEF HandlerPrints
  <2>2. console_row' \in 0..(VGA_ROWS - 1) /\ console_col' \in 0..(VGA_COLS - 1)
    BY <1>0, <2>1 DEF MustScroll
  <2>3. CellAt(console_row, console_col) \in Cells
    BY <1>0, CellInside
  <2>4. far' = FALSE
    BY <2>1, <2>3
  <2>5. out' = out /\ at' = at /\ reg' = reg
    BY <2>1
  <2> HIDE DEF wraps, row
  <2> QED BY <1>0, <2>2, <2>4, <2>5
<1>13. ASSUME NEW ch \in {FLASH, SPACE}, Flash(ch) PROVE CursorInv'
  BY <1>13 DEF Flash
<1> QED BY <1>1, <1>2, <1>3, <1>4, <1>5, <1>6, <1>7, <1>8, <1>9, <1>10, <1>11, <1>12, <1>13
        DEF ConsoleNext

\* The thread gives the console something to print, when that is idle.
LEMMA CursorSays ==
    ASSUME CursorInv, out' \in Seq(Printed), at = "ready",
           UNCHANGED <<cursor, at, reg, far>>
    PROVE  CursorInv'
BY DEF CursorInv, cursor

LEMMA EchoPrinted ==
    ASSUME NEW ch, NEW shown \in {ch, Masked}, NEW empty \in BOOLEAN
    PROVE  Echo(empty, ch, shown) \in Seq(Printed)
<1>1. BS \in Printed /\ SPACE \in Printed
  BY ScreenAssumption DEF Printed
<1>2. ch \in Printable => shown \in Printed
  BY SessionAssumption DEF Printed, Printable
<1> QED BY <1>1, <1>2 DEF Echo

LEMMA CursorThread == CursorInv /\ Thread => CursorInv'
<1> SUFFICES ASSUME CursorInv, Thread PROVE CursorInv'
  OBVIOUS
<1>0. NL \in Printed /\ Prompt \in Printed
  BY SessionAssumption DEF Printed
<1>1. CASE LoginStart
  <2>1. out' = <<NL, Prompt>>
    BY <1>1 DEF LoginStart, Say
  <2> QED BY <1>0, <1>1, <2>1, CursorSays DEF LoginStart, Say, Ready
<1>2. CASE Setup \/ Login \/ RunLine
  <2>1. CASE UNCHANGED console
    BY <2>1 DEF CursorInv, console, cursor
  <2>2. CASE Login /\ Say(<<NL, Prompt>>)
    <3>1. out' = <<NL, Prompt>>
      BY <2>2 DEF Say
    <3> QED BY <1>0, <2>2, <3>1, CursorSays DEF Login, Say, Ready
  <2> QED BY <1>2, <2>1, <2>2 DEF Setup, Login, RunLine
<1>3. CASE ShellPrompt
  <2>1. out' = <<Prompt>>
    BY <1>3 DEF ShellPrompt
  <2> QED BY <1>0, <1>3, <2>1, CursorSays DEF ShellPrompt, Ready
<1>4. ASSUME NEW ch \in Key, ReadName(ch) PROVE CursorInv'
  <2>1. out' \in Seq(Printed)
    <3>1. CASE ch = NL
      <4>1. out' = <<NL, Prompt>>
        BY <1>4, <3>1 DEF ReadName, Say
      <4> QED BY <1>0, <4>1
    <3>2. CASE ch # NL
      <4>1. out' = Echo(name = <<>>, ch, ch) \o (IF pc' = "pass" THEN <<Prompt>> ELSE <<>>)
        BY <1>4, <3>2 DEF ReadName, Say
      <4>2. Echo(name = <<>>, ch, ch) \in Seq(Printed)
        BY EchoPrinted
      <4> QED BY <1>0, <4>1, <4>2, ConcatProperties
    <3> QED BY <3>1, <3>2
  <2> QED BY <1>4, <2>1, CursorSays DEF ReadName, Say, Ready
<1>5. ASSUME NEW ch \in Key, ReadPassword(ch) PROVE CursorInv'
  <2>1. out' \in Seq(Printed)
    <3>1. out' = (IF ch = NL THEN <<>> ELSE Echo(pass = <<>>, ch, Masked))
                    \o (IF pc' = "check" THEN <<NL>> ELSE <<>>)
      BY <1>5 DEF ReadPassword, Say
    <3>2. ch # NL => Echo(pass = <<>>, ch, Masked) \in Seq(Printed)
      BY EchoPrinted
    <3> QED BY <1>0, <3>1, <3>2, ConcatProperties
  <2> QED BY <1>5, <2>1, CursorSays DEF ReadPassword, Say, Ready
<1>6. ASSUME NEW ch \in Key, ReadLine(ch) PROVE CursorInv'
  <2>1. out' \in Seq(Printed)
    <3>1. out' = IF ch = NL THEN <<NL>> ELSE Echo(pos = 0, ch, ch)
      BY <1>6 DEF ReadLine, Say
    <3>2. ch # NL => Echo(pos = 0, ch, ch) \in Seq(Printed)
      BY EchoPrinted
    <3> QED BY <1>0, <3>1, <3>2
  <2> QED BY <1>6, <2>1, CursorSays DEF ReadLine, Say, Ready
<1> QED BY <1>1, <1>2, <1>3, <1>4, <1>5, <1>6 DEF Thread

\* However a handler's print interrupts the thread's between two accesses to
\* the cursor, nothing is written past the row below the screen, and between two
\* characters the cursor is on the screen.
THEOREM WritesStayNearAlways == Spec => []WritesStayNear
<1>1. Init => CursorInv
  BY CursorInit
<1>2. CursorInv /\ [Next]_vars => CursorInv'
  <2>1. CursorInv /\ UNCHANGED vars => CursorInv'
    BY DEF CursorInv, vars, console, cursor
  <2> QED BY <2>1, CursorConsole, CursorThread DEF Next
<1>3. CursorInv => WritesStayNear
  BY ScreenSize DEF CursorInv, WritesStayNear
<1> QED BY <1>1, <1>2, <1>3, PTL DEF Spec

----------------------------------------------------------------------------
(***************************************************************************)
(* The line and the word that is run.  readline leaves in the buffer the   *)
(* characters typed, none of them a NUL, and behind them a NUL, whatever   *)
(* earlier lines and the tokenizer left in it.                             *)
(***************************************************************************)
LineInv ==
    /\ shell_input \in [Index -> Printable \cup {NUL}]
    /\ pos \in Index /\ argv0 \in Index \cup {NONE}
    /\ pc \in {"read", "run"} => \A k \in 0..(pos - 1) : shell_input[k] \in Printable
    /\ pc = "read" => pos < SHELL_BUF_SIZE - 1
    /\ pc = "run" => shell_input[pos] = NUL

LEMMA Alphabet ==
    /\ SHELL_BUF_SIZE \in Nat \ {0, 1} /\ NUL \notin Printable /\ SPACE \notin Letter
    /\ NONE \notin Index
BY SessionAssumption DEF Printable, Index

\* The string at a position ends at the first NUL.
LEMMA StringEnds ==
    ASSUME NEW buf, NEW k \in Index, NEW e \in k..(SHELL_BUF_SIZE - 1),
           buf[e] = NUL, \A f \in k..(e - 1) : buf[f] # NUL
    PROVE  StringAt(buf, k) = [x \in 1..(e - k) |-> buf[k + x - 1]]
<1> DEFINE ends == {f \in k..(SHELL_BUF_SIZE - 1) : buf[f] = NUL}
           end == CHOOSE f \in ends : \A g \in ends : f <= g
<1>0. SHELL_BUF_SIZE \in Nat /\ k \in Nat /\ e \in Nat
  BY Alphabet DEF Index
<1>1. e \in ends /\ ends \subseteq Nat
  BY <1>0
<1>2. \A g \in ends : e <= g
  BY <1>0
<1>3. end \in ends /\ \A g \in ends : end <= g
  BY <1>1, <1>2
<1>4. end = e
  <2> HIDE DEF end, ends
  <2> QED BY <1>1, <1>2, <1>3
<1> QED BY <1>4 DEF StringAt

\* The line that is run, as a sequence.
Line == [x \in 1..pos |-> shell_input[x - 1]]

LEMMA LineIs ==
    ASSUME LineInv, pc = "run"
    PROVE  /\ StringAt(shell_input, 0) = Line
           /\ Line \in Seq(Printable) /\ Len(Line) = pos
<1>0. SHELL_BUF_SIZE \in Nat \ {0, 1} /\ pos \in Nat /\ 0 \in Index
  BY Alphabet DEF LineInv, Index
<1>1. StringAt(shell_input, 0) = [x \in 1..(pos - 0) |-> shell_input[0 + x - 1]]
  <2>1. pos \in 0..(SHELL_BUF_SIZE - 1)
    BY DEF LineInv, Index
  <2>2. \A f \in 0..(pos - 1) : shell_input[f] # NUL
    BY Alphabet DEF LineInv
  <2> QED BY <1>0, <2>1, <2>2, StringEnds DEF LineInv
<1>2. pos - 0 = pos /\ \A x \in 1..pos : 0 + x - 1 = x - 1
  BY <1>0
<1>3. StringAt(shell_input, 0) = Line
  BY <1>1, <1>2 DEF Line
<1>4. \A x \in 1..pos : x - 1 \in 0..(pos - 1) /\ shell_input[x - 1] \in Printable
  BY <1>0 DEF LineInv
<1>5. Line \in [1..pos -> Printable]
  BY <1>4 DEF Line
<1>6. Line \in Seq(Printable) /\ Len(Line) = pos
  BY <1>0, <1>5
<1> QED BY <1>3, <1>6

\* A word of the line is where tokenize sees one start.
LEMMA SpanStarts ==
    ASSUME LineInv, pc = "run", NEW x \in Spans(Line)
    PROVE  x[1] \in 1..pos /\ x[1] - 1 \in Starts
<1>0. pos \in Nat
  BY Alphabet DEF LineInv, Index
<1>1. Len(Line) = pos /\ \A k \in 1..pos : Line[k] = shell_input[k - 1]
  BY <1>0, LineIs DEF Line
<1> DEFINE j == x[1]
<1>2. /\ j \in 1..pos /\ j \in j..x[2] /\ Line[j] # SPACE
      /\ j = 1 \/ Line[j - 1] = SPACE
  <2>1. x \in (1..pos) \X (1..pos) /\ IsWord(Line, x[1], x[2])
    BY <1>1 DEF Spans
  <2>2. j \in 1..pos /\ x[2] \in 1..pos
    BY <2>1
  <2>3. j \in j..x[2]
    BY <2>1, <2>2 DEF IsWord
  <2> QED BY <2>1, <2>2, <2>3 DEF IsWord
<1> HIDE DEF j
<1>3. j - 1 \in 0..(pos - 1) /\ (j - 1 > 0 => j - 1 \in 1..pos /\ j # 1)
  BY <1>0, <1>2
<1>4. j - 1 \in Starts
  BY <1>1, <1>2, <1>3 DEF Starts
<1> QED BY <1>2, <1>4 DEF j

\* The first word starts at s: it ends somewhere, and tokenize marks its end, so
\* that the string at s is that word.
LEMMA WordFound ==
    ASSUME LineInv, pc = "run", NEW s \in Starts, \A o \in Starts : s <= o
    PROVE  Spans(Line) # {} /\ IsFirst(StringAt(Tokenized, s), Line)
<1>0. SHELL_BUF_SIZE \in Nat \ {0, 1} /\ pos \in Index /\ pos \in Nat
  BY Alphabet DEF LineInv, Index
<1>1. /\ s \in 0..(pos - 1) /\ shell_input[s] # SPACE /\ (s > 0 => shell_input[s - 1] = SPACE)
  BY DEF Starts
<1>2. \A x \in 1..pos : Line[x] = shell_input[x - 1]
  BY DEF Line
<1>3. Len(Line) = pos /\ Line \in Seq(Printable)
  BY LineIs
<1> DEFINE T == {x \in (s + 1)..pos : x = pos \/ Line[x + 1] = SPACE}
<1>4. PICK m \in T : \A x \in T : m <= x
  <2>1. pos \in T /\ T \in SUBSET Nat
    BY <1>0, <1>1
  <2> QED BY <2>1, LeastNat
<1>5. m \in (s + 1)..pos /\ (m = pos \/ Line[m + 1] = SPACE) /\ m \in Nat /\ s \in Nat
  BY <1>0, <1>1, <1>4
<1>6. ASSUME NEW x \in (s + 1)..m PROVE Line[x] # SPACE
  <2>1. CASE x = s + 1
    <3>1. x \in 1..pos /\ x - 1 = s
      BY <1>0, <1>1, <1>5, <2>1
    <3> QED BY <1>1, <1>2, <3>1
  <2>2. CASE x # s + 1
    <3>1. x - 1 \in (s + 1)..pos /\ x - 1 < m /\ x - 1 # pos /\ (x - 1) + 1 = x
      BY <1>0, <1>1, <1>5, <2>2
    <3>2. x - 1 \notin T
      BY <1>4, <1>5, <3>1
    <3> QED BY <3>1, <3>2
  <2> QED BY <2>1, <2>2
<1> HIDE DEF T
<1>7. IsWord(Line, s + 1, m)
  <2>1. s + 1 <= m /\ (s + 1 = 1 \/ Line[(s + 1) - 1] = SPACE)
    <3>1. CASE s = 0
      BY <1>5, <3>1
    <3>2. CASE s # 0
      <4>1. (s + 1) - 1 = s /\ s \in 1..pos /\ s > 0
        BY <1>0, <1>1, <1>5, <3>2
      <4> QED BY <1>1, <1>2, <1>5, <4>1
    <3> QED BY <3>1, <3>2
  <2> QED BY <1>3, <1>5, <1>6, <2>1 DEF IsWord
<1>8. Spans(Line) # {} /\ IsFirst(SubSeq(Line, s + 1, m), Line)
  <2> DEFINE y == <<s + 1, m>>
  <2>1. y \in (1..Len(Line)) \X (1..Len(Line)) /\ y[1] = s + 1 /\ y[2] = m
    BY <1>0, <1>1, <1>3, <1>5
  <2>2. y \in Spans(Line)
    BY <1>7, <2>1 DEF Spans
  <2>3. ASSUME NEW x \in Spans(Line) PROVE y[1] <= x[1]
    <3>1. x[1] \in 1..pos /\ x[1] - 1 \in Starts
      BY SpanStarts
    <3>2. s <= x[1] - 1
      BY <3>1
    <3> QED BY <1>5, <2>1, <3>1, <3>2
  <2> HIDE DEF y
  <2> QED BY <2>1, <2>2, <2>3 DEF IsFirst
<1>9. Tokenized[m] = NUL
  <2>1. m \in Index
    BY <1>0, <1>1, <1>5 DEF Index
  <2>2. CASE m = pos
    <3>1. pos \notin Ends
      BY <1>0 DEF Ends
    <3> QED BY <2>1, <2>2, <3>1 DEF Tokenized, LineInv
  <2>3. CASE m # pos
    <3>1. m \in 1..(pos - 1) /\ m + 1 \in 1..pos /\ (m + 1) - 1 = m /\ m \in 1..pos
      BY <1>0, <1>1, <1>5, <2>3
    <3>2. shell_input[m] = SPACE
      BY <1>2, <1>5, <2>3, <3>1
    <3>3. shell_input[m - 1] # SPACE
      <4>1. m \in (s + 1)..m
        BY <1>5
      <4> QED BY <1>2, <1>6, <3>1, <4>1
    <3>4. m \in Ends
      BY <3>1, <3>2, <3>3 DEF Ends
    <3>5. {o \in Starts : o < m} = {s}
      <4>1. ASSUME NEW o \in Starts, o < m, o # s PROVE FALSE
        <5>1. o \in 0..(pos - 1) /\ s < o
          BY <1>5, <4>1 DEF Starts
        <5>2. shell_input[o - 1] = SPACE
          BY <1>5, <5>1 DEF Starts
        <5>3. o \in (s + 1)..m /\ o \in 1..pos
          BY <1>0, <1>5, <4>1, <5>1
        <5> QED BY <1>2, <1>6, <5>2, <5>3
      <4>2. s < m
        BY <1>5
      <4> QED BY <4>1, <4>2
    <3>6. Found(m)
      <4>1. Cardinality({s}) = 1
        BY FS_Singleton, Zenon
      <4>2. 1 <= MaxArgs
        BY SessionAssumption
      <4>3. Found(m) <=> Cardinality({s}) <= MaxArgs
        BY <3>5 DEF Found
      <4> QED BY <4>1, <4>2, <4>3
    <3> QED BY <2>1, <3>4, <3>6 DEF Tokenized
  <2> QED BY <2>2, <2>3
<1>10. \A x \in s..(m - 1) : Tokenized[x] = Line[x + 1] /\ Tokenized[x] # NUL
  <2> SUFFICES ASSUME NEW x \in s..(m - 1)
               PROVE  Tokenized[x] = Line[x + 1] /\ Tokenized[x] # NUL
    OBVIOUS
  <2>1. x \in Index /\ x + 1 \in 1..pos /\ (x + 1) - 1 = x /\ x + 1 \in (s + 1)..m /\ x \in 0..(pos - 1)
    BY <1>0, <1>1, <1>5 DEF Index
  <2>2. Line[x + 1] = shell_input[x] /\ Line[x + 1] # SPACE
    BY <1>2, <1>6, <2>1
  <2>3. x \notin Ends
    BY <2>2 DEF Ends
  <2>4. shell_input[x] # NUL
    BY <2>1, Alphabet DEF LineInv
  <2> QED BY <2>1, <2>2, <2>3, <2>4 DEF Tokenized
<1>11. StringAt(Tokenized, s) = [x \in 1..(m - s) |-> Tokenized[s + x - 1]]
  <2>1. s \in Index /\ m \in s..(SHELL_BUF_SIZE - 1)
    BY <1>0, <1>1, <1>5 DEF Index
  <2> QED BY <1>9, <1>10, <2>1, StringEnds
<1>12. \A x \in 1..(m - s) : Tokenized[s + x - 1] = Line[x + (s + 1) - 1]
  <2> SUFFICES ASSUME NEW x \in 1..(m - s)
               PROVE  Tokenized[s + x - 1] = Line[x + (s + 1) - 1]
    OBVIOUS
  <2>1. s + x - 1 \in s..(m - 1) /\ (s + x - 1) + 1 = x + (s + 1) - 1
    BY <1>5
  <2> QED BY <1>10, <2>1
<1>13. SubSeq(Line, s + 1, m) = [x \in 1..(m - s) |-> Line[x + (s + 1) - 1]]
  <2>1. m - (s + 1) + 1 = m - s
    BY <1>5
  <2>2. SubSeq(Line, s + 1, m) = [x \in 1..(m - (s + 1) + 1) |-> Line[(s + 1) + x - 1]]
    BY <1>5 DEF SubSeq
  <2>3. \A x \in 1..(m - s) : (s + 1) + x - 1 = x + (s + 1) - 1
    BY <1>5
  <2> QED BY <2>1, <2>2, <2>3
<1> QED BY <1>8, <1>11, <1>12, <1>13

\* No word starts: the line is blank, and a string at a position within it
\* starts with a blank or is empty, so that it is no command.
LEMMA BlankLine ==
    ASSUME LineInv, pc = "run", Starts = {}, argv0 \in Index, argv0 <= pos
    PROVE  StringAt(Tokenized, argv0) \notin Commands \cup {Logout}
<1>0. SHELL_BUF_SIZE \in Nat \ {0, 1} /\ pos \in Index /\ pos \in Nat /\ argv0 \in Nat
  BY Alphabet DEF LineInv, Index
<1>1. \A k \in 0..(pos - 1) : shell_input[k] = SPACE
  <2> SUFFICES ASSUME NEW k0 \in 0..(pos - 1), shell_input[k0] # SPACE PROVE FALSE
    OBVIOUS
  <2> DEFINE T == {k \in 0..(pos - 1) : shell_input[k] # SPACE}
  <2>1. T \in SUBSET Nat /\ T # {}
    BY <1>0
  <2>2. PICK k \in T : \A x \in T : k <= x
    BY <2>1, LeastNat
  <2>3. k > 0 => k - 1 \in 0..(pos - 1) /\ k - 1 \notin T
    BY <1>0, <2>2
  <2>4. k \in Starts
    BY <2>2, <2>3 DEF Starts
  <2> QED BY <2>4
<1>2. \A k \in Index : Tokenized[k] = shell_input[k]
  <2>1. Ends = {}
    <3> SUFFICES ASSUME NEW k \in Ends PROVE FALSE
      OBVIOUS
    <3>1. k \in 1..(pos - 1) /\ shell_input[k - 1] # SPACE
      BY DEF Ends
    <3>2. k - 1 \in 0..(pos - 1)
      BY <1>0, <3>1
    <3> QED BY <1>1, <3>1, <3>2
  <2> QED BY <2>1 DEF Tokenized
<1> DEFINE w == StringAt(Tokenized, argv0)
<1>3. w = [x \in 1..(pos - argv0) |-> Tokenized[argv0 + x - 1]]
  <2>1. pos \in argv0..(SHELL_BUF_SIZE - 1) /\ argv0 \in Index
    BY <1>0 DEF Index
  <2>2. Tokenized[pos] = NUL
    BY <1>0, <1>2 DEF LineInv
  <2>3. \A f \in argv0..(pos - 1) : f \in Index /\ f \in 0..(pos - 1)
    BY <1>0 DEF Index
  <2>4. \A f \in argv0..(pos - 1) : Tokenized[f] # NUL
    BY <1>1, <1>2, <2>3, Alphabet DEF Printable
  <2> QED BY <2>1, <2>2, <2>4, StringEnds
<1> HIDE DEF w
<1>4. ASSUME w \in Seq(Letter), w # <<>> PROVE FALSE
  <2>1. DOMAIN w = 1..(pos - argv0)
    BY <1>3
  <2>2. 1 \in DOMAIN w /\ w[1] \in Letter
    <3>1. Len(w) \in Nat /\ Len(w) # 0 /\ DOMAIN w = 1..Len(w)
      BY <1>4, EmptySeq, LenProperties
    <3>2. 1 \in 1..Len(w)
      BY <3>1
    <3> QED BY <1>4, <3>1, <3>2, ElementOfSeq
  <2>3. 1 \in 1..(pos - argv0) /\ argv0 \in 0..(pos - 1) /\ argv0 + 1 - 1 = argv0
    BY <1>0, <2>1, <2>2
  <2>4. w[1] = SPACE
    BY <1>1, <1>2, <1>3, <2>3
  <2> QED BY <2>2, <2>4, Alphabet
<1>5. \A c \in Commands \cup {Logout} : c \in Seq(Letter) /\ c # <<>>
  BY SessionAssumption
<1> QED BY <1>4, <1>5 DEF w

\* What shell_run compares with the command table.
LEMMA RunsFirstWord ==
    ASSUME LineInv, RunLine, RunsWhatWasTyped
    PROVE  RunsWhatWasTyped' /\ LineInv'
<1>0. SHELL_BUF_SIZE \in Nat \ {0, 1} /\ pos \in Index /\ pos \in Nat /\ pc = "run"
  BY Alphabet DEF LineInv, Index, RunLine
<1>1. CASE pos = 0
  <2>1. UNCHANGED <<shell_input, argv0, ran, pos>> /\ pc' = "prompt"
    BY <1>1 DEF RunLine
  <2> QED BY <2>1 DEF RunsWhatWasTyped, LineInv
<1>2. CASE pos # 0
  <2>1. PICK word \in Seen :
          /\ shell_input' = Tokenized /\ argv0' = FirstWord
          /\ ran' = [line |-> StringAt(shell_input, 0), word |-> word, at |-> FirstWord]
          /\ pc' = IF word = Logout THEN "login" ELSE "prompt"
    BY <1>2 DEF RunLine
  <2>2. pos' = pos /\ pc' \notin {"read", "run"}
    BY <2>1 DEF RunLine
  <2>3. Tokenized \in [Index -> Printable \cup {NUL}]
    BY DEF Tokenized, LineInv
  <2>4. Starts # {} => FirstWord \in Starts /\ \A x \in Starts : FirstWord <= x
    <3> SUFFICES ASSUME Starts # {}
                 PROVE  FirstWord \in Starts /\ \A x \in Starts : FirstWord <= x
      OBVIOUS
    <3>1. Starts \in SUBSET Nat
      BY <1>0 DEF Starts
    <3>2. PICK k \in Starts : \A x \in Starts : k <= x
      BY <3>1, LeastNat
    <3> QED BY <3>2 DEF FirstWord
  <2>5. Starts \subseteq Index
    BY <1>0 DEF Starts, Index
  <2>6. FirstWord \in Index \cup {NONE}
    <3>1. Starts = {} => FirstWord = argv0
      BY DEF FirstWord
    <3> QED BY <2>4, <2>5, <3>1 DEF LineInv
  <2>7. LineInv'
    BY <2>1, <2>2, <2>3, <2>6 DEF LineInv, Index, Printable
  <2>8. ran'.line = Line /\ ran'.word = word /\ ran'.at = FirstWord
    BY <1>0, <2>1, LineIs
  <2>9. CASE Starts # {}
    <3>1. FirstWord # NONE
      BY <2>4, <2>5, <2>9, Alphabet
    <3>2. word = StringAt(Tokenized, FirstWord)
      BY <3>1 DEF Seen
    <3>3. Spans(Line) # {} /\ IsFirst(word, Line)
      BY <1>0, <2>4, <2>9, <3>2, WordFound
    <3>4. RunsWhatWasTyped'
      BY <2>8, <3>3 DEF RunsWhatWasTyped
    <3> QED BY <2>7, <3>4
  <2>10. CASE Starts = {}
    <3>1. FirstWord = argv0
      BY <2>10 DEF FirstWord
    <3>2. ASSUME word \in Commands \cup {Logout}, argv0 # NONE
          PROVE  argv0 > pos
      <4>1. word = StringAt(Tokenized, argv0) /\ argv0 \in Index
        BY <2>6, <3>1, <3>2 DEF Seen
      <4>2. argv0 \in Nat
        BY <4>1, <1>0 DEF Index
      <4> QED BY <1>0, <2>10, <3>2, <4>1, <4>2, BlankLine
    <3>3. Spans(Line) = {}
      BY <1>0, <2>10, SpanStarts
    <3>4. Len(Line) = pos
      BY <1>0, LineIs
    <3>5. RunsWhatWasTyped'
      BY <2>8, <3>1, <3>2, <3>3, <3>4 DEF RunsWhatWasTyped
    <3> QED BY <2>7, <3>5
  <2> QED BY <2>9, <2>10
<1> QED BY <1>1, <1>2

LEMMA LineStep ==
    ASSUME LineInv, RunsWhatWasTyped, [Next]_vars
    PROVE  LineInv' /\ RunsWhatWasTyped'
<1>0. SHELL_BUF_SIZE \in Nat \ {0, 1}
  BY Alphabet
<1>1. CASE RunLine
  BY <1>1, RunsFirstWord
<1>2. CASE LoginStart \/ Setup \/ Login \/ (\E ch \in Key : ReadName(ch) \/ ReadPassword(ch))
  <2>1. UNCHANGED <<line, ran>> /\ argv0' \in {argv0, NONE} /\ pc' \notin {"read", "run"}
    BY <1>2 DEF LoginStart, Setup, Login, ReadName, ReadPassword
  <2>2. RunsWhatWasTyped'
    BY <2>1 DEF RunsWhatWasTyped
  <2> QED BY <2>1, <2>2 DEF LineInv, line
<1>3. CASE ShellPrompt
  <2>1. UNCHANGED <<shell_input, argv0, ran>> /\ pos' = 0 /\ pc' = "read"
    BY <1>3 DEF ShellPrompt
  <2>2. RunsWhatWasTyped'
    BY <2>1 DEF RunsWhatWasTyped
  <2> QED BY <1>0, <2>1, <2>2 DEF LineInv, Index
<1>4. ASSUME NEW ch \in Key, ReadLine(ch) PROVE LineInv' /\ RunsWhatWasTyped'
  <2> DEFINE new == IF ch \in Printable THEN pos + 1
                    ELSE IF ch = BS /\ pos > 0 THEN pos - 1 ELSE pos
             full == ch = NL \/ new = SHELL_BUF_SIZE - 1
             stored == IF ch \in Printable THEN [shell_input EXCEPT ![pos] = ch] ELSE shell_input
  <2>1. /\ pc = "read" /\ pos' = new
        /\ shell_input' = IF full THEN [stored EXCEPT ![new] = NUL] ELSE stored
        /\ pc' = IF full THEN "run" ELSE pc
        /\ UNCHANGED <<argv0, ran>>
    BY <1>4 DEF ReadLine
  <2>2. /\ pos \in Index /\ pos \in Nat /\ pos < SHELL_BUF_SIZE - 1
        /\ shell_input \in [Index -> Printable \cup {NUL}]
        /\ \A k \in 0..(pos - 1) : shell_input[k] \in Printable
    BY <1>0, <2>1 DEF LineInv, Index
  <2>3. new \in Index /\ new \in Nat /\ (new # SHELL_BUF_SIZE - 1 => new < SHELL_BUF_SIZE - 1)
    BY <1>0, <2>2 DEF Index
  <2>5. /\ stored \in [Index -> Printable \cup {NUL}]
        /\ \A k \in 0..(new - 1) : stored[k] \in Printable
    <3>1. CASE ch \notin Printable
      <4>1. \A k \in 0..(new - 1) : k \in 0..(pos - 1)
        BY <2>2, <3>1
      <4> QED BY <2>2, <3>1, <4>1
    <3>2. CASE ch \in Printable
      <4>1. new = pos + 1 /\ stored = [shell_input EXCEPT ![pos] = ch]
        BY <3>2
      <4>2. stored \in [Index -> Printable \cup {NUL}] /\ stored[pos] = ch
        BY <2>2, <3>2, <4>1
      <4>3. ASSUME NEW k \in 0..(new - 1) PROVE stored[k] \in Printable
        <5>1. CASE k = pos
          BY <3>2, <4>2, <5>1
        <5>2. CASE k # pos
          <6>1. k \in 0..(pos - 1) /\ k \in Index
            BY <1>0, <2>2, <4>1, <5>2 DEF Index
          <6> QED BY <2>2, <4>1, <5>2, <6>1
        <5> QED BY <5>1, <5>2
      <4> QED BY <4>2, <4>3
    <3> QED BY <3>1, <3>2
  <2> HIDE DEF new, stored
  <2>6. shell_input' \in [Index -> Printable \cup {NUL}]
    BY <2>1, <2>5
  <2>7. \A k \in 0..(new - 1) : shell_input'[k] \in Printable
    <3> SUFFICES ASSUME NEW k \in 0..(new - 1) PROVE shell_input'[k] \in Printable
      OBVIOUS
    <3>1. k # new /\ k \in Index
      BY <1>0, <2>3 DEF Index
    <3>2. shell_input'[k] = stored[k]
      BY <2>1, <2>5, <3>1
    <3> QED BY <2>5, <3>2
  <2>8. full => shell_input'[new] = NUL
    BY <2>1, <2>3, <2>5
  <2>9. LineInv'
    BY <2>1, <2>2, <2>3, <2>6, <2>7, <2>8 DEF LineInv, Index, Printable
  <2>10. RunsWhatWasTyped'
    BY <2>1 DEF RunsWhatWasTyped
  <2> QED BY <2>9, <2>10
<1>5. CASE UNCHANGED session
  BY <1>5 DEF session, line, LineInv, RunsWhatWasTyped
<1> QED BY <1>1, <1>2, <1>3, <1>4, <1>5 DEF Next, Thread, vars

\* What runs is the first word of the line typed, whatever was in the buffer
\* before; only a blank line may run a command that stands past its end.
THEOREM RunsWhatWasTypedAlways == Spec => []RunsWhatWasTyped
<1>1. Init => LineInv /\ RunsWhatWasTyped
  BY Alphabet DEF Init, LineInv, RunsWhatWasTyped, Index
<1>2. LineInv /\ RunsWhatWasTyped /\ [Next]_vars => LineInv' /\ RunsWhatWasTyped'
  BY LineStep
<1> QED BY <1>1, <1>2, PTL DEF Spec

----------------------------------------------------------------------------
(***************************************************************************)
(* The screen.  Up says that a buffer shows the first m characters of s in *)
(* the cells before edge.  While the echo of a key is printed the line     *)
(* ends at the cursor or one cell before it, as Still says for each of the *)
(* texts that can be left to print.                                        *)
(***************************************************************************)
Up(buf, edge, m, s) ==
    /\ m <= edge
    /\ \A k \in 1..m : edge - k = VGA_COLS - 1 \/ buf[edge - k] = s[m - k]

Place == console_row * VGA_COLS + console_col
Drawn == Printed \cup {FLASH}

Still(o, buf, edge) ==
    \/ o = <<>> /\ Up(buf, edge, pos, shell_input)
    \/ o = <<Prompt>> /\ pos = 0
    \/ pos > 0 /\ o = <<shell_input[pos - 1]>> /\ Up(buf, edge, pos - 1, shell_input)
    \/ o = <<BS, SPACE, BS>> /\ Up(buf, edge - 1, pos, shell_input)
    \/ o = <<SPACE, BS>> /\ Up(buf, edge, pos, shell_input)
    \/ o = <<BS>> /\ Up(buf, edge - 1, pos, shell_input)

\* The screen as it will be when the rows from row on have moved too.
Ahead(buf, row) == [c \in Cells |-> IF c < (row - 1) * VGA_COLS THEN buf[c] ELSE buf[c + VGA_COLS]]
Bottom == (VGA_ROWS - 1) * VGA_COLS

DisplayInv ==
    /\ vga_buffer \in [Cells -> Drawn] /\ logs \in Nat
    /\ at = "move" => reg[1] \in 1..VGA_ROWS
    /\ pc = "read" /\ logs = 0 /\ ~torn =>
          /\ at \in {"store", "right", "wrap", "row", "erase", "scroll"} => reg[1] = console_row
          /\ at \in {"store", "right", "wrap", "erase"} => reg[2] = console_col
          /\ at \in {"ready", "store"} => Still(out, vga_buffer, Place)
          /\ at = "right" => Still(Tail(out), vga_buffer, Place + 1)
          /\ at \in {"wrap", "erase", "scroll"} => Still(Tail(out), vga_buffer, Place)
          /\ at = "row" => console_col = 0 /\ Still(Tail(out), vga_buffer, Place + VGA_COLS)
          /\ at = "scroll" /\ console_row = VGA_ROWS => console_col = 0
          /\ at = "move" => console_col = 0 /\ Still(Tail(out), Ahead(vga_buffer, reg[1]), Bottom)
          /\ at = "bottom" => console_col = 0 /\ Still(Tail(out), vga_buffer, Bottom)

\* The line stays as it is when no cell before its edge changes, but for the
\* one that flashes.
LEMMA StillKept ==
    ASSUME NEW buf, NEW new, NEW edge \in Nat, NEW o, pos \in Nat,
           \A c \in 0..(edge - 1) : c = VGA_COLS - 1 \/ new[c] = buf[c],
           Still(o, buf, edge)
    PROVE  Still(o, new, edge)
<1>1. ASSUME NEW e \in {edge, edge - 1}, NEW m \in Nat, Up(buf, e, m, shell_input)
      PROVE  Up(new, e, m, shell_input)
  <2>1. m <= e
    BY <1>1 DEF Up
  <2>2. ASSUME NEW k \in 1..m PROVE e - k = VGA_COLS - 1 \/ new[e - k] = shell_input[m - k]
    <3>1. e - k \in 0..(edge - 1)
      BY <2>1
    <3> QED BY <1>1, <3>1 DEF Up
  <2> QED BY <2>1, <2>2 DEF Up
<1>2. pos > 0 => pos - 1 \in Nat
  OBVIOUS
<1> QED BY <1>1, <1>2 DEF Still

\* The next character of the line is written at the edge.
LEMMA UpNext ==
    ASSUME NEW buf \in [Cells -> Drawn], NEW edge \in Cells, edge \in Nat, NEW m \in Nat, NEW s,
           NEW x, Up(buf, edge, m, s), x = s[m]
    PROVE  Up([buf EXCEPT ![edge] = x], edge + 1, m + 1, s)
<1>0. m <= edge
  BY DEF Up
<1>1. Up([buf EXCEPT ![edge] = x], edge, m, s)
  <2>1. ASSUME NEW k \in 1..m PROVE edge - k \in Cells /\ edge - k # edge
    <3>1. PICK N \in Nat : Cells = 0..(N - 1)
      BY ScreenSize DEF Cells
    <3> QED BY <1>0, <3>1
  <2> QED BY <1>0, <2>1 DEF Up
<1>2. ASSUME NEW k \in 1..(m + 1)
      PROVE  \/ edge + 1 - k = VGA_COLS - 1
             \/ [buf EXCEPT ![edge] = x][edge + 1 - k] = s[m + 1 - k]
  <2>1. CASE k = 1
    <3>1. edge + 1 - k = edge /\ m + 1 - k = m
      BY <2>1
    <3> QED BY <3>1
  <2>2. CASE k # 1
    <3>1. PICK l \in 1..m : k = l + 1
      BY <2>2
    <3>2. edge + 1 - k = edge - l /\ m + 1 - k = m - l
      BY <3>1
    <3> QED BY <1>1, <3>2 DEF Up
  <2> QED BY <2>1, <2>2
<1> QED BY <1>0, <1>2 DEF Up

\* The first character of what is left to print is on the screen, at the edge.
LEMMA StillNext ==
    ASSUME NEW buf \in [Cells -> Drawn], NEW edge \in Cells, edge \in Nat, NEW o,
           LineInv, Still(o, buf, edge), Head(o) # BS, o # <<>>
    PROVE  Still(Tail(o), [buf EXCEPT ![edge] = Head(o)], edge + 1)
<1> DEFINE new == [buf EXCEPT ![edge] = Head(o)]
<1>1. pos \in Nat /\ (pos > 0 => pos - 1 \in Nat)
  BY Alphabet DEF LineInv, Index
<1>2. CASE o = <<Prompt>> /\ pos = 0
  <2>1. Tail(o) = <<>> /\ Up(new, edge + 1, 0, shell_input)
    BY <1>2 DEF Up
  <2> QED BY <1>2, <2>1 DEF Still
<1>3. CASE pos > 0 /\ o = <<shell_input[pos - 1]>> /\ Up(buf, edge, pos - 1, shell_input)
  <2>1. PICK m \in Nat : m = pos - 1 /\ m + 1 = pos
    BY <1>1, <1>3
  <2>2. Head(o) = shell_input[m] /\ Tail(o) = <<>>
    BY <1>3, <2>1
  <2>3. Up(new, edge + 1, m + 1, shell_input)
    BY <1>3, <2>1, <2>2, UpNext
  <2> QED BY <2>1, <2>2, <2>3 DEF Still
<1>4. CASE o = <<SPACE, BS>> /\ Up(buf, edge, pos, shell_input)
  <2>1. Tail(o) = <<BS>> /\ (edge + 1) - 1 = edge
    BY <1>4
  <2>2. \A k \in 1..pos : edge - k \in 0..(edge - 1) /\ edge - k # edge
    BY <1>1, <1>4 DEF Up
  <2>3. \A c \in 0..(edge - 1) : c \in Cells /\ c # edge
    <3>1. PICK N \in Nat : Cells = 0..(N - 1)
      BY ScreenSize DEF Cells
    <3> QED BY <3>1
  <2>4. \A c \in 0..(edge - 1) : new[c] = buf[c]
    BY <2>3
  <2> HIDE DEF new
  <2>5. Up(new, edge, pos, shell_input)
    <3>1. \A k \in 1..pos : new[edge - k] = buf[edge - k]
      BY <2>2, <2>4
    <3>2. Up(buf, edge, pos, shell_input)
      BY <1>4
    <3> QED BY <3>1, <3>2, Zenon DEF Up
  <2> USE DEF new
  <2> QED BY <2>1, <2>5 DEF Still
<1>5. /\ o # <<BS, SPACE, BS>>
      /\ o # <<BS>>
  <2>1. Head(<<BS, SPACE, BS>>) = BS /\ Head(<<BS>>) = BS
    OBVIOUS
  <2> QED BY <2>1, Zenon
<1>6. \/ o = <<Prompt>> /\ pos = 0
      \/ pos > 0 /\ o = <<shell_input[pos - 1]>> /\ Up(buf, edge, pos - 1, shell_input)
      \/ o = <<SPACE, BS>> /\ Up(buf, edge, pos, shell_input)
  BY <1>5, Zenon DEF Still
<1> QED BY <1>2, <1>3, <1>4, <1>6, Zenon

\* A backspace moves the edge onto the character it takes back.
LEMMA StillBack ==
    ASSUME NEW buf, NEW edge \in Nat, NEW o, LineInv, pc = "read", Still(o, buf, edge), Head(o) = BS,
           o # <<>>
    PROVE  Still(Tail(o), buf, edge - 1)
<1>1. pos > 0 => shell_input[pos - 1] \in Printable
  <2>1. pos \in Nat /\ (pos > 0 => pos - 1 \in 0..(pos - 1))
    BY Alphabet DEF LineInv, Index
  <2> QED BY <2>1 DEF LineInv
<1>2. BS # Prompt /\ BS \notin Printable
  BY ScreenAssumption, SessionAssumption DEF Printable
<1>3. o = <<BS, SPACE, BS>> \/ o = <<BS>>
  BY <1>1, <1>2, ScreenAssumption DEF Still
<1>4. CASE o = <<BS, SPACE, BS>>
  <2>1. Tail(o) = <<SPACE, BS>> /\ Up(buf, edge - 1, pos, shell_input)
    BY <1>2, <1>4, ScreenAssumption DEF Still
  <2> QED BY <2>1 DEF Still
<1>5. CASE o = <<BS>>
  <2>1. Tail(o) = <<>> /\ Up(buf, edge - 1, pos, shell_input)
    BY <1>1, <1>2, <1>5 DEF Still
  <2> QED BY <2>1 DEF Still
<1> QED BY <1>3, <1>4, <1>5

\* The screen is to scroll, with the cursor at the start of the row below it.
LEMMA UpScroll ==
    ASSUME NEW buf \in [Cells -> Drawn], NEW m \in Nat, NEW s, NEW off \in {0, 1},
           m + off <= SHELL_BUF_SIZE - 1, Up(buf, VGA_ROWS * VGA_COLS - off, m, s)
    PROVE  Up(Ahead(buf, 1), Bottom - off, m, s)
<1>0. VGA_ROWS \in Nat \ {0} /\ VGA_COLS \in Nat \ {0} /\ SHELL_BUF_SIZE \in Nat
  BY ScreenSize, SessionAssumption
<1>1. PICK A \in Nat : A = Bottom
  BY <1>0 DEF Bottom
<1>2. VGA_ROWS * VGA_COLS = A + VGA_COLS
  BY <1>0, <1>1 DEF Bottom
<1>3. m + off <= A
  BY <1>0, <1>1, LineOnScreen DEF Bottom
<1>4. Cells = 0..(A + VGA_COLS + VGA_COLS - 1)
  BY <1>0, <1>1 DEF Cells, Bottom
<1>5. ASSUME NEW k \in 1..m
      PROVE  A - off - k = VGA_COLS - 1 \/ Ahead(buf, 1)[A - off - k] = s[m - k]
  <2>1. A - off - k \in Cells
    BY <1>0, <1>3, <1>4
  <2>2. Ahead(buf, 1)[A - off - k] = buf[A - off - k + VGA_COLS]
    <3>1. PICK c \in Cells : c = A - off - k
      BY <2>1
    <3>2. ~(c < (1 - 1) * VGA_COLS)
      BY <1>0, <1>4
    <3>3. Ahead(buf, 1)[c] = buf[c + VGA_COLS]
      BY <3>2 DEF Ahead
    <3> QED BY <3>1, <3>3
  <2>3. /\ A + VGA_COLS - off - k = A - off - k + VGA_COLS
        /\ A + VGA_COLS - off - k # VGA_COLS - 1
    BY <1>0, <1>4, <2>1
  <2>4. A + VGA_COLS - off - k = VGA_COLS - 1 \/ buf[A + VGA_COLS - off - k] = s[m - k]
    <3>1. PICK z : z = VGA_ROWS * VGA_COLS - off
      OBVIOUS
    <3>2. z - k = VGA_COLS - 1 \/ buf[z - k] = s[m - k]
      BY <3>1 DEF Up
    <3>3. z - k = A + VGA_COLS - off - k
      BY <1>0, <1>2, <3>1
    <3> QED BY <3>2, <3>3
  <2> QED BY <2>2, <2>3, <2>4
<1> QED BY <1>1, <1>3, <1>5 DEF Up

LEMMA StillScroll ==
    ASSUME NEW buf \in [Cells -> Drawn], NEW o, LineInv, pc = "read",
           Still(o, buf, VGA_ROWS * VGA_COLS)
    PROVE  Still(o, Ahead(buf, 1), Bottom)
<1>1. SHELL_BUF_SIZE \in Nat /\ pos \in Nat /\ pos + 1 <= SHELL_BUF_SIZE - 1
      /\ (pos > 0 => pos - 1 \in Nat)
  BY Alphabet DEF LineInv, Index
<1>2. ASSUME NEW m \in Nat, m <= pos, Up(buf, VGA_ROWS * VGA_COLS, m, shell_input)
      PROVE  Up(Ahead(buf, 1), Bottom, m, shell_input)
  <2>1. PICK off \in {0, 1} : off = 0
    OBVIOUS
  <2>2. VGA_ROWS * VGA_COLS - off = VGA_ROWS * VGA_COLS /\ Bottom - off = Bottom
    BY <2>1, ScreenSize DEF Bottom
  <2>3. m + off <= SHELL_BUF_SIZE - 1
    BY <1>1, <1>2, <2>1
  <2>4. Up(Ahead(buf, 1), Bottom - off, m, shell_input)
    BY <1>2, <2>2, <2>3, UpScroll
  <2> QED BY <2>2, <2>4
<1>3. ASSUME Up(buf, VGA_ROWS * VGA_COLS - 1, pos, shell_input)
      PROVE  Up(Ahead(buf, 1), Bottom - 1, pos, shell_input)
  <2>1. PICK off \in {0, 1} : off = 1
    OBVIOUS
  <2>2. Up(Ahead(buf, 1), Bottom - off, pos, shell_input)
    BY <1>1, <1>3, <2>1, UpScroll
  <2> QED BY <2>1, <2>2
<1>4. pos > 0 => pos - 1 <= pos
  BY <1>1
<1> QED BY <1>1, <1>2, <1>3, <1>4 DEF Still

\* Where the cursor is.
LEMMA PlaceFacts ==
    ASSUME CursorInv
    PROVE  /\ CellAt(console_row, console_col) = Place
           /\ Place \in Cells /\ Place \in Nat /\ \A k \in 0..Place : k \in Cells
           /\ (console_row + 1) * VGA_COLS = console_row * VGA_COLS + VGA_COLS
           /\ console_row * VGA_COLS \in Nat /\ console_row \in Nat /\ console_col \in Nat
           /\ Bottom \in Nat /\ VGA_ROWS * VGA_COLS = Bottom + VGA_COLS
<1>0. VGA_ROWS \in Nat \ {0} /\ VGA_COLS \in Nat \ {0}
      /\ console_row \in 0..VGA_ROWS /\ console_col \in 0..VGA_COLS
      /\ console_row \in Nat /\ console_col \in Nat
  BY ScreenSize DEF CursorInv
<1>1. CellAt(console_row, console_col) \in Cells
  <2>1. \/ console_row <= VGA_ROWS /\ console_col < VGA_COLS
        \/ console_row < VGA_ROWS /\ console_col <= VGA_COLS
    BY <1>0 DEF CursorInv
  <2> QED BY <1>0, <2>1, CellInside
<1>2. CellAt(console_row, console_col) = Place
  BY DEF CellAt, Place
<1>3. PICK N \in Nat : Cells = 0..(N - 1)
  BY <1>0 DEF Cells
<1>4. (console_row + 1) * VGA_COLS = console_row * VGA_COLS + VGA_COLS /\ console_row * VGA_COLS \in Nat
  BY <1>0
<1>5. Bottom \in Nat /\ VGA_ROWS * VGA_COLS = Bottom + VGA_COLS
  BY <1>0 DEF Bottom
<1> QED BY <1>0, <1>1, <1>2, <1>3, <1>4, <1>5

\* Everything on the screen was printed, or flashes.
LEMMA RowsOfCells ==
    ASSUME NEW row \in 1..VGA_ROWS
    PROVE  /\ CellAt(row, 0) \in Nat /\ CellAt(row - 1, 0) \in Nat
           /\ CellAt(row, 0) = CellAt(row - 1, 0) + VGA_COLS
           /\ CellAt(row, 0) <= CellAt(VGA_ROWS, 0)
           /\ Cells = 0..(CellAt(VGA_ROWS, 0) + VGA_COLS - 1)
           /\ CellAt(row - 1, 0) = (row - 1) * VGA_COLS /\ CellAt(row, 0) = row * VGA_COLS
           /\ CellAt(VGA_ROWS, 0) = Bottom + VGA_COLS /\ CellAt(VGA_ROWS - 1, 0) = Bottom
           /\ Bottom \in Nat
<1>0. VGA_ROWS \in Nat \ {0} /\ VGA_COLS \in Nat \ {0}
  BY ScreenSize
<1>1. row \in Nat \ {0} /\ row - 1 \in Nat
  BY <1>0
<1>2. CellAt(row, 0) = row * VGA_COLS /\ CellAt(row - 1, 0) = (row - 1) * VGA_COLS
      /\ CellAt(VGA_ROWS, 0) = VGA_ROWS * VGA_COLS
  BY <1>0, <1>1 DEF CellAt
<1>3. row * VGA_COLS \in Nat /\ (row - 1) * VGA_COLS \in Nat
      /\ row * VGA_COLS = (row - 1) * VGA_COLS + VGA_COLS
  BY <1>0, <1>1
<1>4. row * VGA_COLS <= VGA_ROWS * VGA_COLS
  <2>1. PICK k \in Nat : VGA_ROWS = row + k
    <3>1. VGA_ROWS - row \in Nat /\ VGA_ROWS = row + (VGA_ROWS - row)
      BY <1>0
    <3> QED BY <3>1
  <2>2. VGA_ROWS * VGA_COLS = row * VGA_COLS + k * VGA_COLS /\ k * VGA_COLS \in Nat
    BY <1>0, <1>1, <2>1
  <2> QED BY <1>3, <2>2
<1>5. Cells = 0..(VGA_ROWS * VGA_COLS + VGA_COLS - 1)
  BY <1>0 DEF Cells
<1>6. /\ VGA_ROWS * VGA_COLS = Bottom + VGA_COLS /\ Bottom \in Nat
      /\ CellAt(VGA_ROWS - 1, 0) = Bottom
  BY <1>0 DEF Bottom, CellAt
<1> QED BY <1>2, <1>3, <1>4, <1>5, <1>6

LEMMA DrawnMoves ==
    ASSUME NEW buf \in [Cells -> Drawn]
    PROVE  /\ \A row \in 1..(VGA_ROWS - 1) : MovedRow(buf, row) \in [Cells -> Drawn]
           /\ Cleared(buf) \in [Cells -> Drawn]
           /\ Scrolled(buf) \in [Cells -> Drawn]
<1>0. VGA_ROWS \in Nat \ {0} /\ VGA_COLS \in Nat \ {0} /\ SPACE \in Drawn
  BY ScreenSize, ScreenAssumption DEF Drawn, Printed
<1>1. ASSUME NEW row \in 1..(VGA_ROWS - 1) PROVE MovedRow(buf, row) \in [Cells -> Drawn]
  <2>1. row \in 1..VGA_ROWS /\ row + 1 \in 1..VGA_ROWS /\ (row + 1) - 1 = row
    BY <1>0
  <2>2. CellAt(row, 0) <= CellAt(VGA_ROWS, 0) /\ CellAt(row, 0) \in Nat /\ CellAt(row - 1, 0) \in Nat
        /\ Cells = 0..(CellAt(VGA_ROWS, 0) + VGA_COLS - 1)
    BY <2>1, RowsOfCells
  <2>3. ASSUME NEW c \in Cells, c \in CellAt(row - 1, 0)..(CellAt(row, 0) - 1)
        PROVE  c + VGA_COLS \in Cells
    <3>1. c \in Nat /\ c + VGA_COLS <= CellAt(row, 0) + VGA_COLS - 1
      BY <1>0, <2>2, <2>3
    <3>2. c + VGA_COLS \in 0..(CellAt(VGA_ROWS, 0) + VGA_COLS - 1)
      <4>1. VGA_ROWS \in 1..VGA_ROWS
        BY <1>0
      <4>2. CellAt(VGA_ROWS, 0) \in Nat
        BY <4>1, RowsOfCells
      <4> QED BY <1>0, <2>2, <3>1, <4>2
    <3> QED BY <2>2, <3>2
  <2> QED BY <2>3 DEF MovedRow
<1>2. Cleared(buf) \in [Cells -> Drawn]
  BY <1>0 DEF Cleared
<1>3. Scrolled(buf) \in [Cells -> Drawn]
  <2>1. VGA_ROWS \in 1..VGA_ROWS
    BY <1>0
  <2>2. CellAt(VGA_ROWS - 1, 0) \in Nat /\ CellAt(VGA_ROWS, 0) = CellAt(VGA_ROWS - 1, 0) + VGA_COLS
        /\ Cells = 0..(CellAt(VGA_ROWS, 0) + VGA_COLS - 1)
    BY <2>1, RowsOfCells
  <2>3. ASSUME NEW c \in Cells PROVE Scrolled(buf)[c] \in Drawn
    <3>1. CASE c < CellAt(VGA_ROWS - 1, 0)
      <4>1. c + VGA_COLS \in Cells /\ ~(c >= CellAt(VGA_ROWS, 0))
        BY <1>0, <2>2, <3>1
      <4>2. Scrolled(buf)[c] = buf[c + VGA_COLS]
        BY <3>1, <4>1 DEF Scrolled
      <4> QED BY <4>1, <4>2
    <3>2. CASE ~(c < CellAt(VGA_ROWS - 1, 0))
      <4>1. Scrolled(buf)[c] = buf[c] \/ Scrolled(buf)[c] = SPACE
        BY <3>2 DEF Scrolled
      <4> QED BY <1>0, <4>1
    <3> QED BY <3>1, <3>2
  <2>4. Scrolled(buf) = [c \in Cells |-> Scrolled(buf)[c]]
    BY DEF Scrolled
  <2> QED BY <2>3, <2>4
<1> QED BY <1>1, <1>2, <1>3

LEMMA DrawnWritten ==
    ASSUME vga_buffer \in [Cells -> Drawn], NEW ch \in Drawn, NEW r, NEW c, PutEntry(ch, r, c)
    PROVE  vga_buffer' \in [Cells -> Drawn]
BY DEF PutEntry

\* A row that moves, or the last one that is cleared, is where the line was to
\* be seen ahead.
LEMMA AheadMoves ==
    ASSUME NEW buf, NEW row \in 1..(VGA_ROWS - 1), NEW c \in 0..(Bottom - 1)
    PROVE  Ahead(MovedRow(buf, row), row + 1)[c] = Ahead(buf, row)[c]
<1>0. VGA_ROWS \in Nat \ {0} /\ VGA_COLS \in Nat \ {0} /\ row \in 1..VGA_ROWS
      /\ row + 1 \in 1..VGA_ROWS /\ (row + 1) - 1 = row
  BY ScreenSize
<1> DEFINE lo == (row - 1) * VGA_COLS
           hi == row * VGA_COLS
<1>1. /\ lo \in Nat /\ hi = lo + VGA_COLS /\ Bottom \in Nat
      /\ Cells = 0..(Bottom + VGA_COLS + VGA_COLS - 1)
      /\ CellAt(row - 1, 0) = lo /\ CellAt(row, 0) = hi
  BY <1>0, RowsOfCells
<1>2. /\ Ahead(buf, row) = [d \in Cells |-> IF d < lo THEN buf[d] ELSE buf[d + VGA_COLS]]
      /\ Ahead(MovedRow(buf, row), row + 1)
            = [d \in Cells |-> IF d < hi THEN MovedRow(buf, row)[d] ELSE MovedRow(buf, row)[d + VGA_COLS]]
      /\ MovedRow(buf, row) = [d \in Cells |-> IF d \in lo..(hi - 1) THEN buf[d + VGA_COLS] ELSE buf[d]]
  BY <1>0, <1>1 DEF Ahead, MovedRow
<1> HIDE DEF lo, hi
<1>3. c \in Cells /\ c + VGA_COLS \in Cells /\ c \in Nat /\ lo \in Nat /\ hi \in Nat
  BY <1>0, <1>1
<1>4. CASE c < lo
  <2>1. c < hi /\ c \notin lo..(hi - 1)
    BY <1>0, <1>1, <1>3, <1>4
  <2> QED BY <1>2, <1>3, <1>4, <2>1
<1>5. CASE ~(c < lo) /\ c < hi
  <2>1. c \in lo..(hi - 1)
    BY <1>3, <1>5
  <2> QED BY <1>2, <1>3, <1>5, <2>1
<1>6. CASE ~(c < hi)
  <2>1. ~(c < lo) /\ c + VGA_COLS \notin lo..(hi - 1)
    BY <1>0, <1>1, <1>3, <1>6
  <2> QED BY <1>2, <1>3, <1>6, <2>1
<1> QED BY <1>4, <1>5, <1>6

LEMMA AheadClears ==
    ASSUME NEW buf, NEW c \in 0..(Bottom - 1)
    PROVE  Cleared(buf)[c] = Ahead(buf, VGA_ROWS)[c]
<1>0. VGA_ROWS \in Nat \ {0} /\ VGA_COLS \in Nat \ {0} /\ VGA_ROWS \in 1..VGA_ROWS
  BY ScreenSize
<1>1. /\ Cells = 0..(Bottom + VGA_COLS + VGA_COLS - 1) /\ Bottom \in Nat
      /\ CellAt(VGA_ROWS - 1, 0) = Bottom /\ (VGA_ROWS - 1) * VGA_COLS = Bottom
  BY <1>0, RowsOfCells DEF Bottom
<1>2. c \in Cells /\ c < Bottom /\ ~(c \in Bottom..(CellAt(VGA_ROWS, 0) - 1))
  BY <1>0, <1>1
<1> QED BY <1>1, <1>2 DEF Cleared, Ahead

\* The cell that flashes is not seen elsewhere ahead of a scroll.
LEMMA AheadFlashes ==
    ASSUME NEW buf \in [Cells -> Drawn], NEW row \in 1..VGA_ROWS, NEW x, NEW c \in 0..(Bottom - 1)
    PROVE  \/ c = VGA_COLS - 1
           \/ Ahead([buf EXCEPT ![VGA_COLS - 1] = x], row)[c] = Ahead(buf, row)[c]
<1>0. VGA_COLS \in Nat \ {0}
  BY ScreenSize
<1>1. Cells = 0..(Bottom + VGA_COLS + VGA_COLS - 1) /\ Bottom \in Nat
  BY RowsOfCells
<1>2. c \in Cells /\ c + VGA_COLS \in Cells /\ c + VGA_COLS # VGA_COLS - 1
  BY <1>0, <1>1
<1> QED BY <1>2 DEF Ahead

LEMMA DisplayConsole ==
    ASSUME CursorInv, LineInv, DisplayInv, ConsoleNext, UNCHANGED session
    PROVE  DisplayInv'
<1>0. /\ vga_buffer \in [Cells -> Drawn] /\ logs \in Nat
      /\ UNCHANGED <<pc, pos, shell_input>> /\ out \in Seq(Printed)
      /\ VGA_ROWS \in Nat \ {0} /\ VGA_COLS \in Nat \ {0} /\ pos \in Nat
  BY ScreenSize, Alphabet DEF DisplayInv, session, line, CursorInv, LineInv, Index
<1>a. \A o, buf, e : Still(o, buf, e)' <=> Still(o', buf', e')
  BY <1>0 DEF Still, Up
<1> DEFINE Shown == pc = "read" /\ logs = 0 /\ ~torn
<1>1. CASE PutLoad
  <2>1. /\ UNCHANGED <<vga_buffer, console_row, console_col, out, logs, torn>>
        /\ at = "ready" /\ at' = "store" /\ reg'[1] = console_row /\ reg'[2] = console_col
    BY <1>1 DEF PutLoad, cursor
  <2>2. Place' = Place
    BY <2>1 DEF Place
  <2> QED BY <1>0, <1>a, <2>1, <2>2 DEF DisplayInv
<1>2. CASE PutGlyph
  <2>1. /\ at = "store" /\ at' = "right" /\ Head(out) \notin {NL, TAB, BS} /\ out # <<>>
        /\ UNCHANGED <<console_row, console_col, out, logs, torn>>
    BY <1>2 DEF PutGlyph, cursor, CursorInv
  <2>2. PICK r \in Rows, c \in Cols : PutEntry(Head(out), r, c) /\ reg' = <<r, c>>
    BY <1>2 DEF PutGlyph
  <2>3. Head(out) \in Drawn
    BY <1>0, <2>1, HeadTailProperties DEF Drawn
  <2>4. vga_buffer' \in [Cells -> Drawn]
    BY <1>0, <2>2, <2>3, DrawnWritten
  <2>5. ASSUME Shown
        PROVE  /\ reg'[1] = console_row /\ reg'[2] = console_col
               /\ Still(Tail(out), vga_buffer', Place + 1)
    <3>1. r = console_row /\ c = console_col /\ Still(out, vga_buffer, Place)
      BY <2>1, <2>5 DEF DisplayInv, Rows, Cols
    <3>2. vga_buffer' = [vga_buffer EXCEPT ![Place] = Head(out)]
      BY <2>2, <3>1, PlaceFacts DEF PutEntry
    <3> QED BY <1>0, <2>1, <2>2, <3>1, <3>2, PlaceFacts, StillNext
  <2>6. Place' = Place
    BY <2>1 DEF Place
  <2> QED BY <1>0, <1>a, <2>1, <2>4, <2>5, <2>6 DEF DisplayInv
<1>3. CASE PutRight
  <2>1. /\ at = "right" /\ at' = "wrap"
        /\ UNCHANGED <<vga_buffer, console_row, out, logs, torn>>
    BY <1>3 DEF PutRight
  <2>2. PICK c \in Cols : console_col' = c + 1 /\ reg' = <<reg[1], c + 1>>
    BY <1>3 DEF PutRight
  <2>3. ASSUME Shown
        PROVE  /\ reg'[1] = console_row' /\ reg'[2] = console_col' /\ Place' = Place + 1
               /\ Still(Tail(out), vga_buffer, Place + 1)
    <3>1. c = console_col /\ reg[1] = console_row /\ Still(Tail(out), vga_buffer, Place + 1)
      BY <2>1, <2>3 DEF DisplayInv, Cols
    <3>2. Place' = Place + 1
      BY <2>1, <2>2, <3>1, PlaceFacts DEF Place
    <3> QED BY <2>1, <2>2, <3>1, <3>2
  <2> QED BY <1>0, <1>a, <2>1, <2>3 DEF DisplayInv
<1>4. CASE PutWrap
  <2>1. at = "wrap" /\ UNCHANGED <<vga_buffer, console_row, out, reg, logs, torn>>
    BY <1>4 DEF PutWrap
  <2>2. PICK c \in Cols : IF c >= VGA_COLS THEN console_col' = 0 /\ at' = "row"
                          ELSE at' = "scroll" /\ UNCHANGED console_col
    BY <1>4 DEF PutWrap
  <2>3. ASSUME Shown
        PROVE  /\ c = console_col /\ reg[1] = console_row /\ Still(Tail(out), vga_buffer, Place)
               /\ console_row < VGA_ROWS
    BY <2>1, <2>3 DEF DisplayInv, Cols, CursorInv
  <2>4. CASE c >= VGA_COLS
    <3>1. ASSUME Shown PROVE Place' + VGA_COLS = Place
      <4>1. console_col = VGA_COLS
        BY <1>0, <2>3, <2>4, <3>1 DEF CursorInv
      <4> QED BY <1>0, <2>1, <2>2, <2>4, <4>1, PlaceFacts DEF Place
    <3> QED BY <1>0, <1>a, <2>1, <2>2, <2>3, <2>4, <3>1 DEF DisplayInv
  <2>5. CASE ~(c >= VGA_COLS)
    <3>1. Place' = Place
      BY <2>1, <2>2, <2>5 DEF Place
    <3> QED BY <1>0, <1>a, <2>1, <2>2, <2>3, <2>5, <3>1 DEF DisplayInv
  <2> QED BY <2>4, <2>5
<1>5. CASE PutNewline
  <2>1. /\ at = "store" /\ at' = "row" /\ Head(out) = NL /\ out # <<>> /\ pc' = pc
        /\ UNCHANGED <<vga_buffer, logs, torn>>
    BY <1>0, <1>5 DEF PutNewline, CursorInv
  <2>2. ~Shown
    <3> SUFFICES ASSUME Shown PROVE FALSE
      OBVIOUS
    <3>1. Still(out, vga_buffer, Place)
      BY <2>1 DEF DisplayInv
    <3>2. pos > 0 => shell_input[pos - 1] \in Printable
      <4>1. pos > 0 => pos - 1 \in 0..(pos - 1)
        BY <1>0
      <4> QED BY <4>1 DEF LineInv
    <3>3. NL # Prompt /\ NL \notin Printable /\ NL # BS /\ NL # SPACE
      BY Distinct, ScreenAssumption, SessionAssumption DEF Printable
    <3> QED BY <2>1, <3>1, <3>2, <3>3 DEF Still
  <2> QED BY <1>0, <2>1, <2>2 DEF DisplayInv
<1>6. CASE PutRow
  <2>1. at = "row" /\ at' = "scroll" /\ UNCHANGED <<vga_buffer, console_col, out, logs, torn>>
    BY <1>6 DEF PutRow
  <2>2. PICK r \in Rows : console_row' = r + 1 /\ reg' = <<r + 1, reg[2]>>
    BY <1>6 DEF PutRow
  <2>3. ASSUME Shown
        PROVE  /\ reg'[1] = console_row' /\ console_col' = 0 /\ Place' = Place + VGA_COLS
               /\ Still(Tail(out), vga_buffer, Place + VGA_COLS)
    <3>1. r = console_row /\ console_col = 0 /\ Still(Tail(out), vga_buffer, Place + VGA_COLS)
      BY <2>1, <2>3 DEF DisplayInv, Rows
    <3>2. Place' = Place + VGA_COLS
      BY <1>0, <2>1, <2>2, <3>1, PlaceFacts DEF Place
    <3> QED BY <2>1, <2>2, <3>1, <3>2
  <2> QED BY <1>0, <1>a, <2>1, <2>3 DEF DisplayInv
<1>7. CASE PutBackspace
  <2>1. /\ at = "store" /\ Head(out) = BS /\ out # <<>> /\ torn' = (torn \/ reg[2] = 0)
        /\ UNCHANGED <<vga_buffer, console_row, out, logs>> /\ at' \in {"erase", "scroll"}
    BY <1>7 DEF PutBackspace, CursorInv
  <2>2. ASSUME Shown'
        PROVE  /\ at' = "erase" /\ reg'[1] = console_row' /\ reg'[2] = console_col'
               /\ Still(Tail(out), vga_buffer, Place')
    <3>1. /\ Shown /\ reg[2] # 0 /\ reg[1] = console_row /\ reg[2] = console_col
          /\ Still(out, vga_buffer, Place)
      BY <1>0, <2>1, <2>2 DEF DisplayInv
    <3>2. console_col > 0
      BY <3>1, PlaceFacts
    <3>3. console_col' = console_col - 1 /\ reg' = <<reg[1], reg[2] - 1>> /\ at' = "erase"
      BY <1>7, <3>1, <3>2 DEF PutBackspace
    <3>4. Place' = Place - 1
      BY <1>0, <2>1, <3>3, PlaceFacts DEF Place
    <3>5. Still(Tail(out), vga_buffer, Place - 1)
      BY <2>1, <3>1, PlaceFacts, StillBack
    <3> QED BY <2>1, <3>1, <3>3, <3>4, <3>5
  <2> QED BY <1>0, <1>a, <2>1, <2>2 DEF DisplayInv
<1>8. CASE PutErase
  <2>1. /\ at = "erase" /\ at' = "scroll"
        /\ UNCHANGED <<console_row, console_col, out, reg, logs, torn>>
    BY <1>8 DEF PutErase, cursor
  <2>2. PICK r \in Rows, c \in Cols : PutEntry(SPACE, r, c)
    BY <1>8 DEF PutErase
  <2>3. SPACE \in Drawn
    BY ScreenAssumption DEF Drawn, Printed
  <2>4. vga_buffer' \in [Cells -> Drawn]
    BY <1>0, <2>2, <2>3, DrawnWritten
  <2>5. ASSUME Shown
        PROVE  /\ reg[1] = console_row /\ console_row < VGA_ROWS
               /\ Still(Tail(out), vga_buffer', Place)
    <3>1. r = console_row /\ c = console_col /\ Still(Tail(out), vga_buffer, Place)
          /\ reg[1] = console_row /\ console_row < VGA_ROWS
      BY <2>1, <2>5 DEF DisplayInv, Rows, Cols, CursorInv
    <3>2. vga_buffer' = [vga_buffer EXCEPT ![Place] = SPACE]
      BY <2>2, <3>1, PlaceFacts DEF PutEntry
    <3>3. \A d \in 0..(Place - 1) : vga_buffer'[d] = vga_buffer[d]
      <4>1. \A d \in 0..(Place - 1) : d \in Cells /\ d # Place
        BY PlaceFacts
      <4> QED BY <1>0, <3>2, <4>1
    <3>4. Still(Tail(out), vga_buffer', Place)
      BY <1>0, <3>1, <3>3, PlaceFacts, StillKept
    <3> QED BY <3>1, <3>4
  <2>6. Place' = Place
    BY <2>1 DEF Place
  <2> QED BY <1>0, <1>a, <2>1, <2>4, <2>5, <2>6 DEF DisplayInv
<1>9. CASE PutScroll
  <2>1. at = "scroll" /\ UNCHANGED <<vga_buffer, console_row, console_col, logs, torn>>
    BY <1>9 DEF PutScroll, cursor
  <2>2. PICK r \in Rows :
          IF MustScroll(r) THEN at' = "move" /\ reg' = <<1, 0>> /\ UNCHANGED out ELSE Done
    BY <1>9 DEF PutScroll
  <2>3. ASSUME Shown
        PROVE  /\ r = console_row /\ Still(Tail(out), vga_buffer, Place)
               /\ console_row = VGA_ROWS => console_col = 0
    BY <2>1, <2>3 DEF DisplayInv, Rows
  <2>4. Place' = Place
    BY <2>1 DEF Place
  <2>5. CASE MustScroll(r)
    <3>1. at' = "move" /\ reg'[1] = 1 /\ out' = out /\ 1 \in 1..VGA_ROWS
      BY <1>0, <2>2, <2>5
    <3>2. ASSUME Shown PROVE console_col = 0 /\ Still(Tail(out), Ahead(vga_buffer, 1), Bottom)
      <4>1. console_row = VGA_ROWS /\ console_col = 0
        BY <1>0, <2>3, <2>5, <3>2 DEF MustScroll, CursorInv
      <4>2. Place = VGA_ROWS * VGA_COLS
        BY <1>0, <4>1, PlaceFacts DEF Place
      <4>3. Still(Tail(out), vga_buffer, VGA_ROWS * VGA_COLS)
        BY <2>3, <3>2, <4>2
      <4> QED BY <1>0, <3>2, <4>1, <4>3, StillScroll
    <3>3. Ahead(vga_buffer', reg'[1]) = Ahead(vga_buffer, 1) /\ Bottom' = Bottom
      BY <2>1, <3>1 DEF Ahead, Bottom
    <3>4. Shown' => Still(Tail(out'), Ahead(vga_buffer', reg'[1]), Bottom')
      BY <1>0, <2>1, <3>1, <3>2, <3>3
    <3> QED BY <1>0, <1>a, <2>1, <3>1, <3>2, <3>4 DEF DisplayInv
  <2>6. CASE ~MustScroll(r)
    <3>1. at' = "ready" /\ out' = Tail(out)
      BY <2>2, <2>6 DEF Done
    <3> QED BY <1>0, <1>a, <2>1, <2>3, <2>4, <3>1 DEF DisplayInv
  <2> QED BY <2>5, <2>6
<1>10. CASE ScrollMove
  <2>1. /\ at = "move" /\ at' = "move" /\ reg[1] \in 1..(VGA_ROWS - 1) /\ reg'[1] = reg[1] + 1
        /\ vga_buffer' = MovedRow(vga_buffer, reg[1])
        /\ UNCHANGED <<console_row, console_col, out, logs, torn>>
    BY <1>0, <1>10 DEF ScrollMove, cursor, DisplayInv
  <2>2. vga_buffer' \in [Cells -> Drawn] /\ reg'[1] \in 1..VGA_ROWS
    <3>1. \A row \in 1..(VGA_ROWS - 1) : MovedRow(vga_buffer, row) \in [Cells -> Drawn]
      BY <1>0, DrawnMoves
    <3>2. vga_buffer' \in [Cells -> Drawn]
      BY <2>1, <3>1
    <3>3. reg'[1] \in 1..VGA_ROWS
      BY <1>0, <2>1
    <3> QED BY <3>2, <3>3
  <2>3. ASSUME Shown
        PROVE  console_col = 0 /\ Still(Tail(out), Ahead(vga_buffer', reg[1] + 1), Bottom)
    <3>1. console_col = 0 /\ Still(Tail(out), Ahead(vga_buffer, reg[1]), Bottom)
      BY <2>1, <2>3 DEF DisplayInv
    <3>2. \A c \in 0..(Bottom - 1) :
             Ahead(vga_buffer', reg[1] + 1)[c] = Ahead(vga_buffer, reg[1])[c]
      BY <2>1, AheadMoves
    <3>3. PICK old, new : old = Ahead(vga_buffer, reg[1]) /\ new = Ahead(vga_buffer', reg[1] + 1)
      OBVIOUS
    <3>4. Bottom \in Nat /\ (\A c \in 0..(Bottom - 1) : c = VGA_COLS - 1 \/ new[c] = old[c])
          /\ Still(Tail(out), old, Bottom)
      BY <3>1, <3>2, <3>3, PlaceFacts
    <3>5. Still(Tail(out), new, Bottom)
      BY <1>0, <3>4, StillKept
    <3> QED BY <3>1, <3>3, <3>5
  <2>4. Ahead(vga_buffer, reg[1])' = Ahead(vga_buffer', reg[1] + 1) /\ Bottom' = Bottom
    BY <2>1 DEF Ahead, Bottom
  <2> QED BY <1>0, <1>a, <2>1, <2>2, <2>3, <2>4 DEF DisplayInv
<1>11. CASE ScrollClear
  <2>1. /\ at = "move" /\ at' = "bottom" /\ reg[1] = VGA_ROWS
        /\ vga_buffer' = Cleared(vga_buffer)
        /\ UNCHANGED <<console_row, console_col, out, logs, torn>>
    BY <1>11 DEF ScrollClear, cursor
  <2>2. vga_buffer' \in [Cells -> Drawn]
    BY <1>0, <2>1, DrawnMoves
  <2>3. ASSUME Shown PROVE console_col = 0 /\ Still(Tail(out), vga_buffer', Bottom)
    <3>1. console_col = 0 /\ Still(Tail(out), Ahead(vga_buffer, VGA_ROWS), Bottom)
      BY <2>1, <2>3 DEF DisplayInv
    <3>2. \A c \in 0..(Bottom - 1) : vga_buffer'[c] = Ahead(vga_buffer, VGA_ROWS)[c]
      BY <2>1, AheadClears
    <3> QED BY <1>0, <3>1, <3>2, PlaceFacts, StillKept
  <2>4. Bottom' = Bottom
    BY DEF Bottom
  <2> QED BY <1>0, <1>a, <2>1, <2>2, <2>3, <2>4 DEF DisplayInv
<1>12. CASE ScrollBottom
  <2>1. /\ at = "bottom" /\ at' = "ready" /\ out' = Tail(out) /\ console_row' = VGA_ROWS - 1
        /\ UNCHANGED <<vga_buffer, console_col, logs, torn>>
    BY <1>12 DEF ScrollBottom, Done
  <2>2. ASSUME Shown PROVE Place' = Bottom /\ Still(Tail(out), vga_buffer, Bottom)
    <3>1. console_col = 0 /\ Still(Tail(out), vga_buffer, Bottom)
      BY <2>1, <2>2 DEF DisplayInv
    <3>2. Place' = Bottom + 0
      BY <2>1, <3>1 DEF Place, Bottom
    <3> QED BY <3>1, <3>2, PlaceFacts
  <2> QED BY <1>0, <1>a, <2>1, <2>2 DEF DisplayInv
<1>13. ASSUME NEW ch \in {SPACE, NL}, HandlerPrints(ch) PROVE DisplayInv'
  <2>1. PICK buf : /\ vga_buffer' = buf \/ vga_buffer' = Scrolled(buf)
                   /\ \/ buf = vga_buffer
                      \/ buf = [vga_buffer EXCEPT ![CellAt(console_row, console_col)] = ch]
    BY <1>13 DEF HandlerPrints
  <2>2. ch \in Drawn
    BY ScreenAssumption DEF Drawn, Printed
  <2>3. buf \in [Cells -> Drawn]
    BY <1>0, <2>1, <2>2
  <2>4. vga_buffer' \in [Cells -> Drawn]
    BY <2>1, <2>3, DrawnMoves
  <2>5. logs' \in Nat /\ logs' # 0 /\ at' = at /\ reg' = reg
    BY <1>0, <1>13 DEF HandlerPrints
  <2> QED BY <2>4, <2>5 DEF DisplayInv
<1>14. ASSUME NEW ch \in {FLASH, SPACE}, Flash(ch) PROVE DisplayInv'
  <2>1. /\ vga_buffer' = [vga_buffer EXCEPT ![VGA_COLS - 1] = ch]
        /\ UNCHANGED <<console_row, console_col, out, at, reg, logs, torn>>
    BY <1>14 DEF Flash, cursor
  <2>2. vga_buffer' \in [Cells -> Drawn]
    BY <1>0, <2>1, ScreenAssumption DEF Drawn, Printed
  <2>3. Place' = Place /\ Bottom' = Bottom
    BY <2>1 DEF Place, Bottom
  <2>4. ASSUME NEW o, NEW e \in Nat, Still(o, vga_buffer, e)
        PROVE  Still(o, vga_buffer', e)
    <3>1. PICK new : new = vga_buffer'
      OBVIOUS
    <3>2. \A c \in 0..(e - 1) : c = VGA_COLS - 1 \/ new[c] = vga_buffer[c]
      BY <1>0, <2>1, <3>1
    <3>3. Still(o, new, e)
      BY <1>0, <2>4, <3>2, StillKept
    <3> QED BY <3>1, <3>3
  <2>5. at = "move" => \A o : Still(o, Ahead(vga_buffer, reg[1]), Bottom)
                                => Still(o, Ahead(vga_buffer', reg[1]), Bottom)
    <3> SUFFICES ASSUME at = "move", NEW o, Still(o, Ahead(vga_buffer, reg[1]), Bottom)
                 PROVE  Still(o, Ahead(vga_buffer', reg[1]), Bottom)
      OBVIOUS
    <3>1. reg[1] \in 1..VGA_ROWS
      BY DEF DisplayInv
    <3>2. \A c \in 0..(Bottom - 1) :
             c = VGA_COLS - 1 \/ Ahead(vga_buffer', reg[1])[c] = Ahead(vga_buffer, reg[1])[c]
      <4> SUFFICES ASSUME NEW c \in 0..(Bottom - 1)
                   PROVE  \/ c = VGA_COLS - 1
                          \/ Ahead(vga_buffer', reg[1])[c] = Ahead(vga_buffer, reg[1])[c]
        OBVIOUS
      <4>1. PICK row \in 1..VGA_ROWS : row = reg[1]
        BY <3>1
      <4>2. \/ c = VGA_COLS - 1
            \/ Ahead([vga_buffer EXCEPT ![VGA_COLS - 1] = ch], row)[c] = Ahead(vga_buffer, row)[c]
        BY <1>0, AheadFlashes
      <4> QED BY <2>1, <4>1, <4>2
    <3>3. PICK old, new : old = Ahead(vga_buffer, reg[1]) /\ new = Ahead(vga_buffer', reg[1])
      OBVIOUS
    <3>4. Bottom \in Nat /\ (\A c \in 0..(Bottom - 1) : c = VGA_COLS - 1 \/ new[c] = old[c])
          /\ Still(o, old, Bottom)
      BY <3>2, <3>3, PlaceFacts
    <3>5. Still(o, new, Bottom)
      BY <1>0, <3>4, StillKept
    <3> QED BY <3>3, <3>5
  <2>6. Ahead(vga_buffer, reg[1])' = Ahead(vga_buffer', reg[1])
    BY <2>1 DEF Ahead
  <2>7. Place \in Nat /\ Place + 1 \in Nat /\ Place + VGA_COLS \in Nat /\ Bottom \in Nat
    <3>1. Place \in Nat /\ Bottom \in Nat
      BY PlaceFacts
    <3> HIDE DEF Place, Bottom
    <3> QED BY <1>0, <3>1
  <2> QED BY <1>0, <1>a, <2>1, <2>2, <2>3, <2>4, <2>5, <2>6, <2>7 DEF DisplayInv
<1> QED BY <1>1, <1>2, <1>3, <1>4, <1>5, <1>6, <1>7, <1>8, <1>9, <1>10, <1>11, <1>12, <1>13, <1>14
        DEF ConsoleNext

\* A key is typed, and its echo is to be printed.
LEMMA KeyShows ==
    ASSUME CursorInv, LineInv, DisplayInv, NEW ch \in Key, ReadLine(ch)
    PROVE  DisplayInv'
<1>0. /\ pc = "read" /\ out = <<>> /\ at = "ready"
      /\ UNCHANGED <<vga_buffer, console_row, console_col, at, reg, logs, torn>>
      /\ vga_buffer \in [Cells -> Drawn] /\ logs \in Nat
  BY DEF ReadLine, Ready, Say, cursor, DisplayInv
<1> SUFFICES ASSUME pc' = "read", logs = 0, ~torn PROVE Still(out, vga_buffer, Place)'
  BY <1>0 DEF DisplayInv
<1>1. Up(vga_buffer, Place, pos, shell_input)
  <2>1. Still(out, vga_buffer, Place) /\ out = <<>>
    BY <1>0 DEF DisplayInv
  <2> QED BY <2>1 DEF Still
<1>2. pos \in Nat /\ pos \in Index /\ shell_input \in [Index -> Printable \cup {NUL}]
      /\ \A k \in 0..pos : k \in Index
  BY Alphabet DEF LineInv, Index
<1>3. Place' = Place /\ Place \in Nat
  BY <1>0, PlaceFacts DEF Place
<1>4. ch # NL
  BY DEF ReadLine
<1>5. CASE ch \in Printable
  <2>1. pos' = pos + 1 /\ shell_input' = [shell_input EXCEPT ![pos] = ch]
    BY <1>4, <1>5 DEF ReadLine
  <2>2. out' = <<ch>>
    BY <1>4, <1>5 DEF ReadLine, Say, Echo
  <2>3. shell_input'[pos] = ch /\ \A k \in Index : k # pos => shell_input'[k] = shell_input[k]
    BY <1>2, <2>1
  <2>4. \A k \in 1..pos : pos - k \in Index /\ pos - k # pos
    BY <1>2
  <2>5. Up(vga_buffer, Place, pos, shell_input')
    BY <1>1, <2>3, <2>4 DEF Up
  <2>6. pos' - 1 = pos /\ pos' > 0
    BY <1>2, <2>1
  <2>7. out' = <<shell_input'[pos' - 1]>> /\ Up(vga_buffer', Place', pos' - 1, shell_input')
    BY <1>0, <1>3, <2>2, <2>3, <2>5, <2>6
  <2> QED BY <2>6, <2>7 DEF Still
<1>6. CASE ch \notin Printable /\ (ch # BS \/ pos = 0)
  <2>1. pos' = pos /\ shell_input' = shell_input /\ out' = <<>>
    BY <1>4, <1>6 DEF ReadLine, Say, Echo
  <2>2. Up(vga_buffer', Place', pos', shell_input')
    BY <1>0, <1>1, <1>3, <2>1
  <2> QED BY <2>1, <2>2 DEF Still
<1>7. CASE ch \notin Printable /\ ch = BS /\ pos # 0
  <2>1. pos' = pos - 1 /\ shell_input' = shell_input /\ out' = <<BS, SPACE, BS>> /\ pos > 0
    BY <1>2, <1>4, <1>7 DEF ReadLine, Say, Echo
  <2>2. Up(vga_buffer, Place - 1, pos - 1, shell_input)
    <3>1. pos <= Place
      BY <1>1 DEF Up
    <3>2. ASSUME NEW k \in 1..(pos - 1)
          PROVE  \/ (Place - 1) - k = VGA_COLS - 1
                 \/ vga_buffer[(Place - 1) - k] = shell_input[(pos - 1) - k]
      <4>1. PICK l \in 1..pos : l = k + 1
        BY <1>2
      <4>2. (Place - 1) - k = Place - l /\ (pos - 1) - k = pos - l
        BY <1>2, <1>3, <4>1
      <4> QED BY <1>1, <4>2 DEF Up
    <3> QED BY <1>2, <1>3, <3>1, <3>2 DEF Up
  <2>3. Up(vga_buffer', Place' - 1, pos', shell_input')
    BY <1>0, <1>3, <2>1, <2>2
  <2> QED BY <2>1, <2>3 DEF Still
<1> QED BY <1>5, <1>6, <1>7

LEMMA DisplayStep ==
    ASSUME CursorInv, LineInv, DisplayInv, [Next]_vars
    PROVE  DisplayInv'
<1>1. CASE ConsoleNext /\ UNCHANGED session
  BY <1>1, DisplayConsole
<1>2. ASSUME NEW ch \in Key, ReadLine(ch) PROVE DisplayInv'
  BY <1>2, KeyShows
<1>3. CASE ShellPrompt
  <2>1. UNCHANGED <<vga_buffer, at, logs>> /\ at = "ready" /\ out' = <<Prompt>> /\ pos' = 0
    BY <1>3 DEF ShellPrompt, Ready
  <2>2. Still(out, vga_buffer, Place)'
    BY <2>1 DEF Still
  <2> QED BY <2>1, <2>2 DEF DisplayInv
<1>4. CASE LoginStart \/ Setup \/ Login \/ RunLine
           \/ (\E ch \in Key : ReadName(ch) \/ ReadPassword(ch))
  <2>1. UNCHANGED <<vga_buffer, at, reg, logs>> /\ pc' # "read"
    BY <1>4 DEF LoginStart, Setup, Login, RunLine, ReadName, ReadPassword, Say, console
  <2> QED BY <2>1 DEF DisplayInv
<1>5. CASE UNCHANGED vars
  <2>1. UNCHANGED <<vga_buffer, console_row, console_col, out, at, reg, logs, torn, pc, pos, shell_input>>
    BY <1>5 DEF vars, console, session, line, cursor
  <2>2. Place' = Place /\ Bottom' = Bottom /\ Ahead(vga_buffer, reg[1])' = Ahead(vga_buffer, reg[1])
    BY <2>1 DEF Place, Bottom, Ahead
  <2>3. \A o, buf, e : Still(o, buf, e)' <=> Still(o', buf', e')
    BY <2>1 DEF Still, Up
  <2> QED BY <2>1, <2>2, <2>3 DEF DisplayInv
<1> QED BY <1>1, <1>2, <1>3, <1>4, <1>5 DEF Next, Thread

\* While shell_readline waits for a key, the screen shows before the cursor
\* the line as it is in the buffer: the echo wraps, scrolls and takes back
\* characters in step with it, as long as no handler prints and no backspace
\* meets the left edge.
THEOREM ScreenShowsLineAlways == Spec => []ScreenShowsLine
<1> DEFINE Inv == CursorInv /\ LineInv /\ RunsWhatWasTyped /\ DisplayInv
<1>1. Init => Inv
  <2> SUFFICES ASSUME Init PROVE Inv
    OBVIOUS
  <2>1. LineInv /\ RunsWhatWasTyped
    BY Alphabet DEF Init, LineInv, RunsWhatWasTyped, Index
  <2>2. DisplayInv
    BY ScreenAssumption DEF Init, ConsoleInit, DisplayInv, Drawn, Printed
  <2> QED BY <2>1, <2>2, CursorInit
<1>2. Inv /\ [Next]_vars => Inv'
  <2> SUFFICES ASSUME Inv, [Next]_vars PROVE Inv'
    OBVIOUS
  <2>1. CursorInv'
    <3>1. UNCHANGED vars => CursorInv'
      BY DEF CursorInv, vars, console, cursor
    <3> QED BY <3>1, CursorConsole, CursorThread DEF Next
  <2>2. LineInv' /\ RunsWhatWasTyped'
    BY LineStep
  <2> QED BY <2>1, <2>2, DisplayStep
<1>3. Inv => ScreenShowsLine
  <2> SUFFICES ASSUME Inv, pc = "read", Ready, logs = 0, ~torn, NEW k \in 1..pos
               PROVE  LET cell == console_row * VGA_COLS + console_col - k IN
                      cell = VGA_COLS - 1 \/ vga_buffer[cell] = shell_input[pos - k]
    BY DEF ScreenShowsLine
  <2>1. Still(out, vga_buffer, Place) /\ out = <<>>
    BY DEF DisplayInv, Ready
  <2>2. Up(vga_buffer, Place, pos, shell_input)
    BY <2>1 DEF Still
  <2>3. Place - k = VGA_COLS - 1 \/ vga_buffer[Place - k] = shell_input[pos - k]
    BY <2>2 DEF Up
  <2>4. console_row * VGA_COLS + console_col - k = Place - k
    <3>1. console_row * VGA_COLS \in Nat /\ console_col \in Nat /\ k \in Nat
      <4>1. CursorInv /\ LineInv
        OBVIOUS
      <4>2. console_row * VGA_COLS \in Nat
        BY <4>1, PlaceFacts
      <4>3. console_col \in Nat
        BY <4>1, ScreenSize DEF CursorInv
      <4> QED BY <4>2, <4>3
    <3> QED BY <3>1 DEF Place
  <2> QED BY <2>3, <2>4
<1> QED BY <1>1, <1>2, <1>3, PTL DEF Spec
=============================================================================
