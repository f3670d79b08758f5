------------------------------ MODULE Console ------------------------------
(***************************************************************************)
(* The VGA text console (kernel/console.c) and who writes to it: the       *)
(* thread, character by character, and interrupt handlers, which log       *)
(* through the same functions (klog.c) and flash a corner of the screen    *)
(* (isr.c) at any moment in between.                                       *)
(*                                                                         *)
(* console_row and console_col are plain variables.  The thread's accesses *)
(* to them and to the buffer are steps of their own, and a handler, which  *)
(* runs with interrupts off, may print a whole character between any two;  *)
(* where the code reads a variable again, the build may load it again or   *)
(* use the register.  Only the test and the decrement of a backspace share *)
(* one load, as the compiler has them at -O2 (Makefile:10).  A scroll      *)
(* moves a row in a step.  Colours and the hardware cursor, which follows  *)
(* row and column, are left out, and so are the branches for a TAB and a   *)
(* carriage return: nothing prints one, and the readers of keys drop the   *)
(* TAB (kernel.c:223, user.c:28).                                          *)
(***************************************************************************)
EXTENDS Naturals, Sequences

CONSTANTS
    VGA_ROWS, VGA_COLS,   \* 25 and 80
    Glyph,                \* printable characters, the blank among them
    MaxLogs               \* bound: characters printed by handlers

NL == "NL"
TAB == "TAB"
BS == "BS"
SPACE == " "
FLASH == "*"

ASSUME ScreenAssumption ==
    /\ VGA_ROWS \in Nat \ {0} /\ VGA_COLS \in Nat \ {0} /\ MaxLogs \in Nat
    /\ SPACE \in Glyph /\ Glyph \cap {NL, TAB, BS} = {}

VARIABLES
    vga_buffer,   \* the cells, with one row past the visible ones
    console_row, console_col,
    out,          \* what the thread still has to print
    at,           \* where the thread is in console_putchar
    reg,          \* the row and column it has in registers; in a scroll, the row to move
    logs,         \* how many characters handlers have printed
    torn,         \* history: a backspace met the left edge
    far           \* history: a write went past the row below the screen

cursor == <<console_row, console_col>>
console == <<vga_buffer, cursor, out, at, reg, logs, torn, far>>

Cells == 0..((VGA_ROWS + 1) * VGA_COLS - 1)

ConsoleInit ==
    /\ vga_buffer = [k \in Cells |-> SPACE]
    /\ console_row = 0 /\ console_col = 0
    /\ out = <<>> /\ at = "ready" /\ reg = <<0, 0>>
    /\ logs = 0 /\ torn = FALSE /\ far = FALSE

CellAt(r, c) == r * VGA_COLS + c

\* console_put_entry_at
PutEntry(ch, r, c) ==
    /\ vga_buffer' = IF CellAt(r, c) \in Cells THEN [vga_buffer EXCEPT ![CellAt(r, c)] = ch]
                     ELSE vga_buffer
    /\ far' = (far \/ CellAt(r, c) \notin Cells)

\* Mutant: the screen scrolls one row late.
MustScroll_Late(r) == r > VGA_ROWS

MustScroll(r) == r >= VGA_ROWS

\* What the code reads: the variables, or the registers that hold them.
Rows == {console_row, reg[1]}
Cols == {console_col, reg[2]}

----------------------------------------------------------------------------
\* The thread prints the first character of out.
PutLoad ==
    /\ at = "ready" /\ out # <<>>
    /\ reg' = cursor /\ at' = "store"
    /\ UNCHANGED <<vga_buffer, cursor, out, logs, torn, far>>

\* A glyph goes to its cell.
PutGlyph ==
    /\ at = "store" /\ Head(out) \notin {NL, TAB, BS}
    /\ \E r \in Rows, c \in Cols : PutEntry(Head(out), r, c) /\ reg' = <<r, c>>
    /\ at' = "right"
    /\ UNCHANGED <<cursor, out, logs, torn>>

\* The column moves on: past the last one before it is tested.
PutRight ==
    /\ at = "right"
    /\ \E c \in Cols : console_col' = c + 1 /\ reg' = <<reg[1], c + 1>>
    /\ at' = "wrap"
    /\ UNCHANGED <<vga_buffer, console_row, out, logs, torn, far>>

PutWrap ==
    /\ at = "wrap"
    /\ \E c \in Cols :
          IF c >= VGA_COLS THEN console_col' = 0 /\ at' = "row"
          ELSE at' = "scroll" /\ UNCHANGED console_col
    /\ UNCHANGED <<vga_buffer, console_row, out, reg, logs, torn, far>>

PutNewline ==
    /\ at = "store" /\ Head(out) = NL
    /\ console_col' = 0 /\ at' = "row"
    /\ UNCHANGED <<vga_buffer, console_row, out, reg, logs, torn, far>>

PutRow ==
    /\ at = "row"
    /\ \E r \in Rows : console_row' = r + 1 /\ reg' = <<r + 1, reg[2]>>
    /\ at' = "scroll"
    /\ UNCHANGED <<vga_buffer, console_col, out, logs, torn, far>>

\* A backspace stays in its row.
PutBackspace ==
    /\ at = "store" /\ Head(out) = BS
    /\ IF reg[2] > 0
       THEN console_col' = reg[2] - 1 /\ reg' = <<reg[1], reg[2] - 1>> /\ at' = "erase"
       ELSE at' = "scroll" /\ UNCHANGED <<console_col, reg>>
    /\ torn' = (torn \/ reg[2] = 0)
    /\ UNCHANGED <<vga_buffer, console_row, out, logs, far>>

PutErase ==
    /\ at = "erase"
    /\ \E r \in Rows, c \in Cols : PutEntry(SPACE, r, c)
    /\ at' = "scroll"
    /\ UNCHANGED <<cursor, out, reg, logs, torn>>

\* The character is printed.
Done == out' = Tail(out) /\ at' = "ready" /\ reg' = <<0, 0>>

PutScroll ==
    /\ at = "scroll"
    /\ \E r \in Rows :
          IF MustScroll(r) THEN at' = "move" /\ reg' = <<1, 0>> /\ UNCHANGED out ELSE Done
    /\ UNCHANGED <<vga_buffer, cursor, logs, torn, far>>

\* console_scroll: row reg[1] moves up.
MovedRow(buf, row) ==
    [k \in Cells |-> IF k \in CellAt(row - 1, 0)..(CellAt(row, 0) - 1) THEN buf[k + VGA_COLS] ELSE buf[k]]

Cleared(buf) ==
    [k \in Cells |-> IF k \in CellAt(VGA_ROWS - 1, 0)..(CellAt(VGA_ROWS, 0) - 1) THEN SPACE ELSE buf[k]]

ScrollMove ==
    /\ at = "move" /\ reg[1] < VGA_ROWS
    /\ vga_buffer' = MovedRow(vga_buffer, reg[1]) /\ reg' = <<reg[1] + 1, 0>>
    /\ UNCHANGED <<cursor, out, at, logs, torn, far>>

ScrollClear ==
    /\ at = "move" /\ reg[1] = VGA_ROWS
    /\ vga_buffer' = Cleared(vga_buffer) /\ at' = "bottom"
    /\ UNCHANGED <<cursor, out, reg, logs, torn, far>>

ScrollBottom ==
    /\ at = "bottom"
    /\ console_row' = VGA_ROWS - 1 /\ Done
    /\ UNCHANGED <<vga_buffer, console_col, logs, torn, far>>

\* A handler logs: one whole console_putchar, a glyph or a newline.
Scrolled(buf) ==
    [k \in Cells |-> CASE k < CellAt(VGA_ROWS - 1, 0) -> buf[k + VGA_COLS]
                       [] k >= CellAt(VGA_ROWS, 0) -> buf[k]
                       [] OTHER -> SPACE]

HandlerPrints(ch) ==
    LET wraps == ch = NL \/ console_col + 1 >= VGA_COLS
        row == IF wraps THEN console_row + 1 ELSE console_row
        cell == CellAt(console_row, console_col)
        buf == IF ch # NL /\ cell \in Cells THEN [vga_buffer EXCEPT ![cell] = ch] ELSE vga_buffer
    IN  /\ logs < MaxLogs /\ logs' = logs + 1
        /\ console_col' = IF wraps THEN 0 ELSE console_col + 1
        /\ console_row' = IF MustScroll(row) THEN VGA_ROWS - 1 ELSE row
        /\ vga_buffer' = IF MustScroll(row) THEN Scrolled(buf) ELSE buf
        /\ far' = (far \/ (ch # NL /\ cell \notin Cells))
        /\ UNCHANGED <<out, at, reg, torn>>

\* irq_handler flashes the last cell of the first row on every interrupt.
Flash(ch) ==
    /\ vga_buffer' = [vga_buffer EXCEPT ![VGA_COLS - 1] = ch]
    /\ UNCHANGED <<cursor, out, at, reg, logs, torn, far>>

ConsoleNext ==
    \/ PutLoad \/ PutGlyph \/ PutRight \/ PutWrap \/ PutNewline \/ PutRow
    \/ PutBackspace \/ PutErase \/ PutScroll \/ ScrollMove \/ ScrollClear \/ ScrollBottom
    \/ \E ch \in {SPACE, NL} : HandlerPrints(ch)
    \/ \E ch \in {FLASH, SPACE} : Flash(ch)
=============================================================================
