------------------------------ MODULE Keyboard ------------------------------
(***************************************************************************)
(* The PS/2 keyboard driver (kernel/drivers/keyboard.c): the interrupt     *)
(* handler that turns scancodes into characters in a ring buffer, and the  *)
(* blocking reader the shell calls.                                        *)
(*                                                                         *)
(* Two actors share the ring.  The IRQ1 handler runs with interrupts off   *)
(* from the stub's cli to its iret, so one handled scancode is one step.   *)
(* keyboard_getchar runs in the only thread with interrupts on, so each of *)
(* its accesses to the shared variables is a step of its own and any       *)
(* number of interrupts can fall between two of them.                      *)
(***************************************************************************)
EXTENDS Naturals, Sequences

CONSTANTS
    KB_BUF_SIZE,         \* slots of the ring (128 in the code)
    Char,                \* the characters of the two tables, 0 excluded
    scancode_to_ascii,   \* the translation tables: make code -> Char or 0
    scancode_shift,
    Keys,                \* the make codes of the keys that get pressed
    ExtKeys,             \* those of the keys whose codes follow an E0 byte
    PortDepth,           \* bytes the i8042 and the keyboard hold
    MaxBytes             \* bound: how many bytes the keyboard sends

LSHIFT == 42    \* 0x2A
RSHIFT == 54    \* 0x36
CTRL   == 29    \* 0x1D
ALT    == 56    \* 0x38
Shifts == {LSHIFT, RSHIFT}
Modifiers == Shifts \cup {CTRL, ALT}
EXT    == 224   \* 0xE0, the prefix of the grey keys' codes

ASSUME SizeAssumption == KB_BUF_SIZE \in Nat /\ KB_BUF_SIZE >= 2
ASSUME CharAssumption == 0 \notin Char
ASSUME KeysAssumption == Keys \subseteq 0..127 /\ ExtKeys \subseteq (0..127) \ Shifts
ASSUME TableAssumption ==
    /\ scancode_to_ascii \in [0..127 -> Char \cup {0}]
    /\ scancode_shift \in [0..127 -> Char \cup {0}]
ASSUME BoundAssumption == PortDepth \in Nat /\ MaxBytes \in Nat

VARIABLES
    kb_buffer, kb_head, kb_tail,       \* the ring
    shift_down, ctrl_down, alt_down,   \* the modifier flags
    pc,       \* where the thread is
    c,        \* keyboard_getchar's local
    port,     \* bytes the hardware holds and port 0x60 has not given out
    held,     \* the keys that are physically down,
    exts,     \* the extended ones among them, and
    faked,    \* those of them that pressed a Shift key nobody holds
    sent,     \* how many bytes the keyboard has sent
    log,      \* history: every character stored in the ring
    got,      \* history: every character keyboard_getchar returned
    dropped   \* history: how many characters found the ring full

ring  == <<kb_buffer, kb_head, kb_tail>>
flags == <<shift_down, ctrl_down, alt_down>>
hw    == <<port, held, exts, faked, sent>>
hist  == <<log, got, dropped>>
vars  == <<ring, flags, pc, c, hw, hist>>

PCs == {"boot", "call", "test", "hlt", "halted", "read", "advance"}

----------------------------------------------------------------------------
\* The state keyboard_init leaves; interrupts are still off ("boot").
\* kb_buffer is static storage and so zeroed.
Init ==
    /\ kb_buffer = [i \in 0..(KB_BUF_SIZE - 1) |-> 0]
    /\ kb_head = 0 /\ kb_tail = 0
    /\ shift_down = FALSE /\ ctrl_down = FALSE /\ alt_down = FALSE
    /\ pc = "boot"
    /\ c = 0
    /\ port = <<>> /\ held = {} /\ exts = {} /\ faked = {} /\ sent = 0
    /\ log = <<>> /\ got = <<>> /\ dropped = 0

----------------------------------------------------------------------------
\* The hardware (external).  The keyboard sends the bytes of a code when it
\* has room for them.
Send(bytes) ==
    /\ sent + Len(bytes) <= MaxBytes
    /\ Len(port) + Len(bytes) <= PortDepth
    /\ port' = port \o bytes
    /\ sent' = sent + Len(bytes)
    /\ UNCHANGED <<ring, flags, pc, c, hist>>

\* A key goes down, or repeats while it is down.
KeyMake(k) ==
    /\ Send(<<k>>)
    /\ held' = held \cup {k}
    /\ UNCHANGED <<exts, faked>>

KeyBreak(k) ==
    /\ k \in held
    /\ Send(<<k + 128>>)
    /\ held' = held \ {k}
    /\ UNCHANGED <<exts, faked>>

(***************************************************************************)
(* A key that is not on the original keyboard: the arrows, Insert,         *)
(* PrintScreen.  Its code follows an E0 byte, and around it the keyboard   *)
(* may pretend, with an E0 byte again, that a Shift goes down (PrintScreen,*)
(* the arrows while NumLock is on) or, while one is held, that it comes up.*)
(***************************************************************************)
ExtMake(k) ==
    /\ exts' = exts \cup {k}
    /\ UNCHANGED held
    /\ \/ Send(<<EXT, k>>) /\ UNCHANGED faked
       \/ /\ held \cap Shifts = {}
          /\ Send(<<EXT, LSHIFT, EXT, k>>)
          /\ faked' = faked \cup {k}
       \/ /\ \E s \in held \cap Shifts : Send(<<EXT, s + 128, EXT, k>>)
          /\ UNCHANGED faked

\* It comes up, and what the keyboard pretended is taken back.
ExtBreak(k) ==
    /\ k \in exts
    /\ exts' = exts \ {k}
    /\ faked' = faked \ {k}
    /\ UNCHANGED held
    /\ IF k \in faked
       THEN Send(<<EXT, k + 128, EXT, LSHIFT + 128>>)
       ELSE \/ Send(<<EXT, k + 128>>)
            \/ \E s \in held \cap Shifts : Send(<<EXT, k + 128, EXT, s>>)

----------------------------------------------------------------------------
\* Interrupts are delivered once kernel_main has executed sti; any of them
\* ends a hlt.
InterruptsOn == pc # "boot"
WakeThread == pc' = IF pc = "halted" THEN "test" ELSE pc

\* Mutant: the index is not wrapped.
NextSlot_NoWrap(i) == i + 1

NextSlot(i) == (i + 1) % KB_BUF_SIZE

\* Mutant: the right Shift's release code is forgotten.
ReleaseCode_LeftShiftOnly(sc) ==
    /\ sc >= 128
    /\ shift_down' = (shift_down /\ sc - 128 # LSHIFT)
    /\ ctrl_down' = (ctrl_down /\ sc - 128 # CTRL)
    /\ alt_down' = (alt_down /\ sc - 128 # ALT)
    /\ UNCHANGED <<kb_buffer, kb_head, log, dropped>>

\* Bit 7 set: a key was released.
ReleaseCode(sc) ==
    /\ sc >= 128
    /\ shift_down' = (shift_down /\ sc - 128 \notin Shifts)
    /\ ctrl_down' = (ctrl_down /\ sc - 128 # CTRL)
    /\ alt_down' = (alt_down /\ sc - 128 # ALT)
    /\ UNCHANGED <<kb_buffer, kb_head, log, dropped>>

ModifierMake(sc) ==
    /\ sc \in Modifiers
    /\ shift_down' = (shift_down \/ sc \in Shifts)
    /\ ctrl_down' = (ctrl_down \/ sc = CTRL)
    /\ alt_down' = (alt_down \/ sc = ALT)
    /\ UNCHANGED <<kb_buffer, kb_head, log, dropped>>

Translate(sc) == IF shift_down THEN scancode_shift[sc] ELSE scancode_to_ascii[sc]

\* Mutant: no test for a full ring, so the head runs over the tail.
PutChar_NoFullTest(ch) ==
    /\ kb_buffer' = [kb_buffer EXCEPT ![kb_head] = ch]
    /\ kb_head' = NextSlot(kb_head)
    /\ log' = Append(log, ch)
    /\ UNCHANGED dropped

\* Mutant: a full ring drops the oldest character instead of the new one.
PutChar_Overwrite(ch) ==
    /\ kb_buffer' = [kb_buffer EXCEPT ![IF NextSlot(kb_head) = kb_tail
                                        THEN kb_tail ELSE kb_head] = ch]
    /\ kb_head' = IF NextSlot(kb_head) = kb_tail THEN kb_head ELSE NextSlot(kb_head)
    /\ log' = Append(log, ch)
    /\ UNCHANGED dropped

\* Mutant: the ring is taken for full one character too early.
PutChar_FullEarly(ch) ==
    IF NextSlot(kb_head) # kb_tail /\ NextSlot(NextSlot(kb_head)) # kb_tail
    THEN /\ kb_buffer' = [kb_buffer EXCEPT ![kb_head] = ch]
         /\ kb_head' = NextSlot(kb_head)
         /\ log' = Append(log, ch)
         /\ UNCHANGED dropped
    ELSE /\ dropped' = dropped + 1
         /\ UNCHANGED <<kb_buffer, kb_head, log>>

\* Store a translated character, or drop it when the ring is full.
PutChar(ch) ==
    IF NextSlot(kb_head) # kb_tail
    THEN /\ kb_buffer' = [kb_buffer EXCEPT ![kb_head] = ch]
         /\ kb_head' = NextSlot(kb_head)
         /\ log' = Append(log, ch)
         /\ UNCHANGED dropped
    ELSE /\ dropped' = dropped + 1
         /\ UNCHANGED <<kb_buffer, kb_head, log>>

KeyMakeCode(sc) ==
    /\ sc < 128 /\ sc \notin Modifiers
    /\ IF Translate(sc) # 0
       THEN PutChar(Translate(sc))
       ELSE UNCHANGED <<kb_buffer, kb_head, log, dropped>>
    /\ UNCHANGED flags

keyboard_handle_scancode(sc) ==
    ReleaseCode(sc) \/ ModifierMake(sc) \/ KeyMakeCode(sc)

\* IRQ1: irq_handler acknowledges the PIC and calls keyboard_handler.
KeyboardIrq ==
    /\ InterruptsOn
    /\ port # <<>>
    /\ keyboard_handle_scancode(Head(port))
    /\ port' = Tail(port)
    /\ WakeThread
    /\ UNCHANGED <<kb_tail, c, held, exts, faked, sent, got>>

\* Mutant: IRQ0 stays masked, and only a key ends a hlt.
TimerIrq_Masked ==
    /\ InterruptsOn
    /\ UNCHANGED vars

\* IRQ0: the tick of the timer touches nothing of the keyboard, but wakes
\* a halted CPU.
TimerIrq ==
    /\ InterruptsOn
    /\ WakeThread
    /\ UNCHANGED <<ring, flags, c, hw, hist>>

----------------------------------------------------------------------------
\* The thread.
Sti ==
    /\ pc = "boot"
    /\ pc' = "call"
    /\ UNCHANGED <<ring, flags, c, hw, hist>>

\* The shell comes back for the next character.
Call ==
    /\ pc = "call"
    /\ pc' = "test"
    /\ UNCHANGED <<ring, flags, c, hw, hist>>

keyboard_has_data == kb_tail # kb_head

\* while (kb_tail == kb_head)
GetTest ==
    /\ pc = "test"
    /\ pc' = IF keyboard_has_data THEN "read" ELSE "hlt"
    /\ UNCHANGED <<ring, flags, c, hw, hist>>

\* hlt: the CPU sleeps whatever has happened since the test.
GetHalt ==
    /\ pc = "hlt"
    /\ pc' = "halted"
    /\ UNCHANGED <<ring, flags, c, hw, hist>>

GetRead ==
    /\ pc = "read"
    /\ c' = kb_buffer[kb_tail]
    /\ pc' = "advance"
    /\ UNCHANGED <<ring, flags, hw, hist>>

\* Advance the tail and return c to the caller.
GetAdvance ==
    /\ pc = "advance"
    /\ kb_tail' = NextSlot(kb_tail)
    /\ got' = Append(got, c)
    /\ pc' = "call"
    /\ UNCHANGED <<kb_buffer, kb_head, flags, c, hw, log, dropped>>

Thread == Sti \/ Call \/ GetTest \/ GetHalt \/ GetRead \/ GetAdvance

Hardware ==
    \/ \E k \in Keys : KeyMake(k) \/ KeyBreak(k)
    \/ \E k \in ExtKeys : ExtMake(k) \/ ExtBreak(k)

Next == Thread \/ KeyboardIrq \/ TimerIrq \/ Hardware

Spec == Init /\ [][Next]_vars

(***************************************************************************)
(* Fairness.  The thread is the only one and the CPU executes it whenever  *)
(* it is not halted; Call is fair because every shell command returns to   *)
(* the prompt.  IRQ0 recurs at 1000 Hz and a raised IRQ1 is delivered      *)
(* while interrupts are on.  Nobody has to press a key.                    *)
(***************************************************************************)
Fairness ==
    /\ WF_vars(Thread)
    /\ WF_vars(TimerIrq)
    /\ WF_vars(KeyboardIrq)

FairSpec == Spec /\ Fairness

----------------------------------------------------------------------------
\* How many characters the ring holds, and the slot of the j-th of them.
Unread == IF kb_tail <= kb_head THEN kb_head - kb_tail
                                ELSE kb_head + KB_BUF_SIZE - kb_tail
Slot(j) == IF kb_tail + j < KB_BUF_SIZE THEN kb_tail + j
                                        ELSE kb_tail + j - KB_BUF_SIZE

\* The characters stored and not yet returned, oldest first.
Pending == [j \in 1..Unread |-> kb_buffer[Slot(j - 1)]]

TypeOK ==
    /\ kb_buffer \in [0..(KB_BUF_SIZE - 1) -> Char \cup {0}]
    /\ kb_head \in 0..(KB_BUF_SIZE - 1)
    /\ kb_tail \in 0..(KB_BUF_SIZE - 1)
    /\ shift_down \in BOOLEAN /\ ctrl_down \in BOOLEAN /\ alt_down \in BOOLEAN
    /\ pc \in PCs
    /\ c \in Char \cup {0}
    /\ port \in Seq(0..255)
    /\ held \subseteq Keys /\ exts \subseteq ExtKeys /\ faked \subseteq exts
    /\ sent \in Nat
    /\ log \in Seq(Char) /\ got \in Seq(Char)
    /\ dropped \in Nat

\* Nothing accepted by the IRQ1 handler is lost, duplicated or reordered on
\* its way through the ring: what keyboard_getchar has returned, followed by
\* what lies between kb_tail and kb_head, is what the handler stored.
NothingLost == got \o Pending = log

\* Between reading kb_buffer[kb_tail] and advancing kb_tail the reader holds
\* the oldest unread character: no interrupt has reused the slot.
ReaderHoldsOldest ==
    pc = "advance" => Unread > 0 /\ c = kb_buffer[kb_tail]

\* Once every byte has been handled, the driver believes Shift is down only
\* if the user is holding a Shift key, or an extended key for which the
\* keyboard has pressed one: keyboard_handle_scancode ignores the E0 before
\* that code (keyboard.c:77,87).  With neither down the flag cannot stick.
ShiftNeverSticks ==
    port = <<>> /\ shift_down => held \cap Shifts # {} \/ faked # {}

\* The driver implements the bounded queue: a character is dropped exactly
\* when KB_BUF_SIZE - 1 are unread, and the reader gets the oldest one.
Queue == INSTANCE KeyQueue WITH
            Char <- Char, Capacity <- KB_BUF_SIZE - 1, queue <- Pending
ImplementsQueue == Queue!QSpec

\* The reader is never left asleep over a non-empty ring: keyboard_getchar
\* eventually returns every stored character (up to more of them than the
\* ring has slots), although the test of the ring
\* and the hlt are two instructions and the interrupt can fall between them.
EveryCharReturned ==
    \A n \in 1..(KB_BUF_SIZE + 1) : (Len(log) >= n) ~> (Len(got) >= n)
=============================================================================
