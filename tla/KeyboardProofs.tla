--------------------------- MODULE KeyboardProofs ---------------------------
(***************************************************************************)
(* Proofs about the keyboard driver, for every ring size, every pair of    *)
(* tables and any number of bytes.                                         *)
(***************************************************************************)
EXTENDS Keyboard, SequenceTheorems, TLAPS

\* (i + 1) % KB_BUF_SIZE, the index step of handler and reader, without the
\* remainder.
LEMMA NextSlotValue ==
    ASSUME NEW i \in 0..(KB_BUF_SIZE - 1)
    PROVE  /\ NextSlot(i) = IF i + 1 = KB_BUF_SIZE THEN 0 ELSE i + 1
           /\ NextSlot(i) \in 0..(KB_BUF_SIZE - 1)
<1>1. CASE i + 1 = KB_BUF_SIZE
  <2>1. KB_BUF_SIZE % KB_BUF_SIZE = 0
    BY SizeAssumption, Z3
  <2> QED BY <1>1, <2>1, SizeAssumption DEF NextSlot
<1>2. CASE i + 1 < KB_BUF_SIZE
  <2>1. \A a, b \in Nat : b > 0 /\ a < b => a % b = a
    BY Z3
  <2> QED BY <1>2, <2>1, SizeAssumption DEF NextSlot
<1> QED BY <1>1, <1>2, SizeAssumption

(***************************************************************************)
(* The inductive invariant.  NothingLost by itself is not inductive: that  *)
(* the character the reader appends to `got` is the oldest one of the ring *)
(* depends on what the reader's program counter knows about the ring.      *)
(* The relation between ring and history is stated slot by slot.           *)
(***************************************************************************)
ReaderKnows ==
    /\ pc \in {"read", "advance"} => kb_tail # kb_head
    /\ pc = "advance" => c = kb_buffer[kb_tail]

RingMatchesLog ==
    /\ Len(log) = Len(got) + Unread
    /\ \A j \in 1..Unread : kb_buffer[Slot(j - 1)] = log[Len(got) + j]
    /\ \A i \in 1..Len(got) : got[i] = log[i]

RingInv == TypeOK /\ ReaderKnows /\ RingMatchesLog

\* The initial state of the driver satisfies the invariant.
LEMMA RingInvInit == Init => RingInv
<1> SUFFICES ASSUME Init PROVE RingInv
  OBVIOUS
<1>1. TypeOK
  <2>1. /\ kb_buffer \in [0..(KB_BUF_SIZE - 1) -> Char \cup {0}]
        /\ kb_head \in 0..(KB_BUF_SIZE - 1) /\ kb_tail \in 0..(KB_BUF_SIZE - 1)
        /\ sent \in Nat /\ dropped \in Nat
    BY SizeAssumption DEF Init
  <2>2. port \in Seq(0..255) /\ log \in Seq(Char) /\ got \in Seq(Char)
    BY DEF Init
  <2>3. /\ shift_down \in BOOLEAN /\ ctrl_down \in BOOLEAN /\ alt_down \in BOOLEAN
        /\ pc \in PCs /\ c \in Char \cup {0}
        /\ held \subseteq Keys /\ exts \subseteq ExtKeys /\ faked \subseteq exts
    BY Zenon DEF Init, PCs
  <2> QED BY <2>1, <2>2, <2>3, Zenon DEF TypeOK
<1>2. ReaderKnows
  BY DEF Init, ReaderKnows
<1>3. Unread = 0
  BY DEF Init, Unread
<1>4. RingMatchesLog
  BY <1>3 DEF Init, RingMatchesLog
<1> QED BY <1>1, <1>2, <1>4 DEF RingInv

\* A step that leaves ring, history and the reader's local alone keeps the
\* relation of ring and history.
LEMMA RingFrame ==
    ASSUME RingMatchesLog, UNCHANGED <<ring, hist>>
    PROVE  RingMatchesLog'
BY DEF RingMatchesLog, ring, hist, Unread, Slot

\* Storing a character in the ring.
LEMMA PutCharStores ==
    ASSUME TypeOK, ReaderKnows, RingMatchesLog,
           NEW ch \in Char, NextSlot(kb_head) # kb_tail,
           PutChar(ch), UNCHANGED <<kb_tail, got>>
    PROVE  /\ RingMatchesLog'
           /\ Unread' = Unread + 1
           /\ kb_buffer' \in [0..(KB_BUF_SIZE - 1) -> Char \cup {0}]
           /\ kb_head' \in 0..(KB_BUF_SIZE - 1)
           /\ log' \in Seq(Char)
           /\ kb_tail # kb_head => /\ kb_tail # kb_head'
                                   /\ kb_buffer'[kb_tail] = kb_buffer[kb_tail]
<1> DEFINE N == KB_BUF_SIZE
<1>1. /\ kb_buffer' = [kb_buffer EXCEPT ![kb_head] = ch]
      /\ kb_head' = NextSlot(kb_head)
      /\ log' = Append(log, ch)
  BY DEF PutChar
<1>2. /\ kb_head \in 0..(N - 1) /\ kb_tail \in 0..(N - 1) /\ N \in Nat /\ N >= 2
      /\ log \in Seq(Char) /\ got \in Seq(Char)
      /\ kb_buffer \in [0..(N - 1) -> Char \cup {0}]
  BY SizeAssumption DEF TypeOK
<1>3. NextSlot(kb_head) = (IF kb_head + 1 = N THEN 0 ELSE kb_head + 1)
  BY <1>2, NextSlotValue
<1>4. Unread' = Unread + 1 /\ Unread \in 0..(N - 2)
  BY <1>1, <1>2, <1>3 DEF Unread
<1>5. \A j \in 1..Unread : Slot(j - 1) \in 0..(N - 1) /\ Slot(j - 1) # kb_head /\ Slot(j - 1)' = Slot(j - 1)
  BY <1>2, <1>4 DEF Slot, Unread
<1>7. RingMatchesLog'
  <2>1. Len(log') = Len(got') + Unread'
    BY <1>1, <1>2, <1>4 DEF RingMatchesLog
  <2>2. ASSUME NEW j \in 1..(Unread + 1)
        PROVE  kb_buffer'[Slot(j - 1)'] = log'[Len(got) + j]
    <3>1. CASE j \in 1..Unread
      BY <3>1, <1>1, <1>2, <1>4, <1>5 DEF RingMatchesLog
    <3>2. CASE j = Unread + 1
      <4>1. Slot(j - 1)' = kb_head
        BY <3>2, <1>1, <1>2, <1>3, <1>4 DEF Slot, Unread
      <4>2. log'[Len(got) + j] = ch
        BY <3>2, <1>1, <1>2, <1>4 DEF RingMatchesLog
      <4> QED BY <4>1, <4>2, <1>1, <1>2
    <3> QED BY <3>1, <3>2, <1>4
  <2>3. \A i \in 1..Len(got') : got'[i] = log'[i]
    BY <1>1, <1>2, <1>4 DEF RingMatchesLog
  <2> QED BY <2>1, <2>2, <2>3, <1>4 DEF RingMatchesLog
<1>8. /\ kb_buffer' \in [0..(N - 1) -> Char \cup {0}]
      /\ kb_head' \in 0..(N - 1)
      /\ log' \in Seq(Char)
  BY <1>1, <1>2, <1>3
<1>9. kb_tail # kb_head => /\ kb_tail # kb_head'
                           /\ kb_buffer'[kb_tail] = kb_buffer[kb_tail]
  BY <1>1, <1>2, <1>3
<1> QED BY <1>4, <1>7, <1>8, <1>9

\* keyboard_getchar's last step takes the oldest character out of the ring.
LEMMA AdvanceTakes ==
    ASSUME TypeOK, ReaderKnows, RingMatchesLog, GetAdvance
    PROVE  /\ RingMatchesLog'
           /\ kb_tail' \in 0..(KB_BUF_SIZE - 1)
           /\ got' \in Seq(Char)
           /\ Unread > 0 /\ Unread' = Unread - 1
           /\ c = kb_buffer[Slot(0)]
           /\ \A j \in 1..Unread' : kb_buffer'[Slot(j - 1)'] = kb_buffer[Slot(j)]
<1> DEFINE N == KB_BUF_SIZE
<1>1. /\ kb_tail' = NextSlot(kb_tail)
      /\ got' = Append(got, c)
      /\ pc = "advance"
      /\ kb_buffer' = kb_buffer /\ kb_head' = kb_head /\ log' = log
  BY DEF GetAdvance
<1>2. /\ kb_head \in 0..(N - 1) /\ kb_tail \in 0..(N - 1) /\ N \in Nat /\ N >= 2
      /\ log \in Seq(Char) /\ got \in Seq(Char)
      /\ kb_buffer \in [0..(N - 1) -> Char \cup {0}]
  BY SizeAssumption DEF TypeOK
<1>3. kb_tail # kb_head /\ c = kb_buffer[kb_tail]
  BY <1>1 DEF ReaderKnows
<1>4. NextSlot(kb_tail) = (IF kb_tail + 1 = N THEN 0 ELSE kb_tail + 1)
  BY <1>2, NextSlotValue
<1>5. Unread \in 1..(N - 1) /\ Unread' = Unread - 1
  BY <1>1, <1>2, <1>3, <1>4 DEF Unread
<1>6. Slot(0) = kb_tail
  BY <1>2 DEF Slot
<1>7. \A j \in 1..(Unread - 1) : Slot(j - 1)' = Slot(j)
  BY <1>1, <1>2, <1>4, <1>5 DEF Slot
<1>8. c = log[Len(got) + 1] /\ c \in Char
  <2>1. c = log[Len(got) + 1]
    BY <1>3, <1>5, <1>6 DEF RingMatchesLog
  <2>2. Len(got) + 1 \in 1..Len(log)
    BY <1>2, <1>5 DEF RingMatchesLog
  <2> QED BY <2>1, <2>2, <1>2
<1>9. RingMatchesLog'
  <2>1. Len(log') = Len(got') + Unread'
    <3>1. Len(got') = Len(got) + 1 /\ Len(got) \in Nat
      BY <1>1, <1>2, <1>8
    <3> QED BY <3>1, <1>1, <1>5 DEF RingMatchesLog
  <2>2. ASSUME NEW j \in 1..(Unread - 1)
        PROVE  kb_buffer'[Slot(j - 1)'] = log'[Len(got') + j]
    <3>1. kb_buffer[Slot(j)] = log[Len(got) + (j + 1)]
      <4>1. j + 1 \in 1..Unread /\ (j + 1) - 1 = j
        BY <1>5
      <4>2. kb_buffer[Slot((j + 1) - 1)] = log[Len(got) + (j + 1)]
        BY <4>1 DEF RingMatchesLog
      <4> QED BY <4>1, <4>2
    <3>2. Len(got') + j = Len(got) + (j + 1)
      BY <1>1, <1>2
    <3> QED BY <3>1, <3>2, <1>1, <1>7
  <2>3. \A i \in 1..Len(got') : got'[i] = log'[i]
    BY <1>1, <1>2, <1>8 DEF RingMatchesLog
  <2> QED BY <2>1, <2>2, <2>3, <1>5 DEF RingMatchesLog
<1>10. \A j \in 1..Unread' : kb_buffer'[Slot(j - 1)'] = kb_buffer[Slot(j)]
  BY <1>1, <1>5, <1>7
<1>11. kb_tail' \in 0..(N - 1) /\ got' \in Seq(Char)
  BY <1>1, <1>2, <1>4, <1>8
<1> QED BY <1>3, <1>5, <1>6, <1>9, <1>10, <1>11

\* What the three branches of keyboard_handle_scancode do to the ring: they
\* store one character of the tables, drop one, or touch nothing.
LEMMA HandlerCases ==
    ASSUME TypeOK, KeyboardIrq
    PROVE  \/ \E ch \in Char : PutChar(ch)
           \/ UNCHANGED <<kb_buffer, kb_head, log, dropped>>
<1> DEFINE sc == Head(port)
<1>1. sc \in 0..255
  <2>1. port \in Seq(0..255) /\ port # <<>>
    BY DEF TypeOK, KeyboardIrq
  <2> QED BY <2>1, HeadTailProperties
<1>2. CASE ReleaseCode(sc) \/ ModifierMake(sc)
  BY <1>2, Zenon DEF ReleaseCode, ModifierMake
<1>3. CASE KeyMakeCode(sc)
  <2>1. sc \in 0..127
    BY <1>1, <1>3 DEF KeyMakeCode
  <2>2. Translate(sc) \in Char \cup {0}
    BY <2>1, TableAssumption DEF Translate
  <2> QED BY <1>3, <2>2 DEF KeyMakeCode
<1> QED BY <1>2, <1>3 DEF KeyboardIrq, keyboard_handle_scancode

\* The handler leaves its flags Boolean.
LEMMA HandlerFlags ==
    ASSUME TypeOK, KeyboardIrq
    PROVE  shift_down' \in BOOLEAN /\ ctrl_down' \in BOOLEAN /\ alt_down' \in BOOLEAN
<1> DEFINE sc == Head(port)
<1>1. CASE ReleaseCode(sc)
  BY <1>1, Zenon DEF ReleaseCode
<1>2. CASE ModifierMake(sc)
  BY <1>2, Zenon DEF ModifierMake
<1>3. CASE KeyMakeCode(sc)
  BY <1>3, Zenon DEF KeyMakeCode, flags, TypeOK
<1> QED BY <1>1, <1>2, <1>3 DEF KeyboardIrq, keyboard_handle_scancode

(***************************************************************************)
(* What the keyboard sends, as the other proofs need it: a sequence of     *)
(* bytes that says nothing of the Shift keys and leaves them as they are,  *)
(* or one whose last Shift code, if it is a make code, is that of a Shift  *)
(* that is held or stands for a key that has faked one.                    *)
(***************************************************************************)
ShiftCodes == Shifts \cup {k + 128 : k \in Shifts}

\* The codes of the two Shift keys, and what they are not.
LEMMA ShiftCodeValues ==
    /\ Shifts = {42, 54} /\ ShiftCodes = {42, 54, 170, 182}
    /\ \A k \in 0..127 : /\ k \in ShiftCodes <=> k \in Shifts
                         /\ k + 128 \in ShiftCodes <=> k \in Shifts
                         /\ k + 128 \notin Shifts
BY DEF Shifts, ShiftCodes, LSHIFT, RSHIFT

SaysNothingOfShift(bs) ==
    /\ \A m \in 1..Len(bs) : bs[m] \notin ShiftCodes
    /\ held' \cap Shifts = held \cap Shifts
    /\ faked' = faked

TellsOfShift(bs) ==
    \E p \in 1..Len(bs) :
        /\ bs[p] \in ShiftCodes
        /\ \A m \in (p + 1)..Len(bs) : bs[m] \notin ShiftCodes
        /\ bs[p] \in Shifts => bs[p] \in held' \/ faked' # {}

LEMMA KeySends ==
    ASSUME TypeOK, NEW k \in Keys, KeyMake(k) \/ KeyBreak(k)
    PROVE  \E bs \in Seq(0..255) :
              /\ Send(bs)
              /\ held' \subseteq Keys /\ exts' \subseteq ExtKeys /\ faked' \subseteq exts'
              /\ SaysNothingOfShift(bs) \/ TellsOfShift(bs)
<1> DEFINE Good(bs) ==
        /\ Send(bs)
        /\ held' \subseteq Keys /\ exts' \subseteq ExtKeys /\ faked' \subseteq exts'
        /\ SaysNothingOfShift(bs) \/ TellsOfShift(bs)
<1>1. k \in 0..127 /\ held \subseteq Keys /\ exts \subseteq ExtKeys /\ faked \subseteq exts
  BY KeysAssumption DEF TypeOK
<1>2. CASE KeyMake(k)
  <2>1. /\ Send(<<k>>) /\ <<k>> \in Seq(0..255) /\ Len(<<k>>) = 1 /\ <<k>>[1] = k
        /\ held' = held \cup {k} /\ exts' = exts /\ faked' = faked
    BY <1>1, <1>2 DEF KeyMake
  <2>2. k \in Shifts => TellsOfShift(<<k>>)
    BY <1>1, <2>1, ShiftCodeValues DEF TellsOfShift
  <2>3. k \notin Shifts => SaysNothingOfShift(<<k>>)
    BY <1>1, <2>1, ShiftCodeValues DEF SaysNothingOfShift
  <2>4. Good(<<k>>)
    BY <1>1, <2>1, <2>2, <2>3
  <2> QED BY <2>1, <2>4
<1>3. CASE KeyBreak(k)
  <2>1. /\ Send(<<k + 128>>) /\ <<k + 128>> \in Seq(0..255)
        /\ Len(<<k + 128>>) = 1 /\ <<k + 128>>[1] = k + 128
        /\ held' = held \ {k} /\ exts' = exts /\ faked' = faked
    BY <1>1, <1>3 DEF KeyBreak
  <2>2. k \in Shifts => TellsOfShift(<<k + 128>>)
    BY <1>1, <2>1, ShiftCodeValues DEF TellsOfShift
  <2>3. k \notin Shifts => SaysNothingOfShift(<<k + 128>>)
    BY <1>1, <2>1, ShiftCodeValues DEF SaysNothingOfShift
  <2>4. Good(<<k + 128>>)
    BY <1>1, <2>1, <2>2, <2>3
  <2> QED BY <2>1, <2>4
<1> QED BY <1>2, <1>3

LEMMA ExtKeySends ==
    ASSUME TypeOK, NEW k \in ExtKeys, ExtMake(k) \/ ExtBreak(k)
    PROVE  \E bs \in Seq(0..255) :
              /\ Send(bs)
              /\ held' \subseteq Keys /\ exts' \subseteq ExtKeys /\ faked' \subseteq exts'
              /\ SaysNothingOfShift(bs) \/ TellsOfShift(bs)
<1> DEFINE Good(bs) ==
        /\ Send(bs)
        /\ held' \subseteq Keys /\ exts' \subseteq ExtKeys /\ faked' \subseteq exts'
        /\ SaysNothingOfShift(bs) \/ TellsOfShift(bs)
<1>1. /\ k \in 0..127 /\ k \notin Shifts
      /\ held \subseteq Keys /\ exts \subseteq ExtKeys /\ faked \subseteq exts
  BY KeysAssumption DEF TypeOK
<1>2. /\ k \notin ShiftCodes /\ k + 128 \notin ShiftCodes /\ EXT \notin ShiftCodes
      /\ EXT \in 0..255 /\ k \in 0..255 /\ k + 128 \in 0..255
  BY <1>1, ShiftCodeValues DEF EXT
<1>3. ASSUME NEW x \in {k, k + 128}, NEW bs, bs = <<EXT, x>>,
             held' = held, faked' = faked
      PROVE  bs \in Seq(0..255) /\ SaysNothingOfShift(bs)
  <2>1. bs \in Seq(0..255) /\ Len(bs) = 2 /\ bs[1] = EXT /\ bs[2] = x
    BY <1>2, <1>3
  <2> QED BY <1>2, <1>3, <2>1 DEF SaysNothingOfShift
<1>4. ASSUME NEW x \in 0..255, x \notin ShiftCodes, NEW y \in ShiftCodes, NEW bs,
             bs = <<EXT, y, EXT, x>> \/ bs = <<EXT, x, EXT, y>>,
             y \in Shifts => y \in held' \/ faked' # {}
      PROVE  bs \in Seq(0..255) /\ TellsOfShift(bs)
  <2>1. y \in 0..255
    BY ShiftCodeValues
  <2>2. bs \in Seq(0..255) /\ Len(bs) = 4
    <3>1. <<EXT, y, EXT, x>> \in Seq(0..255) /\ Len(<<EXT, y, EXT, x>>) = 4
      BY <1>2, <2>1
    <3>2. <<EXT, x, EXT, y>> \in Seq(0..255) /\ Len(<<EXT, x, EXT, y>>) = 4
      BY <1>2, <2>1
    <3> QED BY <1>4, <3>1, <3>2, Zenon
  <2>3. CASE bs = <<EXT, y, EXT, x>>
    <3>1. bs[2] = y /\ bs[3] = EXT /\ bs[4] = x
      BY <2>3
    <3> QED BY <1>2, <1>4, <2>2, <3>1 DEF TellsOfShift
  <2>4. CASE bs = <<EXT, x, EXT, y>>
    <3>1. bs[4] = y
      BY <2>4
    <3> QED BY <1>2, <1>4, <2>2, <3>1 DEF TellsOfShift
  <2> QED BY <1>4, <2>3, <2>4
<1>5. CASE ExtMake(k)
  <2>1. exts' = exts \cup {k} /\ held' = held
    BY <1>5 DEF ExtMake
  <2>2. CASE Send(<<EXT, k>>) /\ faked' = faked
    <3>1. Good(<<EXT, k>>) /\ <<EXT, k>> \in Seq(0..255)
      BY <1>1, <1>3, <2>1, <2>2
    <3> QED BY <3>1
  <2>3. CASE Send(<<EXT, LSHIFT, EXT, k>>) /\ faked' = faked \cup {k}
    <3>1. LSHIFT \in ShiftCodes
      BY DEF ShiftCodes, Shifts
    <3>2. PICK bs : bs = <<EXT, LSHIFT, EXT, k>>
      OBVIOUS
    <3>3. bs \in Seq(0..255) /\ TellsOfShift(bs)
      BY <1>2, <1>4, <2>3, <3>1, <3>2
    <3>4. Good(bs)
      BY <1>1, <2>1, <2>3, <3>2, <3>3
    <3> QED BY <3>3, <3>4
  <2>4. ASSUME NEW t \in held \cap Shifts, Send(<<EXT, t + 128, EXT, k>>), faked' = faked
        PROVE  \E bs \in Seq(0..255) : Good(bs)
    <3>1. t + 128 \in ShiftCodes /\ t + 128 \notin Shifts
      <4>1. t \in Shifts
        BY <2>4
      <4>2. t + 128 \in ShiftCodes
        BY <4>1 DEF ShiftCodes
      <4>3. t + 128 \notin Shifts
        BY <4>1 DEF Shifts, LSHIFT, RSHIFT
      <4> QED BY <4>2, <4>3
    <3>2. PICK bs : bs = <<EXT, t + 128, EXT, k>>
      OBVIOUS
    <3>3. bs \in Seq(0..255) /\ TellsOfShift(bs)
      BY <1>2, <1>4, <2>4, <3>1, <3>2
    <3>4. Good(bs)
      BY <1>1, <2>1, <2>4, <3>2, <3>3
    <3> QED BY <3>3, <3>4
  <2> QED BY <1>5, <2>2, <2>3, <2>4 DEF ExtMake
<1>6. CASE ExtBreak(k)
  <2>1. exts' = exts \ {k} /\ held' = held /\ faked' = faked \ {k}
    BY <1>6 DEF ExtBreak
  <2>2. faked' \subseteq exts' /\ exts' \subseteq ExtKeys /\ held' \subseteq Keys
    BY <1>1, <2>1
  <2>3. CASE k \in faked
    <3>1. PICK y : y = LSHIFT + 128
      OBVIOUS
    <3>2. Send(<<EXT, k + 128, EXT, y>>)
      BY <1>6, <2>3, <3>1 DEF ExtBreak
    <3>3. y \in ShiftCodes /\ y \notin Shifts
      BY <3>1, ShiftCodeValues DEF LSHIFT
    <3>4. PICK bs : bs = <<EXT, k + 128, EXT, y>>
      OBVIOUS
    <3>5. bs \in Seq(0..255) /\ TellsOfShift(bs)
      BY <1>2, <1>4, <3>3, <3>4
    <3>6. Good(bs)
      BY <1>1, <2>2, <3>2, <3>4, <3>5
    <3> QED BY <3>5, <3>6
  <2>4. CASE k \notin faked /\ Send(<<EXT, k + 128>>)
    <3>1. faked' = faked
      BY <2>1, <2>4
    <3>2. Good(<<EXT, k + 128>>) /\ <<EXT, k + 128>> \in Seq(0..255)
      BY <1>3, <2>1, <2>2, <2>4, <3>1
    <3> QED BY <3>2
  <2>5. ASSUME NEW t \in held \cap Shifts, Send(<<EXT, k + 128, EXT, t>>)
        PROVE  \E bs \in Seq(0..255) : Good(bs)
    <3>1. t \in ShiftCodes /\ t \in held'
      BY <2>1 DEF ShiftCodes
    <3>2. PICK bs : bs = <<EXT, k + 128, EXT, t>>
      OBVIOUS
    <3>3. bs \in Seq(0..255) /\ TellsOfShift(bs)
      BY <1>2, <1>4, <3>1, <3>2
    <3>4. Good(bs)
      BY <1>1, <2>2, <2>5, <3>2, <3>3
    <3> QED BY <3>3, <3>4
  <2> QED BY <1>6, <2>3, <2>4, <2>5 DEF ExtBreak
<1> QED BY <1>5, <1>6

\* The bytes go behind those that are there.
LEMMA SendPositions ==
    ASSUME NEW s \in Seq(0..255), NEW bs \in Seq(0..255)
    PROVE  /\ s \o bs \in Seq(0..255)
           /\ Len(s) \in Nat /\ Len(bs) \in Nat /\ Len(s \o bs) = Len(s) + Len(bs)
           /\ \A j \in 1..Len(s) : (s \o bs)[j] = s[j]
           /\ \A j \in 1..Len(bs) : (s \o bs)[Len(s) + j] = bs[j]
<1> DEFINE Byte == 0..255
<1>1. s \in Seq(Byte) /\ bs \in Seq(Byte)
  OBVIOUS
<1> HIDE DEF Byte
<1>2. /\ s \o bs \in Seq(Byte)
      /\ Len(s) \in Nat /\ Len(bs) \in Nat /\ Len(s \o bs) = Len(s) + Len(bs)
      /\ \A i \in 1..(Len(s) + Len(bs)) :
             (s \o bs)[i] = IF i <= Len(s) THEN s[i] ELSE bs[i - Len(s)]
  BY <1>1, ConcatProperties, LenProperties
<1> QED BY <1>2 DEF Byte

LEMMA HardwareSends ==
    ASSUME TypeOK, Hardware
    PROVE  \E bs \in Seq(0..255) :
              /\ Send(bs)
              /\ held' \subseteq Keys /\ exts' \subseteq ExtKeys /\ faked' \subseteq exts'
              /\ SaysNothingOfShift(bs) \/ TellsOfShift(bs)
BY KeySends, ExtKeySends DEF Hardware

\* Every step of the driver, the thread and the hardware keeps the
\* invariant.
LEMMA RingInvNext == RingInv /\ [Next]_vars => RingInv'
<1> SUFFICES ASSUME RingInv, [Next]_vars PROVE RingInv'
  OBVIOUS
<1> USE DEF RingInv
<1>1. CASE UNCHANGED vars
  <2>1. UNCHANGED <<ring, hist>>
    BY <1>1, Zenon DEF vars
  <2>2. RingMatchesLog'
    BY <2>1, RingFrame
  <2>3. TypeOK'
    BY <1>1, Zenon DEF vars, ring, flags, hw, hist, TypeOK
  <2>4. ReaderKnows'
    BY <1>1, Zenon DEF vars, ring, ReaderKnows
  <2> QED BY <2>2, <2>3, <2>4
<1>2. CASE Sti \/ Call \/ GetTest \/ GetHalt \/ TimerIrq
  <2>1. UNCHANGED <<ring, flags, c, hw, hist>>
    BY <1>2, Zenon DEF Sti, Call, GetTest, GetHalt, TimerIrq
  <2>2. RingMatchesLog'
    BY <2>1, RingFrame, Zenon
  <2>3. pc' \in PCs
    BY <1>2 DEF Sti, Call, GetTest, GetHalt, TimerIrq, WakeThread, TypeOK, PCs
  <2>4. TypeOK'
    BY <2>1, <2>3, Zenon DEF ring, flags, hw, hist, TypeOK
  <2>5. ReaderKnows'
    BY <1>2 DEF Sti, Call, GetTest, GetHalt, TimerIrq, WakeThread, ReaderKnows,
                keyboard_has_data, ring
  <2> QED BY <2>2, <2>4, <2>5
<1>3. CASE GetRead
  <2>1. UNCHANGED <<ring, hist>>
    BY <1>3, Zenon DEF GetRead
  <2>2. RingMatchesLog'
    BY <2>1, RingFrame
  <2>3. c' \in Char \cup {0}
    BY <1>3 DEF GetRead, TypeOK
  <2>4. TypeOK'
    BY <1>3, <2>3, Zenon DEF GetRead, ring, flags, hw, hist, TypeOK, PCs
  <2>5. ReaderKnows'
    BY <1>3 DEF GetRead, ReaderKnows, ring
  <2> QED BY <2>2, <2>4, <2>5
<1>4. CASE GetAdvance
  <2>1. RingMatchesLog'
    BY <1>4, AdvanceTakes
  <2>2. kb_tail' \in 0..(KB_BUF_SIZE - 1) /\ got' \in Seq(Char)
    BY <1>4, AdvanceTakes
  <2>3. TypeOK'
    BY <1>4, <2>2, Zenon DEF GetAdvance, flags, hw, TypeOK, PCs
  <2>4. ReaderKnows'
    BY <1>4 DEF GetAdvance, ReaderKnows
  <2> QED BY <2>1, <2>3, <2>4
<1>5. CASE KeyboardIrq
  <2>1. /\ kb_tail' = kb_tail /\ c' = c /\ sent' = sent /\ got' = got
        /\ held' = held /\ exts' = exts /\ faked' = faked
        /\ port' = Tail(port) /\ port # <<>> /\ WakeThread
    BY <1>5 DEF KeyboardIrq
  <2> DEFINE Kept ==
        /\ RingMatchesLog'
        /\ kb_buffer' \in [0..(KB_BUF_SIZE - 1) -> Char \cup {0}]
        /\ kb_head' \in 0..(KB_BUF_SIZE - 1)
        /\ log' \in Seq(Char) /\ dropped' \in Nat
        /\ kb_tail # kb_head => /\ kb_tail # kb_head'
                                /\ kb_buffer'[kb_tail] = kb_buffer[kb_tail]
  <2>2. Kept
    <3>1. CASE UNCHANGED <<kb_buffer, kb_head, log, dropped>>
      <4>1. UNCHANGED <<ring, hist>>
        BY <2>1, <3>1 DEF ring, hist
      <4>2. RingMatchesLog'
        BY <4>1, RingFrame
      <4> QED BY <3>1, <4>2 DEF TypeOK
    <3>2. ASSUME NEW ch \in Char, PutChar(ch), NextSlot(kb_head) # kb_tail
          PROVE  Kept
      <4>1. dropped' \in Nat
        BY <3>2 DEF PutChar, TypeOK
      <4> QED BY <2>1, <3>2, <4>1, PutCharStores
    <3>3. ASSUME NEW ch \in Char, PutChar(ch), NextSlot(kb_head) = kb_tail
          PROVE  Kept
      <4>1. UNCHANGED <<kb_buffer, kb_head, log>> /\ dropped' \in Nat
        BY <3>3 DEF PutChar, TypeOK
      <4>2. RingMatchesLog'
        BY <2>1, <4>1 DEF RingMatchesLog, Unread, Slot
      <4> QED BY <4>1, <4>2 DEF TypeOK
    <3>4. CASE \E ch \in Char : PutChar(ch)
      <4>1. PICK ch \in Char : PutChar(ch)
        BY <3>4
      <4>2. CASE NextSlot(kb_head) # kb_tail
        BY <4>1, <4>2, <3>2, Zenon
      <4>3. CASE NextSlot(kb_head) = kb_tail
        BY <4>1, <4>3, <3>3, Zenon
      <4> QED BY <4>2, <4>3, Zenon
    <3> QED BY <1>5, <3>1, <3>4, HandlerCases
  <2>3. port' \in Seq(0..255)
    BY <2>1 DEF TypeOK
  <2>4. pc' \in PCs
    BY <2>1 DEF WakeThread, TypeOK, PCs
  <2>5. shift_down' \in BOOLEAN /\ ctrl_down' \in BOOLEAN /\ alt_down' \in BOOLEAN
    BY <1>5, HandlerFlags
  <2>6. TypeOK'
    BY <2>1, <2>2, <2>3, <2>4, <2>5, Zenon DEF TypeOK
  <2>7. ReaderKnows'
    BY <2>1, <2>2 DEF ReaderKnows, WakeThread
  <2> QED BY <2>2, <2>6, <2>7
<1>6. CASE Hardware
  <2>1. PICK bs \in Seq(0..255) :
          /\ Send(bs)
          /\ held' \subseteq Keys /\ exts' \subseteq ExtKeys /\ faked' \subseteq exts'
    BY <1>6, HardwareSends
  <2>2. UNCHANGED <<ring, flags, pc, c, hist>>
    BY <2>1, Zenon DEF Send
  <2>3. RingMatchesLog'
    BY <2>2, RingFrame, Zenon
  <2>4. port' \in Seq(0..255) /\ sent' \in Nat
    BY <2>1, SendPositions DEF Send, TypeOK
  <2>5. TypeOK'
    BY <2>1, <2>2, <2>4, Zenon DEF ring, flags, hist, TypeOK
  <2>6. ReaderKnows'
    BY <2>2, Zenon DEF ring, ReaderKnows
  <2> QED BY <2>3, <2>5, <2>6
<1> QED BY <1>1, <1>2, <1>3, <1>4, <1>5, <1>6 DEF Next, Thread

\* The slot-by-slot relation is what NothingLost says of the sequences.
LEMMA MatchGivesNothingLost ==
    ASSUME TypeOK, RingMatchesLog
    PROVE  /\ Unread \in Nat
           /\ Pending \in Seq(Char)
           /\ NothingLost
<1>1. log \in Seq(Char) /\ got \in Seq(Char)
  BY DEF TypeOK
<1>2. Unread \in 0..(KB_BUF_SIZE - 1)
  BY SizeAssumption DEF TypeOK, Unread
<1>3. \A j \in 1..Unread : kb_buffer[Slot(j - 1)] \in Char
  <2> SUFFICES ASSUME NEW j \in 1..Unread PROVE kb_buffer[Slot(j - 1)] \in Char
    OBVIOUS
  <2>1. Len(got) + j \in 1..Len(log)
    BY <1>1, <1>2 DEF RingMatchesLog
  <2> QED BY <1>1, <2>1 DEF RingMatchesLog
<1>4. Pending \in Seq(Char) /\ Len(Pending) = Unread
  BY <1>2, <1>3 DEF Pending
<1>5. Len(got \o Pending) = Len(log) /\ got \o Pending \in Seq(Char)
  BY <1>1, <1>2, <1>4 DEF RingMatchesLog
<1>6. \A i \in 1..Len(log) : (got \o Pending)[i] = log[i]
  <2> SUFFICES ASSUME NEW i \in 1..Len(log) PROVE (got \o Pending)[i] = log[i]
    OBVIOUS
  <2>1. CASE i <= Len(got)
    BY <1>1, <1>4, <2>1 DEF RingMatchesLog
  <2>2. CASE i > Len(got)
    <3> DEFINE j == i - Len(got)
    <3>1. j \in 1..Unread /\ i = Len(got) + j
      BY <1>1, <1>2, <2>2 DEF RingMatchesLog
    <3>2. (got \o Pending)[i] = Pending[j]
      BY <1>1, <1>2, <1>4, <3>1, <2>2
    <3>3. Pending[j] = kb_buffer[Slot(j - 1)]
      BY <3>1 DEF Pending
    <3> QED BY <3>1, <3>2, <3>3 DEF RingMatchesLog
  <2>3. Len(got) \in Nat /\ Len(log) \in Nat
    BY <1>1, LenProperties
  <2>4. i <= Len(got) \/ i > Len(got)
    BY <2>3
  <2> QED BY <2>1, <2>2, <2>4, Zenon
<1>7. NothingLost
  BY <1>1, <1>5, <1>6, SeqEqual, Zenon DEF NothingLost
<1> QED BY <1>2, <1>4, <1>7

\* The inductive invariant holds in every reachable state of the driver.
THEOREM RingInvariant == Spec => []RingInv
BY RingInvInit, RingInvNext, PTL DEF Spec

\* The driver's variables keep their types; in particular both indices stay
\* inside kb_buffer and keyboard_getchar only ever returns characters of the
\* tables, never an unwritten slot.
THEOREM TypeCorrect == Spec => []TypeOK
<1>1. RingInv => TypeOK
  BY DEF RingInv
<1> QED BY <1>1, RingInvariant, PTL

\* No character the handler stored is lost, duplicated or reordered.
THEOREM NothingLostAlways == Spec => []NothingLost
<1>1. RingInv => NothingLost
  BY MatchGivesNothingLost DEF RingInv
<1> QED BY <1>1, RingInvariant, PTL

\* No interrupt reuses the slot the reader is taking.
THEOREM ReaderHoldsOldestAlways == Spec => []ReaderHoldsOldest
<1>1. RingInv => ReaderHoldsOldest
  BY SizeAssumption DEF RingInv, ReaderKnows, ReaderHoldsOldest, TypeOK, Unread
<1> QED BY <1>1, RingInvariant, PTL

----------------------------------------------------------------------------
\* Pending after a step that leaves the ring and the history alone.
LEMMA QueueFrame ==
    ASSUME UNCHANGED <<ring, hist>>
    PROVE  UNCHANGED Queue!qvars
<1>1. Pending' = Pending /\ got' = got /\ dropped' = dropped
  BY DEF ring, hist, Pending, Unread, Slot
<1> QED BY <1>1 DEF Queue!qvars

\* One step of the driver is one step of the bounded queue, or none.
LEMMA QueueStep == RingInv /\ [Next]_vars => [Queue!QNext]_(Queue!qvars)
<1> SUFFICES ASSUME RingInv, [Next]_vars PROVE [Queue!QNext]_(Queue!qvars)
  OBVIOUS
<1> DEFINE N == KB_BUF_SIZE
<1>1. /\ TypeOK /\ ReaderKnows /\ RingMatchesLog
      /\ Pending \in Seq(Char) /\ Unread \in Nat
  BY MatchGivesNothingLost DEF RingInv
<1>2. Len(Pending) = Unread
  BY <1>1 DEF Pending
<1>3. /\ TypeOK' /\ RingMatchesLog' /\ Pending' \in Seq(Char) /\ Unread' \in Nat
      /\ Len(Pending') = Unread'
  <2>1. RingInv'
    BY RingInvNext
  <2>2. /\ TypeOK' /\ RingMatchesLog'
    BY <2>1 DEF RingInv
  <2>3. (TypeOK /\ RingMatchesLog => Pending \in Seq(Char) /\ Unread \in Nat)'
    BY MatchGivesNothingLost, PTL
  <2>4. Pending' \in Seq(Char) /\ Unread' \in Nat
    BY <2>2, <2>3
  <2> QED BY <2>2, <2>4 DEF Pending
<1>4. CASE UNCHANGED <<ring, hist>>
  BY <1>4, QueueFrame
<1>5. CASE GetAdvance
  <2>1. /\ Unread > 0 /\ Unread' = Unread - 1 /\ c = kb_buffer[Slot(0)]
        /\ \A j \in 1..Unread' : kb_buffer'[Slot(j - 1)'] = kb_buffer[Slot(j)]
    BY <1>1, <1>5, AdvanceTakes
  <2>2. Pending # <<>>
    BY <1>1, <1>2, <2>1
  <2>3. Head(Pending) = c
    BY <1>1, <2>1, <2>2 DEF Pending
  <2>4. Pending' = Tail(Pending)
    <3>1. /\ Tail(Pending) \in Seq(Char) /\ Len(Tail(Pending)) = Unread'
          /\ \A i \in 1..Len(Tail(Pending)) : Tail(Pending)[i] = Pending[i + 1]
      BY <1>1, <1>2, <2>1, <2>2, HeadTailProperties
    <3>2. ASSUME NEW i \in 1..Unread' PROVE Pending'[i] = Tail(Pending)[i]
      <4>1. Pending'[i] = kb_buffer'[Slot(i - 1)']
        BY DEF Pending
      <4>2. i + 1 \in 1..Unread /\ (i + 1) - 1 = i
        BY <1>1, <2>1
      <4>3. Pending[i + 1] = kb_buffer[Slot(i)]
        BY <4>2 DEF Pending
      <4> QED BY <3>1, <4>1, <4>3, <2>1
    <3> QED BY <1>3, <3>1, <3>2, SeqEqual
  <2> QED BY <1>5, <2>2, <2>3, <2>4 DEF GetAdvance, Queue!QNext, Queue!Return
<1>6. ASSUME NEW ch \in Char, PutChar(ch), UNCHANGED <<kb_tail, got>>
      PROVE  Queue!QNext
  <2>1. /\ kb_head \in 0..(N - 1) /\ kb_tail \in 0..(N - 1) /\ N \in Nat /\ N >= 2
        /\ NextSlot(kb_head) = (IF kb_head + 1 = N THEN 0 ELSE kb_head + 1)
    BY <1>1, SizeAssumption, NextSlotValue DEF TypeOK
  <2>2. CASE NextSlot(kb_head) # kb_tail
    <3>1. Unread' = Unread + 1 /\ log' = Append(log, ch) /\ dropped' = dropped
      BY <1>1, <1>6, <2>2, PutCharStores DEF PutChar
    <3>2. Len(Pending) < N - 1
      BY <1>2, <2>1, <2>2 DEF Unread
    <3>3. Pending' = Append(Pending, ch)
      <4>1. /\ log \in Seq(Char) /\ got \in Seq(Char) /\ got' = got
            /\ Len(log) = Len(got) + Unread
        BY <1>1, <1>6 DEF TypeOK, RingMatchesLog
      <4>2. ASSUME NEW i \in 1..Unread' PROVE Pending'[i] = Append(Pending, ch)[i]
        <5>1. Pending'[i] = log'[Len(got') + i]
          BY <1>3 DEF RingMatchesLog, Pending
        <5>2. CASE i \in 1..Unread
          <6>1. Pending[i] = log[Len(got) + i]
            BY <1>1, <5>2 DEF RingMatchesLog, Pending
          <6>2. Len(got) + i \in 1..Len(log)
            BY <4>1, <5>2, <1>1
          <6> QED BY <1>1, <1>2, <3>1, <4>1, <5>1, <5>2, <6>1, <6>2, AppendProperties
        <5>3. CASE i = Unread + 1
          <6>1. Len(got) + i = Len(log) + 1
            BY <4>1, <5>3, <1>1
          <6>2. log'[Len(log) + 1] = ch
            BY <3>1, <4>1, AppendProperties
          <6>3. Append(Pending, ch)[i] = ch
            BY <1>1, <1>2, <5>3, AppendProperties
          <6> QED BY <4>1, <5>1, <6>1, <6>2, <6>3
        <5>4. i \in 1..Unread \/ i = Unread + 1
          BY <1>1, <3>1
        <5> QED BY <5>2, <5>3, <5>4
      <4>3. Append(Pending, ch) \in Seq(Char) /\ Len(Append(Pending, ch)) = Unread'
        BY <1>1, <1>2, <3>1, AppendProperties
      <4> QED BY <1>3, <4>2, <4>3, SeqEqual
    <3> QED BY <1>6, <3>1, <3>2, <3>3 DEF Queue!QNext, Queue!Accept
  <2>3. CASE NextSlot(kb_head) = kb_tail
    <3>1. Len(Pending) = N - 1
      BY <1>2, <2>1, <2>3 DEF Unread
    <3>2. UNCHANGED <<kb_buffer, kb_head, kb_tail, got>> /\ dropped' = dropped + 1
      BY <1>6, <2>3 DEF PutChar
    <3>3. Pending' = Pending
      BY <3>2 DEF Pending, Unread, Slot
    <3> QED BY <3>1, <3>2, <3>3 DEF Queue!QNext, Queue!Drop
  <2> QED BY <2>2, <2>3
<1>7. CASE KeyboardIrq
  <2>1. UNCHANGED <<kb_tail, got>>
    BY <1>7 DEF KeyboardIrq
  <2>2. CASE UNCHANGED <<kb_buffer, kb_head, log, dropped>>
    BY <2>1, <2>2, <1>4 DEF ring, hist
  <2>3. CASE \E ch \in Char : PutChar(ch)
    <3>1. PICK ch \in Char : PutChar(ch)
      BY <2>3
    <3> QED BY <2>1, <3>1, <1>6
  <2> QED BY <1>1, <1>7, <2>2, <2>3, HandlerCases
<1>8. CASE Sti \/ Call \/ GetTest \/ GetHalt \/ GetRead \/ TimerIrq
  BY <1>4, <1>8, Zenon DEF Sti, Call, GetTest, GetHalt, GetRead, TimerIrq
<1>9. CASE Hardware
  BY <1>4, <1>9, Zenon DEF Hardware, KeyMake, KeyBreak, ExtMake, ExtBreak, Send
<1>10. CASE UNCHANGED vars
  BY <1>4, <1>10, Zenon DEF vars
<1> QED BY <1>5, <1>7, <1>8, <1>9, <1>10 DEF Next, Thread

\* The ring with its two indices implements the bounded first-in first-out
\* queue: in every state keyboard_getchar can observe, a character has been
\* dropped only if KB_BUF_SIZE - 1 were waiting.
THEOREM ImplementsQueueAlways == Spec => ImplementsQueue
<1>1. Init => Queue!QInit
  BY DEF Init, Queue!QInit, Pending, Unread
<1> QED BY <1>1, QueueStep, RingInvariant, PTL DEF Spec, ImplementsQueue, Queue!QSpec

----------------------------------------------------------------------------
(***************************************************************************)
(* The Shift flag.  ShiftNeverSticks speaks of the moment the hardware has *)
(* no byte left; what makes it inductive is what the bytes on their way    *)
(* say: if the last code of a Shift key among them is a make code, that    *)
(* key is down or has been faked, and if there is none the flag is right.  *)
(***************************************************************************)
LastShiftIsHeld ==
    \A j \in 1..Len(port) :
        (port[j] \in Shifts /\ \A m \in (j + 1)..Len(port) : port[m] \notin ShiftCodes)
            => port[j] \in held \/ faked # {}

FlagIsRight ==
    (shift_down /\ \A m \in 1..Len(port) : port[m] \notin ShiftCodes)
        => held \cap Shifts # {} \/ faked # {}

ShiftInv == LastShiftIsHeld /\ FlagIsRight

\* A byte leaves the hardware's buffer: the positions move down by one.
LEMMA TailPositions ==
    ASSUME NEW s \in Seq(0..255), s # <<>>
    PROVE  /\ Len(s) \in Nat /\ Len(s) > 0 /\ Len(Tail(s)) = Len(s) - 1
           /\ Head(s) = s[1] /\ Head(s) \in 0..255
           /\ \A j \in 1..Len(Tail(s)) : Tail(s)[j] = s[j + 1]
<1> DEFINE Byte == 0..255
<1>1. s \in Seq(Byte)
  OBVIOUS
<1> HIDE DEF Byte
<1>2. /\ Len(s) \in Nat /\ Len(s) > 0 /\ Len(Tail(s)) = Len(s) - 1
      /\ Head(s) = s[1] /\ Head(s) \in Byte
      /\ \A j \in 1..Len(Tail(s)) : Tail(s)[j] = s[j + 1]
  BY <1>1, HeadTailProperties
<1> QED BY <1>2 DEF Byte

\* Every step keeps the two parts.
LEMMA ShiftInvNext == TypeOK /\ ShiftInv /\ [Next]_vars => ShiftInv'
<1> SUFFICES ASSUME TypeOK, ShiftInv, [Next]_vars PROVE ShiftInv'
  OBVIOUS
<1>1. CASE UNCHANGED <<shift_down, port, held, faked>>
  BY <1>1 DEF ShiftInv, LastShiftIsHeld, FlagIsRight
<1>2. CASE Thread \/ TimerIrq \/ UNCHANGED vars
  <2>1. UNCHANGED <<flags, hw>>
    BY <1>2, Zenon DEF Thread, Sti, Call, GetTest, GetHalt, GetRead, GetAdvance, TimerIrq, vars
  <2> QED BY <1>1, <2>1 DEF flags, hw
<1>3. CASE KeyboardIrq
  <2> DEFINE sc == Head(port)
  <2>1. port' = Tail(port) /\ held' = held /\ faked' = faked /\ port # <<>> /\ port \in Seq(0..255)
    BY <1>3 DEF KeyboardIrq, TypeOK
  <2>2. /\ Len(port) \in Nat /\ Len(port) > 0 /\ Len(port') = Len(port) - 1
        /\ sc = port[1] /\ sc \in 0..255
        /\ \A j \in 1..Len(port') : port'[j] = port[j + 1]
    BY <2>1, TailPositions
  <2>3. LastShiftIsHeld'
    <3> SUFFICES ASSUME NEW j \in 1..Len(port'), port'[j] \in Shifts,
                        \A m \in (j + 1)..Len(port') : port'[m] \notin ShiftCodes
                 PROVE  port'[j] \in held' \/ faked' # {}
      BY DEF LastShiftIsHeld
    <3>1. j + 1 \in 1..Len(port) /\ port[j + 1] = port'[j]
      BY <2>2
    <3>2. ASSUME NEW m \in (j + 2)..Len(port) PROVE port[m] \notin ShiftCodes
      <4>1. m - 1 \in (j + 1)..Len(port') /\ m - 1 \in 1..Len(port') /\ (m - 1) + 1 = m
        BY <2>2
      <4>2. port'[m - 1] = port[m]
        BY <2>2, <4>1
      <4> QED BY <4>1, <4>2
    <3> QED BY <2>1, <3>1, <3>2 DEF ShiftInv, LastShiftIsHeld
  <2>4. FlagIsRight'
    <3> SUFFICES ASSUME shift_down', \A m \in 1..Len(port') : port'[m] \notin ShiftCodes
                 PROVE  held \cap Shifts # {} \/ faked # {}
      BY <2>1 DEF FlagIsRight
    <3>1. ASSUME NEW m \in 2..Len(port) PROVE port[m] \notin ShiftCodes
      <4>1. m - 1 \in 1..Len(port') /\ (m - 1) + 1 = m
        BY <2>2
      <4> QED BY <2>2, <4>1
    <3>2. CASE sc \in Shifts
      BY <2>2, <3>1, <3>2 DEF ShiftInv, LastShiftIsHeld
    <3>3. CASE sc \notin ShiftCodes
      <4>1. shift_down
        <5>1. CASE ReleaseCode(sc)
          BY <5>1 DEF ReleaseCode
        <5>2. CASE ModifierMake(sc)
          BY <5>2, <3>3 DEF ModifierMake, ShiftCodes
        <5>3. CASE KeyMakeCode(sc)
          BY <5>3 DEF KeyMakeCode, flags
        <5> QED BY <1>3, <5>1, <5>2, <5>3 DEF KeyboardIrq, keyboard_handle_scancode
      <4>2. \A m \in 1..Len(port) : port[m] \notin ShiftCodes
        BY <2>2, <3>1, <3>3
      <4> QED BY <4>1, <4>2 DEF ShiftInv, FlagIsRight
    <3>4. CASE sc \in ShiftCodes \ Shifts
      <4>1. sc \in {170, 182}
        BY <3>4, ShiftCodeValues
      <4>2. ~ ModifierMake(sc) /\ ~ KeyMakeCode(sc)
        <5>1. sc \notin Modifiers /\ ~ (sc < 128)
          BY <4>1 DEF Modifiers, Shifts, LSHIFT, RSHIFT, CTRL, ALT
        <5> QED BY <5>1, Zenon DEF ModifierMake, KeyMakeCode
      <4>3. ReleaseCode(sc)
        BY <1>3, <4>2 DEF KeyboardIrq, keyboard_handle_scancode
      <4>4. sc - 128 \in Shifts
        BY <4>1 DEF Shifts, LSHIFT, RSHIFT
      <4> QED BY <4>3, <4>4 DEF ReleaseCode
    <3> QED BY <3>2, <3>3, <3>4
  <2> QED BY <2>3, <2>4 DEF ShiftInv
<1>4. CASE Hardware
  <2>1. PICK bs \in Seq(0..255) :
          Send(bs) /\ (SaysNothingOfShift(bs) \/ TellsOfShift(bs))
    BY <1>4, HardwareSends
  <2>2. port' = port \o bs /\ port \in Seq(0..255) /\ shift_down' = shift_down
    BY <2>1 DEF Send, TypeOK, flags
  <2> DEFINE n == Len(port)
  <2>3. /\ n \in Nat /\ Len(bs) \in Nat /\ Len(port') = n + Len(bs)
        /\ \A j \in 1..n : port'[j] = port[j]
        /\ \A j \in 1..Len(bs) : port'[n + j] = bs[j]
    BY <2>2, SendPositions
  <2>4. CASE SaysNothingOfShift(bs)
    <3>1. /\ \A m \in 1..Len(bs) : bs[m] \notin ShiftCodes
          /\ held' \cap Shifts = held \cap Shifts /\ faked' = faked
      BY <2>4 DEF SaysNothingOfShift
    <3>2. LastShiftIsHeld'
      <4> SUFFICES ASSUME NEW j \in 1..Len(port'), port'[j] \in Shifts,
                          \A m \in (j + 1)..Len(port') : port'[m] \notin ShiftCodes
                   PROVE  port'[j] \in held' \/ faked' # {}
        BY DEF LastShiftIsHeld
      <4>1. CASE j \in 1..n
        <5>1. port[j] \in Shifts /\ \A m \in (j + 1)..n : port[m] \notin ShiftCodes
          BY <2>3, <4>1
        <5>2. port[j] \in held \/ faked # {}
          BY <4>1, <5>1 DEF ShiftInv, LastShiftIsHeld
        <5> QED BY <2>3, <3>1, <4>1, <5>1, <5>2
      <4>2. CASE j \in (n + 1)..(n + Len(bs))
        <5>1. j - n \in 1..Len(bs) /\ port'[j] = bs[j - n]
          BY <2>3, <4>2
        <5> QED BY <3>1, <5>1 DEF ShiftCodes
      <4> QED BY <2>3, <4>1, <4>2
    <3>3. FlagIsRight'
      <4> SUFFICES ASSUME shift_down, \A m \in 1..Len(port') : port'[m] \notin ShiftCodes
                   PROVE  held' \cap Shifts # {} \/ faked' # {}
        BY <2>2 DEF FlagIsRight
      <4>1. \A m \in 1..n : port[m] \notin ShiftCodes
        BY <2>3
      <4> QED BY <3>1, <4>1 DEF ShiftInv, FlagIsRight
    <3> QED BY <3>2, <3>3 DEF ShiftInv
  <2>5. CASE TellsOfShift(bs)
    <3>1. PICK p \in 1..Len(bs) :
            /\ bs[p] \in ShiftCodes
            /\ \A m \in (p + 1)..Len(bs) : bs[m] \notin ShiftCodes
            /\ bs[p] \in Shifts => bs[p] \in held' \/ faked' # {}
      BY <2>5 DEF TellsOfShift
    <3>2. n + p \in 1..Len(port') /\ port'[n + p] = bs[p]
      BY <2>3
    <3>3. LastShiftIsHeld'
      <4> SUFFICES ASSUME NEW j \in 1..Len(port'), port'[j] \in Shifts,
                          \A m \in (j + 1)..Len(port') : port'[m] \notin ShiftCodes
                   PROVE  port'[j] \in held' \/ faked' # {}
        BY DEF LastShiftIsHeld
      <4>1. n + p <= j
        BY <2>3, <3>1, <3>2
      <4>2. CASE j = n + p
        BY <3>1, <3>2, <4>2
      <4>3. CASE j > n + p
        <5>1. j - n \in (p + 1)..Len(bs) /\ j - n \in 1..Len(bs) /\ n + (j - n) = j
          BY <2>3, <4>3
        <5>2. port'[j] = bs[j - n]
          BY <2>3, <5>1
        <5> QED BY <3>1, <5>1, <5>2 DEF ShiftCodes
      <4>4. j \in Nat /\ n + p \in Nat
        BY <2>3, <3>2
      <4> QED BY <4>1, <4>2, <4>3, <4>4
    <3>4. FlagIsRight'
      BY <3>1, <3>2 DEF FlagIsRight
    <3> QED BY <3>3, <3>4 DEF ShiftInv
  <2> QED BY <2>1, <2>4, <2>5
<1> QED BY <1>2, <1>3, <1>4 DEF Next

\* However the make and break codes of both Shift keys, and those an extended
\* key adds for them, interleave with the interrupts, the flag does not outlive
\* the keys that are down.
THEOREM ShiftNeverSticksAlways == Spec => []ShiftNeverSticks
<1>1. Init => ShiftInv
  BY DEF Init, ShiftInv, LastShiftIsHeld, FlagIsRight
<1>2. TypeOK /\ ShiftInv => ShiftNeverSticks
  BY DEF TypeOK, ShiftInv, FlagIsRight, ShiftNeverSticks
<1> QED BY <1>1, <1>2, ShiftInvNext, TypeCorrect, PTL DEF Spec
=============================================================================
