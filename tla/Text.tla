-------------------------------- MODULE Text --------------------------------
(***************************************************************************)
(* Numbers and addresses as text: the shell's arithmetic (shell_math.c),   *)
(* the conversion of integers (lib/printf.c) and of IPv4 addresses         *)
(* (net/net.c).  These are pure functions of a line that was typed; TLC    *)
(* types every line over a small alphabet and compares them with reference *)
(* definitions.                                                            *)
(*                                                                         *)
(* A text is the sequence of its ASCII codes, without the final NUL.       *)
(* Integers keep their width; on overflow the compiled code wraps around.  *)
(***************************************************************************)
EXTENDS Integers, FiniteSets, SequencesExt

CONSTANTS
    IntBits,      \* bits of an int (32 in the code)
    OctetBits,    \* bits of an octet (8)
    AddrBuf,      \* bytes of ip4_to_str's buffer (16)
    Alphabets     \* bound: characters that are typed together, and how many

ASSUME TextAssumption ==
    /\ {IntBits, OctetBits, AddrBuf} \subseteq Nat \ {0}
    /\ Alphabets \subseteq [chars : SUBSET (1..127), len : Nat]

BLANK == {32}
DIGIT == 48..57
OPS == {42, 43, 45, 47}    \* * + - /
MINUS == 45
DOT == 46

VARIABLES alphabet, line

vars == <<alphabet, line>>

----------------------------------------------------------------------------
\* Where the characters of C that start at position k of s end.
Skip(s, k, C) == Min({j \in k..(Len(s) + 1) : j = Len(s) + 1 \/ s[j] \notin C})

Wrap(n) == ((n + 2^(IntBits - 1)) % 2^IntBits) - 2^(IntBits - 1)

\* Mutant: a digit is weighted by its position from the left.
ReadInt_Backwards(digits) == FoldRight(LAMBDA c, a : Wrap(10 * a + c - 48), digits, 0)

ReadInt(digits) == FoldLeft(LAMBDA a, c : Wrap(10 * a + c - 48), 0, digits)

\* C's division goes towards 0.
Quotient(a, b) ==
    LET q == (IF a < 0 THEN -a ELSE a) \div (IF b < 0 THEN -b ELSE b)
    IN  IF (a < 0) = (b < 0) THEN q ELSE -q

Outcome(st, val) == [st |-> st, val |-> val]

\* The processor traps if the quotient does not fit.
Calculate(op, a, b) ==
    CASE op = 43 -> Outcome("ok", Wrap(a + b))
      [] op = 45 -> Outcome("ok", Wrap(a - b))
      [] op = 42 -> Outcome("ok", Wrap(a * b))
      [] op = 47 /\ b = 0 -> Outcome("zero", 0)
      [] OTHER -> IF Wrap(Quotient(a, b)) = Quotient(a, b)
                  THEN Outcome("ok", Quotient(a, b)) ELSE Outcome("trap", 0)

shell_eval_math(s) ==
    LET a1 == Skip(s, 1, BLANK)
        a2 == Skip(s, a1, DIGIT)
        op == Skip(s, a2, BLANK)
        b1 == Skip(s, op + 1, BLANK)
        b2 == Skip(s, b1, DIGIT)
    IN  IF a1 = a2 \/ op > Len(s) \/ s[op] \notin OPS \/ b1 = b2 \/ Skip(s, b2, BLANK) <= Len(s)
        THEN Outcome("error", 0)
        ELSE Calculate(s[op], ReadInt(SubSeq(s, a1, a2 - 1)), ReadInt(SubSeq(s, b1, b2 - 1)))

\* uint_to_str's tmp: the digits, the lowest first.
LowDigits[n \in Nat] == IF n = 0 THEN <<>> ELSE <<48 + (n % 10)>> \o LowDigits[n \div 10]
uint_to_str(n) == IF n = 0 THEN <<48>> ELSE Reverse(LowDigits[n])

int_to_str(n) ==
    IF n < 0 THEN <<MINUS>> \o uint_to_str((-n) % 2^IntBits) ELSE uint_to_str(n)

----------------------------------------------------------------------------
ReadOctet(digits) == FoldLeft(LAMBDA a, c : (10 * a + c - 48) % 2^OctetBits, 0, digits)

\* One turn of ip4_parse's loop, which ends at the end of the text.
ParseTurn(s, r) ==
    LET end == Skip(s, r.pos, DIGIT)
        found == Append(r.octets, ReadOctet(SubSeq(s, r.pos, end - 1)))
    IN  CASE ~r.ok \/ r.pos > Len(s) -> r
          [] end = r.pos -> [r EXCEPT !.ok = FALSE]
          [] end <= Len(s) /\ s[end] = DOT -> [ok |-> TRUE, pos |-> end + 1, octets |-> found]
          [] OTHER -> [ok |-> end > Len(s) /\ Len(found) = 4, pos |-> end, octets |-> found]

\* The four octets, or <<>> if the text is refused.
ip4_parse(s) ==
    LET r == FoldLeft(LAMBDA q, turn : ParseTurn(s, q),
                      [ok |-> TRUE, pos |-> 1, octets |-> <<>>], <<1, 2, 3, 4>>)
    IN  IF r.ok /\ Len(r.octets) = 4 THEN r.octets ELSE <<>>

\* Mutant: one byte too many is kept for the end of the text.
Stored_Short(s, n) == SubSeq(s, 1, Min({Len(s), n - 2}))

\* What ksnprintf stores of a text in n bytes.
Stored(s, n) == SubSeq(s, 1, Min({Len(s), n - 1}))

ip4_to_str(ip) ==
    Stored(uint_to_str(ip[1]) \o <<DOT>> \o uint_to_str(ip[2]) \o <<DOT>>
           \o uint_to_str(ip[3]) \o <<DOT>> \o uint_to_str(ip[4]), AddrBuf)

----------------------------------------------------------------------------
Init == alphabet \in Alphabets /\ line = <<>>

Type(c) ==
    /\ Len(line) < alphabet.len
    /\ line' = Append(line, c)
    /\ UNCHANGED alphabet

Backspace ==
    /\ line # <<>>
    /\ line' = Front(line)
    /\ UNCHANGED alphabet

Next == (\E c \in alphabet.chars : Type(c)) \/ Backspace

Spec == Init /\ [][Next]_vars

----------------------------------------------------------------------------
\* Reference definitions.

\* The value of a text's digits, position by position.
Digits(s) == {k \in DOMAIN s : s[k] \in DIGIT}
Value(s) == MapThenSumSet(LAMBDA k : (s[k] - 48) * 10^Cardinality({j \in Digits(s) : j > k}),
                          Digits(s))

\* Digits without a gap, with blanks around them.
Numeral(s) ==
    /\ Digits(s) # {} /\ ToSet(s) \subseteq DIGIT \cup BLANK
    /\ \A j, k \in Digits(s) : j..k \subseteq Digits(s)

Signed(s) == IF s[1] = MINUS THEN -Value(Tail(s)) ELSE Value(s)
Fits(n) == n \in -(2^(IntBits - 1))..(2^(IntBits - 1) - 1)

\* Does `shown` say what a op b is?
IsResult(op, a, b, shown) ==
    CASE op = 43 -> Signed(shown) = a + b
      [] op = 45 -> Signed(shown) = a - b
      [] op = 42 -> Signed(shown) = a * b
      [] OTHER -> Signed(shown) * b <= a /\ a < (Signed(shown) + 1) * b

\* "Arithmetic (e.g. 5+5) is evaluated automatically": a line of two numerals
\* and an operator, with blanks anywhere around them, is answered with the
\* decimal text of its value, or by the message about division by zero, if
\* the numbers and the value fit in an int; every other line is refused.
ArithmeticRight ==
    LET r == shell_eval_math(line)
        split == {p \in DOMAIN line : /\ line[p] \in OPS
                                      /\ Numeral(SubSeq(line, 1, p - 1))
                                      /\ Numeral(SubSeq(line, p + 1, Len(line)))}
    IN  /\ split = {} <=> r.st = "error"
        /\ \A p \in split :
              LET a == Value(SubSeq(line, 1, p - 1))
                  b == Value(SubSeq(line, p + 1, Len(line)))
              IN  Fits(a) /\ Fits(b) =>
                    IF line[p] = 47 /\ b = 0 THEN r.st = "zero"
                    ELSE r.st = "ok" /\ (Fits(CASE line[p] = 43 -> a + b
                                                [] line[p] = 45 -> a - b
                                                [] line[p] = 42 -> a * b
                                                [] OTHER -> 0)
                                         => IsResult(line[p], a, b, int_to_str(r.val)))

\* The values of the four fields of a text with three dots, if each is a
\* numeral; <<>> for every other text.
Dots(s) == {k \in DOMAIN s : s[k] = DOT}
Octets(s) ==
    LET start == SetToSortSeq({0} \cup Dots(s), <)
        field == [n \in 1..4 |-> SubSeq(s, start[n] + 1, IF n = 4 THEN Len(s) ELSE start[n + 1] - 1)]
    IN  IF /\ Cardinality(Dots(s)) = 3
           /\ \A n \in 1..4 : field[n] # <<>> /\ ToSet(field[n]) \subseteq DIGIT
        THEN [n \in 1..4 |-> Value(field[n])] ELSE <<>>

\* The address `ping` is given is the one that was typed, and the text that is
\* shown for an address is its own (ip4_send reverses the bytes later): four
\* numerals that fit in an octet are parsed to their values, ip4_to_str's text
\* of an address stands for that address and for no other, and nothing is
\* accepted that does not start with four numerals and dots between them.
AddressRight ==
    LET ip == ip4_parse(line)
        typed == Octets(line)
    IN  /\ typed # <<>> /\ (\A n \in 1..4 : typed[n] < 2^OctetBits) => ip = typed
        /\ ip # <<>> => /\ Octets(ip4_to_str(ip)) = ip
                        /\ \E k \in DOMAIN line : /\ Octets(SubSeq(line, 1, k)) # <<>>
                                                  /\ k = Len(line) \/ line[k + 1] = DOT
=============================================================================
