------------------------------ MODULE Session ------------------------------
(***************************************************************************)
(* The terminal session: login (kernel/user.c), the line editor, the       *)
(* tokenizer and the command loop of the shell (kernel/kernel.c), on top   *)
(* of the console.  The input buffer is the code's: an array that keeps    *)
(* what earlier lines left in it, and argv[0] a position in it.            *)
(***************************************************************************)
EXTENDS Console, SequencesExt

CONSTANTS
    Letter,           \* the characters of words
    SHELL_BUF_SIZE,   \* 256
    NAME_SIZE,        \* size of the name and password buffers (32)
    Commands,         \* the words of the command table
    Logout,           \* the word "logout"
    MaxArgs,          \* how many words tokenize finds (16)
    MaxKeys,          \* bound: keys typed
    NONE

NUL == "NUL"
Prompt == "?"
Masked == "#"

ASSUME SessionAssumption ==
    /\ Letter \cup {SPACE, Prompt, Masked} \subseteq Glyph \ {NUL} /\ SPACE \notin Letter
    /\ SHELL_BUF_SIZE \in Nat \ {0, 1} /\ NAME_SIZE \in Nat \ {0, 1} /\ MaxKeys \in Nat /\ MaxArgs \in Nat \ {0}
    /\ Commands \cup {Logout} \subseteq Seq(Letter) \ {<<>>}
    /\ NONE \notin 0..SHELL_BUF_SIZE
\* A full line leaves the screen a row to scroll.
ASSUME LineOnScreen == SHELL_BUF_SIZE - 1 <= (VGA_ROWS - 1) * VGA_COLS

VARIABLES
    pc,            \* what the thread does next
    shell_input,   \* the line buffer of the shell
    pos,           \* readline's position
    name, pass,    \* the words read at login; of the user, a prompt is all that stays
    argv0,         \* shell_run's argv[0]: a position in shell_input, or unset
    passwd,        \* the contents of /etc/passwd, NONE if there is no file
    keys,          \* how many keys have been typed
    ran            \* history: the last line and what was run for it

line == <<shell_input, pos>>
user == <<name, pass, passwd>>
session == <<pc, line, user, argv0, keys, ran>>
vars == <<console, session>>

Index == 0..(SHELL_BUF_SIZE - 1)

Init ==
    /\ ConsoleInit
    /\ pc = "login"
    /\ shell_input = [k \in Index |-> NUL] /\ pos = 0
    /\ name = <<>> /\ pass = <<>> /\ passwd = NONE
    /\ argv0 = NONE /\ keys = 0 /\ ran = NONE

\* The thread has printed everything and goes on.
Ready == out = <<>> /\ at = "ready"
Say(chars) == out' = chars /\ UNCHANGED <<vga_buffer, cursor, at, reg, logs, torn, far>>

\* keyboard_getchar (module Keyboard) returns the next key.
Typed == keys < MaxKeys /\ keys' = keys + 1

----------------------------------------------------------------------------
\* user_login_sequence: without /etc/passwd an account is set up.
LoginStart ==
    /\ pc = "login" /\ Ready
    /\ pc' = "name" /\ name' = <<>> /\ pass' = <<>>
    /\ Say(<<NL, Prompt>>)
    /\ UNCHANGED <<line, passwd, argv0, keys, ran>>

\* c >= 0x20: the keys that stand for a character.
Printable == Letter \cup {SPACE}

\* What a key does to a word of at most max - 1 characters, and its echo.
Edited(word, ch) == IF ch \in Printable THEN Append(word, ch)
                    ELSE IF ch = BS /\ word # <<>> THEN Front(word) ELSE word

\* Mutant: the cursor stays behind the blank that erases.
Echo_NoStepBack(empty, ch, shown) == IF ch \in Printable THEN <<shown>>
                                     ELSE IF ch = BS /\ ~empty THEN <<BS, SPACE>> ELSE <<>>

Echo(empty, ch, shown) == IF ch \in Printable THEN <<shown>>
                          ELSE IF ch = BS /\ ~empty THEN <<BS, SPACE, BS>> ELSE <<>>

\* shell_readline(username, 32); it returns at a newline or when it is full.
ReadName(ch) ==
    /\ pc = "name" /\ Ready /\ Typed
    /\ IF ch = NL
       THEN pc' = "pass" /\ Say(<<NL, Prompt>>) /\ UNCHANGED name
       ELSE /\ name' = Edited(name, ch)
            /\ pc' = IF Len(name') = NAME_SIZE - 1 THEN "pass" ELSE pc
            /\ Say(Echo(name = <<>>, ch, ch) \o IF pc' = "pass" THEN <<Prompt>> ELSE <<>>)
    /\ UNCHANGED <<line, pass, passwd, argv0, ran>>

\* get_password(password, 32)
ReadPassword(ch) ==
    /\ pc = "pass" /\ Ready /\ Typed
    /\ pass' = IF ch = NL THEN pass ELSE Edited(pass, ch)
    /\ pc' = IF ch = NL \/ Len(pass') = NAME_SIZE - 1 THEN "check" ELSE pc
    /\ Say((IF ch = NL THEN <<>> ELSE Echo(pass = <<>>, ch, Masked))
             \o IF pc' = "check" THEN <<NL>> ELSE <<>>)
    /\ UNCHANGED <<line, name, passwd, argv0, ran>>

\* The account is three writes, if the file can be opened; the first ones are
\* lost if there is no memory for them.  The message of success and the
\* shell come in any case.
Setup ==
    LET account == name \o <<":">> \o pass IN
    /\ pc = "check" /\ Ready /\ passwd = NONE
    /\ passwd' \in {NONE, account, <<":">> \o pass, pass, <<>>}
    /\ pc' = "prompt" /\ argv0' = NONE /\ name' = <<>> /\ pass' = <<>>
    /\ UNCHANGED <<console, line, keys, ran>>

\* strstr(stored_creds, "name:password").  Nothing ends what was read of the
\* file: behind it strstr meets whatever the stack holds.
Known == \E i, j \in 1..Len(passwd) : SubSeq(passwd, i, j) = name \o <<":">> \o pass

Login ==
    /\ pc = "check" /\ Ready /\ passwd # NONE
    /\ argv0' = NONE /\ name' = <<>> /\ pass' = <<>>
    /\ \/ pc' = "prompt" /\ UNCHANGED console
       \/ ~Known /\ pc' = "name" /\ Say(<<NL, Prompt>>)
    /\ UNCHANGED <<line, passwd, keys, ran>>

----------------------------------------------------------------------------
\* The shell.
ShellPrompt ==
    /\ pc = "prompt" /\ Ready
    /\ pc' = "read" /\ pos' = 0
    /\ out' = <<Prompt>> /\ torn' = FALSE
    /\ UNCHANGED <<vga_buffer, cursor, at, reg, logs, far>>
    /\ UNCHANGED <<shell_input, user, argv0, keys, ran>>

\* shell_readline(shell_input, SHELL_BUF_SIZE)
ReadLine(ch) ==
    LET new == IF ch \in Printable THEN pos + 1 ELSE IF ch = BS /\ pos > 0 THEN pos - 1 ELSE pos
        full == ch = NL \/ new = SHELL_BUF_SIZE - 1
        stored == IF ch \in Printable THEN [shell_input EXCEPT ![pos] = ch] ELSE shell_input
    IN  /\ pc = "read" /\ Ready /\ Typed
        /\ pos' = new
        /\ shell_input' = IF full THEN [stored EXCEPT ![new] = NUL] ELSE stored
        /\ pc' = IF full THEN "run" ELSE pc
        /\ Say(IF ch = NL THEN <<NL>> ELSE Echo(pos = 0, ch, ch))
        /\ UNCHANGED <<user, argv0, ran>>

\* The C string that starts at position k of the buffer.
StringAt(buf, k) ==
    LET ends == {e \in k..(SHELL_BUF_SIZE - 1) : buf[e] = NUL}
        end == CHOOSE e \in ends : \A f \in ends : e <= f
    IN  [x \in 1..(end - k) |-> buf[k + x - 1]]

\* Positions of the line where a word starts or has just ended.
Starts == {k \in 0..(pos - 1) : shell_input[k] # SPACE /\ (k > 0 => shell_input[k - 1] = SPACE)}
Ends   == {k \in 1..(pos - 1) : shell_input[k] = SPACE /\ shell_input[k - 1] # SPACE}

\* Mutant: the word's end is not marked.
Tokenized_NoNul == shell_input

\* The buffer after tokenize: its first MaxArgs words end with a NUL.
Found(k) == Cardinality({s \in Starts : s < k}) <= MaxArgs
Tokenized == [k \in Index |-> IF k \in Ends /\ Found(k) THEN NUL ELSE shell_input[k]]

\* argv[0] after tokenize: a line of blanks does not set it.
FirstWord == IF Starts = {} THEN argv0 ELSE CHOOSE k \in Starts : \A o \in Starts : k <= o

\* What strcmp sees; an argv[0] that was never set points anywhere.
Seen == IF FirstWord = NONE THEN Commands \cup {Logout, <<>>}
        ELSE {StringAt(Tokenized, FirstWord)}

\* shell_run: the command, logout, or an expression or an error.
RunLine ==
    /\ pc = "run" /\ Ready
    /\ IF pos = 0
       THEN pc' = "prompt" /\ UNCHANGED <<shell_input, argv0, ran>>
       ELSE \E word \in Seen :
              /\ shell_input' = Tokenized /\ argv0' = FirstWord
              /\ ran' = [line |-> StringAt(shell_input, 0), word |-> word, at |-> FirstWord]
              /\ pc' = IF word = Logout THEN "login" ELSE "prompt"
    /\ UNCHANGED <<console, pos, user, keys>>

----------------------------------------------------------------------------
Key == Printable \cup {BS, NL, TAB}

Thread ==
    \/ LoginStart \/ Setup \/ Login \/ ShellPrompt \/ RunLine
    \/ \E ch \in Key : ReadName(ch) \/ ReadPassword(ch) \/ ReadLine(ch)

Next == Thread \/ (ConsoleNext /\ UNCHANGED session)

Spec == Init /\ [][Next]_vars

----------------------------------------------------------------------------
\* Wherever in console_putchar a handler's print interrupts the thread's, even
\* with the column past the last one, the cursor gets at most one row below the
\* screen and no cell past that row is written; and between two characters the
\* cursor is on the screen.
WritesStayNear ==
    /\ ~far /\ console_col <= VGA_COLS /\ console_row <= VGA_ROWS
    /\ at = "ready" => console_row < VGA_ROWS /\ console_col < VGA_COLS

\* Waiting for a key, the screen shows before the cursor the line as it is in
\* the buffer, across wraps, scrolling and backspaces; unless a handler has
\* printed, a backspace met the left edge, or the cell is the one that flashes.
ScreenShowsLine ==
    pc = "read" /\ Ready /\ logs = 0 /\ ~torn =>
        \A k \in 1..pos :
            LET cell == console_row * VGA_COLS + console_col - k IN
            cell = VGA_COLS - 1 \/ vga_buffer[cell] = shell_input[pos - k]

\* The words of a line, and the first one.
IsWord(l, j, k) ==
    /\ j <= k /\ \A m \in j..k : l[m] # SPACE
    /\ j = 1 \/ l[j - 1] = SPACE
    /\ k = Len(l) \/ l[k + 1] = SPACE
Spans(l) == {x \in (1..Len(l)) \X (1..Len(l)) : IsWord(l, x[1], x[2])}
IsFirst(word, l) ==
    \E x \in Spans(l) : /\ word = SubSeq(l, x[1], x[2])
                        /\ \A y \in Spans(l) : x[1] <= y[1]

\* What runs is the first word of the line; only a line of blanks can run a
\* command that was not typed, and then an earlier word must have stood past its
\* end or no line been read since login.
RunsWhatWasTyped ==
    ran # NONE =>
        IF Spans(ran.line) = {}
        THEN ran.word \in Commands \cup {Logout} => ran.at = NONE \/ ran.at > Len(ran.line)
        ELSE IsFirst(ran.word, ran.line)
=============================================================================
