------------------------------- MODULE Shell -------------------------------
(***************************************************************************)
(* The shell's file commands (kernel/kernel.c) on the virtual file system. *)
(* A command is a sequence of vfs calls, each a step of Vfs that goes with *)
(* a step of the command; any of the calls may fail by itself.  First      *)
(* mount_initial_fs makes the initial tree.                                *)
(*                                                                         *)
(* A path is a sequence of components.  Besides names there are DOT (".",  *)
(* or nothing between two slashes), which the walk skips, and components   *)
(* with two dots in a row, at their start (Ups, DOTDOT among them) or      *)
(* later (Mids).                                                           *)
(***************************************************************************)
EXTENDS Vfs

CONSTANTS
    Ups, DOTDOT, Mids,
    Args,          \* the arguments typed: [abs, comps]
    Texts,         \* the texts typed: sequences of words
    SpaceByte, NewlineByte,
    CatBuf,        \* bytes of cat's buffer (127)
    LsBuf,         \* entries of ls's buffer (32)
    MaxDepth,      \* bound: components of the current directory
    MaxLost,       \* bound: files that have lost part of their text
    InitialDirs, HostDir, HostFile, HostText,    \* what mount_initial_fs makes
    LOST

ASSUME ShellAssumption ==
    /\ DOTDOT \in Ups /\ Ups \cup Mids \subseteq Names
    /\ Args \subseteq [abs : BOOLEAN, comps : Seq(Names \cup {DOT})]
    /\ Texts \subseteq Seq(Seq(Bytes))
    /\ CatBuf \in Nat \ {0} /\ LsBuf \in Nat \ {0} /\ MaxDepth \in Nat /\ MaxLost \in Nat
    /\ InitialDirs \in Seq(Names) /\ HostText \in Seq(Bytes) /\ LOST \notin Bytes

VARIABLES
    pc,         \* "boot", "mount", "panic", "prompt", or the running command
    cwd,        \* current_working_directory
    job,        \* the command's variables, while it runs
    shown,      \* what it has printed
    typed,      \* history: the text each file was last given, LOST if part was
    place       \* history: {the directory the user asked for}, or {} when
                \* they have asked for one that cd does not go to

shell == <<pc, cwd, job, shown, typed, place>>
svars == <<vars, shell>>

\* The descriptor, what is still to be made or written, and the directory
\* the command goes to with the one the user asked for.
Job(f, pieces, goal) == [fd |-> f, todo |-> pieces, goal |-> goal]
Here == <<cwd, place>>
IDLE == Job(0, <<>>, <<<<>>, {}>>)

SInit ==
    /\ Init
    /\ pc = "boot" /\ cwd = <<>> /\ place = {<<>>}
    /\ job = Job(0, InitialDirs, <<<<>>, {}>>) /\ shown = <<>>
    /\ typed = [n \in Ino |-> <<>>]

----------------------------------------------------------------------------
\* Mutant: the slash in front of the dots ends the path, not the one before.
resolve_path_NotUp(a) ==
    LET temp == IF a.abs THEN a.comps ELSE cwd \o a.comps
        dots == {k \in DOMAIN temp : temp[k] \in Ups \cup Mids}
    IN  IF dots = {} THEN temp ELSE SubSeq(temp, 1, Min(dots) - 1)

\* The first two dots end the path, wherever they stand.  At the start of a
\* component they also take the one before it.
resolve_path(a) ==
    LET temp == IF a.abs THEN a.comps ELSE cwd \o a.comps
        dots == {k \in DOMAIN temp : temp[k] \in Ups \cup Mids}
    IN  IF dots = {} THEN temp
        ELSE SubSeq(temp, 1, Min(dots) - (IF temp[Min(dots)] \in Ups THEN 2 ELSE 1))

\* What mkdir and unlink take "/" for.
Target(a) == IF resolve_path(a) = <<>> THEN <<DOT>> ELSE resolve_path(a)

\* The normal form of a path, for comparison: a DOTDOT takes back one step.
NormalStep(done, c) ==
    CASE c = DOT -> done
      [] c = DOTDOT -> IF done = <<>> THEN <<>> ELSE Front(done)
      [] OTHER -> Append(done, c)

Normal(p) ==
    LET walk[k \in 0..Len(p)] == IF k = 0 THEN <<>> ELSE NormalStep(walk[k - 1], p[k])
    IN  walk[Len(p)]

\* Paths that resolve_path can follow: at most one "..", at the end, no ".",
\* and no name with two dots.
Plain(p) ==
    \A k \in DOMAIN p : p[k] \notin Mids \cup {DOT} /\ (p[k] \in Ups => k = Len(p) /\ p[k] = DOTDOT)

\* Where a user is who asks for a, by the directory they took themselves to be
\* in.  Nowhere, if the path is none of those: cd goes somewhere else then.
Asked(a) ==
    LET full == {p \o a.comps : p \in IF a.abs THEN {<<>>} ELSE place}
    IN  {Normal(p) : p \in {q \in full : Plain(q)}}

\* Call vfs_open, and go on with `command` if it returned a descriptor.
OpenFor(command, p, flags, pieces, goal) ==
    /\ vfs_open(p, flags)
    /\ \/ /\ fd_table' = fd_table
          /\ pc' = "prompt" /\ job' = IDLE
       \/ /\ fd_table' # fd_table
          /\ pc' = command /\ job' = Job(Min(FreeSlots), pieces, goal)

\* The text that the file just opened is to get.
Gets(text) == typed' = IF fd_table' = fd_table THEN typed
                       ELSE [typed EXCEPT ![fd_table'[Min(FreeSlots)].ino] = text]

CloseAndPrompt == vfs_close(job.fd) /\ pc' = "prompt" /\ job' = IDLE /\ shown' = <<>>

----------------------------------------------------------------------------
\* "/" is a ramfs: its root directory, which SInit has, and the mount point
\* must be allocated.
vfs_mount ==
    /\ pc = "boot" /\ pc' \in {"mount", "panic"}
    /\ UNCHANGED <<vars, cwd, job, shown, typed, place>>

\* After a panic the processor halts.
panic == pc = "panic" /\ UNCHANGED svars

MountMkdir ==
    /\ pc = "mount" /\ job.todo # <<>>
    /\ vfs_mkdir(<<Head(job.todo)>>)
    /\ job' = [job EXCEPT !.todo = Tail(@)]
    /\ UNCHANGED <<pc, cwd, shown, typed, place>>

\* The last part of mount_initial_fs writes /etc/hostname, as cmd_write does.
MountHostname ==
    /\ pc = "mount" /\ job.todo = <<>>
    /\ OpenFor("write", <<HostDir, HostFile>>, {"CREAT"}, <<HostText>>, Here)
    /\ Gets(HostText)
    /\ UNCHANGED <<cwd, shown, place>>

cmd_mkdir(a) ==
    /\ pc = "prompt" /\ vfs_mkdir(Target(a))
    /\ UNCHANGED shell

cmd_rm(a) ==
    /\ pc = "prompt" /\ vfs_unlink(Target(a))
    /\ UNCHANGED shell

\* Without an argument cd goes to "/" and ls lists the current directory.
cmd_cd(a) ==
    /\ pc = "prompt" /\ Len(resolve_path(a)) <= MaxDepth
    /\ OpenFor("cd", resolve_path(a), {"DIRECTORY"}, <<>>, <<resolve_path(a), Asked(a)>>)
    /\ UNCHANGED <<cwd, shown, typed, place>>

cmd_ls(a) ==
    /\ pc = "prompt" /\ OpenFor("ls", resolve_path(a), {"DIRECTORY"}, <<>>, Here)
    /\ UNCHANGED <<cwd, shown, typed, place>>

cmd_cat(a) ==
    /\ pc = "prompt" /\ OpenFor("cat", resolve_path(a), {}, <<>>, Here)
    /\ UNCHANGED <<cwd, shown, typed, place>>

cmd_touch(a) ==
    /\ pc = "prompt" /\ OpenFor("close", resolve_path(a), {"CREAT"}, <<>>, Here)
    /\ UNCHANGED <<cwd, shown, typed, place>>

\* What vfs_write is called with for the words of a text, and its flags.
Pieces(text) ==
    [k \in 1..(2 * Len(text)) |-> IF k % 2 = 1 THEN text[(k + 1) \div 2]
                                  ELSE IF k = 2 * Len(text) THEN <<NewlineByte>>
                                  ELSE <<SpaceByte>>]

\* Mutant: the file is not truncated.
WriteFlags_NoTrunc == {"CREAT"}

WriteFlags == {"CREAT", "TRUNC"}

cmd_write(a, text) ==
    /\ pc = "prompt" /\ OpenFor("write", resolve_path(a), WriteFlags, Pieces(text), Here)
    /\ Gets(FlattenSeq(Pieces(text)))
    /\ UNCHANGED <<cwd, shown, place>>

----------------------------------------------------------------------------
\* vfs_open opens a file as a directory too, and then cd has gone nowhere.
InDirectory(goal) == IF IsDir(inode, fd_table[job.fd].ino) THEN goal ELSE {}

\* Mutant: the descriptor is kept.
CdDone_KeepsFile ==
    /\ pc = "cd" /\ pc' = "prompt" /\ job' = IDLE
    /\ cwd' = job.goal[1] /\ place' = InDirectory(job.goal[2])
    /\ UNCHANGED <<vars, shown, typed>>

CdDone ==
    /\ pc = "cd" /\ CloseAndPrompt
    /\ cwd' = job.goal[1] /\ place' = InDirectory(job.goal[2])
    /\ UNCHANGED typed

LsRead ==
    /\ pc = "ls" /\ vfs_readdir(job.fd, LsBuf)
    /\ pc' = "close"
    /\ UNCHANGED <<cwd, job, shown, typed, place>>

\* What kprintf("%s") prints of a buffer: it ends at a NUL.
Printed(bytes) ==
    LET nul == SelectInSeq(bytes, LAMBDA b : b = 0)
    IN  IF nul = 0 THEN bytes ELSE SubSeq(bytes, 1, nul - 1)

CatRead ==
    /\ pc = "cat" /\ vfs_read(job.fd, CatBuf)
    /\ shown' = shown \o Printed(ret')
    /\ pc' = IF ret' = <<>> THEN "catted" ELSE "cat"
    /\ UNCHANGED <<cwd, job, typed, place>>

WritePiece ==
    /\ pc = "write" /\ job.todo # <<>>
    /\ vfs_write(job.fd, Head(job.todo))
    /\ job' = [job EXCEPT !.todo = Tail(@)]
    /\ UNCHANGED <<pc, cwd, shown, typed, place>>

\* There is no memory for a larger buffer.  The command goes on.
WriteFails ==
    LET f == fd_table[job.fd] IN
    /\ pc = "write" /\ job.todo # <<>>
    /\ f.pos + Len(Head(job.todo)) > Len(inode[f.ino].data)
    /\ Cardinality({n \in Ino \ {f.ino} : typed[n] = <<LOST>>}) < MaxLost
    /\ job' = [job EXCEPT !.todo = Tail(@)]
    /\ typed' = [typed EXCEPT ![f.ino] = <<LOST>>]
    /\ UNCHANGED <<vars, pc, cwd, shown, place>>

Finish ==
    /\ pc \in {"close", "catted"} \/ (pc = "write" /\ job.todo = <<>>)
    /\ CloseAndPrompt
    /\ UNCHANGED <<cwd, typed, place>>

SNext ==
    \/ vfs_mount \/ panic \/ MountMkdir \/ MountHostname
    \/ \E a \in Args : \/ cmd_mkdir(a) \/ cmd_rm(a) \/ cmd_cd(a) \/ cmd_ls(a)
                       \/ cmd_cat(a) \/ cmd_touch(a)
    \/ \E a \in Args, text \in Texts : cmd_write(a, text)
    \/ CdDone \/ LsRead \/ CatRead \/ WritePiece \/ WriteFails \/ Finish

SSpec == SInit /\ [][SNext]_svars

----------------------------------------------------------------------------
\* Whatever a command meets on its way, at the prompt no descriptor is open:
\* the table cannot fill up however long the shell runs.
NothingLeftOpen == pc = "prompt" => FreeSlots = FD

\* What cat has printed when it reaches the end is the text the last `write`
\* to that file was given, in its words and in order, however the buffer grew
\* and whatever shorter or longer text the file had before; unless memory ran
\* out while it was written.
CatShowsText ==
    pc = "catted" => LET n == fd_table[job.fd].ino IN typed[n] \in {shown, <<LOST>>}

\* After any sequence of `cd` to directories, by name, by absolute path or by a
\* final "..", the shell is where the user asked to be.  A `cd` to any other
\* path, "../a" for one, which resolve_path cuts at its dots, ends the promise
\* until the next one to an absolute path.
CwdIsPlace == place \subseteq {cwd}

\* "Full POSIX-style path traversal": cd to a path that can be opened goes
\* where the path's components lead, one after the other.
CdFollowsPath ==
    [][\A a \in Args : cmd_cd(a) /\ pc' = "cd" =>
           job'.goal[1] = Normal((IF a.abs THEN <<>> ELSE cwd) \o a.comps)]_svars
=============================================================================
