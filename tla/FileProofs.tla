----------------------------- MODULE FileProofs -----------------------------
(***************************************************************************)
(* Proofs about the files, for every number of descriptors and of inodes,  *)
(* every initial tree, and any sequence of commands.                       *)
(***************************************************************************)
EXTENDS Shell, NaturalLemmas, FiniteSetTheorems, TLAPS

----------------------------------------------------------------------------
\* Descriptors.

Fields == {"ino", "pos", "dir", "created", "todo"}

\* A table of descriptors, of which those in `used` are open.
Table(tab, used) ==
    /\ DOMAIN tab = FD
    /\ \A fd \in FD : DOMAIN tab[fd] = Fields /\ (tab[fd].ino # NULL <=> fd \in used)

\* The lowest free descriptor is a free descriptor.
LEMMA MinFree ==
    ASSUME FreeSlots # {}
    PROVE  Min(FreeSlots) \in FreeSlots
<1>1. FreeSlots \in SUBSET Nat
  BY VfsAssumption DEF FreeSlots, FD
<1>2. \E x \in FreeSlots : \A y \in FreeSlots : x <= y
  BY <1>1, LeastNat
<1> QED BY <1>2 DEF Min

\* What OpenOn does to the table: one descriptor more, on a file.
LEMMA OpenOnTakes ==
    ASSUME NEW t, NEW n, NEW flags, NEW created,
           Table(fd_table, {}), FreeSlots # {}, n # NULL, OpenOn(t, n, flags, created)
    PROVE  Min(FreeSlots) \in FD /\ Table(fd_table', {Min(FreeSlots)})
<1> DEFINE u == IF "TRUNC" \in flags THEN ramfs_truncate(t, n) ELSE t
           f == [ino |-> n, pos |-> IF "APPEND" \in flags THEN u[n].size ELSE 0,
                 dir |-> "DIRECTORY" \in flags, created |-> created,
                 todo |-> IF "DIRECTORY" \in flags /\ flags \cap {"APPEND"} = {}
                          THEN ToSet(u[n].entries) ELSE {}]
           m == Min(FreeSlots)
<1>1. fd_table' = [fd_table EXCEPT ![m] = f]
  BY DEF OpenOn
<1>2. DOMAIN f = Fields /\ f.ino # NULL
  BY DEF Fields
<1>3. m \in FD
  BY MinFree DEF FreeSlots
<1> HIDE DEF f, m
<1>4. DOMAIN fd_table' = FD /\ \A fd \in FD : fd_table'[fd] = IF fd = m THEN f ELSE fd_table[fd]
  BY <1>1, <1>3 DEF Table
<1>5. Table(fd_table', {m})
  BY <1>2, <1>3, <1>4 DEF Table
<1> QED BY <1>3, <1>5 DEF m

\* vfs_open takes the lowest descriptor, or none if it fails.
LEMMA OpenTakesOne ==
    ASSUME NEW path, NEW flags, Table(fd_table, {}), next_ino \in Nat \ {0}, vfs_open(path, flags)
    PROVE  /\ next_ino' \in Nat \ {0}
           /\ \/ fd_table' = fd_table
              \/ Min(FreeSlots) \in FD /\ Table(fd_table', {Min(FreeSlots)})
<1> DEFINE r == ramfs_get_inode_by_path(inode, path)
           p == ramfs_get_inode_by_path(r.tab, path_dirname(path))
<1>1. FreeSlots # {} /\ ramfs_fs_open(path, flags)
  BY DEF vfs_open
<1>2. \/ r.ino # NULL /\ OpenOn(r.tab, r.ino, flags, FALSE) /\ next_ino' = next_ino
      \/ CreateAndOpen(p, path_basename(path), flags)
      \/ OpenFails(p.tab) /\ next_ino' = next_ino
      \/ OpenFails(r.tab) /\ next_ino' = next_ino
  BY <1>1 DEF ramfs_fs_open
<1> HIDE DEF r, p
<1>3. CASE r.ino # NULL /\ OpenOn(r.tab, r.ino, flags, FALSE) /\ next_ino' = next_ino
  BY <1>1, <1>3, OpenOnTakes
<1>4. CASE CreateAndOpen(p, path_basename(path), flags)
  <2> DEFINE t == ramfs_create(p.tab, p.ino, path_basename(path), "file")
  <2>1. \/ OpenOn(t, next_ino, flags, TRUE) /\ next_ino' = next_ino + 1
        \/ fd_table' = fd_table /\ next_ino' \in {next_ino, next_ino + 1}
    BY <1>4 DEF CreateAndOpen, OpenFails
  <2> HIDE DEF t
  <2>2. next_ino # NULL
    BY DEF NULL
  <2>3. CASE OpenOn(t, next_ino, flags, TRUE) /\ next_ino' = next_ino + 1
    <3>1. Min(FreeSlots) \in FD /\ Table(fd_table', {Min(FreeSlots)})
      BY <1>1, <2>2, <2>3, OpenOnTakes
    <3> QED BY <2>3, <3>1
  <2>4. CASE fd_table' = fd_table /\ next_ino' \in {next_ino, next_ino + 1}
    <3>1. next_ino' \in Nat \ {0}
      BY <2>4
    <3> QED BY <2>4, <3>1
  <2> QED BY <2>1, <2>3, <2>4, Zenon
<1>5. CASE (OpenFails(p.tab) \/ OpenFails(r.tab)) /\ next_ino' = next_ino
  BY <1>5 DEF OpenFails
<1> QED BY <1>2, <1>3, <1>4, <1>5

\* Moving the position of a descriptor opens and closes nothing.
LEMMA SameDescriptors ==
    ASSUME NEW tab, NEW used, NEW fd \in FD, NEW pos, NEW todo, Table(tab, used)
    PROVE  Table([tab EXCEPT ![fd].pos = pos, ![fd].todo = todo], used)
BY DEF Table, Fields

(***************************************************************************)
(* The inductive invariant of the shell: between commands, and while the   *)
(* initial directories are made, no descriptor is open; while a command    *)
(* runs, only the one it remembers.                                        *)
(***************************************************************************)
Resting == {"boot", "mount", "panic", "prompt"}
Running == {"cd", "ls", "cat", "catted", "close", "write"}

OpenInv ==
    /\ next_ino \in Nat \ {0}
    /\ pc \in Resting \cup Running
    /\ DOMAIN job = {"fd", "todo", "goal"}
    /\ pc \in Resting => Table(fd_table, {})
    /\ pc \in Running => job.fd \in FD /\ Table(fd_table, {job.fd})

\* A command that opens a file.
LEMMA OpenForStep ==
    ASSUME OpenInv, pc \in Resting, NEW command \in Running, NEW p, NEW flags, NEW pieces, NEW goal,
           OpenFor(command, p, flags, pieces, goal)
    PROVE  OpenInv'
<1>1. /\ next_ino' \in Nat \ {0}
      /\ \/ fd_table' = fd_table
         \/ Min(FreeSlots) \in FD /\ Table(fd_table', {Min(FreeSlots)})
  BY OpenTakesOne DEF OpenInv, OpenFor
<1>2. CASE fd_table' = fd_table /\ pc' = "prompt" /\ job' = IDLE
  BY <1>1, <1>2 DEF OpenInv, IDLE, Job, Resting, Running
<1>3. CASE fd_table' # fd_table /\ pc' = command /\ job' = Job(Min(FreeSlots), pieces, goal)
  <2>1. job'.fd = Min(FreeSlots) /\ DOMAIN job' = {"fd", "todo", "goal"}
    BY <1>3 DEF Job
  <2> QED BY <1>1, <1>3, <2>1 DEF OpenInv, Resting, Running
<1> QED BY <1>2, <1>3 DEF OpenFor

\* The end of a command.
LEMMA CloseStep ==
    ASSUME OpenInv, pc \in Running, CloseAndPrompt
    PROVE  OpenInv'
<1>1. fd_table' = [fd_table EXCEPT ![job.fd] = NOFILE] /\ next_ino' = next_ino
  BY DEF CloseAndPrompt, vfs_close, fs
<1>2. DOMAIN NOFILE = Fields /\ NOFILE.ino = NULL
  BY DEF NOFILE, Fields
<1>3. Table(fd_table', {})
  BY <1>1, <1>2 DEF OpenInv, Table
<1> QED BY <1>1, <1>3 DEF OpenInv, CloseAndPrompt, IDLE, Job, Resting, Running

LEMMA OpenInvInit == SInit => OpenInv
<1> SUFFICES ASSUME SInit PROVE OpenInv
  OBVIOUS
<1>1. DOMAIN NOFILE = Fields /\ NOFILE.ino = NULL
  BY DEF NOFILE, Fields
<1>2. fd_table = [fd \in FD |-> NOFILE] /\ next_ino = 2 /\ pc = "boot"
      /\ job = Job(0, InitialDirs, <<<<>>, {}>>)
  BY DEF SInit, Init, RamfsInit
<1>3. Table(fd_table, {})
  BY <1>1, <1>2 DEF Table
<1> QED BY <1>2, <1>3 DEF OpenInv, Job, Resting, Running

LEMMA OpenInvNext == OpenInv /\ [SNext]_svars => OpenInv'
<1> SUFFICES ASSUME OpenInv, [SNext]_svars PROVE OpenInv'
  OBVIOUS
<1>1. CASE vfs_mount
  BY <1>1 DEF vfs_mount, OpenInv, vars, fs, Resting, Running, Table
<1>2. CASE panic \/ UNCHANGED svars
  BY <1>2 DEF panic, svars, shell, vars, fs, OpenInv, Table
<1>3. ASSUME NEW path, vfs_mkdir(path)
      PROVE  fd_table' = fd_table /\ next_ino' \in {next_ino, next_ino + 1}
  BY <1>3 DEF vfs_mkdir, ramfs_fs_mkdir
<1>4. CASE MountMkdir
  <2>1. /\ fd_table' = fd_table /\ next_ino' \in {next_ino, next_ino + 1} /\ pc' = pc
        /\ pc = "mount" /\ DOMAIN job' = DOMAIN job
    BY <1>3, <1>4 DEF MountMkdir
  <2> QED BY <2>1 DEF OpenInv, Resting, Running
<1>5. CASE MountHostname
  BY <1>5, OpenForStep DEF MountHostname, Resting, Running
<1>6. ASSUME NEW a \in Args, cmd_mkdir(a) PROVE OpenInv'
  <2>1. /\ fd_table' = fd_table /\ next_ino' \in {next_ino, next_ino + 1} /\ pc' = pc
        /\ job' = job
    BY <1>3, <1>6 DEF cmd_mkdir, shell
  <2> QED BY <2>1 DEF OpenInv
<1>7. ASSUME NEW a \in Args, cmd_rm(a) PROVE OpenInv'
  <2>1. /\ \/ fd_table' = fd_table
           \/ fd_table' = [fd \in FD |-> [fd_table[fd] EXCEPT !.todo = {}]]
        /\ next_ino' = next_ino /\ pc' = pc /\ pc = "prompt" /\ job' = job
    BY <1>7 DEF cmd_rm, shell, vfs_unlink, ramfs_fs_unlink
  <2>2. Table(fd_table, {})
    BY <2>1 DEF OpenInv, Resting
  <2>3. Table(fd_table', {})
    BY <2>1, <2>2 DEF Table, Fields
  <2> QED BY <2>1, <2>3 DEF OpenInv, Resting, Running
<1>8. ASSUME NEW a \in Args, cmd_cd(a) \/ cmd_ls(a) \/ cmd_cat(a) \/ cmd_touch(a) PROVE OpenInv'
  BY <1>8, OpenForStep DEF cmd_cd, cmd_ls, cmd_cat, cmd_touch, Resting, Running
<1>9. ASSUME NEW a \in Args, NEW text \in Texts, cmd_write(a, text) PROVE OpenInv'
  BY <1>9, OpenForStep DEF cmd_write, Resting, Running
<1>10. CASE CdDone \/ Finish
  BY <1>10, CloseStep DEF CdDone, Finish, Running
<1>11. CASE LsRead \/ CatRead \/ WritePiece
  <2>1. pc \in Running /\ pc' \in Running /\ job'.fd = job.fd /\ DOMAIN job' = DOMAIN job
    BY <1>11 DEF LsRead, CatRead, WritePiece, Running, OpenInv
  <2>2. job.fd \in FD /\ Table(fd_table, {job.fd})
    BY <2>1 DEF OpenInv
  <2>3. PICK q, s : next_ino' = next_ino
                    /\ fd_table' = [fd_table EXCEPT ![job.fd].pos = q, ![job.fd].todo = s]
    BY <1>11 DEF LsRead, CatRead, WritePiece, vfs_readdir, vfs_read, vfs_write, fs
  <2>4. Table(fd_table', {job.fd})
    <3>1. Table([fd_table EXCEPT ![job.fd].pos = q, ![job.fd].todo = s], {job.fd})
      BY <2>2, SameDescriptors, Zenon
    <3> QED BY <2>3, <3>1, Zenon
  <2> QED BY <2>1, <2>2, <2>3, <2>4 DEF OpenInv, Resting, Running
<1>12. CASE WriteFails
  BY <1>12 DEF WriteFails, OpenInv, vars, fs, Resting, Running, Table
<1> QED BY <1>1, <1>2, <1>4, <1>5, <1>6, <1>7, <1>8, <1>9, <1>10, <1>11, <1>12 DEF SNext

\* No command, however it ends, leaves a descriptor open.
THEOREM NothingLeftOpenAlways == SSpec => []NothingLeftOpen
<1>1. OpenInv => NothingLeftOpen
  BY DEF OpenInv, NothingLeftOpen, FreeSlots, Open, Table, Resting
<1> QED BY <1>1, OpenInvInit, OpenInvNext, PTL DEF SSpec
----------------------------------------------------------------------------
(***************************************************************************)
(* The tree of inodes.  t is a table of inodes, a the allocated ones, N    *)
(* the next number.                                                        *)
(***************************************************************************)
Entry == [name : Names \cup {DOT}, ino : Ino]

\* An entry of a directory of `a` names inode n.
Named(t, a, n) == \E d \in a : \E k \in DOMAIN t[d].entries : t[d].entries[k].ino = n

Links(t, a, n) == (IF Named(t, a, n) THEN 1 ELSE 0) + Len(t[n].entries) + (IF n = ROOT THEN 1 ELSE 0)

\* Entries name allocated inodes younger than their directory, no two of them
\* the same one.
Rooted(t, a) ==
    /\ \A d \in a : \A k \in DOMAIN t[d].entries :
          t[d].entries[k].ino \in a /\ t[d].entries[k].ino > d
    /\ \A d, e \in a : \A j \in DOMAIN t[d].entries, k \in DOMAIN t[e].entries :
          t[d].entries[j].ino = t[e].entries[k].ino => d = e /\ j = k

Tree(t, a, N) ==
    /\ t \in [Ino -> InodeType]
    /\ a \subseteq Ino /\ ROOT \in a /\ \A n \in a : n < N
    /\ Rooted(t, a)
    /\ \A n \in a : t[n].nlinks = Links(t, a, n) /\ t[n].ref_count >= 1

\* An inode that a lookup found cannot be reclaimed.
Kept(t, a, n) == n \in a /\ (n = ROOT \/ t[n].ref_count >= 2)

\* What is still to be listed of a directory is after the position.
Ahead(todo, pos, entries) ==
    \/ todo = {}
    \/ pos \in Nat /\ todo \subseteq {entries[k] : k \in (pos + 1)..Len(entries)}

\* A descriptor is free, or its file has been numbered; a file that was found
\* is kept, and of an open directory what is to be listed is after the position.
Sound(f, t, a, N) ==
    f.ino # NULL =>
        /\ f.ino < N
        /\ ~f.created => Kept(t, a, f.ino)
        /\ Ahead(f.todo, f.pos, t[f.ino].entries)

\* The buffer holds what was written, and zeroes behind it.
Holds(data, size, w) ==
    /\ size = Len(w) /\ size <= Len(data)
    /\ \A k \in 1..Len(data) : data[k] = IF k <= size THEN w[k] ELSE 0

Stored(t, N, w) ==
    /\ w \in [Ino -> Seq(Bytes)]
    /\ \A n \in Ino : Holds(t[n].data, t[n].size, w[n]) /\ (n >= N => w[n] = <<>>)

\* The inductive invariant of the files.
State(t, a, N, tab, w) ==
    /\ Tree(t, a, N) /\ N \in 2..(MaxInodes + 1)
    /\ tab \in [FD -> FileType] /\ \A fd \in FD : Sound(tab[fd], t, a, N)
    /\ Stored(t, N, w)

VfsInv == State(inode, alive, next_ino, fd_table, written)

LEMMA InoFacts == Ino \subseteq Nat \ {0} /\ ROOT \in Ino /\ NULL \notin Ino /\ NULL # ROOT
BY RamfsAssumption DEF Ino, ROOT, NULL

\* An operation that leaves names and links alone and drops no reference.
SameTree(t, u) ==
    \A n \in Ino : /\ u[n].mode = t[n].mode /\ u[n].nlinks = t[n].nlinks
                   /\ u[n].entries = t[n].entries /\ u[n].ref_count >= t[n].ref_count

SameData(t, u) == \A n \in Ino : u[n].data = t[n].data /\ u[n].size = t[n].size

LEMMA SameTreeKept ==
    ASSUME NEW t, NEW u \in [Ino -> InodeType], NEW a, NEW N, Tree(t, a, N), SameTree(t, u)
    PROVE  Tree(u, a, N) /\ \A n \in Ino : Kept(t, a, n) => Kept(u, a, n)
<1>1. a \subseteq Ino /\ t \in [Ino -> InodeType]
  BY DEF Tree
<1>2. \A n \in a : u[n].entries = t[n].entries /\ u[n].nlinks = t[n].nlinks
  BY <1>1 DEF SameTree
<1>3. \A n \in Ino : t[n].ref_count \in Nat /\ u[n].ref_count \in Nat /\ u[n].ref_count >= t[n].ref_count
  BY <1>1, RamfsAssumption DEF InodeType, SameTree
<1>4. Rooted(u, a)
  BY <1>2 DEF Tree, Rooted
<1>5. \A n \in a : Links(u, a, n) = Links(t, a, n)
  BY <1>2 DEF Links, Named
<1>6. \A n \in a : u[n].nlinks = Links(u, a, n) /\ u[n].ref_count >= 1
  BY <1>1, <1>2, <1>3, <1>5 DEF Tree
<1>7. Tree(u, a, N)
  BY <1>4, <1>6 DEF Tree
<1> QED BY <1>3, <1>7 DEF Kept

\* Giving one field of an inode another value.
LEMMA SetRef ==
    ASSUME NEW r \in InodeType, NEW c \in 0..MaxRef, NEW q, q = [r EXCEPT !.ref_count = c]
    PROVE  /\ q \in InodeType /\ q.ref_count = c
           /\ q.mode = r.mode /\ q.nlinks = r.nlinks /\ q.entries = r.entries
           /\ q.data = r.data /\ q.size = r.size
BY DEF InodeType

LEMMA RefNat == \A r \in InodeType : r.ref_count \in Nat
BY RamfsAssumption DEF InodeType

\* The least of a set of positions.
LEMMA MinIs ==
    ASSUME NEW S \in SUBSET Nat, S # {}
    PROVE  Min(S) \in S /\ \A x \in S : Min(S) <= x
<1>1. \E x \in S : \A y \in S : x <= y
  BY LeastNat
<1> QED BY <1>1 DEF Min

LEMMA MinOfTwo ==
    ASSUME NEW x \in Nat, NEW y \in Nat
    PROVE  Min({x, y}) = IF x <= y THEN x ELSE y
<1>1. Min({x, y}) \in {x, y} /\ Min({x, y}) <= x /\ Min({x, y}) <= y
  BY MinIs
<1> QED BY <1>1

LEMMA MatchIs ==
    ASSUME NEW t \in [Ino -> InodeType], NEW d \in Ino, NEW name, Matches(t, d, name) # {}
    PROVE  Min(Matches(t, d, name)) \in DOMAIN t[d].entries
<1>1. t[d].entries \in Seq(Entry)
  BY DEF InodeType, Entry
<1>2. Matches(t, d, name) \in SUBSET Nat
  BY <1>1 DEF Matches
<1>3. Min(Matches(t, d, name)) \in Matches(t, d, name)
  BY <1>2, MinIs
<1> QED BY <1>3 DEF Matches

\* Where a walk from table t may be.
Place(t, a, N, r) ==
    /\ r \in [tab : [Ino -> InodeType], ino : Ino \cup {NULL}]
    /\ SameTree(t, r.tab) /\ SameData(t, r.tab)
    /\ r.ino = NULL \/ Kept(r.tab, a, r.ino)

LEMMA WalkStart ==
    ASSUME NEW t, NEW a, NEW N, Tree(t, a, N)
    PROVE  Place(t, a, N, [tab |-> t, ino |-> ROOT])
<1>1. t \in [Ino -> InodeType] /\ ROOT \in a
  BY DEF Tree
<1>2. \A n \in Ino : t[n].ref_count \in Nat
  BY <1>1, RamfsAssumption DEF InodeType
<1> QED BY <1>1, <1>2, InoFacts DEF Place, SameTree, SameData, Kept

LEMMA LookupStep ==
    ASSUME NEW t, NEW a, NEW N, Tree(t, a, N), NEW r, Place(t, a, N, r), r.ino # NULL, NEW name
    PROVE  Place(t, a, N, ramfs_lookup(r.tab, r.ino, name))
<1> DEFINE u == r.tab
           d == r.ino
           M == Matches(u, d, name)
<1>1. u \in [Ino -> InodeType] /\ d \in a /\ d \in Ino /\ Tree(u, a, N) /\ a \subseteq Ino
  BY SameTreeKept DEF Place, Kept, Tree
<1>2. CASE M = {}
  <2>1. ramfs_lookup(u, d, name) = [tab |-> u, ino |-> NULL]
    BY <1>2 DEF ramfs_lookup
  <2> QED BY <1>1, <2>1 DEF Place
<1>3. CASE M # {}
  <2>1. Min(M) \in DOMAIN u[d].entries
    BY <1>1, <1>3, MatchIs
  <2>2. PICK n : n = u[d].entries[Min(M)].ino
    OBVIOUS
  <2>3. n \in a /\ n \in Ino
    BY <1>1, <2>1, <2>2 DEF Tree, Rooted
  <2>4. PICK c : c = Min({u[n].ref_count + 1, MaxRef})
    OBVIOUS
  <2>5. u[n].ref_count \in 1..MaxRef /\ MaxRef \in Nat /\ MaxRef >= 2
    BY <1>1, <2>3, RamfsAssumption DEF Tree, InodeType
  <2>6. c \in 2..MaxRef /\ c >= u[n].ref_count
    BY <2>4, <2>5, MinOfTwo
  <2>7. PICK v : v = [u EXCEPT ![n].ref_count = c]
    OBVIOUS
  <2>8. ramfs_lookup(u, d, name) = [tab |-> v, ino |-> n]
    BY <1>3, <2>2, <2>4, <2>7 DEF ramfs_lookup
  <2>9. /\ v \in [Ino -> InodeType] /\ v[n].ref_count = c
        /\ SameTree(u, v) /\ SameData(u, v)
    <3>1. PICK q : q = [u[n] EXCEPT !.ref_count = c]
      OBVIOUS
    <3>2. u[n] \in InodeType /\ c \in 0..MaxRef
      BY <1>1, <2>3, <2>5, <2>6
    <3>3. /\ q \in InodeType /\ q.ref_count = c
          /\ q.mode = u[n].mode /\ q.nlinks = u[n].nlinks /\ q.entries = u[n].entries
          /\ q.data = u[n].data /\ q.size = u[n].size
      BY <3>1, <3>2, SetRef
    <3>4. /\ v \in [Ino -> InodeType]
          /\ \A m \in Ino : v[m] = IF m = n THEN q ELSE u[m]
      BY <1>1, <2>3, <2>7, <3>1, <3>3
    <3>5. \A m \in Ino : u[m].ref_count \in Nat
      BY <1>1, RefNat
    <3> HIDE DEF u
    <3>6. SameData(u, v) /\ v[n].ref_count = c
      BY <2>3, <3>3, <3>4 DEF SameData
    <3>7. SameTree(u, v)
      BY <2>6, <3>3, <3>4, <3>5 DEF SameTree
    <3> QED BY <3>4, <3>6, <3>7
  <2>10. SameTree(t, v) /\ SameData(t, v)
    <3>1. \A m \in Ino : v[m].ref_count \in Nat /\ u[m].ref_count \in Nat /\ t[m].ref_count \in Nat
      BY <1>1, <2>9, RefNat DEF Tree
    <3> QED BY <2>9, <3>1 DEF Place, SameTree, SameData
  <2>11. Kept(v, a, n)
    BY <2>3, <2>6, <2>9 DEF Kept
  <2> QED BY <2>3, <2>8, <2>9, <2>10, <2>11 DEF Place
<1> QED BY <1>2, <1>3

LEMMA WalkStepPlace ==
    ASSUME NEW t, NEW a, NEW N, Tree(t, a, N), NEW r, Place(t, a, N, r), NEW name
    PROVE  Place(t, a, N, WalkStep(r, name))
<1>1. CASE r.ino = NULL \/ name = DOT
  <2>1. WalkStep(r, name) = r
    BY <1>1 DEF WalkStep
  <2> QED BY <2>1
<1>2. CASE ~ (r.ino = NULL \/ name = DOT) /\ ~ IsDir(r.tab, r.ino)
  <2>1. WalkStep(r, name) = [r EXCEPT !.ino = NULL]
    BY <1>2 DEF WalkStep
  <2>2. PICK q : q = [r EXCEPT !.ino = NULL]
    OBVIOUS
  <2>3. q \in [tab : [Ino -> InodeType], ino : Ino \cup {NULL}] /\ q.tab = r.tab /\ q.ino = NULL
    BY <2>2 DEF Place
  <2> QED BY <2>1, <2>2, <2>3 DEF Place
<1>3. CASE ~ (r.ino = NULL \/ name = DOT) /\ IsDir(r.tab, r.ino)
  <2>1. WalkStep(r, name) = ramfs_lookup(r.tab, r.ino, name)
    BY <1>3 DEF WalkStep
  <2> QED BY <1>3, <2>1, LookupStep
<1> QED BY <1>1, <1>2, <1>3

\* The walk as a sequence of steps.
IsWalk(w, L, t, path) ==
    w = [k \in 0..L |-> IF k = 0 THEN [tab |-> t, ino |-> ROOT] ELSE WalkStep(w[k - 1], path[k])]

LEMMA WalkExists ==
    ASSUME NEW t, NEW path, NEW L \in Nat
    PROVE  \E w : IsWalk(w, L, t, path)
<1> DEFINE start == [tab |-> t, ino |-> ROOT]
           S == {n \in Nat : \E w : IsWalk(w, n, t, path)}
<1>1. 0 \in S
  <2> DEFINE w == [k \in 0..0 |-> start]
  <2>1. w = [k \in 0..0 |-> IF k = 0 THEN start ELSE WalkStep(w[k - 1], path[k])]
    OBVIOUS
  <2>2. IsWalk(w, 0, t, path)
    BY <2>1 DEF IsWalk
  <2> QED BY <2>2
<1>2. ASSUME NEW m \in Nat, m \in S PROVE m + 1 \in S
  <2>1. PICK w : IsWalk(w, m, t, path)
    BY <1>2
  <2> HIDE DEF start
  <2>2. /\ w[0] = start
        /\ \A k \in 0..m : k # 0 => w[k] = WalkStep(w[k - 1], path[k])
    BY <2>1 DEF IsWalk, start
  <2>3. PICK v : v = [k \in 0..(m + 1) |-> IF k = m + 1 THEN WalkStep(w[m], path[m + 1]) ELSE w[k]]
    OBVIOUS
  <2>4. \A k \in 0..(m + 1) : v[k] = IF k = 0 THEN start ELSE WalkStep(v[k - 1], path[k])
    <3> SUFFICES ASSUME NEW k \in 0..(m + 1)
                 PROVE  v[k] = IF k = 0 THEN start ELSE WalkStep(v[k - 1], path[k])
      OBVIOUS
    <3>1. CASE k = 0
      BY <2>2, <2>3, <3>1
    <3>2. CASE k = m + 1
      <4>1. k - 1 = m /\ m \in 0..(m + 1) /\ m # m + 1 /\ k # 0
        BY <3>2
      <4>2. v[k] = WalkStep(w[m], path[m + 1]) /\ v[m] = w[m]
        BY <2>3, <3>2, <4>1
      <4> QED BY <3>2, <4>1, <4>2
    <3>3. CASE k # 0 /\ k # m + 1
      <4>1. k \in 0..m /\ k - 1 \in 0..m /\ k - 1 \in 0..(m + 1) /\ k - 1 # m + 1
        BY <3>3
      <4>2. v[k] = w[k] /\ v[k - 1] = w[k - 1]
        BY <2>3, <3>3, <4>1
      <4> QED BY <2>2, <3>3, <4>1, <4>2
    <3> QED BY <3>1, <3>2, <3>3
  <2>5. v = [k \in 0..(m + 1) |-> v[k]]
    BY <2>3
  <2>6. v = [k \in 0..(m + 1) |-> IF k = 0 THEN start ELSE WalkStep(v[k - 1], path[k])]
    BY <2>4, <2>5, Zenon
  <2>7. IsWalk(v, m + 1, t, path)
    BY <2>6 DEF IsWalk, start
  <2> QED BY <2>7
<1> HIDE DEF S
<1>3. Nat \subseteq S
  BY <1>1, <1>2, SetInduction
<1> QED BY <1>3 DEF S

LEMMA WalkIs ==
    ASSUME NEW t, NEW path, Len(path) \in Nat
    PROVE  \E w : /\ w[0] = [tab |-> t, ino |-> ROOT]
                  /\ \A k \in 1..Len(path) : w[k] = WalkStep(w[k - 1], path[k])
                  /\ ramfs_get_inode_by_path(t, path) = w[Len(path)]
<1>1. \E w : IsWalk(w, Len(path), t, path)
  BY WalkExists
<1>2. PICK w : IsWalk(w, Len(path), t, path) /\ ramfs_get_inode_by_path(t, path) = w[Len(path)]
  BY <1>1, Zenon DEF ramfs_get_inode_by_path, IsWalk
<1>3. /\ w[0] = [tab |-> t, ino |-> ROOT]
      /\ \A k \in 1..Len(path) : w[k] = WalkStep(w[k - 1], path[k])
  BY <1>2 DEF IsWalk
<1> QED BY <1>2, <1>3

\* A walk along any path only takes references, and ends nowhere or at an
\* inode that it keeps.
LEMMA WalkKeeps ==
    ASSUME NEW t, NEW a, NEW N, Tree(t, a, N), NEW path, Len(path) \in Nat
    PROVE  Place(t, a, N, ramfs_get_inode_by_path(t, path))
<1>1. PICK w : /\ w[0] = [tab |-> t, ino |-> ROOT]
               /\ \A k \in 1..Len(path) : w[k] = WalkStep(w[k - 1], path[k])
               /\ ramfs_get_inode_by_path(t, path) = w[Len(path)]
  BY WalkIs
<1> DEFINE S == {k \in Nat : k <= Len(path) => Place(t, a, N, w[k])}
<1>2. 0 \in S
  BY <1>1, WalkStart
<1>3. ASSUME NEW k \in Nat, k \in S PROVE k + 1 \in S
  <2> SUFFICES ASSUME k + 1 <= Len(path) PROVE Place(t, a, N, w[k + 1])
    OBVIOUS
  <2>1. k + 1 \in 1..Len(path) /\ (k + 1) - 1 = k /\ Place(t, a, N, w[k])
    BY <1>3
  <2>2. w[k + 1] = WalkStep(w[k], path[k + 1])
    BY <1>1, <2>1
  <2> QED BY <2>1, <2>2, WalkStepPlace
<1> HIDE DEF S
<1>4. Nat \subseteq S
  BY <1>2, <1>3, SetInduction
<1>5. Place(t, a, N, w[Len(path)])
  BY <1>4 DEF S
<1> QED BY <1>1, <1>5

\* The empty path is the root.
LEMMA WalkEmpty == \A t : ramfs_get_inode_by_path(t, <<>>).ino = ROOT
<1> SUFFICES ASSUME NEW t PROVE ramfs_get_inode_by_path(t, <<>>).ino = ROOT
  OBVIOUS
<1>1. Len(<<>>) = 0
  OBVIOUS
<1>2. PICK w : w[0] = [tab |-> t, ino |-> ROOT] /\ ramfs_get_inode_by_path(t, <<>>) = w[0]
  BY <1>1, WalkIs
<1> QED BY <1>2

----------------------------------------------------------------------------
\* Creating and removing names.

LEMMA InodeFields ==
    ASSUME NEW r \in InodeType
    PROVE  /\ r.nlinks \in Nat /\ r.entries \in Seq(Entry) /\ r.data \in Seq(Bytes)
           /\ r.size \in Nat /\ r.ref_count \in 0..MaxRef
BY DEF InodeType, Entry

LEMMA NewInodeIs ==
    ASSUME NEW mode \in {"dir", "file"}, NEW q, q = NewInode(mode)
    PROVE  /\ q \in InodeType /\ q.nlinks = 1 /\ q.ref_count = 1
           /\ q.entries = <<>> /\ q.data = <<>> /\ q.size = 0
<1>1. 1 \in 0..MaxRef /\ 0 \in Nat /\ 1 \in Nat
  BY RamfsAssumption
<1>2. <<>> \in Seq(Entry) /\ <<>> \in Seq(Bytes)
  OBVIOUS
<1> QED BY <1>1, <1>2 DEF NewInode, InodeType, Entry

LEMMA CreateIs ==
    ASSUME NEW t \in [Ino -> InodeType], NEW d \in Ino, next_ino \in Ino, d # next_ino,
           NEW name \in Names \cup {DOT}, NEW mode \in {"dir", "file"},
           NEW u, u = ramfs_create(t, d, name, mode)
    PROVE  /\ u \in [Ino -> InodeType]
           /\ u[next_ino] = NewInode(mode)
           /\ u[d].entries = <<[name |-> name, ino |-> next_ino]>> \o t[d].entries
           /\ u[d].nlinks = t[d].nlinks + 1
           /\ u[d].mode = t[d].mode /\ u[d].ref_count = t[d].ref_count
           /\ u[d].data = t[d].data /\ u[d].size = t[d].size
           /\ \A n \in Ino : n # d /\ n # next_ino => u[n] = t[n]
<1>1. PICK e, c, q : /\ e = <<[name |-> name, ino |-> next_ino]>> \o t[d].entries
                     /\ c = t[d].nlinks + 1
                     /\ q = [t[d] EXCEPT !.entries = e, !.nlinks = c]
  OBVIOUS
<1>2. t[d] \in InodeType /\ t[d].entries \in Seq(Entry) /\ t[d].nlinks \in Nat
  BY InodeFields
<1>3. e \in Seq(Entry) /\ c \in Nat
  BY <1>1, <1>2 DEF Entry
<1>4. /\ q \in InodeType /\ q.entries = e /\ q.nlinks = c
      /\ q.mode = t[d].mode /\ q.ref_count = t[d].ref_count
      /\ q.data = t[d].data /\ q.size = t[d].size
  <2>1. PICK r : r = t[d]
    OBVIOUS
  <2>2. r \in InodeType /\ q = [r EXCEPT !.entries = e, !.nlinks = c]
    BY <1>1, <1>2, <2>1
  <2>3. /\ q \in InodeType /\ q.entries = e /\ q.nlinks = c
        /\ q.mode = r.mode /\ q.ref_count = r.ref_count
        /\ q.data = r.data /\ q.size = r.size
    BY <1>3, <2>2 DEF InodeType, Entry
  <2> QED BY <2>1, <2>3
<1>5. PICK p : p = NewInode(mode)
  OBVIOUS
<1>6. p \in InodeType
  BY <1>5, NewInodeIs
<1>7. u = [t EXCEPT ![next_ino] = p, ![d] = q]
  BY <1>1, <1>5 DEF ramfs_create
<1>8. /\ u \in [Ino -> InodeType] /\ u[next_ino] = p /\ u[d] = q
      /\ \A n \in Ino : n # d /\ n # next_ino => u[n] = t[n]
  BY <1>4, <1>6, <1>7
<1> QED BY <1>1, <1>4, <1>5, <1>8

LEMMA CreateTree ==
    ASSUME NEW t, NEW a, Tree(t, a, next_ino), next_ino \in Ino, NEW d \in a,
           NEW name \in Names \cup {DOT}, NEW mode \in {"dir", "file"},
           NEW u, u = ramfs_create(t, d, name, mode)
    PROVE  Tree(u, a \cup {next_ino}, next_ino + 1)
<1> DEFINE N == next_ino
           b == a \cup {N}
<1>1. t \in [Ino -> InodeType] /\ a \subseteq Ino /\ ROOT \in a /\ d \in Ino
  BY DEF Tree
<1>2. N \in Nat /\ N \notin a /\ d # N /\ \A n \in a : n \in Nat /\ n < N
  BY <1>1, InoFacts DEF Tree
<1>3. /\ u \in [Ino -> InodeType] /\ u[N] = NewInode(mode)
      /\ u[d].entries = <<[name |-> name, ino |-> N]>> \o t[d].entries
      /\ u[d].nlinks = t[d].nlinks + 1 /\ u[d].ref_count = t[d].ref_count
      /\ \A n \in Ino : n # d /\ n # N => u[n] = t[n]
  <2>1. t \in [Ino -> InodeType] /\ d \in Ino /\ d # next_ino
    BY <1>1, <1>2
  <2> QED BY <2>1, CreateIs, SMTT(30)
<1>4. u[N].nlinks = 1 /\ u[N].ref_count = 1 /\ u[N].entries = <<>>
  BY <1>3, NewInodeIs
<1>5. \A n \in Ino : t[n].entries \in Seq(Entry) /\ u[n].entries \in Seq(Entry) /\ t[n].nlinks \in Nat
  BY <1>1, <1>3, InodeFields
<1>6. /\ Len(u[d].entries) = Len(t[d].entries) + 1 /\ u[d].entries[1].ino = N
      /\ \A k \in 1..Len(t[d].entries) : u[d].entries[k + 1] = t[d].entries[k]
  <2>1. PICK s, e : s = t[d].entries /\ e = [name |-> name, ino |-> N]
    OBVIOUS
  <2>2. s \in Seq(Entry) /\ e \in Entry /\ e.ino = N
    BY <1>1, <1>5, <2>1 DEF Entry
  <2>3. /\ Len(<<e>> \o s) = Len(s) + 1 /\ (<<e>> \o s)[1] = e
        /\ \A k \in 1..Len(s) : (<<e>> \o s)[k + 1] = s[k]
    BY <2>2
  <2> QED BY <1>3, <2>1, <2>2, <2>3
<1> DEFINE Old(x, k) == IF x = d THEN k - 1 ELSE k
<1>7. ASSUME NEW x \in b, NEW k \in DOMAIN u[x].entries
      PROVE  \/ x = d /\ k = 1 /\ u[x].entries[k].ino = N
             \/ /\ x \in a /\ Old(x, k) \in DOMAIN t[x].entries
                /\ u[x].entries[k].ino = t[x].entries[Old(x, k)].ino
  <2>1. CASE x = N
    BY <1>4, <1>7, <2>1
  <2>2. CASE x # N /\ x # d
    BY <1>1, <1>3, <2>2
  <2>3. CASE x = d
    <3>1. k \in 1..(Len(t[d].entries) + 1) /\ Len(t[d].entries) \in Nat
          /\ DOMAIN t[d].entries = 1..Len(t[d].entries)
      BY <1>1, <1>5, <1>6, <2>3
    <3>2. CASE k = 1
      BY <1>6, <2>3, <3>2
    <3>3. CASE k # 1
      <4>1. k - 1 \in 1..Len(t[d].entries) /\ (k - 1) + 1 = k
        BY <3>1, <3>3
      <4>2. u[d].entries[k] = t[d].entries[k - 1]
        BY <1>6, <4>1
      <4> QED BY <2>3, <3>1, <4>1, <4>2
    <3> QED BY <3>2, <3>3
  <2> QED BY <2>1, <2>2, <2>3
<1>8. \A x \in a : \A k \in DOMAIN t[x].entries :
         t[x].entries[k].ino \in a /\ t[x].entries[k].ino > x
  BY DEF Tree, Rooted
<1>9. ASSUME NEW x \in a, NEW k \in DOMAIN t[x].entries
      PROVE  \E j \in DOMAIN u[x].entries : u[x].entries[j].ino = t[x].entries[k].ino
  <2>1. CASE x = d
    <3>1. k \in 1..Len(t[d].entries) /\ k + 1 \in 1..(Len(t[d].entries) + 1)
      BY <1>1, <1>5, <2>1
    <3>2. k + 1 \in DOMAIN u[d].entries /\ u[d].entries[k + 1] = t[d].entries[k]
      BY <1>1, <1>5, <1>6, <3>1
    <3> QED BY <2>1, <3>2
  <2>2. CASE x # d
    BY <1>1, <1>2, <1>3, <2>2
  <2> QED BY <2>1, <2>2
<1> HIDE DEF Old
<1>10. Rooted(u, b)
  <2>1. ASSUME NEW x \in b, NEW k \in DOMAIN u[x].entries
        PROVE  u[x].entries[k].ino \in b /\ u[x].entries[k].ino > x
    BY <1>2, <1>7, <1>8, <2>1
  <2>2. ASSUME NEW x \in b, NEW y \in b, NEW j \in DOMAIN u[x].entries, NEW k \in DOMAIN u[y].entries,
               u[x].entries[j].ino = u[y].entries[k].ino
        PROVE  x = y /\ j = k
    <3>1. CASE u[x].entries[j].ino = N
      <4>1. ~ (\E z \in a : \E i \in DOMAIN t[z].entries : t[z].entries[i].ino = N)
        BY <1>2, <1>8
      <4>2. x = d /\ j = 1
        BY <1>7, <2>2, <3>1, <4>1
      <4>3. y = d /\ k = 1
        BY <1>7, <2>2, <3>1, <4>1, ZenonT(30)
      <4> QED BY <4>2, <4>3
    <3>2. CASE u[x].entries[j].ino # N
      <4>1. /\ x \in a /\ y \in a
            /\ Old(x, j) \in DOMAIN t[x].entries /\ Old(y, k) \in DOMAIN t[y].entries
            /\ t[x].entries[Old(x, j)].ino = t[y].entries[Old(y, k)].ino
        BY <1>7, <2>2, <3>2
      <4>2. x = y /\ Old(x, j) = Old(y, k)
        BY <4>1 DEF Tree, Rooted
      <4>3. j \in Nat /\ k \in Nat
        BY <1>1, <1>5, <4>1
      <4> QED BY <4>2, <4>3 DEF Old
    <3> QED BY <3>1, <3>2
  <2> QED BY <2>1, <2>2 DEF Rooted
<1>11. ASSUME NEW n \in a PROVE Named(u, b, n) <=> Named(t, a, n)
  <2>1. n # N
    BY <1>2
  <2>2. Named(u, b, n) => Named(t, a, n)
    BY <1>7, <2>1 DEF Named
  <2>3. Named(t, a, n) => Named(u, b, n)
    BY <1>9 DEF Named
  <2> QED BY <2>2, <2>3
<1>12. Named(u, b, N)
  <2>1. 1 \in DOMAIN u[d].entries
    BY <1>1, <1>5, <1>6
  <2> QED BY <1>6, <2>1 DEF Named
<1>13. \A n \in b : u[n].nlinks = Links(u, b, n) /\ u[n].ref_count >= 1
  <2>1. u[N].nlinks = Links(u, b, N) /\ u[N].ref_count >= 1
    <3>1. N # ROOT /\ Len(u[N].entries) = 0
      BY <1>1, <1>2, <1>4
    <3> QED BY <1>4, <1>12, <3>1 DEF Links
  <2>2. ASSUME NEW n \in a, n # d PROVE u[n].nlinks = Links(u, b, n) /\ u[n].ref_count >= 1
    <3>1. u[n] = t[n]
      BY <1>1, <1>2, <1>3, <2>2
    <3> QED BY <1>11, <3>1 DEF Tree, Links
  <2>3. u[d].nlinks = Links(u, b, d) /\ u[d].ref_count >= 1
    <3>1. t[d].nlinks = Links(t, a, d) /\ t[d].ref_count >= 1 /\ Len(t[d].entries) \in Nat
      BY <1>1, <1>5 DEF Tree
    <3>2. Links(u, b, d) = Links(t, a, d) + 1
      <4>1. PICK x \in {0, 1} : x = IF Named(t, a, d) THEN 1 ELSE 0
        OBVIOUS
      <4>2. x = IF Named(u, b, d) THEN 1 ELSE 0
        BY <1>11, <4>1
      <4>5. PICK y \in {0, 1} : y = IF d = ROOT THEN 1 ELSE 0
        OBVIOUS
      <4>3. Links(t, a, d) = x + Len(t[d].entries) + y
        BY <4>1, <4>5 DEF Links
      <4>4. Links(u, b, d) = x + (Len(t[d].entries) + 1) + y
        BY <1>6, <4>2, <4>5 DEF Links
      <4> QED BY <3>1, <4>3, <4>4
    <3> QED BY <1>3, <3>1, <3>2
  <2> QED BY <2>1, <2>2, <2>3
<1>14. b \subseteq Ino /\ ROOT \in b /\ \A n \in b : n < N + 1
  BY <1>1, <1>2
<1> QED BY <1>3, <1>10, <1>13, <1>14 DEF Tree

\* A sequence without its k-th element.
LEMMA RemoveAtIs ==
    ASSUME NEW S, NEW s \in Seq(S), NEW k \in DOMAIN s, NEW q, q = RemoveAt(s, k)
    PROVE  /\ q \in Seq(S) /\ Len(q) = Len(s) - 1
           /\ \A j \in 1..Len(q) : q[j] = IF j < k THEN s[j] ELSE s[j + 1]
<1>1. k \in 1..Len(s) /\ Len(s) \in Nat
  OBVIOUS
<1>2. PICK x, y : x = SubSeq(s, 1, k - 1) /\ y = SubSeq(s, k + 1, Len(s))
  OBVIOUS
<1>3. x \in Seq(S) /\ Len(x) = k - 1 /\ \A j \in 1..(k - 1) : x[j] = s[j]
  BY <1>1, <1>2
<1>4. y \in Seq(S) /\ Len(y) = Len(s) - k /\ \A j \in 1..(Len(s) - k) : y[j] = s[k + j]
  BY <1>1, <1>2
<1>5. q = x \o y
  BY <1>2 DEF RemoveAt
<1>6. /\ q \in Seq(S) /\ Len(q) = Len(s) - 1
      /\ \A j \in 1..Len(q) : q[j] = IF j <= Len(x) THEN x[j] ELSE y[j - Len(x)]
  BY <1>1, <1>3, <1>4, <1>5, SMTT(30)
<1>7. ASSUME NEW j \in 1..Len(q) PROVE q[j] = IF j < k THEN s[j] ELSE s[j + 1]
  <2>1. CASE j < k
    BY <1>1, <1>3, <1>6, <2>1
  <2>2. CASE ~ (j < k)
    <3>1. j - Len(x) \in 1..(Len(s) - k) /\ ~ (j <= Len(x)) /\ k + (j - Len(x)) = j + 1
      BY <1>1, <1>3, <1>6, <2>2
    <3> QED BY <1>4, <1>6, <2>2, <3>1
  <2> QED BY <2>1, <2>2
<1> QED BY <1>6, <1>7

LEMMA UnlinkIs ==
    ASSUME NEW t, NEW a, NEW N, Tree(t, a, N), NEW d \in a, NEW name, Matches(t, d, name) # {},
           NEW r, r = ramfs_unlink(t, d, name)
    PROVE  \E k \in DOMAIN t[d].entries :
              /\ r.ino = t[d].entries[k].ino /\ r.ino \in a /\ r.ino > d
              /\ r.tab \in [Ino -> InodeType]
              /\ r.tab[d].entries = RemoveAt(t[d].entries, k)
              /\ r.tab[d].nlinks = t[d].nlinks - 1
              /\ r.tab[r.ino].entries = t[r.ino].entries
              /\ r.tab[r.ino].nlinks = t[r.ino].nlinks - 1
              /\ \A n \in Ino : /\ r.tab[n].ref_count = t[n].ref_count
                                /\ r.tab[n].data = t[n].data /\ r.tab[n].size = t[n].size
                                /\ n # d /\ n # r.ino => r.tab[n] = t[n]
<1>1. t \in [Ino -> InodeType] /\ a \subseteq Ino /\ d \in Ino
  BY DEF Tree
<1>2. PICK k : k = Min(Matches(t, d, name))
  OBVIOUS
<1>3. k \in DOMAIN t[d].entries
  BY <1>1, <1>2, MatchIs
<1>4. PICK n : n = t[d].entries[k].ino
  OBVIOUS
<1>5. n \in a /\ n \in Ino /\ n > d /\ n \in Nat /\ d \in Nat /\ Named(t, a, n)
  BY <1>1, <1>3, <1>4, InoFacts DEF Tree, Rooted, Named
<1>6. n # d
  BY <1>5
<1>7. /\ t[d] \in InodeType /\ t[n] \in InodeType
      /\ t[d].entries \in Seq(Entry) /\ t[n].entries \in Seq(Entry)
      /\ t[d].nlinks \in Nat /\ t[n].nlinks \in Nat
      /\ Len(t[d].entries) \in Nat \ {0} /\ Len(t[n].entries) \in Nat
  BY <1>1, <1>3, <1>5, InodeFields
<1>8. t[d].nlinks - 1 \in Nat /\ t[n].nlinks - 1 \in Nat
  <2>1. t[d].nlinks = Links(t, a, d) /\ t[n].nlinks = Links(t, a, n)
    BY <1>5 DEF Tree
  <2>2. PICK x \in {0, 1} : x = IF Named(t, a, d) THEN 1 ELSE 0
    OBVIOUS
  <2>3. PICK y \in {0, 1} : y = IF d = ROOT THEN 1 ELSE 0
    OBVIOUS
  <2>4. PICK z \in {0, 1} : z = IF n = ROOT THEN 1 ELSE 0
    OBVIOUS
  <2>5. Links(t, a, d) = x + Len(t[d].entries) + y /\ Links(t, a, n) = 1 + Len(t[n].entries) + z
    BY <1>5, <2>2, <2>3, <2>4 DEF Links
  <2> QED BY <1>7, <2>1, <2>5
<1>9. PICK e, c, p, q : /\ e = RemoveAt(t[d].entries, k) /\ c = t[d].nlinks - 1
                        /\ p = [t[d] EXCEPT !.entries = e, !.nlinks = c]
                        /\ q = [t[n] EXCEPT !.nlinks = t[n].nlinks - 1]
  OBVIOUS
<1>10. e \in Seq(Entry) /\ c \in Nat
  BY <1>3, <1>7, <1>8, <1>9, RemoveAtIs
<1>11. /\ p \in InodeType /\ p.entries = e /\ p.nlinks = c
       /\ p.ref_count = t[d].ref_count /\ p.data = t[d].data /\ p.size = t[d].size
  <2>1. PICK s : s = t[d]
    OBVIOUS
  <2>2. s \in InodeType /\ p = [s EXCEPT !.entries = e, !.nlinks = c]
    BY <1>7, <1>9, <2>1
  <2>3. /\ p \in InodeType /\ p.entries = e /\ p.nlinks = c
        /\ p.ref_count = s.ref_count /\ p.data = s.data /\ p.size = s.size
    BY <1>10, <2>2 DEF InodeType, Entry
  <2> QED BY <2>1, <2>3
<1>12. /\ q \in InodeType /\ q.entries = t[n].entries /\ q.nlinks = t[n].nlinks - 1
       /\ q.ref_count = t[n].ref_count /\ q.data = t[n].data /\ q.size = t[n].size
  <2>1. PICK s, l : s = t[n] /\ l = t[n].nlinks - 1
    OBVIOUS
  <2>2. s \in InodeType /\ l \in Nat /\ q = [s EXCEPT !.nlinks = l]
    BY <1>7, <1>8, <1>9, <2>1
  <2>3. /\ q \in InodeType /\ q.entries = s.entries /\ q.nlinks = l
        /\ q.ref_count = s.ref_count /\ q.data = s.data /\ q.size = s.size
    BY <2>2 DEF InodeType
  <2> QED BY <2>1, <2>3
<1>13. r = [tab |-> [t EXCEPT ![n] = q, ![d] = p], ino |-> n]
  <2>1. r = [tab |-> [t EXCEPT ![d].entries = RemoveAt(@, k), ![n].nlinks = @ - 1, ![d].nlinks = @ - 1],
             ino |-> n]
    BY <1>2, <1>4 DEF ramfs_unlink
  <2>2. [t EXCEPT ![d].entries = RemoveAt(@, k), ![n].nlinks = @ - 1, ![d].nlinks = @ - 1]
          = [t EXCEPT ![n] = q, ![d] = p]
    BY <1>1, <1>5, <1>6, <1>7, <1>9
  <2> QED BY <2>1, <2>2
<1>14. /\ r.ino = n /\ r.tab \in [Ino -> InodeType] /\ r.tab[d] = p /\ r.tab[n] = q
       /\ \A m \in Ino : m # d /\ m # n => r.tab[m] = t[m]
  BY <1>1, <1>5, <1>6, <1>11, <1>12, <1>13
<1>15. ASSUME NEW m \in Ino
       PROVE  /\ r.tab[m].ref_count = t[m].ref_count
              /\ r.tab[m].data = t[m].data /\ r.tab[m].size = t[m].size
              /\ m # d /\ m # r.ino => r.tab[m] = t[m]
  BY <1>11, <1>12, <1>14
<1> QED BY <1>3, <1>4, <1>5, <1>9, <1>11, <1>12, <1>14, <1>15

\* Removing a name, and freeing the inode if it was the last use of it.
LEMMA UnlinkTree ==
    ASSUME NEW t, NEW a, NEW N, Tree(t, a, N), NEW d \in a, NEW name, Matches(t, d, name) # {},
           NEW r, r = ramfs_unlink(t, d, name),
           NEW b, b = IF Reclaimable(r.tab, r.ino) THEN a \ {r.ino} ELSE a
    PROVE  /\ r.tab \in [Ino -> InodeType] /\ SameData(t, r.tab)
           /\ Tree(r.tab, b, N)
           /\ \A m \in Ino : Kept(t, a, m) => Kept(r.tab, b, m)
<1> DEFINE u == r.tab
           n == r.ino
<1>1. PICK k \in DOMAIN t[d].entries :
              /\ n = t[d].entries[k].ino /\ n \in a /\ n > d
              /\ u \in [Ino -> InodeType]
              /\ u[d].entries = RemoveAt(t[d].entries, k)
              /\ u[d].nlinks = t[d].nlinks - 1
              /\ u[n].entries = t[n].entries
              /\ u[n].nlinks = t[n].nlinks - 1
              /\ \A m \in Ino : /\ u[m].ref_count = t[m].ref_count
                                /\ u[m].data = t[m].data /\ u[m].size = t[m].size
                                /\ m # d /\ m # n => u[m] = t[m]
  BY UnlinkIs
<1> HIDE DEF u, n
<1>2. /\ t \in [Ino -> InodeType] /\ a \subseteq Ino /\ ROOT \in a /\ d \in Ino /\ n \in Ino
      /\ n \in Nat /\ d \in Nat \ {0} /\ n # d /\ n # ROOT /\ ROOT = 1
  BY <1>1, InoFacts DEF Tree, ROOT
<1>3. \A m \in Ino : /\ t[m].entries \in Seq(Entry) /\ u[m].entries \in Seq(Entry)
                     /\ t[m].nlinks \in Nat /\ u[m].nlinks \in Nat
  BY <1>1, <1>2, InodeFields
<1>4. /\ Len(u[d].entries) = Len(t[d].entries) - 1
      /\ \A j \in 1..Len(u[d].entries) :
            u[d].entries[j] = IF j < k THEN t[d].entries[j] ELSE t[d].entries[j + 1]
  <2>1. PICK s, q : s = t[d].entries /\ q = u[d].entries
    OBVIOUS
  <2>2. s \in Seq(Entry) /\ k \in DOMAIN s /\ q = RemoveAt(s, k)
    BY <1>1, <1>2, <1>3, <2>1
  <2>3. Len(q) = Len(s) - 1 /\ \A j \in 1..Len(q) : q[j] = IF j < k THEN s[j] ELSE s[j + 1]
    BY <2>2, RemoveAtIs
  <2> QED BY <2>1, <2>3
<1>5. \A x \in a \ {d} : u[x].entries = t[x].entries
  BY <1>1, <1>2
<1> DEFINE Old(x, j) == IF x = d /\ j >= k THEN j + 1 ELSE j
<1>6. k \in 1..Len(t[d].entries) /\ Len(t[d].entries) \in Nat
  BY <1>2, <1>3
<1>7. ASSUME NEW x \in a, NEW j \in DOMAIN u[x].entries
      PROVE  /\ Old(x, j) \in DOMAIN t[x].entries /\ j \in Nat /\ (x = d => Old(x, j) # k)
             /\ u[x].entries[j] = t[x].entries[Old(x, j)]
  <2>1. j \in 1..Len(u[x].entries) /\ j \in Nat
    BY <1>2, <1>3
  <2>2. CASE x # d
    BY <1>5, <2>1, <2>2
  <2>3. CASE x = d
    BY <1>2, <1>3, <1>4, <1>6, <2>1, <2>3, SMTT(30)
  <2> QED BY <2>2, <2>3
<1>8. ASSUME NEW x \in a, NEW i \in DOMAIN t[x].entries, x # d \/ i # k
      PROVE  \E j \in DOMAIN u[x].entries : u[x].entries[j] = t[x].entries[i]
  <2>1. CASE x # d
    BY <1>5, <2>1
  <2>2. CASE x = d
    <3>1. i \in 1..Len(t[d].entries) /\ i # k /\ DOMAIN u[d].entries = 1..(Len(t[d].entries) - 1)
      BY <1>2, <1>3, <1>4, <1>8, <2>2
    <3>2. CASE i < k
      <4>1. i \in 1..(Len(t[d].entries) - 1)
        BY <1>6, <3>1, <3>2
      <4> QED BY <1>4, <2>2, <3>1, <3>2, <4>1
    <3>3. CASE ~ (i < k)
      <4>1. i - 1 \in 1..(Len(t[d].entries) - 1) /\ ~ (i - 1 < k) /\ (i - 1) + 1 = i
        BY <1>6, <3>1, <3>3
      <4>2. u[d].entries[i - 1] = t[d].entries[i]
        BY <1>4, <4>1
      <4> QED BY <2>2, <3>1, <4>1, <4>2
    <3> QED BY <3>2, <3>3
  <2> QED BY <2>1, <2>2
<1>9. \A x, y \in a : \A i \in DOMAIN t[x].entries, j \in DOMAIN t[y].entries :
          t[x].entries[i].ino = t[y].entries[j].ino => x = y /\ i = j
  BY DEF Tree, Rooted
<1>10. \A x \in a : \A i \in DOMAIN t[x].entries : t[x].entries[i].ino \in a /\ t[x].entries[i].ino > x
  BY DEF Tree, Rooted
<1>11. ~ Named(u, a, n)
  <2> SUFFICES ASSUME NEW x \in a, NEW j \in DOMAIN u[x].entries, u[x].entries[j].ino = n PROVE FALSE
    BY DEF Named
  <2>1. Old(x, j) \in DOMAIN t[x].entries /\ t[x].entries[Old(x, j)].ino = n /\ (x = d => Old(x, j) # k)
    BY <1>7
  <2> HIDE DEF Old
  <2> QED BY <1>1, <1>9, <2>1
<1>12. Rooted(u, a)
  <2>1. ASSUME NEW x \in a, NEW j \in DOMAIN u[x].entries
        PROVE  u[x].entries[j].ino \in a /\ u[x].entries[j].ino > x
    <3>1. Old(x, j) \in DOMAIN t[x].entries /\ u[x].entries[j] = t[x].entries[Old(x, j)]
      BY <1>7
    <3> HIDE DEF Old
    <3> QED BY <1>10, <3>1
  <2>2. ASSUME NEW x \in a, NEW y \in a, NEW i \in DOMAIN u[x].entries, NEW j \in DOMAIN u[y].entries,
               u[x].entries[i].ino = u[y].entries[j].ino
        PROVE  x = y /\ i = j
    <3>1. /\ Old(x, i) \in DOMAIN t[x].entries /\ u[x].entries[i] = t[x].entries[Old(x, i)]
          /\ Old(y, j) \in DOMAIN t[y].entries /\ u[y].entries[j] = t[y].entries[Old(y, j)]
          /\ i \in Nat /\ j \in Nat
      BY <1>7
    <3> HIDE DEF Old
    <3>2. x = y /\ Old(x, i) = Old(y, j)
      BY <1>9, <2>2, <3>1
    <3> QED BY <1>6, <3>1, <3>2 DEF Old
  <2> QED BY <2>1, <2>2 DEF Rooted
<1>13. ASSUME NEW m \in a, m # n PROVE Named(u, a, m) <=> Named(t, a, m)
  <2>1. ASSUME Named(u, a, m) PROVE Named(t, a, m)
    <3>1. PICK x \in a : \E j \in DOMAIN u[x].entries : u[x].entries[j].ino = m
      BY <2>1 DEF Named
    <3>2. PICK j \in DOMAIN u[x].entries : u[x].entries[j].ino = m
      BY <3>1
    <3>3. Old(x, j) \in DOMAIN t[x].entries /\ t[x].entries[Old(x, j)].ino = m
      BY <1>7, <3>2
    <3> HIDE DEF Old
    <3> QED BY <3>3 DEF Named
  <2>2. ASSUME Named(t, a, m) PROVE Named(u, a, m)
    <3>1. PICK x \in a : \E j \in DOMAIN t[x].entries : t[x].entries[j].ino = m
      BY <2>2 DEF Named
    <3>2. PICK i \in DOMAIN t[x].entries : t[x].entries[i].ino = m
      BY <3>1
    <3>3. x # d \/ i # k
      BY <1>1, <1>13, <3>2
    <3>4. PICK j \in DOMAIN u[x].entries : u[x].entries[j] = t[x].entries[i]
      BY <1>8, <3>3
    <3> QED BY <3>2, <3>4 DEF Named
  <2> QED BY <2>1, <2>2
<1>14. \A m \in a : u[m].nlinks = Links(u, a, m) /\ u[m].ref_count >= 1
  <2>1. ASSUME NEW m \in a PROVE u[m].ref_count >= 1 /\ t[m].nlinks = Links(t, a, m)
    BY <1>1, <1>2 DEF Tree
  <2>2. ASSUME NEW m \in a, m # n, m # d PROVE u[m].nlinks = Links(u, a, m)
    <3>1. u[m] = t[m]
      BY <1>1, <1>2, <2>2
    <3> QED BY <1>13, <2>1, <2>2, <3>1 DEF Links
  <2>3. u[n].nlinks = Links(u, a, n)
    <3>1. Named(t, a, n)
      BY <1>1 DEF Named
    <3>2. Links(t, a, n) = 1 + Len(t[n].entries) + 0 /\ Links(u, a, n) = 0 + Len(t[n].entries) + 0
      BY <1>1, <1>2, <1>11, <3>1 DEF Links
    <3>3. t[n].nlinks = Links(t, a, n) /\ Len(t[n].entries) \in Nat
      <4>1. n \in a /\ n \in Ino
        BY <1>1, <1>2
      <4>2. t[n].entries \in Seq(Entry)
        BY <1>3, <4>1
      <4>3. t[n].nlinks = Links(t, a, n)
        BY <2>1, <4>1
      <4> QED BY <4>2, <4>3
    <3> QED BY <1>1, <3>2, <3>3
  <2>4. u[d].nlinks = Links(u, a, d)
    <3>1. PICK x \in {0, 1} : x = IF Named(t, a, d) THEN 1 ELSE 0
      OBVIOUS
    <3>2. x = IF Named(u, a, d) THEN 1 ELSE 0
      BY <1>2, <1>13, <3>1
    <3>3. PICK y \in {0, 1} : y = IF d = ROOT THEN 1 ELSE 0
      OBVIOUS
    <3>4. Links(t, a, d) = x + Len(t[d].entries) + y
      BY <3>1, <3>3 DEF Links
    <3>5. Links(u, a, d) = x + (Len(t[d].entries) - 1) + y
      BY <1>4, <3>2, <3>3 DEF Links
    <3>6. t[d].nlinks = Links(t, a, d)
      BY <2>1
    <3>7. u[d].nlinks = t[d].nlinks - 1 /\ Len(t[d].entries) \in Nat
      BY <1>1, <1>6
    <3>8. PICK c, l : c = t[d].nlinks /\ l = Len(t[d].entries)
      OBVIOUS
    <3>9. c = x + l + y /\ u[d].nlinks = c - 1 /\ Links(u, a, d) = x + (l - 1) + y /\ l \in Nat
      BY <3>4, <3>5, <3>6, <3>7, <3>8
    <3> QED BY <3>9
  <2> QED BY <2>1, <2>2, <2>3, <2>4
<1>15. u \in [Ino -> InodeType] /\ SameData(t, u)
  BY <1>1 DEF SameData
<1>16. Tree(u, a, N)
  BY <1>2, <1>12, <1>14, <1>15 DEF Tree
<1>17. Tree(u, b, N)
  <2>1. CASE ~ Reclaimable(u, n)
    BY <1>16, <2>1 DEF u, n
  <2>2. CASE Reclaimable(u, n)
    <3>1. b = a \ {n} /\ u[n].nlinks = 0
      BY <2>2 DEF u, n, Reclaimable
    <3>2. Len(u[n].entries) = 0
      <4>1. Links(u, a, n) = 0 + Len(u[n].entries) + 0 /\ Len(u[n].entries) \in Nat
        BY <1>2, <1>3, <1>11 DEF Links
      <4> QED BY <1>1, <1>14, <3>1, <4>1
    <3>3. DOMAIN u[n].entries = {}
      BY <1>2, <1>3, <3>2
    <3>4. \A m : Named(u, b, m) <=> Named(u, a, m)
      BY <3>1, <3>3 DEF Named
    <3>5. Rooted(u, b)
      <4>1. ASSUME NEW x \in b, NEW j \in DOMAIN u[x].entries
            PROVE  u[x].entries[j].ino \in b /\ u[x].entries[j].ino > x
        BY <1>11, <1>12, <3>1 DEF Rooted, Named
      <4> QED BY <1>12, <3>1, <4>1 DEF Rooted
    <3>6. \A m \in b : u[m].nlinks = Links(u, b, m) /\ u[m].ref_count >= 1
      BY <1>14, <3>1, <3>4 DEF Links
    <3> QED BY <1>2, <1>15, <1>16, <3>1, <3>5, <3>6 DEF Tree
  <2> QED BY <2>1, <2>2
<1>18. ASSUME NEW m \in Ino, Kept(t, a, m) PROVE Kept(u, b, m)
  <2>1. m \in a /\ (m = ROOT \/ u[m].ref_count >= 2)
    BY <1>1, <1>18 DEF Kept
  <2>2. m = n /\ Reclaimable(u, n) => FALSE
    <3>1. u[m].ref_count \in Nat
      BY <1>15, RefNat
    <3> QED BY <1>2, <2>1, <3>1 DEF Reclaimable
  <2>3. m \in b
    BY <2>1, <2>2 DEF u, n
  <2> QED BY <2>1, <2>3 DEF Kept
<1> QED BY <1>15, <1>17, <1>18 DEF u

----------------------------------------------------------------------------
\* Contents of files.

WithData(t, n, D, z) == [t EXCEPT ![n].data = D, ![n].size = z]

LEMMA SetData ==
    ASSUME NEW t \in [Ino -> InodeType], NEW n \in Ino, NEW D \in Seq(Bytes), NEW z \in Nat,
           NEW u, u = WithData(t, n, D, z)
    PROVE  /\ u \in [Ino -> InodeType] /\ SameTree(t, u)
           /\ u[n].data = D /\ u[n].size = z
           /\ \A m \in Ino : m # n => u[m] = t[m]
<1>1. PICK s : s = t[n]
  OBVIOUS
<1>2. PICK q : q = [s EXCEPT !.data = D, !.size = z]
  OBVIOUS
<1>3. s \in InodeType
  BY <1>1
<1>4. /\ q \in InodeType /\ q.data = D /\ q.size = z
      /\ q.mode = s.mode /\ q.nlinks = s.nlinks /\ q.entries = s.entries /\ q.ref_count = s.ref_count
  BY <1>2, <1>3 DEF InodeType
<1>5. u = [t EXCEPT ![n] = q]
  BY <1>1, <1>2 DEF WithData
<1>6. u \in [Ino -> InodeType] /\ u[n] = q /\ \A m \in Ino : m # n => u[m] = t[m]
  BY <1>4, <1>5
<1>7. \A m \in Ino : t[m].ref_count \in Nat
  BY RefNat
<1>8. SameTree(t, u)
  BY <1>1, <1>4, <1>6, <1>7 DEF SameTree
<1> QED BY <1>4, <1>6, <1>8

LEMMA TruncateIs ==
    ASSUME NEW t \in [Ino -> InodeType], NEW n \in Ino, NEW u, u = ramfs_truncate(t, n)
    PROVE  /\ u \in [Ino -> InodeType] /\ SameTree(t, u)
           /\ u[n].data = <<>> /\ u[n].size = 0
           /\ \A m \in Ino : m # n => u[m] = t[m]
<1>1. PICK D, z : D = <<>> /\ z = 0
  OBVIOUS
<1>2. D \in Seq(Bytes) /\ z \in Nat
  BY <1>1
<1>3. u = WithData(t, n, D, z)
  BY <1>1 DEF ramfs_truncate, WithData
<1>4. /\ u \in [Ino -> InodeType] /\ SameTree(t, u) /\ u[n].data = D /\ u[n].size = z
      /\ \A m \in Ino : m # n => u[m] = t[m]
  BY <1>2, <1>3, SetData
<1> QED BY <1>1, <1>4

\* The buffer after it has grown: the old contents, then zeroes.
LEMMA GrownIs ==
    ASSUME NEW data \in Seq(Bytes), NEW new_end \in Nat, NEW buf, buf = Grown(data, new_end)
    PROVE  /\ buf \in Seq(Bytes) /\ Len(buf) >= Len(data) /\ Len(buf) >= new_end
           /\ \A k \in 1..Len(buf) : buf[k] = IF k <= Len(data) THEN data[k] ELSE 0
<1>1. CASE new_end <= Len(data)
  <2>1. buf = data
    BY <1>1 DEF Grown
  <2> QED BY <1>1, <2>1
<1>2. CASE ~ (new_end <= Len(data))
  <2>1. PICK c : c = IF new_end < MinCap THEN MinCap ELSE 2 * new_end
    OBVIOUS
  <2>2. c \in Nat /\ c >= new_end /\ Len(data) \in Nat /\ c >= Len(data)
    BY <1>2, <2>1, RamfsAssumption
  <2>3. buf = [k \in 1..c |-> IF k <= Len(data) THEN data[k] ELSE 0]
    BY <1>2, <2>1 DEF Grown
  <2>4. \A k \in 1..c : (IF k <= Len(data) THEN data[k] ELSE 0) \in Bytes
    BY <2>2, RamfsAssumption
  <2>5. buf \in [1..c -> Bytes]
    BY <2>3, <2>4
  <2>6. buf \in Seq(Bytes) /\ Len(buf) = c
    BY <2>2, <2>5
  <2> QED BY <2>2, <2>3, <2>6
<1> QED BY <1>1, <1>2

\* A write leaves in the buffer what it means to.
LEMMA WriteIs ==
    ASSUME NEW t \in [Ino -> InodeType], NEW n \in Ino, NEW pos \in Nat, NEW bytes \in Seq(Bytes),
           NEW w \in Seq(Bytes), Holds(t[n].data, t[n].size, w),
           NEW u, u = ramfs_file_write(t, n, pos, bytes), NEW w2, w2 = Overlay(w, pos, bytes)
    PROVE  /\ u \in [Ino -> InodeType] /\ SameTree(t, u)
           /\ \A m \in Ino : m # n => u[m] = t[m]
           /\ w2 \in Seq(Bytes) /\ Holds(u[n].data, u[n].size, w2)
<1>1. PICK data, size, end : data = t[n].data /\ size = t[n].size /\ end = pos + Len(bytes)
  OBVIOUS
<1>2. data \in Seq(Bytes) /\ size \in Nat /\ end \in Nat /\ Len(w) \in Nat /\ Len(data) \in Nat
      /\ size = Len(w) /\ size <= Len(data)
  BY <1>1, InodeFields DEF Holds
<1>3. \A k \in 1..Len(data) : data[k] = IF k <= size THEN w[k] ELSE 0
  BY <1>1 DEF Holds
<1>4. PICK buf : buf = Grown(data, end)
  OBVIOUS
<1>5. /\ buf \in Seq(Bytes) /\ Len(buf) >= Len(data) /\ Len(buf) >= end /\ Len(buf) \in Nat
      /\ \A k \in 1..Len(buf) : buf[k] = IF k <= Len(data) THEN data[k] ELSE 0
  BY <1>2, <1>4, GrownIs
<1>6. PICK D, z : /\ D = [k \in 1..Len(buf) |-> IF k > pos /\ k <= end THEN bytes[k - pos] ELSE buf[k]]
                  /\ z = IF end > size THEN end ELSE size
  OBVIOUS
<1>7. \A k \in Nat : k > pos /\ k <= end => bytes[k - pos] \in Bytes
  BY <1>1
<1>8. D \in Seq(Bytes) /\ Len(D) = Len(buf) /\ z \in Nat
  <2>1. D \in [1..Len(buf) -> Bytes]
    BY <1>5, <1>6, <1>7
  <2>2. D \in Seq(Bytes) /\ Len(D) = Len(buf)
    BY <1>5, <2>1
  <2>3. z \in Nat
    BY <1>2, <1>6
  <2> QED BY <2>2, <2>3
<1>9. u = WithData(t, n, D, z)
  <2>1. DOMAIN buf = 1..Len(buf)
    BY <1>5
  <2> QED BY <1>1, <1>4, <1>6, <2>1 DEF ramfs_file_write, WithData
<1>10. Max({Len(w), end}) = z
  <2>1. z \in {Len(w), end} /\ \A y \in {Len(w), end} : z >= y
    BY <1>2, <1>6
  <2>2. \A x \in {Len(w), end} : (\A y \in {Len(w), end} : x >= y) => x = z
    BY <1>2, <1>6
  <2> QED BY <2>1, <2>2 DEF Max
<1>11. w2 = [k \in 1..z |-> IF k > pos /\ k <= end THEN bytes[k - pos]
                            ELSE IF k <= Len(w) THEN w[k] ELSE 0]
  BY <1>1, <1>10 DEF Overlay
<1>12. w2 \in Seq(Bytes) /\ Len(w2) = z
  <2>1. w2 \in [1..z -> Bytes]
    <3>1. \A k \in 1..z : (IF k > pos /\ k <= end THEN bytes[k - pos]
                            ELSE IF k <= Len(w) THEN w[k] ELSE 0) \in Bytes
      <4> SUFFICES ASSUME NEW k \in 1..z
                   PROVE  (IF k > pos /\ k <= end THEN bytes[k - pos]
                           ELSE IF k <= Len(w) THEN w[k] ELSE 0) \in Bytes
        OBVIOUS
      <4>1. k \in Nat /\ k >= 1
        BY <1>8
      <4>2. CASE k > pos /\ k <= end
        BY <1>7, <4>1, <4>2
      <4>3. k <= Len(w) => w[k] \in Bytes
        BY <1>2, <4>1
      <4> QED BY <4>2, <4>3, RamfsAssumption
    <3> QED BY <1>11, <3>1
  <2> QED BY <1>8, <2>1
<1>13. Holds(D, z, w2)
  <2>1. z <= Len(D)
    BY <1>2, <1>5, <1>6, <1>8
  <2>2. ASSUME NEW k \in 1..Len(D) PROVE D[k] = IF k <= z THEN w2[k] ELSE 0
    <3>1. CASE k > pos /\ k <= end
      <4>1. k <= z /\ k \in 1..z
        BY <1>2, <1>6, <1>8, <3>1
      <4> QED BY <1>6, <1>8, <1>11, <3>1, <4>1
    <3>2. CASE ~ (k > pos /\ k <= end)
      <4>1. D[k] = buf[k] /\ k \in 1..Len(buf)
        BY <1>6, <1>8, <3>2
      <4>2. buf[k] = IF k <= size THEN w[k] ELSE 0
        BY <1>2, <1>3, <1>5, <4>1
      <4>3. CASE k <= z
        <5>1. w2[k] = IF k <= Len(w) THEN w[k] ELSE 0
          BY <1>8, <1>11, <3>2, <4>3
        <5> QED BY <1>2, <4>1, <4>2, <4>3, <5>1
      <4>4. CASE ~ (k <= z)
        <5>1. ~ (k <= size)
          BY <1>2, <1>6, <4>4
        <5> QED BY <4>1, <4>2, <4>4, <5>1
      <4> QED BY <4>3, <4>4
    <3> QED BY <3>1, <3>2
  <2> QED BY <1>12, <2>1, <2>2 DEF Holds
<1>14. /\ u \in [Ino -> InodeType] /\ SameTree(t, u) /\ u[n].data = D /\ u[n].size = z
       /\ \A m \in Ino : m # n => u[m] = t[m]
  BY <1>8, <1>9, SetData
<1> QED BY <1>12, <1>13, <1>14

----------------------------------------------------------------------------
\* How the parts of a call change the state.

LEMMA FileFields ==
    ASSUME NEW f \in FileType
    PROVE  /\ f.ino \in Ino \cup {NULL} /\ f.pos \in Int /\ f.created \in BOOLEAN
           /\ f.todo \subseteq Entry
BY DEF FileType, Entry

\* Only references, data and the next number change.
LEMMA SoundKept ==
    ASSUME NEW t, NEW u, NEW a, NEW N \in Nat, NEW M \in Nat, N <= M, SameTree(t, u),
           \A n \in Ino : Kept(t, a, n) => Kept(u, a, n),
           NEW f \in FileType, Sound(f, t, a, N)
    PROVE  Sound(f, u, a, M)
<1> SUFFICES ASSUME f.ino # NULL
             PROVE  /\ f.ino < M /\ (~f.created => Kept(u, a, f.ino))
                    /\ Ahead(f.todo, f.pos, u[f.ino].entries)
  BY DEF Sound
<1>1. f.ino \in Ino /\ f.ino \in Nat
  BY FileFields, InoFacts
<1>2. u[f.ino].entries = t[f.ino].entries
  BY <1>1 DEF SameTree
<1>3. f.ino < M
  BY <1>1 DEF Sound
<1>4. ~f.created => Kept(u, a, f.ino)
  BY <1>1 DEF Sound
<1>5. Ahead(f.todo, f.pos, t[f.ino].entries)
  BY DEF Sound
<1> QED BY <1>2, <1>3, <1>4, <1>5

LEMMA StateFacts ==
    ASSUME NEW t, NEW a, NEW N, NEW tab, NEW w, State(t, a, N, tab, w)
    PROVE  /\ t \in [Ino -> InodeType] /\ N \in Nat /\ N >= 2 /\ (N <= MaxInodes => N \in Ino)
           /\ a \subseteq Ino /\ Tree(t, a, N)
BY RamfsAssumption DEF State, Tree, Ino

LEMMA StateWalk ==
    ASSUME NEW t, NEW a, NEW N, NEW tab, NEW w, State(t, a, N, tab, w), NEW r, Place(t, a, N, r)
    PROVE  State(r.tab, a, N, tab, w)
<1>1. r.tab \in [Ino -> InodeType] /\ SameTree(t, r.tab) /\ SameData(t, r.tab)
  BY DEF Place
<1>2. Tree(r.tab, a, N) /\ \A n \in Ino : Kept(t, a, n) => Kept(r.tab, a, n)
  BY <1>1, SameTreeKept, StateFacts
<1>3. N \in Nat /\ N <= N /\ tab \in [FD -> FileType]
  BY StateFacts DEF State
<1>4. \A fd \in FD : Sound(tab[fd], r.tab, a, N)
  BY <1>1, <1>2, <1>3, SoundKept DEF State
<1>5. Stored(r.tab, N, w)
  BY <1>1 DEF State, Stored, SameData
<1> QED BY <1>2, <1>4, <1>5 DEF State

LEMMA StateCount ==
    ASSUME NEW t, NEW a, NEW N, NEW tab, NEW w, State(t, a, N, tab, w), N <= MaxInodes
    PROVE  State(t, a, N + 1, tab, w)
<1>1. /\ N \in Nat /\ N + 1 \in Nat /\ N <= N + 1 /\ N + 1 \in 2..(MaxInodes + 1)
      /\ t \in [Ino -> InodeType] /\ a \subseteq Ino
  BY StateFacts, RamfsAssumption
<1>2. SameTree(t, t)
  <2>1. \A n \in Ino : t[n].ref_count \in Nat
    BY <1>1, RefNat
  <2> QED BY <2>1 DEF SameTree
<1>3. Tree(t, a, N + 1)
  <2>1. \A n \in a : n \in Nat /\ n < N
    BY <1>1, InoFacts DEF State, Tree
  <2>2. \A n \in a : n < N + 1
    BY <1>1, <2>1
  <2> QED BY <2>2 DEF State, Tree
<1>4. \A fd \in FD : Sound(tab[fd], t, a, N + 1)
  BY <1>1, <1>2, SoundKept DEF State
<1>5. Stored(t, N + 1, w)
  BY <1>1, InoFacts DEF State, Stored
<1> QED BY <1>1, <1>3, <1>4, <1>5 DEF State

LEMMA StateCreate ==
    ASSUME NEW t, NEW a, NEW tab, NEW w, State(t, a, next_ino, tab, w), next_ino <= MaxInodes,
           NEW d \in a, NEW name \in Names \cup {DOT}, NEW mode \in {"dir", "file"},
           NEW u, u = ramfs_create(t, d, name, mode)
    PROVE  State(u, a \cup {next_ino}, next_ino + 1, tab, w)
<1> DEFINE N == next_ino
           b == a \cup {N}
<1>1. /\ t \in [Ino -> InodeType] /\ N \in Nat /\ N \in Ino /\ a \subseteq Ino /\ d \in Ino
      /\ Tree(t, a, N) /\ N + 1 \in 2..(MaxInodes + 1)
  BY StateFacts, RamfsAssumption
<1>2. N \notin a /\ d # N
  BY <1>1 DEF Tree
<1>3. /\ u \in [Ino -> InodeType] /\ u[N] = NewInode(mode)
      /\ u[d].entries = <<[name |-> name, ino |-> N]>> \o t[d].entries
      /\ u[d].ref_count = t[d].ref_count /\ u[d].data = t[d].data /\ u[d].size = t[d].size
      /\ \A n \in Ino : n # d /\ n # N => u[n] = t[n]
  <2>1. t \in [Ino -> InodeType] /\ d \in Ino /\ next_ino \in Ino /\ d # next_ino
    BY <1>1, <1>2
  <2> QED BY <2>1, CreateIs
<1>4. Tree(u, b, N + 1)
  BY <1>1, CreateTree
<1>5. \A n \in Ino : Kept(t, a, n) => Kept(u, b, n)
  BY <1>2, <1>3 DEF Kept
<1>6. ASSUME NEW fd \in FD PROVE Sound(tab[fd], u, b, N + 1)
  <2>1. PICK f : f = tab[fd]
    OBVIOUS
  <2>2. f \in FileType /\ Sound(f, t, a, N)
    BY <2>1 DEF State
  <2>3. CASE f.ino = NULL
    BY <2>1, <2>3 DEF Sound
  <2>4. CASE f.ino # NULL
    <3>1. /\ f.ino \in Ino /\ f.ino \in Nat /\ f.ino < N
          /\ (~f.created => Kept(t, a, f.ino))
          /\ Ahead(f.todo, f.pos, t[f.ino].entries)
      BY <2>2, <2>4, FileFields, InoFacts DEF Sound
    <3>2. f.ino # N /\ f.ino < N + 1
      BY <1>1, <3>1
    <3>3. Ahead(f.todo, f.pos, u[f.ino].entries)
      <4>1. CASE f.ino # d
        <5>1. u[f.ino] = t[f.ino]
          BY <1>3, <3>1, <3>2, <4>1
        <5> QED BY <3>1, <5>1
      <4>3. CASE f.todo = {}
        BY <4>3 DEF Ahead
      <4>2. CASE f.ino = d /\ f.todo # {}
        <5>0. /\ f.pos \in Nat
              /\ f.todo \subseteq {t[f.ino].entries[k] : k \in (f.pos + 1)..Len(t[f.ino].entries)}
          BY <3>1, <4>2 DEF Ahead
        <5>1. PICK s, e : s = t[d].entries /\ e = [name |-> name, ino |-> N]
          OBVIOUS
        <5>2. s \in Seq(Entry) /\ e \in Entry
          BY <1>1, <5>1, InodeFields DEF Entry
        <5>3. /\ Len(<<e>> \o s) = Len(s) + 1 /\ Len(s) \in Nat
              /\ \A k \in 1..Len(s) : (<<e>> \o s)[k + 1] = s[k]
          BY <5>2
        <5>4. ASSUME NEW x \in f.todo PROVE \E k \in (f.pos + 1)..(Len(s) + 1) : x = (<<e>> \o s)[k]
          <6>1. PICK k \in (f.pos + 1)..Len(s) : x = s[k]
            BY <5>0, <4>2, <5>1, <5>4
          <6>2. k \in 1..Len(s) /\ k + 1 \in (f.pos + 1)..(Len(s) + 1)
            BY <5>0, <5>3, <6>1
          <6> QED BY <5>3, <6>1, <6>2
        <5>5. f.todo \subseteq {(<<e>> \o s)[k] : k \in (f.pos + 1)..Len(<<e>> \o s)}
          BY <5>3, <5>4
        <5>6. u[d].entries = <<e>> \o s
          BY <1>3, <5>1
        <5> QED BY <4>2, <5>0, <5>5, <5>6 DEF Ahead
      <4> QED BY <4>1, <4>2, <4>3
    <3>4. ~f.created => Kept(u, b, f.ino)
      BY <1>5, <3>1
    <3> HIDE DEF b, N
    <3>5. Sound(f, u, b, N + 1)
      BY <3>2, <3>3, <3>4 DEF Sound
    <3> QED BY <2>1, <3>5
  <2> QED BY <2>3, <2>4
<1>7. Stored(u, N + 1, w)
  <2>1. w \in [Ino -> Seq(Bytes)] /\ w[N] = <<>>
    BY <1>1 DEF State, Stored
  <2>2. u[N].data = <<>> /\ u[N].size = 0
    BY <1>3, NewInodeIs
  <2>3. Holds(u[N].data, u[N].size, w[N])
    BY <2>1, <2>2 DEF Holds
  <2>4. \A n \in Ino : n # N => Holds(u[n].data, u[n].size, w[n])
    BY <1>1, <1>3 DEF State, Stored
  <2>5. \A n \in Ino : n >= N + 1 => w[n] = <<>>
    BY <1>1, InoFacts DEF State, Stored
  <2> QED BY <2>1, <2>3, <2>4, <2>5 DEF Stored
<1> QED BY <1>1, <1>4, <1>6, <1>7 DEF State

\* Filling in a descriptor.
LEMMA StateOpen ==
    ASSUME NEW t, NEW a, NEW N, State(t, a, N, fd_table, written), FreeSlots # {},
           NEW n \in Ino, n < N, NEW created \in BOOLEAN, ~created => Kept(t, a, n),
           NEW flags, OpenOn(t, n, flags, created)
    PROVE  State(inode', a, N, fd_table', written')
<1> DEFINE u == IF "TRUNC" \in flags THEN ramfs_truncate(t, n) ELSE t
           pos == IF "APPEND" \in flags THEN u[n].size ELSE 0
           todo == IF "DIRECTORY" \in flags /\ flags \cap {"APPEND"} = {}
                   THEN ToSet(u[n].entries) ELSE {}
           f == [ino |-> n, pos |-> pos, dir |-> "DIRECTORY" \in flags, created |-> created,
                 todo |-> todo]
           m == Min(FreeSlots)
           w == IF "TRUNC" \in flags THEN [written EXCEPT ![n] = <<>>] ELSE written
<1>1. inode' = u /\ fd_table' = [fd_table EXCEPT ![m] = f] /\ written' = w
  BY DEF OpenOn
<1>2. /\ t \in [Ino -> InodeType] /\ Tree(t, a, N) /\ N \in Nat /\ N <= N
      /\ fd_table \in [FD -> FileType] /\ m \in FD
  BY StateFacts, MinFree DEF State, FreeSlots
<1>3. /\ u \in [Ino -> InodeType] /\ SameTree(t, u)
      /\ \A i \in Ino : i # n => u[i] = t[i]
      /\ "TRUNC" \in flags => u[n].data = <<>> /\ u[n].size = 0
      /\ "TRUNC" \notin flags => u = t
  <2>1. CASE "TRUNC" \in flags
    BY <1>2, <2>1, TruncateIs
  <2>2. CASE "TRUNC" \notin flags
    <3>1. u = t /\ \A i \in Ino : t[i].ref_count \in Nat
      BY <1>2, <2>2, RefNat
    <3> QED BY <1>2, <2>2, <3>1 DEF SameTree
  <2> QED BY <2>1, <2>2
<1>4. Tree(u, a, N) /\ \A i \in Ino : Kept(t, a, i) => Kept(u, a, i)
  BY <1>2, <1>3, SameTreeKept
<1>5. w \in [Ino -> Seq(Bytes)] /\ Stored(u, N, w)
  <2>1. CASE "TRUNC" \in flags
    <3>1. w = [written EXCEPT ![n] = <<>>] /\ written \in [Ino -> Seq(Bytes)]
      BY <2>1 DEF State, Stored
    <3>2. w \in [Ino -> Seq(Bytes)] /\ w[n] = <<>> /\ \A i \in Ino : i # n => w[i] = written[i]
      BY <3>1
    <3> HIDE DEF u, w
    <3>3. Holds(u[n].data, u[n].size, w[n])
      BY <1>3, <2>1, <3>2 DEF Holds
    <3> QED BY <1>3, <3>2, <3>3 DEF State, Stored
  <2>2. CASE "TRUNC" \notin flags
    <3>1. w = written /\ u = t
      BY <1>3, <2>2
    <3> QED BY <3>1 DEF State, Stored
  <2> QED BY <2>1, <2>2
<1>6. u[n].size \in Nat /\ u[n].entries \in Seq(Entry)
  BY <1>3, InodeFields
<1> HIDE DEF u, w
<1>7. pos \in Nat /\ todo \subseteq {u[n].entries[k] : k \in (pos + 1)..Len(u[n].entries)}
  <2>1. CASE "APPEND" \in flags
    <3>1. todo = {} /\ pos = u[n].size
      BY <2>1
    <3> QED BY <1>6, <3>1
  <2>2. CASE "APPEND" \notin flags
    <3>1. pos = 0
      BY <2>2
    <3>2. DOMAIN u[n].entries = 1..Len(u[n].entries)
      BY <1>6
    <3>3. ToSet(u[n].entries) = {u[n].entries[k] : k \in 1..Len(u[n].entries)}
      BY <3>2 DEF ToSet
    <3> QED BY <3>1, <3>3
  <2> QED BY <2>1, <2>2
<1>8. todo \in SUBSET Entry
  <2>1. \A k \in (pos + 1)..Len(u[n].entries) : u[n].entries[k] \in Entry
    BY <1>6, <1>7
  <2> QED BY <1>7, <2>1
<1> HIDE DEF pos, todo
<1>9. ("DIRECTORY" \in flags) \in BOOLEAN
  OBVIOUS
<1>10. /\ f \in FileType
       /\ f.ino = n /\ f.created = created /\ f.pos = pos /\ f.todo = todo
  BY <1>7, <1>8, <1>9 DEF FileType, Entry
<1> HIDE DEF f, m
<1>11. fd_table' \in [FD -> FileType] /\ \A fd \in FD : fd_table'[fd] = IF fd = m THEN f ELSE fd_table[fd]
  BY <1>1, <1>2, <1>10
<1>12. Sound(f, u, a, N)
  BY <1>4, <1>7, <1>10 DEF Sound, Ahead
<1>13. \A fd \in FD : Sound(fd_table[fd], u, a, N)
  BY <1>2, <1>3, <1>4, SoundKept DEF State
<1>14. \A fd \in FD : Sound(fd_table'[fd], u, a, N)
  BY <1>11, <1>12, <1>13
<1> QED BY <1>1, <1>4, <1>5, <1>11, <1>14 DEF State

\* Removing a name: what was to be listed is forgotten.
Forgotten(tab) == [fd \in FD |-> [tab[fd] EXCEPT !.todo = {}]]

LEMMA StateUnlink ==
    ASSUME NEW t, NEW a, NEW N, NEW tab, NEW w, State(t, a, N, tab, w), NEW d \in a, NEW name,
           Matches(t, d, name) # {}, NEW r, r = ramfs_unlink(t, d, name),
           NEW b, b = IF Reclaimable(r.tab, r.ino) THEN a \ {r.ino} ELSE a,
           NEW tab2, tab2 = Forgotten(tab)
    PROVE  State(r.tab, b, N, tab2, w)
<1>1. Tree(t, a, N) /\ tab \in [FD -> FileType]
  BY DEF State
<1>2. /\ r.tab \in [Ino -> InodeType] /\ SameData(t, r.tab) /\ Tree(r.tab, b, N)
      /\ \A m \in Ino : Kept(t, a, m) => Kept(r.tab, b, m)
  BY <1>1, UnlinkTree
<1>3. ASSUME NEW fd \in FD PROVE tab2[fd] \in FileType /\ Sound(tab2[fd], r.tab, b, N)
  <2>1. PICK f, g : f = tab[fd] /\ g = [f EXCEPT !.todo = {}]
    OBVIOUS
  <2>2. f \in FileType /\ Sound(f, t, a, N) /\ tab2[fd] = g
    BY <1>1, <2>1 DEF State, Forgotten
  <2>3. g \in FileType /\ g.ino = f.ino /\ g.created = f.created /\ g.todo = {}
    BY <2>1, <2>2 DEF FileType
  <2>4. f.ino # NULL => f.ino \in Ino
    BY <2>2, FileFields
  <2>5. g.ino # NULL => g.ino < N /\ (~g.created => Kept(r.tab, b, g.ino))
    BY <1>2, <2>2, <2>3, <2>4 DEF Sound
  <2>6. Sound(g, r.tab, b, N)
    BY <2>3, <2>5 DEF Sound, Ahead
  <2> QED BY <2>2, <2>3, <2>6
<1>4. tab2 \in [FD -> FileType]
  BY <1>3 DEF Forgotten
<1>5. Stored(r.tab, N, w)
  BY <1>2 DEF State, Stored, SameData
<1> QED BY <1>2, <1>3, <1>4, <1>5 DEF State

\* Moving the position of a descriptor; `todo` shrinks.
Moved(tab, fd, q, todo) == [tab EXCEPT ![fd].pos = q, ![fd].todo = todo]

LEMMA StateMoved ==
    ASSUME NEW t, NEW a, NEW N, NEW tab, NEW w, State(t, a, N, tab, w),
           NEW fd \in FD, NEW q \in Int, NEW todo \in SUBSET Entry,
           Ahead(todo, q, t[tab[fd].ino].entries),
           NEW tab2, tab2 = Moved(tab, fd, q, todo)
    PROVE  State(t, a, N, tab2, w)
<1>1. PICK f, g : f = tab[fd] /\ g = [f EXCEPT !.pos = q, !.todo = todo]
  OBVIOUS
<1>2. f \in FileType /\ Sound(f, t, a, N) /\ tab \in [FD -> FileType]
  BY <1>1 DEF State
<1>3. g \in FileType /\ g.ino = f.ino /\ g.created = f.created /\ g.todo = todo /\ g.pos = q
  BY <1>1, <1>2 DEF FileType, Entry
<1>4. tab2 = [tab EXCEPT ![fd] = g]
  BY <1>1 DEF Moved
<1>5. tab2 \in [FD -> FileType] /\ \A e \in FD : tab2[e] = IF e = fd THEN g ELSE tab[e]
  BY <1>2, <1>3, <1>4
<1>6. Sound(g, t, a, N)
  <2>1. Ahead(todo, g.pos, t[g.ino].entries)
    BY <1>1, <1>3
  <2>2. g.ino # NULL => g.ino < N /\ (~g.created => Kept(t, a, g.ino))
    BY <1>2, <1>3 DEF Sound
  <2> QED BY <1>3, <2>1, <2>2 DEF Sound
<1> QED BY <1>5, <1>6 DEF State

----------------------------------------------------------------------------
\* The calls.

LEMMA VfsInvInit == Init => VfsInv
<1> SUFFICES ASSUME Init PROVE VfsInv
  OBVIOUS
<1>1. /\ inode = [n \in Ino |-> NewInode(IF n = ROOT THEN "dir" ELSE "file")] /\ alive = {ROOT}
      /\ next_ino = 2 /\ fd_table = [fd \in FD |-> NOFILE] /\ written = [n \in Ino |-> <<>>]
  BY DEF Init, RamfsInit
<1>2. ASSUME NEW n \in Ino
      PROVE  /\ inode[n] \in InodeType /\ inode[n].nlinks = 1 /\ inode[n].ref_count = 1
             /\ inode[n].entries = <<>> /\ inode[n].data = <<>> /\ inode[n].size = 0
  <2>1. PICK mode \in {"dir", "file"} : inode[n] = NewInode(mode)
    BY <1>1
  <2> QED BY <2>1, NewInodeIs
<1>3. inode \in [Ino -> InodeType]
  BY <1>1, <1>2
<1>4. 2 \in 2..(MaxInodes + 1)
  BY RamfsAssumption
<1>5. Tree(inode, alive, next_ino)
  <2>1. ~ Named(inode, alive, ROOT) /\ Rooted(inode, alive)
    BY <1>1, <1>2, InoFacts DEF Named, Rooted
  <2>2. Links(inode, alive, ROOT) = 1
    <3>1. inode[ROOT].entries = <<>>
      BY <1>2, InoFacts
    <3>2. Len(inode[ROOT].entries) = 0
      BY <3>1
    <3> QED BY <2>1, <3>2 DEF Links
  <2> QED BY <1>1, <1>2, <1>3, <2>1, <2>2, InoFacts DEF Tree, ROOT
<1>6. fd_table \in [FD -> FileType] /\ \A fd \in FD : Sound(fd_table[fd], inode, alive, next_ino)
  <2>1. NOFILE \in FileType /\ NOFILE.ino = NULL
    BY DEF NOFILE, FileType
  <2> QED BY <1>1, <2>1 DEF Sound
<1>7. Stored(inode, next_ino, written)
  BY <1>1, <1>2 DEF Stored, Holds
<1> QED BY <1>1, <1>4, <1>5, <1>6, <1>7 DEF VfsInv, State

LEMMA PathParts ==
    ASSUME NEW path \in Seq(Names \cup {DOT}), path # <<>>
    PROVE  Len(path_dirname(path)) \in Nat /\ path_basename(path) \in Names \cup {DOT}
BY DEF path_dirname, path_basename, Front, Last

\* A walk in the present table.
LEMMA Walked ==
    ASSUME NEW t, NEW a, NEW N, NEW tab, NEW w, State(t, a, N, tab, w), NEW path, Len(path) \in Nat,
           NEW r, r = ramfs_get_inode_by_path(t, path)
    PROVE  /\ State(r.tab, a, N, tab, w)
           /\ r.ino # NULL => r.ino \in Ino /\ r.ino \in a /\ r.ino < N /\ Kept(r.tab, a, r.ino)
<1>1. Place(t, a, N, r)
  BY WalkKeeps, StateFacts
<1>2. State(r.tab, a, N, tab, w)
  BY <1>1, StateWalk
<1>3. r.ino # NULL => Kept(r.tab, a, r.ino) /\ r.ino \in a
  BY <1>1 DEF Place, Kept
<1> QED BY <1>2, <1>3 DEF State, Tree

LEMMA OpenInvariant ==
    ASSUME VfsInv, NEW path \in Seq(Names \cup {DOT}), NEW flags, vfs_open(path, flags)
    PROVE  VfsInv'
<1>1. PICK r : r = ramfs_get_inode_by_path(inode, path)
  OBVIOUS
<1>2. /\ State(r.tab, alive, next_ino, fd_table, written)
      /\ r.ino # NULL => r.ino \in Ino /\ r.ino < next_ino /\ Kept(r.tab, alive, r.ino)
  <2>1. Len(path) \in Nat
    OBVIOUS
  <2> QED BY <1>1, <2>1, Walked DEF VfsInv
<1>3. PICK p : p = ramfs_get_inode_by_path(r.tab, path_dirname(path))
  OBVIOUS
<1>4. FreeSlots # {} /\ ramfs_fs_open(path, flags)
  BY DEF vfs_open
<1>5. CASE /\ r.ino # NULL /\ OpenOn(r.tab, r.ino, flags, FALSE)
           /\ UNCHANGED <<alive, next_ino>>
  <2>1. State(inode', alive, next_ino, fd_table', written')
    BY <1>2, <1>4, <1>5, StateOpen
  <2> QED BY <1>5, <2>1 DEF VfsInv
<1>6. CASE r.ino = NULL
  <2>1. path # <<>>
    BY <1>1, <1>6, WalkEmpty, InoFacts
  <2>2. Len(path_dirname(path)) \in Nat /\ path_basename(path) \in Names \cup {DOT}
    BY <2>1, PathParts
  <2>3. /\ State(p.tab, alive, next_ino, fd_table, written)
        /\ p.ino # NULL => p.ino \in alive
    BY <1>2, <1>3, <2>2, Walked
  <2>4. CASE OpenFails(p.tab) /\ UNCHANGED next_ino
    BY <2>3, <2>4 DEF OpenFails, VfsInv
  <2>5. CASE OpenFails(r.tab) /\ UNCHANGED next_ino
    BY <1>2, <2>5 DEF OpenFails, VfsInv
  <2>6. CASE FoundDir(p) /\ CreateAndOpen(p, path_basename(path), flags)
    <3>1. PICK name : name = path_basename(path)
      OBVIOUS
    <3>2. name \in Names \cup {DOT} /\ p.ino \in alive
      BY <2>2, <2>3, <2>6, <3>1 DEF FoundDir
    <3>3. PICK u : u = ramfs_create(p.tab, p.ino, name, "file")
      OBVIOUS
    <3>4. CASE next_ino <= MaxInodes /\ OpenFails(p.tab) /\ next_ino' = next_ino + 1
      <4>1. State(p.tab, alive, next_ino + 1, fd_table, written)
        BY <2>3, <3>4, StateCount
      <4> QED BY <3>4, <4>1 DEF OpenFails, VfsInv
    <3>5. CASE OpenFails(p.tab) /\ UNCHANGED next_ino
      BY <2>4, <3>5
    <3>6. CASE /\ next_ino <= MaxInodes /\ OpenOn(u, next_ino, flags, TRUE)
               /\ alive' = alive \cup {next_ino} /\ next_ino' = next_ino + 1
      <4>1. State(u, alive \cup {next_ino}, next_ino + 1, fd_table, written)
        BY <2>3, <3>2, <3>3, <3>6, StateCreate
      <4>2. next_ino \in Ino /\ next_ino < next_ino + 1
        BY <2>3, <3>6, StateFacts
      <4>3. TRUE \in BOOLEAN /\ (~TRUE => Kept(u, alive \cup {next_ino}, next_ino))
        OBVIOUS
      <4>4. State(inode', alive \cup {next_ino}, next_ino + 1, fd_table', written')
        BY <1>4, <3>6, <4>1, <4>2, <4>3, StateOpen
      <4> QED BY <3>6, <4>4 DEF VfsInv
    <3> QED BY <2>6, <3>1, <3>3, <3>4, <3>5, <3>6 DEF CreateAndOpen
  <2> QED BY <1>1, <1>3, <1>4, <1>6, <2>4, <2>5, <2>6 DEF ramfs_fs_open
<1> QED BY <1>1, <1>3, <1>4, <1>5, <1>6 DEF ramfs_fs_open

LEMMA MkdirInvariant ==
    ASSUME VfsInv, NEW path \in Seq(Names \cup {DOT}), vfs_mkdir(path)
    PROVE  VfsInv'
<1>1. /\ path # <<>> /\ ramfs_fs_mkdir(path) /\ fd_table' = fd_table /\ written' = written
      /\ Len(path_dirname(path)) \in Nat /\ path_basename(path) \in Names \cup {DOT}
  BY PathParts DEF vfs_mkdir
<1>2. PICK p, name : p = ramfs_get_inode_by_path(inode, path_dirname(path)) /\ name = path_basename(path)
  OBVIOUS
<1>3. State(p.tab, alive, next_ino, fd_table, written) /\ (p.ino # NULL => p.ino \in alive)
  BY <1>1, <1>2, Walked DEF VfsInv
<1>4. CASE /\ FoundDir(p) /\ next_ino <= MaxInodes
           /\ inode' = ramfs_create(p.tab, p.ino, name, "dir")
           /\ alive' = alive \cup {next_ino} /\ next_ino' = next_ino + 1
  <2>1. State(inode', alive \cup {next_ino}, next_ino + 1, fd_table, written)
    BY <1>1, <1>2, <1>3, <1>4, StateCreate DEF FoundDir
  <2> QED BY <1>1, <1>4, <2>1 DEF VfsInv
<1>5. CASE next_ino <= MaxInodes /\ inode' = p.tab /\ next_ino' = next_ino + 1 /\ UNCHANGED alive
  <2>1. State(p.tab, alive, next_ino + 1, fd_table, written)
    BY <1>3, <1>5, StateCount
  <2> QED BY <1>1, <1>5, <2>1 DEF VfsInv
<1>6. CASE inode' = p.tab /\ UNCHANGED <<alive, next_ino>>
  BY <1>1, <1>3, <1>6 DEF VfsInv
<1> QED BY <1>1, <1>2, <1>4, <1>5, <1>6 DEF ramfs_fs_mkdir

LEMMA UnlinkInvariant ==
    ASSUME VfsInv, NEW path \in Seq(Names \cup {DOT}), vfs_unlink(path)
    PROVE  VfsInv'
<1>1. /\ path # <<>> /\ ramfs_fs_unlink(path) /\ next_ino' = next_ino /\ written' = written
      /\ Len(path_dirname(path)) \in Nat
  BY PathParts DEF vfs_unlink
<1>2. PICK p, name : p = ramfs_get_inode_by_path(inode, path_dirname(path)) /\ name = path_basename(path)
  OBVIOUS
<1>3. State(p.tab, alive, next_ino, fd_table, written) /\ (p.ino # NULL => p.ino \in alive)
  BY <1>1, <1>2, Walked DEF VfsInv
<1>4. PICK u : u = ramfs_unlink(p.tab, p.ino, name)
  OBVIOUS
<1>5. CASE /\ FoundDir(p) /\ Matches(p.tab, p.ino, name) # {}
           /\ inode' = u.tab
           /\ alive' = IF Reclaimable(u.tab, u.ino) THEN alive \ {u.ino} ELSE alive
           /\ fd_table' = [fd \in FD |-> [fd_table[fd] EXCEPT !.todo = {}]]
  <2>1. p.ino \in alive /\ Matches(p.tab, p.ino, name) # {}
    BY <1>3, <1>5 DEF FoundDir
  <2>2. fd_table' = Forgotten(fd_table)
    BY <1>5 DEF Forgotten
  <2>3. State(u.tab, alive', next_ino, fd_table', written)
    BY <1>3, <1>4, <1>5, <2>1, <2>2, StateUnlink
  <2> QED BY <1>1, <1>5, <2>3 DEF VfsInv
<1>6. CASE inode' = p.tab /\ UNCHANGED <<alive, fd_table>>
  BY <1>1, <1>3, <1>6 DEF VfsInv
<1> QED BY <1>1, <1>2, <1>4, <1>5, <1>6 DEF ramfs_fs_unlink

LEMMA CloseInvariant ==
    ASSUME VfsInv, NEW fd \in FD, vfs_close(fd)
    PROVE  VfsInv'
<1>1. fd_table' = [fd_table EXCEPT ![fd] = NOFILE] /\ UNCHANGED <<fs, written>>
  BY DEF vfs_close
<1>2. NOFILE \in FileType /\ NOFILE.ino = NULL
  BY DEF NOFILE, FileType
<1>3. /\ fd_table' \in [FD -> FileType]
      /\ \A e \in FD : fd_table'[e] = IF e = fd THEN NOFILE ELSE fd_table[e]
  BY <1>1, <1>2 DEF VfsInv, State
<1>4. \A e \in FD : Sound(fd_table'[e], inode, alive, next_ino)
  BY <1>2, <1>3 DEF VfsInv, State, Sound
<1> QED BY <1>1, <1>3, <1>4 DEF VfsInv, State, fs

\* How much a read of a file or of a directory returns.
LEMMA ReadLenIs ==
    ASSUME NEW t \in [Ino -> InodeType], NEW n \in Ino, NEW pos \in Int, NEW count \in Nat
    PROVE  /\ ReadLen(t, n, pos, count) \in Nat
           /\ ReaddirLen(t, n, pos, count) \in Nat
           /\ ReaddirLen(t, n, pos, count) # 0 => pos + ReaddirLen(t, n, pos, count) <= Len(t[n].entries)
<1>1. t[n].size \in Nat /\ t[n].entries \in Seq(Entry) /\ Len(t[n].entries) \in Nat
  BY InodeFields
<1>2. PICK z, l : z = t[n].size /\ l = Len(t[n].entries)
  OBVIOUS
<1>3. pos < z => Min({count, z - pos}) \in Nat
  BY <1>1, <1>2, MinOfTwo
<1>4. pos < l => Min({count, l - pos}) \in Nat /\ Min({count, l - pos}) <= l - pos
  BY <1>1, <1>2, MinOfTwo
<1> QED BY <1>1, <1>2, <1>3, <1>4 DEF ReadLen, ReaddirLen, Behind

\* Calls that move the position.
LEMMA MoveInvariant ==
    ASSUME VfsInv, NEW fd \in FD, Open(fd), NEW q \in Int, UNCHANGED <<fs, written>>,
           fd_table' = [fd_table EXCEPT ![fd].pos = q, ![fd].todo = {}]
    PROVE  VfsInv'
<1>1. fd_table' = Moved(fd_table, fd, q, {})
  BY DEF Moved
<1>2. State(inode, alive, next_ino, fd_table', written)
  <2>1. Ahead({}, q, inode[fd_table[fd].ino].entries) /\ {} \in SUBSET Entry
    BY DEF Ahead
  <2> QED BY <1>1, <2>1, StateMoved DEF VfsInv
<1> QED BY <1>2 DEF VfsInv, fs

\* A part of a sequence, element by element.
LEMMA SubSeqIs ==
    ASSUME NEW S, NEW s \in Seq(S), NEW b \in Nat, NEW len \in Nat, b + len <= Len(s)
    PROVE  SubSeq(s, b + 1, b + len) = [x \in 1..len |-> s[b + x]]
<1>1. SubSeq(s, b + 1, b + len) = [x \in 1..((b + len) - (b + 1) + 1) |-> s[(b + 1) + x - 1]]
  BY DEF SubSeq
<1>2. (b + len) - (b + 1) + 1 = len
  OBVIOUS
<1>3. \A x \in 1..len : s[(b + 1) + x - 1] = s[b + x]
  <2> SUFFICES ASSUME NEW x \in 1..len PROVE s[(b + 1) + x - 1] = s[b + x]
    OBVIOUS
  <2>1. (b + 1) + x - 1 = b + x
    OBVIOUS
  <2> QED BY <2>1
<1> QED BY <1>1, <1>2, <1>3

LEMMA ReaddirInvariant ==
    ASSUME VfsInv, NEW fd \in FD, NEW count \in Nat, vfs_readdir(fd, count)
    PROVE  VfsInv'
<1>1. PICK f, len : f = fd_table[fd] /\ len = ReaddirLen(inode, f.ino, f.pos, count)
  OBVIOUS
<1>2. PICK s, found : s = inode[f.ino].entries /\ found = SubSeq(s, f.pos + 1, f.pos + len)
  OBVIOUS
<1>3. /\ f.ino # NULL /\ UNCHANGED <<fs, written>>
      /\ fd_table' = Moved(fd_table, fd, f.pos + len, f.todo \ ToSet(found))
  BY <1>1, <1>2 DEF vfs_readdir, Open, Moved
<1>4. /\ f \in FileType /\ f.ino \in Ino /\ f.pos \in Int /\ f.todo \subseteq Entry
      /\ inode \in [Ino -> InodeType] /\ s \in Seq(Entry) /\ Len(s) \in Nat
      /\ Ahead(f.todo, f.pos, s)
  <2>1. f \in FileType /\ inode \in [Ino -> InodeType] /\ Sound(f, inode, alive, next_ino)
    BY <1>1, StateFacts DEF VfsInv, State
  <2>2. f.ino \in Ino /\ f.pos \in Int /\ f.todo \subseteq Entry
    BY <1>3, <2>1, FileFields
  <2>3. s \in Seq(Entry)
    BY <1>2, <2>1, <2>2, InodeFields
  <2> QED BY <1>2, <1>3, <2>1, <2>2, <2>3 DEF Sound
<1>5. len \in Nat /\ (len # 0 => f.pos + len <= Len(s))
  BY <1>1, <1>2, <1>4, ReadLenIs
<1>6. Ahead(f.todo \ ToSet(found), f.pos + len, s)
  <2> SUFFICES ASSUME f.todo # {}
               PROVE  /\ f.pos + len \in Nat
                      /\ \A x \in f.todo \ ToSet(found) : \E k \in (f.pos + len + 1)..Len(s) : x = s[k]
    BY DEF Ahead
  <2>0. f.pos \in Nat /\ f.todo \subseteq {s[k] : k \in (f.pos + 1)..Len(s)}
    BY <1>4 DEF Ahead
  <2> SUFFICES ASSUME NEW x \in f.todo, x \notin ToSet(found)
               PROVE  \E k \in (f.pos + len + 1)..Len(s) : x = s[k]
    BY <1>5, <2>0
  <2>1. PICK k \in (f.pos + 1)..Len(s) : x = s[k]
    BY <2>0
  <2>2. CASE k > f.pos + len
    BY <1>4, <1>5, <2>0, <2>1, <2>2
  <2>3. CASE ~ (k > f.pos + len)
    <3>1. len # 0 /\ f.pos + len <= Len(s) /\ k - f.pos \in 1..len
      BY <1>4, <1>5, <2>0, <2>1, <2>3
    <3>2. Len(found) = len /\ found \in Seq(Entry) /\ \A j \in 1..len : found[j] = s[f.pos + j]
      <4>1. PICK b : b = f.pos
        OBVIOUS
      <4>2. b \in Nat /\ b + len <= Len(s) /\ found = SubSeq(s, b + 1, b + len)
        BY <1>2, <1>4, <2>0, <3>1, <4>1
      <4>3. SubSeq(s, b + 1, b + len) = [y \in 1..len |-> s[b + y]]
        BY <1>4, <1>5, <4>2, SubSeqIs
      <4>4. found = [y \in 1..len |-> s[f.pos + y]]
        BY <4>1, <4>2, <4>3
      <4>5. \A y \in 1..len : s[f.pos + y] \in Entry
        BY <1>4, <1>5, <2>0, <3>1
      <4> QED BY <1>5, <4>4, <4>5
    <3>3. k - f.pos \in DOMAIN found /\ found[k - f.pos] = s[k]
      BY <1>4, <1>5, <2>0, <3>1, <3>2, <2>1
    <3>4. x \in ToSet(found)
      BY <2>1, <3>3 DEF ToSet
    <3> QED BY <3>4
  <2> QED BY <2>2, <2>3
<1>7. State(inode, alive, next_ino, fd_table', written)
  <2>1. PICK q, todo : q = f.pos + len /\ todo = f.todo \ ToSet(found)
    OBVIOUS
  <2>2. q \in Int /\ todo \in SUBSET Entry
    BY <1>4, <1>5, <2>1
  <2>3. Ahead(todo, q, inode[fd_table[fd].ino].entries)
    BY <1>1, <1>2, <1>6, <2>1
  <2> QED BY <1>3, <2>1, <2>2, <2>3, StateMoved DEF VfsInv
<1> QED BY <1>3, <1>7 DEF VfsInv, fs

LEMMA WriteInvariant ==
    ASSUME VfsInv, NEW fd \in FD, NEW bytes \in Seq(Bytes), vfs_write(fd, bytes)
    PROVE  VfsInv'
<1>1. PICK f, q : f = fd_table[fd] /\ q = f.pos + Len(bytes)
  OBVIOUS
<1>2. /\ f.ino # NULL /\ f.pos >= 0 /\ UNCHANGED <<alive, next_ino>>
      /\ inode' = ramfs_file_write(inode, f.ino, f.pos, bytes)
      /\ fd_table' = Moved(fd_table, fd, q, {})
      /\ written' = [written EXCEPT ![f.ino] = Overlay(written[f.ino], f.pos, bytes)]
  BY <1>1 DEF vfs_write, Open, Moved
<1>3. /\ f.ino \in Ino /\ f.ino \in Nat /\ f.pos \in Nat /\ f.ino < next_ino /\ next_ino \in Nat
      /\ inode \in [Ino -> InodeType] /\ Tree(inode, alive, next_ino)
      /\ fd_table \in [FD -> FileType]
      /\ written \in [Ino -> Seq(Bytes)]
      /\ \A n \in Ino : Holds(inode[n].data, inode[n].size, written[n])
  <2>1. /\ f \in FileType /\ inode \in [Ino -> InodeType] /\ Sound(f, inode, alive, next_ino)
        /\ Tree(inode, alive, next_ino) /\ next_ino \in Nat
    BY <1>1, StateFacts DEF VfsInv, State
  <2>2. f.ino \in Ino /\ f.pos \in Nat /\ f.ino < next_ino
    BY <1>2, <2>1, FileFields DEF Sound
  <2> QED BY <2>1, <2>2, InoFacts DEF VfsInv, State, Stored
<1>4. PICK w2 : w2 = Overlay(written[f.ino], f.pos, bytes)
  OBVIOUS
<1>5. /\ inode' \in [Ino -> InodeType] /\ SameTree(inode, inode')
      /\ \A m \in Ino : m # f.ino => inode'[m] = inode[m]
      /\ w2 \in Seq(Bytes) /\ Holds(inode'[f.ino].data, inode'[f.ino].size, w2)
  <2>1. PICK n, pos, w, u : n = f.ino /\ pos = f.pos /\ w = written[n] /\ u = inode'
    OBVIOUS
  <2>2. n \in Ino /\ pos \in Nat /\ w \in Seq(Bytes) /\ Holds(inode[n].data, inode[n].size, w)
    BY <1>3, <2>1
  <2>3. u = ramfs_file_write(inode, n, pos, bytes) /\ w2 = Overlay(w, pos, bytes)
    BY <1>2, <1>4, <2>1
  <2>4. inode \in [Ino -> InodeType]
    BY <1>3
  <2>5. /\ u \in [Ino -> InodeType] /\ SameTree(inode, u)
        /\ \A m \in Ino : m # n => u[m] = inode[m]
        /\ w2 \in Seq(Bytes) /\ Holds(u[n].data, u[n].size, w2)
    BY <2>2, <2>3, <2>4, WriteIs
  <2> QED BY <2>1, <2>5
<1>6. Tree(inode', alive, next_ino) /\ \A n \in Ino : Kept(inode, alive, n) => Kept(inode', alive, n)
  BY <1>3, <1>5, SameTreeKept
<1>7. \A e \in FD : Sound(fd_table[e], inode', alive, next_ino)
  <2>1. next_ino <= next_ino
    BY <1>3
  <2> QED BY <1>3, <1>5, <1>6, <2>1, SoundKept DEF VfsInv, State
<1>8. /\ written' \in [Ino -> Seq(Bytes)]
      /\ \A n \in Ino : written'[n] = IF n = f.ino THEN w2 ELSE written[n]
  BY <1>2, <1>3, <1>4, <1>5
<1>9. Stored(inode', next_ino, written')
  <2>1. \A n \in Ino : n >= next_ino => written'[n] = <<>>
    BY <1>3, <1>8, InoFacts DEF VfsInv, State, Stored
  <2>2. \A n \in Ino : Holds(inode'[n].data, inode'[n].size, written'[n])
    BY <1>3, <1>5, <1>8
  <2> QED BY <1>8, <2>1, <2>2 DEF Stored
<1>10. State(inode', alive, next_ino, fd_table, written')
  BY <1>3, <1>6, <1>7, <1>9 DEF VfsInv, State
<1>11. q \in Int /\ {} \in SUBSET Entry /\ Ahead({}, q, inode'[fd_table[fd].ino].entries)
  BY <1>1, <1>3 DEF Ahead
<1>12. State(inode', alive, next_ino, fd_table', written')
  BY <1>2, <1>10, <1>11, StateMoved
<1> QED BY <1>2, <1>12 DEF VfsInv

LEMMA ReadInvariant ==
    ASSUME VfsInv, NEW fd \in FD, NEW count \in Nat, vfs_read(fd, count)
    PROVE  VfsInv'
<1>1. PICK n, pos, q : n = fd_table[fd].ino /\ pos = fd_table[fd].pos /\ q = pos + ReadLen(inode, n, pos, count)
  OBVIOUS
<1>2. /\ Open(fd) /\ UNCHANGED <<fs, written>>
      /\ fd_table' = [fd_table EXCEPT ![fd].pos = q, ![fd].todo = {}]
  BY <1>1 DEF vfs_read
<1>3. inode \in [Ino -> InodeType] /\ fd_table[fd] \in FileType
  BY StateFacts DEF VfsInv, State
<1>4. n \in Ino /\ pos \in Int
  BY <1>1, <1>2, <1>3, FileFields DEF Open
<1>5. q \in Int
  BY <1>1, <1>3, <1>4, ReadLenIs
<1> QED BY <1>2, <1>5, MoveInvariant

LEMMA SeekInvariant ==
    ASSUME VfsInv, NEW fd \in FD, NEW offset \in Int, NEW whence \in {"SET", "CUR", "END"},
           vfs_seek(fd, offset, whence)
    PROVE  VfsInv'
<1>1. fd_table[fd].pos \in Int
  BY FileFields DEF VfsInv, State
<1>2. PICK q : /\ q = CASE whence = "SET" -> offset
                         [] whence = "CUR" -> fd_table[fd].pos + offset
                         [] whence = "END" -> fd_table[fd].pos
               /\ fd_table' = [fd_table EXCEPT ![fd].pos = q, ![fd].todo = {}]
  BY DEF vfs_seek
<1>3. q \in Int
  BY <1>1, <1>2
<1> QED BY <1>2, <1>3, MoveInvariant DEF vfs_seek

LEMMA VfsInvNext == VfsInv /\ [Next]_vars => VfsInv'
<1> SUFFICES ASSUME VfsInv, [Next]_vars PROVE VfsInv'
  OBVIOUS
<1> USE VfsAssumption
<1>1. CASE \E path \in Paths, flags \in FlagSets : vfs_open(path, flags)
  BY <1>1, OpenInvariant
<1>2. CASE \E path \in Paths : vfs_mkdir(path)
  BY <1>2, MkdirInvariant
<1>3. CASE \E path \in Paths : vfs_unlink(path)
  BY <1>3, UnlinkInvariant
<1>4. CASE \E fd \in FD : vfs_close(fd)
  BY <1>4, CloseInvariant
<1>5. CASE \E fd \in FD, bytes \in Chunks : vfs_write(fd, bytes)
  BY <1>5, WriteInvariant
<1>6. CASE \E fd \in FD, k \in Counts : vfs_read(fd, k)
  BY <1>6, ReadInvariant
<1>7. CASE \E fd \in FD, k \in Counts : vfs_readdir(fd, k)
  BY <1>7, ReaddirInvariant
<1>8. CASE \E fd \in FD, k \in Offsets, whence \in {"SET", "CUR", "END"} : vfs_seek(fd, k, whence)
  BY <1>8, SeekInvariant
<1>9. CASE UNCHANGED vars \/ \E fd \in FD : WildWrite(fd)
  BY <1>9 DEF WildWrite, vars, fs, VfsInv
<1> QED BY <1>1, <1>2, <1>3, <1>4, <1>5, <1>6, <1>7, <1>8, <1>9 DEF Next, Calls, Undefined

LEMMA VfsInvAlways == Spec => []VfsInv
BY VfsInvInit, VfsInvNext, PTL DEF Spec

----------------------------------------------------------------------------
\* What the invariant says.

\* Inodes, directory entries and descriptors keep their types: no count
\* wraps, no entry and no descriptor names an inode that never was.
THEOREM VfsTypeOK == Spec => []TypeOK
<1> DEFINE Flag == wild \in BOOLEAN
<1>1. VfsInv /\ Flag => TypeOK
  BY DEF VfsInv, State, Tree, Stored, TypeOK
<1>2. Init => Flag
  BY DEF Init
<1>3. Flag /\ [Next]_vars => Flag'
  <2> SUFFICES ASSUME Flag, [Next]_vars PROVE wild' \in {wild, TRUE}
    OBVIOUS
  <2> QED BY DEF Next, Calls, Undefined, vfs_open, vfs_mkdir, vfs_unlink, vfs_close, vfs_write,
                 WildWrite, vfs_read, vfs_readdir, vfs_seek, vars
<1> HIDE DEF Flag
<1> QED BY <1>1, <1>2, <1>3, VfsInvAlways, PTL DEF Spec

\* No entry is counted twice: an inode has one entry or none.
LEMMA EntriesCounted ==
    ASSUME VfsInv, NEW n \in alive
    PROVE  Cardinality(EntriesOf(n)) = IF Named(inode, alive, n) THEN 1 ELSE 0
<1>1. CASE ~ Named(inode, alive, n)
  <2>1. EntriesOf(n) = {}
    BY <1>1 DEF EntriesOf, Named
  <2> QED BY <1>1, <2>1, FS_EmptySet
<1>2. CASE Named(inode, alive, n)
  <2>1. PICK d \in alive : \E k \in DOMAIN inode[d].entries : inode[d].entries[k].ino = n
    BY <1>2 DEF Named
  <2>2. PICK k \in DOMAIN inode[d].entries : inode[d].entries[k].ino = n
    BY <2>1
  <2>3. Rooted(inode, alive)
    BY DEF VfsInv, State, Tree
  <2>4. \A e \in alive : \A j \in DOMAIN inode[e].entries : inode[e].entries[j].ino = n => e = d /\ j = k
    BY <2>2, <2>3 DEF Rooted
  <2>5. EntriesOf(n) = {<<d, k>>}
    BY <2>2, <2>4 DEF EntriesOf
  <2> QED BY <1>2, <2>5, FS_Singleton
<1> QED BY <1>1, <1>2

\* Link counts stay exact: whatever is created and removed, and in whatever
\* order, an inode's nlinks is the number of entries that name it and, of a
\* directory, of the entries in it.
THEOREM LinkCountsExactAlways == Spec => []LinkCountsExact
<1>1. ASSUME VfsInv, NEW n \in alive
      PROVE  inode[n].nlinks = Cardinality(EntriesOf(n)) + Len(inode[n].entries) + (IF n = ROOT THEN 1 ELSE 0)
  <2>1. inode[n].nlinks = Links(inode, alive, n)
    BY <1>1 DEF VfsInv, State, Tree
  <2>2. Cardinality(EntriesOf(n)) = IF Named(inode, alive, n) THEN 1 ELSE 0
    BY <1>1, EntriesCounted
  <2> QED BY <2>1, <2>2 DEF Links
<1>2. VfsInv => LinkCountsExact
  BY <1>1 DEF LinkCountsExact
<1> QED BY <1>2, VfsInvAlways, PTL

\* No entry of a directory, be the directory itself removed or not, names
\* an inode that ramfs_unlink has freed.
THEOREM NoDanglingEntriesAlways == Spec => []NoDanglingEntries
<1>1. VfsInv => NoDanglingEntries
  BY DEF VfsInv, State, Tree, Rooted, NoDanglingEntries
<1> QED BY <1>1, VfsInvAlways, PTL

\* A file that vfs_open found is not freed while the descriptor is open,
\* whoever unlinks it.
THEOREM FoundFilesStayAlways == Spec => []FoundFilesStay
<1>1. VfsInv => FoundFilesStay
  BY DEF VfsInv, State, Sound, Kept, FoundFilesStay, Open
<1> QED BY <1>1, VfsInvAlways, PTL

\* Until a write at a position that vfs_seek made negative, the bytes of a file
\* are what was last written at each position, and 0 where nothing was, through
\* growth, seeks in both directions, holes, several descriptors and O_TRUNC.
THEOREM ContentsMatchAlways == Spec => []ContentsMatch
<1>1. ASSUME VfsInv, NEW n \in Ino
      PROVE  SubSeq(inode[n].data, 1, inode[n].size) = written[n]
  <2>1. PICK data, size, w : data = inode[n].data /\ size = inode[n].size /\ w = written[n]
    OBVIOUS
  <2>2. data \in Seq(Bytes) /\ size \in Nat /\ w \in Seq(Bytes) /\ Holds(data, size, w)
    BY <1>1, <2>1, InodeFields DEF VfsInv, State, Tree, Stored
  <2>3. SubSeq(data, 0 + 1, 0 + size) = [k \in 1..size |-> data[0 + k]]
    BY <2>2, SubSeqIs DEF Holds
  <2>4. 0 + 1 = 1 /\ 0 + size = size /\ \A k \in 1..size : data[0 + k] = w[k]
    BY <2>2 DEF Holds
  <2>5. w = [k \in 1..size |-> w[k]]
    BY <2>2 DEF Holds
  <2> QED BY <2>1, <2>3, <2>4, <2>5
<1>2. VfsInv => ContentsMatch
  BY <1>1 DEF ContentsMatch, VfsInv, State, Tree
<1> QED BY <1>2, VfsInvAlways, PTL

\* Files created between two calls of vfs_readdir push no entry that is still
\* to be listed in front of the position.
THEOREM ListingMissesNothingAlways == Spec => []ListingMissesNothing
<1>1. VfsInv => ListingMissesNothing
  <2> SUFFICES ASSUME VfsInv, NEW fd \in FD, Open(fd), NEW x \in fd_table[fd].todo
               PROVE  \E k \in {j \in DOMAIN inode[fd_table[fd].ino].entries : j > fd_table[fd].pos} :
                         x = inode[fd_table[fd].ino].entries[k]
    BY DEF ListingMissesNothing
  <2>1. PICK n, pos, todo, s : /\ n = fd_table[fd].ino /\ pos = fd_table[fd].pos
                               /\ todo = fd_table[fd].todo /\ s = inode[n].entries
    OBVIOUS
  <2>2. n \in Ino /\ inode \in [Ino -> InodeType] /\ Ahead(todo, pos, s)
    BY <2>1, StateFacts, FileFields DEF VfsInv, State, Sound, Open
  <2>3. s \in Seq(Entry)
    BY <2>1, <2>2, InodeFields
  <2>4. pos \in Nat /\ \E k \in (pos + 1)..Len(s) : x = s[k]
    BY <2>1, <2>2 DEF Ahead
  <2>5. \E k \in {j \in DOMAIN s : j > pos} : x = s[k]
    BY <2>3, <2>4
  <2> QED BY <2>1, <2>5
<1> QED BY <1>1, VfsInvAlways, PTL

----------------------------------------------------------------------------
\* What a path means after vfs_open.

\* What a lookup of `name` finds in directory d.
Finds(t, d, name) ==
    IF Matches(t, d, name) = {} THEN NULL ELSE t[d].entries[Min(Matches(t, d, name))].ino

\* Whatever table t finds in the directories of `a`, u finds too.
Extends(t, a, u) ==
    \A d \in a : /\ u[d].mode = t[d].mode
                 /\ \A name : Finds(t, d, name) # NULL => Finds(u, d, name) = Finds(t, d, name)

LEMMA FindsSame ==
    ASSUME NEW t, NEW u, NEW d, u[d].entries = t[d].entries, NEW name
    PROVE  Finds(u, d, name) = Finds(t, d, name)
<1>1. Matches(u, d, name) = Matches(t, d, name)
  BY DEF Matches
<1> QED BY <1>1 DEF Finds

LEMMA SameTreeExtends ==
    ASSUME NEW t, NEW u, NEW a, a \subseteq Ino, SameTree(t, u)
    PROVE  Extends(t, a, u) /\ Extends(u, a, t)
<1> SUFFICES ASSUME NEW d \in a, NEW name
             PROVE  u[d].mode = t[d].mode /\ Finds(u, d, name) = Finds(t, d, name)
  BY DEF Extends
<1>1. u[d].entries = t[d].entries /\ u[d].mode = t[d].mode
  BY DEF SameTree
<1> QED BY <1>1, FindsSame

LEMMA LookupFinds ==
    ASSUME NEW t, NEW d, NEW name
    PROVE  ramfs_lookup(t, d, name).ino = Finds(t, d, name)
BY DEF ramfs_lookup, Finds

\* One step of a walk, in a table and in one that extends it.
LEMMA StepExtends ==
    ASSUME NEW t, NEW a, NEW N, NEW u, NEW b, NEW M, a \subseteq Ino, Extends(t, a, u),
           NEW r, NEW q, Place(t, a, N, r), Place(u, b, M, q), r.ino # NULL => q.ino = r.ino,
           NEW name, WalkStep(r, name).ino # NULL
    PROVE  WalkStep(q, name).ino = WalkStep(r, name).ino
<1>1. CASE r.ino = NULL
  BY <1>1 DEF WalkStep
<1>2. CASE r.ino # NULL /\ name = DOT
  BY <1>2 DEF WalkStep
<1>3. CASE r.ino # NULL /\ name # DOT /\ ~ IsDir(r.tab, r.ino)
  <2>1. WalkStep(r, name) = [r EXCEPT !.ino = NULL]
    BY <1>3 DEF WalkStep
  <2>2. WalkStep(r, name).ino = NULL
    BY <2>1 DEF Place
  <2> QED BY <2>2
<1>4. CASE r.ino # NULL /\ name # DOT /\ IsDir(r.tab, r.ino)
  <2>1. PICK d : d = r.ino
    OBVIOUS
  <2>2. d \in a /\ d \in Ino /\ q.ino = d /\ d # NULL
    BY <1>4, <2>1 DEF Place, Kept
  <2>3. /\ r.tab[d].entries = t[d].entries /\ r.tab[d].mode = t[d].mode
        /\ q.tab[d].entries = u[d].entries /\ q.tab[d].mode = u[d].mode
    BY <2>2 DEF Place, SameTree
  <2>4. IsDir(q.tab, d)
    BY <1>4, <2>1, <2>2, <2>3 DEF IsDir, Extends
  <2>5. /\ WalkStep(r, name) = ramfs_lookup(r.tab, d, name)
        /\ WalkStep(q, name) = ramfs_lookup(q.tab, d, name)
    BY <1>4, <2>1, <2>2, <2>4 DEF WalkStep
  <2>6. /\ WalkStep(r, name).ino = Finds(r.tab, d, name)
        /\ WalkStep(q, name).ino = Finds(q.tab, d, name)
    BY <2>5, LookupFinds
  <2>7. Finds(r.tab, d, name) = Finds(t, d, name) /\ Finds(q.tab, d, name) = Finds(u, d, name)
    BY <2>3, FindsSame
  <2> QED BY <2>2, <2>6, <2>7 DEF Extends
<1> QED BY <1>1, <1>2, <1>3, <1>4

\* A path that leads somewhere leads there in every table that extends.
LEMMA PathExtends ==
    ASSUME NEW t, NEW a, NEW N, Tree(t, a, N), NEW u, NEW b, NEW M, Tree(u, b, M),
           Extends(t, a, u), NEW path, Len(path) \in Nat,
           ramfs_get_inode_by_path(t, path).ino # NULL
    PROVE  ramfs_get_inode_by_path(u, path).ino = ramfs_get_inode_by_path(t, path).ino
<1>1. PICK w : /\ w[0] = [tab |-> t, ino |-> ROOT]
               /\ \A k \in 1..Len(path) : w[k] = WalkStep(w[k - 1], path[k])
               /\ ramfs_get_inode_by_path(t, path) = w[Len(path)]
  BY WalkIs
<1>2. PICK v : /\ v[0] = [tab |-> u, ino |-> ROOT]
               /\ \A k \in 1..Len(path) : v[k] = WalkStep(v[k - 1], path[k])
               /\ ramfs_get_inode_by_path(u, path) = v[Len(path)]
  BY WalkIs
<1>3. a \subseteq Ino
  BY DEF Tree
<1> DEFINE S == {k \in Nat : k <= Len(path) => /\ Place(t, a, N, w[k]) /\ Place(u, b, M, v[k])
                                               /\ w[k].ino # NULL => v[k].ino = w[k].ino}
<1>4. 0 \in S
  <2>1. Place(t, a, N, w[0]) /\ Place(u, b, M, v[0]) /\ v[0].ino = w[0].ino
    BY <1>1, <1>2, WalkStart
  <2> QED BY <2>1
<1>5. ASSUME NEW k \in Nat, k \in S PROVE k + 1 \in S
  <2> SUFFICES ASSUME k + 1 <= Len(path)
               PROVE  /\ Place(t, a, N, w[k + 1]) /\ Place(u, b, M, v[k + 1])
                      /\ w[k + 1].ino # NULL => v[k + 1].ino = w[k + 1].ino
    OBVIOUS
  <2>1. k + 1 \in 1..Len(path) /\ (k + 1) - 1 = k /\ k <= Len(path)
    OBVIOUS
  <2>2. w[k + 1] = WalkStep(w[k], path[k + 1]) /\ v[k + 1] = WalkStep(v[k], path[k + 1])
    BY <1>1, <1>2, <2>1
  <2>3. Place(t, a, N, w[k]) /\ Place(u, b, M, v[k]) /\ (w[k].ino # NULL => v[k].ino = w[k].ino)
    BY <1>5, <2>1
  <2>4. Place(t, a, N, w[k + 1]) /\ Place(u, b, M, v[k + 1])
    BY <2>2, <2>3, WalkStepPlace
  <2> QED BY <1>3, <2>2, <2>3, <2>4, StepExtends
<1> HIDE DEF S
<1>6. Nat \subseteq S
  BY <1>4, <1>5, SetInduction
<1> QED BY <1>1, <1>2, <1>6 DEF S

\* The last step of a walk.
LEMMA WalkLast ==
    ASSUME NEW t, NEW path \in Seq(Names \cup {DOT}), path # <<>>
    PROVE  ramfs_get_inode_by_path(t, path) =
               WalkStep(ramfs_get_inode_by_path(t, path_dirname(path)), path_basename(path))
<1>1. PICK L, front : L = Len(path) /\ front = path_dirname(path)
  OBVIOUS
<1>2. /\ L \in Nat \ {0} /\ Len(front) = L - 1 /\ path_basename(path) = path[L]
      /\ \A k \in 1..(L - 1) : front[k] = path[k]
  BY <1>1 DEF path_dirname, path_basename, Front, Last
<1>3. PICK w : /\ w[0] = [tab |-> t, ino |-> ROOT]
               /\ \A k \in 1..L : w[k] = WalkStep(w[k - 1], path[k])
               /\ ramfs_get_inode_by_path(t, path) = w[L]
  <2>1. Len(path) \in Nat
    OBVIOUS
  <2> QED BY <1>1, <2>1, WalkIs
<1>4. PICK v : /\ v[0] = [tab |-> t, ino |-> ROOT]
               /\ \A k \in 1..(L - 1) : v[k] = WalkStep(v[k - 1], front[k])
               /\ ramfs_get_inode_by_path(t, front) = v[L - 1]
  <2>1. Len(front) \in Nat
    BY <1>2
  <2> QED BY <1>2, <2>1, WalkIs
<1> DEFINE S == {k \in Nat : k <= L - 1 => v[k] = w[k]}
<1>5. 0 \in S
  BY <1>3, <1>4
<1>6. ASSUME NEW k \in Nat, k \in S PROVE k + 1 \in S
  <2> SUFFICES ASSUME k + 1 <= L - 1 PROVE v[k + 1] = w[k + 1]
    OBVIOUS
  <2>1. k + 1 \in 1..L /\ k + 1 \in 1..(L - 1) /\ (k + 1) - 1 = k /\ v[k] = w[k]
    BY <1>2, <1>6
  <2> QED BY <1>2, <1>3, <1>4, <2>1
<1> HIDE DEF S
<1>7. Nat \subseteq S
  BY <1>5, <1>6, SetInduction
<1>8. v[L - 1] = w[L - 1] /\ L \in 1..L
  BY <1>2, <1>7 DEF S
<1> QED BY <1>1, <1>2, <1>3, <1>4, <1>8

\* A name that was not taken, put in front of a directory's entries, hides
\* no other.
LEMMA CreateExtends ==
    ASSUME NEW t, NEW a, Tree(t, a, next_ino), next_ino \in Ino, NEW d \in a,
           NEW name \in Names \cup {DOT}, NEW mode \in {"dir", "file"}, Finds(t, d, name) = NULL,
           NEW u, u = ramfs_create(t, d, name, mode)
    PROVE  Extends(t, a, u)
<1>1. t \in [Ino -> InodeType] /\ a \subseteq Ino /\ d \in Ino /\ next_ino \notin a
  BY InoFacts DEF Tree
<1>2. PICK s, e : s = t[d].entries /\ e = [name |-> name, ino |-> next_ino]
  OBVIOUS
<1>3. /\ u[d].entries = <<e>> \o s /\ u[d].mode = t[d].mode
      /\ \A n \in Ino : n # d /\ n # next_ino => u[n] = t[n]
  BY <1>1, <1>2, CreateIs
<1>4. s \in Seq(Entry) /\ e \in Entry
  BY <1>1, <1>2, InodeFields DEF Entry
<1>5. /\ Len(<<e>> \o s) = Len(s) + 1 /\ (<<e>> \o s)[1] = e
      /\ \A k \in 1..Len(s) : (<<e>> \o s)[k + 1] = s[k]
  BY <1>4
<1>6. ASSUME NEW x, Finds(t, d, x) # NULL PROVE Finds(u, d, x) = Finds(t, d, x)
  <2>1. PICK A, B : A = Matches(t, d, x) /\ B = Matches(u, d, x)
    OBVIOUS
  <2>2. A # {} /\ x # name
    BY <1>6, <2>1 DEF Finds
  <2>3. A = {k \in 1..Len(s) : s[k].name = x}
    BY <1>2, <1>4, <2>1 DEF Matches
  <2>4. B = {k \in 1..(Len(s) + 1) : (<<e>> \o s)[k].name = x}
    <3>1. DOMAIN (<<e>> \o s) = 1..(Len(s) + 1)
      BY <1>4
    <3> QED BY <1>3, <2>1, <3>1 DEF Matches
  <2>5. \A k \in A : k + 1 \in B
    BY <1>4, <1>5, <2>3, <2>4
  <2>6. \A k \in B : k - 1 \in A
    <3> SUFFICES ASSUME NEW k \in B PROVE k - 1 \in A
      OBVIOUS
    <3>1. k # 1
      BY <1>2, <1>5, <2>2, <2>4
    <3>2. k - 1 \in 1..Len(s) /\ (k - 1) + 1 = k
      BY <1>4, <2>4, <3>1
    <3>3. (<<e>> \o s)[k] = s[k - 1]
      BY <1>5, <3>2
    <3> QED BY <2>3, <2>4, <3>2, <3>3
  <2>7. A \in SUBSET Nat /\ B \in SUBSET Nat /\ B # {}
    <3>1. B # {}
      BY <2>2, <2>5
    <3>2. 1..Len(s) \subseteq Nat /\ 1..(Len(s) + 1) \subseteq Nat
      BY <1>4
    <3> QED BY <2>3, <2>4, <3>1, <3>2
  <2>8. PICK i, j : i = Min(A) /\ j = Min(B)
    OBVIOUS
  <2>9. i \in A /\ j \in B /\ (\A k \in A : i <= k) /\ \A k \in B : j <= k
    BY <2>2, <2>7, <2>8, MinIs
  <2>10. j = i + 1
    <3>1. i + 1 \in B /\ j - 1 \in A /\ i \in Nat /\ j \in Nat
      BY <2>5, <2>6, <2>7, <2>9
    <3>2. i <= j - 1 /\ j <= i + 1
      BY <2>9, <3>1
    <3> QED BY <3>1, <3>2
  <2>11. (<<e>> \o s)[j] = s[i]
    BY <1>5, <2>3, <2>9, <2>10
  <2> QED BY <1>2, <1>3, <2>1, <2>2, <2>7, <2>8, <2>11 DEF Finds
<1>7. ASSUME NEW n \in a PROVE /\ u[n].mode = t[n].mode
                               /\ \A x : Finds(t, n, x) # NULL => Finds(u, n, x) = Finds(t, n, x)
  <2>1. CASE n = d
    BY <1>3, <1>6, <2>1
  <2>2. CASE n # d
    <3>1. u[n] = t[n]
      BY <1>1, <1>3, <2>2
    <3> QED BY <3>1, FindsSame, SMTT(30)
  <2> QED BY <2>1, <2>2
<1> QED BY <1>7 DEF Extends

LEMMA ExtendsTwice ==
    ASSUME NEW t, NEW u, NEW v, NEW a, Extends(t, a, u), Extends(u, a, v)
    PROVE  Extends(t, a, v)
<1> SUFFICES ASSUME NEW d \in a
             PROVE  /\ v[d].mode = t[d].mode
                    /\ \A name : Finds(t, d, name) # NULL => Finds(v, d, name) = Finds(t, d, name)
  BY DEF Extends
<1>1. u[d].mode = t[d].mode /\ v[d].mode = u[d].mode
  BY DEF Extends
<1>2. ASSUME NEW name, Finds(t, d, name) # NULL PROVE Finds(v, d, name) = Finds(t, d, name)
  <2>1. Finds(u, d, name) = Finds(t, d, name)
    BY <1>2 DEF Extends
  <2>2. Finds(v, d, name) = Finds(u, d, name)
    BY <1>2, <2>1 DEF Extends
  <2> QED BY <2>1, <2>2
<1> QED BY <1>1, <1>2

\* What OpenOn leaves of the table it was given.
LEMMA OpenOnExtends ==
    ASSUME NEW t \in [Ino -> InodeType], NEW a, a \subseteq Ino, NEW n \in Ino,
           NEW flags, NEW created, OpenOn(t, n, flags, created)
    PROVE  Extends(t, a, inode')
<1>1. CASE "TRUNC" \in flags
  <2>1. inode' = ramfs_truncate(t, n)
    BY <1>1 DEF OpenOn
  <2>2. SameTree(t, inode')
    BY <2>1, TruncateIs
  <2> QED BY <2>2, SameTreeExtends
<1>2. CASE "TRUNC" \notin flags
  <2>1. inode' = t
    BY <1>2 DEF OpenOn
  <2> QED BY <2>1 DEF Extends
<1> QED BY <1>1, <1>2

\* A vfs_open that creates a file does so under a name that was not taken.
LEMMA CreatesNewName ==
    ASSUME VfsInv, NEW path \in Seq(Names \cup {DOT}), path # <<>>,
           NEW r, r = ramfs_get_inode_by_path(inode, path), r.ino = NULL,
           NEW p, p = ramfs_get_inode_by_path(r.tab, path_dirname(path)), FoundDir(p)
    PROVE  Finds(p.tab, p.ino, path_basename(path)) = NULL
<1>1. PICK front, name, g : /\ front = path_dirname(path) /\ name = path_basename(path)
                            /\ g = ramfs_get_inode_by_path(inode, front)
  OBVIOUS
<1>2. Len(path) \in Nat /\ Len(front) \in Nat
  BY <1>1, PathParts
<1>3. Tree(inode, alive, next_ino) /\ alive \subseteq Ino
  BY StateFacts DEF VfsInv
<1>4. Place(inode, alive, next_ino, r) /\ Place(inode, alive, next_ino, g)
  BY <1>1, <1>2, <1>3, WalkKeeps
<1>5. SameTree(inode, r.tab) /\ r.tab \in [Ino -> InodeType]
  BY <1>4 DEF Place
<1>6. Tree(r.tab, alive, next_ino)
  BY <1>3, <1>5, SameTreeKept
<1>7. Place(r.tab, alive, next_ino, p)
  BY <1>1, <1>2, <1>6, WalkKeeps
<1>8. PICK d : d = p.ino
  OBVIOUS
<1>9. d # NULL /\ d \in Ino /\ IsDir(p.tab, d)
  BY <1>7, <1>8 DEF FoundDir, Place
<1>10. g.ino = d
  <2>1. Extends(r.tab, alive, inode)
    BY <1>3, <1>5, SameTreeExtends
  <2> QED BY <1>1, <1>2, <1>3, <1>6, <1>8, <1>9, <2>1, PathExtends
<1>11. /\ g.tab[d].entries = inode[d].entries /\ g.tab[d].mode = inode[d].mode
       /\ p.tab[d].entries = inode[d].entries /\ p.tab[d].mode = inode[d].mode
  BY <1>4, <1>5, <1>7, <1>9 DEF Place, SameTree
<1>12. r = WalkStep(g, name)
  BY <1>1, WalkLast
<1>13. name # DOT
  BY <1>9, <1>10, <1>12 DEF WalkStep
<1>14. IsDir(g.tab, d)
  BY <1>9, <1>11 DEF IsDir
<1>15. r = ramfs_lookup(g.tab, d, name)
  BY <1>9, <1>10, <1>12, <1>13, <1>14 DEF WalkStep
<1>16. Finds(g.tab, d, name) = NULL
  BY <1>15, LookupFinds
<1>17. Finds(p.tab, d, name) = Finds(g.tab, d, name)
  <2>1. PICK t, u : t = g.tab /\ u = p.tab
    OBVIOUS
  <2>2. u[d].entries = t[d].entries
    BY <1>11, <2>1
  <2>3. Finds(u, d, name) = Finds(t, d, name)
    BY <2>2, FindsSame
  <2> QED BY <2>1, <2>3
<1> QED BY <1>1, <1>8, <1>16, <1>17

\* vfs_open changes what is found in no directory, but for a new name.
LEMMA OpenExtends ==
    ASSUME VfsInv, NEW path \in Seq(Names \cup {DOT}), NEW flags, vfs_open(path, flags)
    PROVE  Extends(inode, alive, inode')
<1>1. PICK r : r = ramfs_get_inode_by_path(inode, path)
  OBVIOUS
<1>2. PICK p : p = ramfs_get_inode_by_path(r.tab, path_dirname(path))
  OBVIOUS
<1>3. Len(path) \in Nat /\ ramfs_fs_open(path, flags)
  BY DEF vfs_open
<1>4. Tree(inode, alive, next_ino) /\ alive \subseteq Ino
  BY StateFacts DEF VfsInv
<1>5. Place(inode, alive, next_ino, r)
  BY <1>1, <1>3, <1>4, WalkKeeps
<1>6. SameTree(inode, r.tab) /\ r.tab \in [Ino -> InodeType] /\ (r.ino # NULL => r.ino \in Ino)
  BY <1>5 DEF Place
<1>7. Extends(inode, alive, r.tab)
  BY <1>4, <1>6, SameTreeExtends
<1>8. CASE r.ino # NULL /\ OpenOn(r.tab, r.ino, flags, FALSE)
  <2>1. Extends(r.tab, alive, inode')
    BY <1>4, <1>6, <1>8, OpenOnExtends
  <2> QED BY <1>7, <2>1, ExtendsTwice
<1>9. CASE r.ino = NULL
  <2>1. path # <<>>
    BY <1>1, <1>9, WalkEmpty, InoFacts
  <2>2. Len(path_dirname(path)) \in Nat /\ path_basename(path) \in Names \cup {DOT}
    BY <2>1, PathParts
  <2>3. Tree(r.tab, alive, next_ino)
    BY <1>4, <1>6, SameTreeKept
  <2>4. Place(r.tab, alive, next_ino, p)
    BY <1>2, <2>2, <2>3, WalkKeeps
  <2>5. SameTree(r.tab, p.tab) /\ p.tab \in [Ino -> InodeType] /\ (p.ino # NULL => p.ino \in alive)
    BY <2>4 DEF Place, Kept
  <2>6. Extends(inode, alive, p.tab)
    <3>1. Extends(r.tab, alive, p.tab)
      BY <1>4, <2>5, SameTreeExtends
    <3> QED BY <1>7, <3>1, ExtendsTwice
  <2>7. CASE OpenFails(p.tab) \/ OpenFails(r.tab)
    BY <1>7, <2>6, <2>7 DEF OpenFails
  <2>8. CASE FoundDir(p) /\ CreateAndOpen(p, path_basename(path), flags)
    <3>1. PICK name, d, u : /\ name = path_basename(path) /\ d = p.ino
                            /\ u = ramfs_create(p.tab, d, name, "file")
      OBVIOUS
    <3>2. CASE OpenFails(p.tab)
      BY <2>7, <3>2
    <3>3. CASE next_ino <= MaxInodes /\ OpenOn(u, next_ino, flags, TRUE)
      <4>1. next_ino \in Ino /\ d \in alive /\ Tree(p.tab, alive, next_ino)
        BY <2>3, <2>5, <2>8, <3>1, <3>3, StateFacts, SameTreeKept DEF VfsInv, FoundDir
      <4>2. Finds(p.tab, d, name) = NULL
        BY <1>1, <1>2, <1>9, <2>1, <2>8, <3>1, CreatesNewName
      <4>3. Extends(p.tab, alive, u)
        BY <2>2, <3>1, <4>1, <4>2, CreateExtends
      <4>4. u \in [Ino -> InodeType]
        <5>1. d \in Ino /\ d # next_ino
          BY <1>4, <4>1, InoFacts DEF Tree
        <5> QED BY <2>2, <2>5, <3>1, <4>1, <5>1, CreateIs
      <4>5. Extends(u, alive, inode')
        BY <1>4, <3>3, <4>1, <4>4, OpenOnExtends
      <4>6. Extends(inode, alive, u)
        BY <2>6, <4>3, ExtendsTwice
      <4> QED BY <4>5, <4>6, ExtendsTwice
    <3> QED BY <2>8, <3>1, <3>2, <3>3 DEF CreateAndOpen
  <2> QED BY <1>1, <1>2, <1>3, <1>9, <2>7, <2>8 DEF ramfs_fs_open
<1> QED BY <1>1, <1>2, <1>3, <1>8, <1>9 DEF ramfs_fs_open

\* Only vfs_open opens a descriptor.
LEMMA OthersOpenNothing ==
    ASSUME VfsInv, Next, ~ \E path \in Paths, flags \in FlagSets : vfs_open(path, flags),
           NEW fd \in FD, fd_table'[fd].ino # NULL
    PROVE  fd_table[fd].ino # NULL
<1>1. fd_table \in [FD -> FileType]
  BY DEF VfsInv, State
<1>2. CASE \E e \in FD : \E q, todo : fd_table' = Moved(fd_table, e, q, todo)
  <2>0. PICK e \in FD : \E q, todo : fd_table' = Moved(fd_table, e, q, todo)
    BY <1>2
  <2>1. PICK q, todo : fd_table' = Moved(fd_table, e, q, todo)
    BY <2>0
  <2>2. PICK f, g : f = fd_table[e] /\ g = [f EXCEPT !.pos = q, !.todo = todo]
    OBVIOUS
  <2>3. f \in FileType /\ g.ino = f.ino
    BY <1>1, <2>2 DEF FileType
  <2>4. fd_table' = [fd_table EXCEPT ![e] = g]
    BY <2>1, <2>2 DEF Moved
  <2>5. fd_table'[fd] = IF fd = e THEN g ELSE fd_table[fd]
    BY <1>1, <2>4
  <2> QED BY <2>2, <2>3, <2>5
<1>3. CASE fd_table' = fd_table
  BY <1>3
<1>4. CASE fd_table' = Forgotten(fd_table)
  <2>1. fd_table'[fd] = [fd_table[fd] EXCEPT !.todo = {}]
    BY <1>4 DEF Forgotten
  <2> QED BY <1>1, <2>1 DEF FileType
<1>5. CASE \E e \in FD : fd_table' = [fd_table EXCEPT ![e] = NOFILE]
  BY <1>1, <1>5 DEF NOFILE
<1>6. CASE \E path \in Paths : vfs_mkdir(path) \/ vfs_unlink(path)
  BY <1>3, <1>4, <1>6 DEF vfs_mkdir, vfs_unlink, ramfs_fs_unlink, Forgotten
<1>7. CASE \E e \in FD : vfs_close(e)
  BY <1>5, <1>7 DEF vfs_close
<1>8. CASE \E e \in FD, bytes \in Chunks : vfs_write(e, bytes)
  <2>1. PICK e \in FD, bytes \in Chunks : vfs_write(e, bytes)
    BY <1>8
  <2>2. fd_table' = Moved(fd_table, e, fd_table[e].pos + Len(bytes), {})
    BY <2>1 DEF vfs_write, Moved
  <2> QED BY <1>2, <2>1, <2>2
<1>9. CASE \E e \in FD, k \in Counts : vfs_read(e, k) \/ vfs_readdir(e, k)
  <2>1. PICK e \in FD, k \in Counts : vfs_read(e, k) \/ vfs_readdir(e, k)
    BY <1>9
  <2>2. PICK f, len, found : /\ f = fd_table[e] /\ len = ReaddirLen(inode, f.ino, f.pos, k)
                             /\ found = SubSeq(inode[f.ino].entries, f.pos + 1, f.pos + len)
    OBVIOUS
  <2>3. CASE vfs_read(e, k)
    <3>1. fd_table' = Moved(fd_table, e, f.pos + ReadLen(inode, f.ino, f.pos, k), {})
      BY <2>2, <2>3 DEF vfs_read, Moved
    <3> QED BY <1>2, <2>1, <3>1
  <2>4. CASE vfs_readdir(e, k)
    <3>1. fd_table' = Moved(fd_table, e, f.pos + len, f.todo \ ToSet(found))
      BY <2>2, <2>4 DEF vfs_readdir, Moved
    <3> QED BY <1>2, <2>1, <3>1
  <2> QED BY <2>1, <2>3, <2>4
<1>10. CASE \E e \in FD, k \in Offsets, whence \in {"SET", "CUR", "END"} : vfs_seek(e, k, whence)
  BY <1>2, <1>10 DEF vfs_seek, Moved
<1>11. CASE UNCHANGED fd_table
  BY <1>3, <1>11
<1> QED BY <1>6, <1>7, <1>8, <1>9, <1>10, <1>11 DEF Next, Calls, WildWrite, Undefined, vars

\* vfs_open changes the meaning of no path that has one: with O_CREAT it
\* creates a file only under a name that is not taken, so the entry it puts in
\* front hides none, and O_TRUNC leaves the names alone.
THEOREM OpenKeepsPathsAlways == Spec => OpenKeepsPaths
<1>1. ASSUME VfsInv, [Next]_vars, NEW fd \in FD, fd_table'[fd].ino # NULL, ~ (fd_table[fd].ino # NULL),
             NEW path \in Paths, ramfs_get_inode_by_path(inode, path).ino # NULL
      PROVE  ramfs_get_inode_by_path(inode', path).ino = ramfs_get_inode_by_path(inode, path).ino
  <2>1. Next
    BY <1>1 DEF vars
  <2>2. PICK p \in Paths, flags \in FlagSets : vfs_open(p, flags)
    BY <1>1, <2>1, OthersOpenNothing
  <2>3. p \in Seq(Names \cup {DOT}) /\ path \in Seq(Names \cup {DOT})
    BY VfsAssumption
  <2>4. Extends(inode, alive, inode')
    BY <1>1, <2>2, <2>3, OpenExtends
  <2>5. Tree(inode, alive, next_ino)
    BY <1>1 DEF VfsInv, State
  <2>6. VfsInv'
    BY <1>1, VfsInvNext
  <2>7. Tree(inode', alive', next_ino')
    BY <2>6 DEF VfsInv, State
  <2>8. Len(path) \in Nat
    BY <2>3
  <2> QED BY <1>1, <2>4, <2>5, <2>7, <2>8, PathExtends
<1>2. VfsInv /\ [Next]_vars =>
        [(\E fd \in FD : Open(fd)' /\ ~Open(fd)) => \A path \in Paths :
            Resolves(path) # NULL => Resolves(path)' = Resolves(path)]_vars
  BY <1>1 DEF Open, Resolves
<1> QED BY <1>2, VfsInvAlways, PTL DEF Spec, OpenKeepsPaths
----------------------------------------------------------------------------
(***************************************************************************)
(* The current directory.  A path the shell promises to follow has its two *)
(* dots at the end or nowhere, so what resolve_path cuts off is what the   *)
(* normal form leaves out.                                                 *)
(***************************************************************************)
Components == Names \cup {DOT}

\* The normal form as a sequence of steps.
IsNormal(w, L, p) ==
    w = [k \in 0..L |-> IF k = 0 THEN <<>> ELSE NormalStep(w[k - 1], p[k])]

LEMMA NormalExists ==
    ASSUME NEW p, NEW L \in Nat
    PROVE  \E w : IsNormal(w, L, p)
<1> DEFINE S == {n \in Nat : \E w : IsNormal(w, n, p)}
<1>1. 0 \in S
  <2> DEFINE w == [k \in 0..0 |-> <<>>]
  <2>1. w = [k \in 0..0 |-> IF k = 0 THEN <<>> ELSE NormalStep(w[k - 1], p[k])]
    OBVIOUS
  <2>2. IsNormal(w, 0, p)
    BY <2>1 DEF IsNormal
  <2> QED BY <2>2
<1>2. ASSUME NEW m \in Nat, m \in S PROVE m + 1 \in S
  <2>1. PICK w : IsNormal(w, m, p)
    BY <1>2
  <2>2. /\ w[0] = <<>>
        /\ \A k \in 0..m : k # 0 => w[k] = NormalStep(w[k - 1], p[k])
    BY <2>1 DEF IsNormal
  <2>3. PICK v : v = [k \in 0..(m + 1) |-> IF k = m + 1 THEN NormalStep(w[m], p[m + 1]) ELSE w[k]]
    OBVIOUS
  <2>4. \A k \in 0..(m + 1) : v[k] = IF k = 0 THEN <<>> ELSE NormalStep(v[k - 1], p[k])
    <3> SUFFICES ASSUME NEW k \in 0..(m + 1)
                 PROVE  v[k] = IF k = 0 THEN <<>> ELSE NormalStep(v[k - 1], p[k])
      OBVIOUS
    <3>1. CASE k = 0
      BY <2>2, <2>3, <3>1
    <3>2. CASE k = m + 1
      <4>1. k - 1 = m /\ m \in 0..(m + 1) /\ m # m + 1 /\ k # 0
        BY <3>2
      <4>2. v[k] = NormalStep(w[m], p[m + 1]) /\ v[m] = w[m]
        BY <2>3, <3>2, <4>1
      <4> QED BY <3>2, <4>1, <4>2
    <3>3. CASE k # 0 /\ k # m + 1
      <4>1. k \in 0..m /\ k - 1 \in 0..m /\ k - 1 \in 0..(m + 1) /\ k - 1 # m + 1
        BY <3>3
      <4>2. v[k] = w[k] /\ v[k - 1] = w[k - 1]
        BY <2>3, <3>3, <4>1
      <4> QED BY <2>2, <3>3, <4>1, <4>2
    <3> QED BY <3>1, <3>2, <3>3
  <2>5. v = [k \in 0..(m + 1) |-> v[k]]
    BY <2>3
  <2>6. v = [k \in 0..(m + 1) |-> IF k = 0 THEN <<>> ELSE NormalStep(v[k - 1], p[k])]
    BY <2>4, <2>5, Zenon
  <2>7. IsNormal(v, m + 1, p)
    BY <2>6 DEF IsNormal
  <2> QED BY <2>7
<1> HIDE DEF S
<1>3. Nat \subseteq S
  BY <1>1, <1>2, SetInduction
<1> QED BY <1>3 DEF S

LEMMA NormalIs ==
    ASSUME NEW p \in Seq(Components)
    PROVE  \E w : /\ w[0] = <<>>
                  /\ \A k \in 1..Len(p) : w[k] = NormalStep(w[k - 1], p[k])
                  /\ Normal(p) = w[Len(p)]
<1>1. Len(p) \in Nat
  OBVIOUS
<1>2. \E w : IsNormal(w, Len(p), p)
  BY <1>1, NormalExists
<1>3. PICK w : IsNormal(w, Len(p), p) /\ Normal(p) = w[Len(p)]
  BY <1>2, Zenon DEF Normal, IsNormal
<1>4. w[0] = <<>> /\ \A k \in 1..Len(p) : w[k] = NormalStep(w[k - 1], p[k])
  BY <1>1, <1>3 DEF IsNormal
<1> QED BY <1>3, <1>4

\* A component more.
LEMMA OneMore ==
    ASSUME NEW p \in Seq(Components), NEW k \in 1..Len(p)
    PROVE  Append(SubSeq(p, 1, k - 1), p[k]) = SubSeq(p, 1, k)
<1>1. SubSeq(p, 1, k - 1) = [x \in 1..(k - 1) |-> p[x]] /\ SubSeq(p, 1, k) = [x \in 1..k |-> p[x]]
  OBVIOUS
<1>2. SubSeq(p, 1, k - 1) \in Seq(Components) /\ Len(SubSeq(p, 1, k - 1)) = k - 1
      /\ SubSeq(p, 1, k) \in Seq(Components) /\ Len(SubSeq(p, 1, k)) = k
  OBVIOUS
<1> QED BY <1>1, <1>2

\* What resolve_path leaves of a path with its first two dots somewhere.
Cut(p) ==
    LET dots == {k \in DOMAIN p : p[k] \in Ups \cup Mids}
    IN  IF dots = {} THEN p
        ELSE SubSeq(p, 1, Min(dots) - (IF p[Min(dots)] \in Ups THEN 2 ELSE 1))

LEMMA CutIsSeq ==
    ASSUME NEW p \in Seq(Components)
    PROVE  Cut(p) \in Seq(Components)
<1> DEFINE dots == {k \in DOMAIN p : p[k] \in Ups \cup Mids}
<1>1. CASE dots = {}
  BY <1>1 DEF Cut
<1>2. CASE dots # {}
  <2>1. dots \in SUBSET Nat
    OBVIOUS
  <2>2. \E x \in dots : \A y \in dots : x <= y
    BY <1>2, <2>1, LeastNat
  <2>3. Min(dots) \in dots
    BY <2>2 DEF Min
  <2>4. PICK e \in {1, 2} : Cut(p) = SubSeq(p, 1, Min(dots) - e)
    BY <1>2 DEF Cut
  <2>5. Min(dots) - e \in Int /\ Min(dots) - e <= Len(p)
    BY <2>3
  <2>6. \A x \in 1..(Min(dots) - e) : p[x] \in Components
    BY <2>5
  <2> QED BY <2>4, <2>5, <2>6
<1> QED BY <1>1, <1>2

LEMMA CutIsNormal ==
    ASSUME NEW p \in Seq(Components), Plain(p)
    PROVE  Cut(p) = Normal(p)
<1> DEFINE dots == {k \in DOMAIN p : p[k] \in Ups \cup Mids}
<1>0. PICK L \in Nat : L = Len(p) /\ DOMAIN p = 1..L
  OBVIOUS
<1>1. PICK w : /\ w[0] = <<>>
               /\ \A k \in 1..L : w[k] = NormalStep(w[k - 1], p[k])
               /\ Normal(p) = w[L]
  BY <1>0, NormalIs
<1>2. \A k \in 1..L : p[k] # DOT /\ p[k] \notin Mids
  BY <1>0 DEF Plain
<1>3. \A k \in 1..L : p[k] \in Ups => k = L /\ p[k] = DOTDOT
  BY <1>0 DEF Plain
<1>4. \A k \in 1..L : p[k] = DOTDOT => k \in dots
  BY <1>0, ShellAssumption
<1>5. \A k \in dots : k = L /\ p[L] = DOTDOT
  BY <1>0, <1>2, <1>3
<1> DEFINE S == {n \in Nat : n <= L /\ n \notin dots => w[n] = SubSeq(p, 1, n)}
<1> HIDE DEF dots
<1>6. 0 \in S
  <2>1. SubSeq(p, 1, 0) = <<>>
    OBVIOUS
  <2> QED BY <1>1, <2>1
<1>7. ASSUME NEW m \in Nat, m \in S PROVE m + 1 \in S
  <2> SUFFICES ASSUME m + 1 <= L, m + 1 \notin dots PROVE w[m + 1] = SubSeq(p, 1, m + 1)
    OBVIOUS
  <2>1. m + 1 \in 1..L /\ m # L /\ m <= L /\ (m + 1) - 1 = m
    OBVIOUS
  <2>2. w[m] = SubSeq(p, 1, m)
    BY <1>5, <1>7, <2>1
  <2>3. p[m + 1] # DOT /\ p[m + 1] # DOTDOT
    BY <1>2, <1>4, <2>1
  <2>4. w[m + 1] = Append(w[m], p[m + 1])
    BY <1>1, <2>1, <2>3 DEF NormalStep
  <2>5. Append(SubSeq(p, 1, (m + 1) - 1), p[m + 1]) = SubSeq(p, 1, m + 1)
    BY <1>0, <2>1, OneMore
  <2> QED BY <2>1, <2>2, <2>4, <2>5
<1> HIDE DEF S
<1>8. Nat \subseteq S
  BY <1>6, <1>7, SetInduction
<1>9. CASE dots = {}
  <2>1. w[L] = SubSeq(p, 1, L)
    BY <1>0, <1>8, <1>9 DEF S
  <2>2. SubSeq(p, 1, L) = p
    BY <1>0
  <2> QED BY <1>1, <1>9, <2>1, <2>2 DEF Cut, dots
<1>10. CASE dots # {}
  <2>1. dots = {L} /\ L \in 1..L /\ p[L] = DOTDOT
    BY <1>0, <1>5, <1>10 DEF dots
  <2>2. Min(dots) = L
    BY <2>1 DEF Min
  <2>3. Cut(p) = SubSeq(p, 1, L - 2)
    BY <2>1, <2>2, <1>10, ShellAssumption DEF Cut, dots
  <2>4. L - 1 \in Nat /\ L - 1 <= L /\ L - 1 \notin dots
    BY <2>1
  <2>5. w[L - 1] = SubSeq(p, 1, L - 1)
    BY <1>8, <2>4 DEF S
  <2>6. w[L] = IF w[L - 1] = <<>> THEN <<>> ELSE Front(w[L - 1])
    BY <1>1, <1>2, <2>1 DEF NormalStep
  <2>7. w[L - 1] \in Seq(Components) /\ Len(w[L - 1]) = L - 1
    BY <1>0, <2>4, <2>5
  <2>8. CASE L = 1
    <3>1. w[L - 1] = <<>>
      BY <2>7, <2>8
    <3>2. SubSeq(p, 1, L - 2) = <<>>
      BY <2>8
    <3> QED BY <1>1, <2>3, <2>6, <3>1, <3>2
  <2>9. CASE L # 1
    <3>1. w[L - 1] # <<>> /\ (L - 1) - 1 = L - 2
      <4>1. L - 1 # 0 /\ (L - 1) - 1 = L - 2
        BY <1>0, <2>9
      <4> QED BY <2>7, <4>1
    <3>2. Front(w[L - 1]) = SubSeq(SubSeq(p, 1, L - 1), 1, L - 2)
      BY <2>5, <2>7, <3>1 DEF Front
    <3>3. SubSeq(SubSeq(p, 1, L - 1), 1, L - 2) = SubSeq(p, 1, L - 2)
      BY <1>0, <2>1, <2>9
    <3> QED BY <1>1, <2>3, <2>6, <3>1, <3>2, <3>3
  <2> QED BY <2>8, <2>9
<1> QED BY <1>9, <1>10

\* The shell is in the directory asked for, if it was one that cd goes to, and
\* so it will be when the `cd` that is running closes what it opened.
CdInv ==
    /\ cwd \in Seq(Components) /\ place \subseteq {cwd}
    /\ pc = "cd" => job.goal[1] \in Seq(Components) /\ job.goal[2] \subseteq {job.goal[1]}

LEMMA ResolvesAsAsked ==
    ASSUME CdInv, NEW a \in Args
    PROVE  resolve_path(a) \in Seq(Components) /\ Asked(a) \subseteq {resolve_path(a)}
<1> DEFINE temp == IF a.abs THEN a.comps ELSE cwd \o a.comps
<1>1. a.abs \in BOOLEAN /\ a.comps \in Seq(Components)
  BY ShellAssumption DEF Components
<1>2. temp \in Seq(Components)
  BY <1>1 DEF CdInv
<1>3. ASSUME NEW p \in IF a.abs THEN {<<>>} ELSE place PROVE p \o a.comps = temp
  <2>1. <<>> \o a.comps = a.comps
    BY <1>1
  <2> QED BY <1>3, <2>1 DEF CdInv
<1>4. resolve_path(a) = Cut(temp)
  BY DEF resolve_path, Cut
<1>5. Cut(temp) \in Seq(Components)
  BY <1>2, CutIsSeq
<1> HIDE DEF temp
<1>6. ASSUME NEW x \in Asked(a) PROVE x = Normal(temp) /\ Plain(temp)
  <2>1. PICK p \in IF a.abs THEN {<<>>} ELSE place : x = Normal(p \o a.comps) /\ Plain(p \o a.comps)
    BY <1>6 DEF Asked
  <2> QED BY <1>3, <2>1
<1>7. ASSUME NEW x \in Asked(a) PROVE x = resolve_path(a)
  BY <1>2, <1>4, <1>6, <1>7, CutIsNormal
<1> QED BY <1>4, <1>5, <1>7

LEMMA CdInvInit == SInit => CdInv
  BY DEF SInit, CdInv

LEMMA CdInvNext == OpenInv /\ CdInv /\ [SNext]_svars => CdInv'
<1> SUFFICES ASSUME OpenInv, CdInv, [SNext]_svars PROVE CdInv'
  OBVIOUS
<1>1. CASE vfs_mount
  BY <1>1 DEF vfs_mount, CdInv
<1>2. CASE panic \/ UNCHANGED svars
  BY <1>2 DEF panic, svars, shell, CdInv
<1>3. CASE MountMkdir
  BY <1>3 DEF MountMkdir, CdInv
<1>4. CASE MountHostname
  BY <1>4 DEF MountHostname, OpenFor, CdInv
<1>5. ASSUME NEW a \in Args, cmd_mkdir(a) \/ cmd_rm(a) PROVE CdInv'
  BY <1>5 DEF cmd_mkdir, cmd_rm, shell, CdInv
<1>6. ASSUME NEW a \in Args, cmd_ls(a) \/ cmd_cat(a) \/ cmd_touch(a) PROVE CdInv'
  BY <1>6 DEF cmd_ls, cmd_cat, cmd_touch, OpenFor, CdInv
<1>7. ASSUME NEW a \in Args, cmd_cd(a) PROVE CdInv'
  <2>1. cwd' = cwd /\ place' = place
    BY <1>7 DEF cmd_cd
  <2>2. \/ pc' = "prompt"
        \/ job' = Job(Min(FreeSlots), <<>>, <<resolve_path(a), Asked(a)>>)
    BY <1>7 DEF cmd_cd, OpenFor
  <2>3. ASSUME pc' = "cd" PROVE job'.goal[1] = resolve_path(a) /\ job'.goal[2] = Asked(a)
    BY <2>2, <2>3 DEF Job
  <2> QED BY <2>1, <2>3, ResolvesAsAsked DEF CdInv
<1>8. ASSUME NEW a \in Args, NEW text \in Texts, cmd_write(a, text) PROVE CdInv'
  BY <1>8 DEF cmd_write, OpenFor, CdInv
<1>9. CASE CdDone
  BY <1>9 DEF CdDone, CloseAndPrompt, InDirectory, CdInv
<1>10. CASE LsRead \/ CatRead \/ WritePiece \/ WriteFails
  BY <1>10 DEF LsRead, CatRead, WritePiece, WriteFails, CdInv
<1>11. CASE Finish
  BY <1>11 DEF Finish, CloseAndPrompt, CdInv
<1> QED BY <1>1, <1>2, <1>3, <1>4, <1>5, <1>6, <1>7, <1>8, <1>9, <1>10, <1>11 DEF SNext

\* After any sequence of `cd` to directories, by name, by absolute path or by a
\* final "..", whatever the other commands do to the tree, the shell is where the
\* user asked to be; a `cd` to any other path ends that until the next absolute
\* one.  (resolve_path cuts a path at its first two dots, and the normal form of
\* those paths takes back one step there.)
THEOREM CwdIsPlaceAlways == SSpec => []CwdIsPlace
<1>1. CdInv => CwdIsPlace
  BY DEF CdInv, CwdIsPlace
<1> QED BY <1>1, OpenInvInit, OpenInvNext, CdInvInit, CdInvNext, PTL DEF SSpec
=============================================================================
