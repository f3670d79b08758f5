-------------------------------- MODULE Vfs --------------------------------
(***************************************************************************)
(* The virtual file system (kernel/fs/vfs.c) with a ramfs mounted on "/":  *)
(* the table of file descriptors and the calls on them.  Every call is one *)
(* step: the kernel has one thread and no interrupt handler uses files.    *)
(*                                                                         *)
(* An allocation inside a call may fail; a call that then changes nothing  *)
(* is not a step.                                                          *)
(***************************************************************************)
EXTENDS Ramfs

CONSTANTS
    FD_MAX,      \* file descriptors (1024 in the code)
    Paths,       \* the paths that are used
    FlagSets,    \* the sets of open flags that are used
    Chunks,      \* the byte sequences that are written
    Counts,      \* how much is read at once
    Offsets      \* the offsets that are sought

FD == 0..(FD_MAX - 1)

ASSUME VfsAssumption ==
    /\ FD_MAX \in Nat \ {0}
    /\ Paths \subseteq Seq(Names \cup {DOT})
    /\ FlagSets \subseteq SUBSET {"CREAT", "TRUNC", "APPEND", "DIRECTORY"}
    /\ Chunks \subseteq Seq(Bytes)
    /\ Counts \subseteq Nat /\ Offsets \subseteq Int

VARIABLES
    fd_table,    \* the file of each descriptor; created and todo are history
    ret,         \* what the last vfs_read or vfs_readdir returned
    written,     \* history: what was last written at each position of a file
    wild         \* history: a write has hit memory that is not the file's

vars == <<fs, fd_table, ret, written, wild>>

\* No file: the descriptor is free.  Of a file, `created` says that this
\* vfs_open created it, and `todo` which of the entries of an open directory
\* vfs_readdir still has to return.
NOFILE == [ino |-> NULL, pos |-> 0, dir |-> FALSE, created |-> FALSE, todo |-> {}]
Open(fd) == fd_table[fd].ino # NULL

Init ==
    /\ RamfsInit
    /\ fd_table = [fd \in FD |-> NOFILE]
    /\ ret = <<>>
    /\ written = [n \in Ino |-> <<>>]
    /\ wild = FALSE

----------------------------------------------------------------------------
FreeSlots == {fd \in FD : ~Open(fd)}

\* The part of a path up to its last slash, "." (which is the walk's start) if
\* there is none, and the part behind it.
path_dirname(path) == Front(path)
path_basename(path) == Last(path)

\* The file system's open failed: the descriptor is given back.
OpenFails(t) ==
    /\ inode' = t
    /\ UNCHANGED <<alive, fd_table, written>>

\* The file is there, or has just been created: fill in the lowest free
\* descriptor.
OpenOn(t, n, flags, created) ==
    LET u == IF "TRUNC" \in flags THEN ramfs_truncate(t, n) ELSE t IN
    /\ inode' = u
    /\ fd_table' = [fd_table EXCEPT ![Min(FreeSlots)] =
                      [ino |-> n, pos |-> IF "APPEND" \in flags THEN u[n].size ELSE 0,
                       dir |-> "DIRECTORY" \in flags, created |-> created,
                       todo |-> IF "DIRECTORY" \in flags /\ flags \cap {"APPEND"} = {}
                                THEN ToSet(u[n].entries) ELSE {}]]
    /\ written' = IF "TRUNC" \in flags THEN [written EXCEPT ![n] = <<>>] ELSE written

\* ramfs_create in the directory r.ino, reached with the table r.tab.
CreateAndOpen(r, name, flags) ==
    \/ /\ next_ino <= MaxInodes
       /\ OpenOn(ramfs_create(r.tab, r.ino, name, "file"), next_ino, flags, TRUE)
       /\ alive' = alive \cup {next_ino}
       /\ next_ino' = next_ino + 1
    \/ /\ next_ino <= MaxInodes      \* no memory for the directory entry
       /\ OpenFails(r.tab)
       /\ next_ino' = next_ino + 1
    \/ /\ OpenFails(r.tab)           \* no memory for the inode
       /\ UNCHANGED next_ino

\* Mutant: O_CREAT creates the file without looking for it.
ramfs_fs_open_AlwaysCreates(path, flags) ==
    LET r == ramfs_get_inode_by_path(inode, path)
        p == ramfs_get_inode_by_path(r.tab, path_dirname(path))
    IN  \/ /\ r.ino # NULL /\ "CREAT" \notin flags
           /\ OpenOn(r.tab, r.ino, flags, FALSE)
           /\ UNCHANGED <<alive, next_ino>>
        \/ /\ "CREAT" \in flags
           /\ FoundDir(p)
           /\ CreateAndOpen(p, path_basename(path), flags)

ramfs_fs_open(path, flags) ==
    LET r == ramfs_get_inode_by_path(inode, path)
        p == ramfs_get_inode_by_path(r.tab, path_dirname(path))
    IN  \/ /\ r.ino # NULL
           /\ OpenOn(r.tab, r.ino, flags, FALSE)
           /\ UNCHANGED <<alive, next_ino>>
        \/ /\ r.ino = NULL /\ "CREAT" \in flags
           /\ FoundDir(p)
           /\ CreateAndOpen(p, path_basename(path), flags)
        \/ /\ r.ino = NULL /\ "CREAT" \in flags
           /\ ~FoundDir(p)
           /\ OpenFails(p.tab)
           /\ UNCHANGED next_ino
        \/ /\ r.ino = NULL /\ "CREAT" \notin flags
           /\ OpenFails(r.tab)
           /\ UNCHANGED next_ino

vfs_open(path, flags) ==
    /\ FreeSlots # {}
    /\ ramfs_fs_open(path, flags)
    /\ ret' = <<>>
    /\ UNCHANGED wild

\* ramfs_file_close does nothing.
vfs_close(fd) ==
    /\ Open(fd)
    /\ fd_table' = [fd_table EXCEPT ![fd] = NOFILE]
    /\ ret' = <<>>
    /\ UNCHANGED <<fs, written, wild>>

vfs_read(fd, count) ==
    LET f == fd_table[fd] IN
    /\ Open(fd)
    /\ ret' = ramfs_file_read(inode, f.ino, f.pos, count)
    /\ fd_table' = [fd_table EXCEPT ![fd].pos = @ + ReadLen(inode, f.ino, f.pos, count),
                                    ![fd].todo = {}]
    /\ UNCHANGED <<fs, written, wild>>

\* The history a write leaves: positions never written hold 0.
Overlay(old, pos, bytes) ==
    [k \in 1..Max({Len(old), pos + Len(bytes)}) |->
        IF k > pos /\ k <= pos + Len(bytes) THEN bytes[k - pos]
        ELSE IF k <= Len(old) THEN old[k] ELSE 0]

vfs_write(fd, bytes) ==
    LET f == fd_table[fd] IN
    /\ Open(fd) /\ f.pos >= 0 /\ f.pos + Len(bytes) <= MaxSize
    /\ inode' = ramfs_file_write(inode, f.ino, f.pos, bytes)
    /\ fd_table' = [fd_table EXCEPT ![fd].pos = @ + Len(bytes), ![fd].todo = {}]
    /\ written' = [written EXCEPT ![f.ino] = Overlay(@, f.pos, bytes)]
    /\ ret' = <<>>
    /\ UNCHANGED <<alive, next_ino, wild>>

\* A write at a negative position.  Its end is a small number again, and the
\* bytes go in front of the buffer; or it is not, and of the memory that is
\* asked for, twice as much, only the low 32 bits are, nearly all memory,
\* which kmalloc's sum wraps around to less than nothing and memset clears.
\* What happens next is not modelled.
WildWrite(fd) ==
    /\ Open(fd) /\ fd_table[fd].pos < 0
    /\ wild' = TRUE
    /\ ret' = <<>>
    /\ UNCHANGED <<fs, fd_table, written>>

\* Nothing tests the offset or the sum.  SEEK_END leaves the position alone.
vfs_seek(fd, offset, whence) ==
    LET pos == CASE whence = "SET" -> offset
                 [] whence = "CUR" -> fd_table[fd].pos + offset
                 [] whence = "END" -> fd_table[fd].pos
    IN  /\ Open(fd) /\ -MaxSize <= pos /\ pos <= MaxSize
        /\ fd_table' = [fd_table EXCEPT ![fd].pos = pos, ![fd].todo = {}]
        /\ ret' = <<>>
        /\ UNCHANGED <<fs, written, wild>>

\* Mutant: the walk to the position takes one step too many.
vfs_readdir_SkipsOne(fd, count) ==
    LET f == fd_table[fd]
        len == ReaddirLen(inode, f.ino, f.pos + 1, count)
        found == SubSeq(inode[f.ino].entries, f.pos + 2, f.pos + 1 + len)
    IN  /\ Open(fd) /\ f.dir
        /\ ret' = found
        /\ fd_table' = [fd_table EXCEPT ![fd].pos = @ + len, ![fd].todo = @ \ ToSet(found)]
        /\ UNCHANGED <<fs, written, wild>>

vfs_readdir(fd, count) ==
    LET f == fd_table[fd]
        len == ReaddirLen(inode, f.ino, f.pos, count)
        found == SubSeq(inode[f.ino].entries, f.pos + 1, f.pos + len)
    IN  /\ Open(fd) /\ f.dir
        /\ ret' = found
        /\ fd_table' = [fd_table EXCEPT ![fd].pos = @ + len, ![fd].todo = @ \ ToSet(found)]
        /\ UNCHANGED <<fs, written, wild>>

\* mkdir does not look whether the name is taken.
ramfs_fs_mkdir(path) ==
    LET p == ramfs_get_inode_by_path(inode, path_dirname(path)) IN
    \/ /\ FoundDir(p) /\ next_ino <= MaxInodes
       /\ inode' = ramfs_create(p.tab, p.ino, path_basename(path), "dir")
       /\ alive' = alive \cup {next_ino}
       /\ next_ino' = next_ino + 1
    \/ /\ FoundDir(p) /\ next_ino <= MaxInodes      \* no memory for the entry
       /\ inode' = p.tab /\ next_ino' = next_ino + 1
       /\ UNCHANGED alive
    \/ /\ inode' = p.tab       \* no such directory, or no memory for the inode
       /\ UNCHANGED <<alive, next_ino>>

vfs_mkdir(path) ==
    /\ path # <<>> /\ ramfs_fs_mkdir(path)
    /\ ret' = <<>>
    /\ UNCHANGED <<fd_table, written, wild>>

ramfs_fs_unlink(path) ==
    LET p == ramfs_get_inode_by_path(inode, path_dirname(path))
        found == FoundDir(p) /\ Matches(p.tab, p.ino, path_basename(path)) # {}
        u == ramfs_unlink(p.tab, p.ino, path_basename(path))
    IN  \/ /\ found
           /\ inode' = u.tab
           /\ alive' = IF Reclaimable(u.tab, u.ino) THEN alive \ {u.ino} ELSE alive
           /\ fd_table' = [fd \in FD |-> [fd_table[fd] EXCEPT !.todo = {}]]
        \/ /\ ~found
           /\ inode' = p.tab
           /\ UNCHANGED <<alive, fd_table>>

vfs_unlink(path) ==
    /\ path # <<>> /\ ramfs_fs_unlink(path)
    /\ ret' = <<>>
    /\ UNCHANGED <<next_ino, written, wild>>

\* One call, with what it is called with.
Calls(paths, flagSets, chunks, counts, offsets) ==
    /\ ~wild
    /\ \/ \E path \in paths, flags \in flagSets : vfs_open(path, flags)
       \/ \E path \in paths : vfs_mkdir(path) \/ vfs_unlink(path)
       \/ \E fd \in FD : vfs_close(fd)
       \/ \E fd \in FD, bytes \in chunks : vfs_write(fd, bytes) \/ WildWrite(fd)
       \/ \E fd \in FD, k \in counts : vfs_read(fd, k) \/ vfs_readdir(fd, k)
       \/ \E fd \in FD, k \in offsets, whence \in {"SET", "CUR", "END"} : vfs_seek(fd, k, whence)

\* What the program does after a wild write is not modelled.
Undefined == wild /\ UNCHANGED vars

Next == Calls(Paths, FlagSets, Chunks, Counts, Offsets) \/ Undefined

Spec == Init /\ [][Next]_vars

----------------------------------------------------------------------------
FileType == [ino : Ino \cup {NULL}, pos : Int, dir : BOOLEAN, created : BOOLEAN,
             todo : SUBSET [name : Names \cup {DOT}, ino : Ino]]

TypeOK ==
    /\ inode \in [Ino -> InodeType]
    /\ alive \subseteq Ino
    /\ next_ino \in 2..(MaxInodes + 1)
    /\ fd_table \in [FD -> FileType]
    /\ written \in [Ino -> Seq(Bytes)]
    /\ wild \in BOOLEAN

\* Directory entries that name inode n.
EntriesOf(n) ==
    UNION {{<<d, k>> : k \in {j \in DOMAIN inode[d].entries : inode[d].entries[j].ino = n}} : d \in alive}

\* An inode's link count is what ramfs_create and ramfs_unlink mean by it:
\* one for each entry that names it (the root: one), and for a directory one
\* for each entry in it.
LinkCountsExact ==
    \A n \in alive : inode[n].nlinks = Cardinality(EntriesOf(n)) + Len(inode[n].entries)
                                         + (IF n = ROOT THEN 1 ELSE 0)

\* Whatever is removed, and in whatever order, no directory entry is left
\* that names freed memory, not even in a directory that was itself removed
\* while it had entries.
NoDanglingEntries ==
    \A d \in alive : \A k \in DOMAIN inode[d].entries : inode[d].entries[k].ino \in alive

\* A file that was found by a lookup outlives its descriptor: vfs_unlink of
\* an open file removes the name only.
FoundFilesStay ==
    \A fd \in FD : Open(fd) /\ ~fd_table[fd].created => fd_table[fd].ino \in alive

\* The bytes of a file are what was last written at each position, 0 where
\* nothing was: through growth of the buffer, seeks in both directions and the
\* holes they leave, several descriptors and truncation by one of them.  (Up
\* to the first write at a position that vfs_seek made negative: vfs.c:163
\* rejects none, and ramfs.c:231 adds to it what wraps around.)
ContentsMatch ==
    ~wild => \A n \in alive : SubSeq(inode[n].data, 1, inode[n].size) = written[n]

\* A directory may be listed by several calls of vfs_readdir, with any number
\* of files created in between: of the entries that were there when it was
\* opened, none that is still to be returned is before the position.  (An
\* unlink moves entries across the position; a seek, and a read or a write,
\* which nothing rejects on a directory, move the position by bytes.  These
\* end the promise.)
ListingMissesNothing ==
    \A fd \in FD : LET f == fd_table[fd] IN
        Open(fd) => f.todo \subseteq
            {inode[f.ino].entries[k] : k \in {j \in DOMAIN inode[f.ino].entries : j > f.pos}}

\* vfs_open, with or without O_CREAT, changes the meaning of no path.
Resolves(path) == ramfs_get_inode_by_path(inode, path).ino
OpenKeepsPaths ==
    [][(\E fd \in FD : Open(fd)' /\ ~Open(fd)) => \A path \in Paths :
            Resolves(path) # NULL => Resolves(path)' = Resolves(path)]_vars
=============================================================================
