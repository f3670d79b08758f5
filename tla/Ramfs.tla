------------------------------- MODULE Ramfs -------------------------------
(***************************************************************************)
(* The RAM file system (kernel/fs/ramfs.c): a tree of inodes with link and *)
(* reference counts, directory entries in a list with the newest first,    *)
(* and file contents in a buffer that grows.                               *)
(*                                                                         *)
(* The kernel calls it from its one thread, and a VFS call makes several   *)
(* of these calls in a row.  So an operation is an operator from an inode  *)
(* table to the table it leaves, and Vfs composes them into actions.       *)
(*                                                                         *)
(* A path is the sequence of its components below the mount point.  DOT is *)
(* a component the walk skips: ".", ".." or, after a trailing slash, the   *)
(* empty one; mkdir and unlink of "/" are those of <<DOT>>.                *)
(*                                                                         *)
(* Memory that has been freed keeps its contents, which is what the        *)
(* allocator the kernel is linked with does (kfree in kernel/mm/mm.c).     *)
(***************************************************************************)
EXTENDS Integers, FiniteSets, FiniteSetsExt, SequencesExt

CONSTANTS
    Names,       \* names of files and directories
    DOT,         \* a component that the walk skips
    MaxInodes,   \* bound: inode numbers
    MaxRef,      \* bound: reference counts from here on are not told apart
    Bytes,       \* the bytes of file contents, 0 included
    MinCap,      \* the smallest buffer (4096 in the code)
    MaxSize      \* bound: file sizes

ASSUME RamfsAssumption ==
    /\ DOT \notin Names
    /\ MaxInodes \in Nat \ {0} /\ MaxRef \in Nat /\ MaxRef >= 2
    /\ 0 \in Bytes /\ MinCap \in Nat \ {0} /\ MaxSize \in Nat

NULL == 0
ROOT == 1
Ino == 1..MaxInodes

VARIABLES
    inode,      \* the inodes, the freed ones included
    alive,      \* the inodes that are allocated
    next_ino

fs == <<inode, alive, next_ino>>

\* ramfs_alloc_inode's inode.  `data` is the buffer, as long as `capacity`.
NewInode(mode) == [mode |-> mode, nlinks |-> 1, ref_count |-> 1,
                   entries |-> <<>>, data |-> <<>>, size |-> 0]

InodeType == [mode : {"dir", "file"}, nlinks : Nat, ref_count : 0..MaxRef,
              entries : Seq([name : Names \cup {DOT}, ino : Ino]),
              data : Seq(Bytes), size : Nat]

\* ramfs_mount: the root directory.
RamfsInit ==
    /\ inode = [n \in Ino |-> NewInode(IF n = ROOT THEN "dir" ELSE "file")]
    /\ alive = {ROOT}
    /\ next_ino = 2

IsDir(t, n) == t[n].mode = "dir"

\* A walk that ended in a directory.
FoundDir(r) == r.ino # NULL /\ IsDir(r.tab, r.ino)

----------------------------------------------------------------------------
\* Positions of the entries of directory d called `name`.
Matches(t, d, name) == {k \in DOMAIN t[d].entries : t[d].entries[k].name = name}

\* Mutant: a lookup does not count as a reference.
ramfs_lookup_NoRef(t, d, name) ==
    IF Matches(t, d, name) = {} THEN [tab |-> t, ino |-> NULL]
    ELSE [tab |-> t, ino |-> t[d].entries[Min(Matches(t, d, name))].ino]

\* The newest entry of that name; the inode found gains a reference.
ramfs_lookup(t, d, name) ==
    IF Matches(t, d, name) = {} THEN [tab |-> t, ino |-> NULL]
    ELSE LET n == t[d].entries[Min(Matches(t, d, name))].ino
         IN  [tab |-> [t EXCEPT ![n].ref_count = Min({@ + 1, MaxRef})], ino |-> n]

WalkStep(r, name) ==
    CASE r.ino = NULL \/ name = DOT -> r
      [] r.ino # NULL /\ name # DOT /\ ~IsDir(r.tab, r.ino) -> [r EXCEPT !.ino = NULL]
      [] OTHER -> ramfs_lookup(r.tab, r.ino, name)

\* Walk a path from the root.  The references the walk takes on the way are
\* kept, also when it fails.
ramfs_get_inode_by_path(t, path) ==
    LET walk[k \in 0..Len(path)] ==
            IF k = 0 THEN [tab |-> t, ino |-> ROOT] ELSE WalkStep(walk[k - 1], path[k])
    IN  walk[Len(path)]

\* Mutant: the directory's link count is not raised.
ramfs_create_NoLink(t, d, name, mode) ==
    [t EXCEPT ![next_ino] = NewInode(mode),
              ![d].entries = <<[name |-> name, ino |-> next_ino]>> \o @]

\* Put a new inode, numbered next_ino, in front of directory d's entries.
ramfs_create(t, d, name, mode) ==
    [t EXCEPT ![next_ino] = NewInode(mode),
              ![d].entries = <<[name |-> name, ino |-> next_ino]>> \o @,
              ![d].nlinks = @ + 1]

\* ramfs_unlink frees the inode of the entry it removed.
Reclaimable(t, n) == t[n].nlinks = 0 /\ t[n].ref_count <= 1

\* Mutant: the directory loses two links for one entry.
ramfs_unlink_TwoLinks(t, d, name) ==
    LET k == Min(Matches(t, d, name))
        n == t[d].entries[k].ino
    IN  [tab |-> [t EXCEPT ![d].entries = RemoveAt(@, k), ![n].nlinks = @ - 1,
                           ![d].nlinks = @ - 2],
         ino |-> n]

\* Mutant: the entry stays in the list.
ramfs_unlink_KeepsEntry(t, d, name) ==
    LET n == t[d].entries[Min(Matches(t, d, name))].ino
    IN  [tab |-> [t EXCEPT ![n].nlinks = @ - 1, ![d].nlinks = @ - 1], ino |-> n]

\* Remove the newest entry called `name`, which there must be.
ramfs_unlink(t, d, name) ==
    LET k == Min(Matches(t, d, name))
        n == t[d].entries[k].ino
    IN  [tab |-> [t EXCEPT ![d].entries = RemoveAt(@, k), ![n].nlinks = @ - 1,
                           ![d].nlinks = @ - 1],
         ino |-> n]

\* ramfs_truncate(n, 0): the buffer goes.
ramfs_truncate(t, n) == [t EXCEPT ![n].data = <<>>, ![n].size = 0]

----------------------------------------------------------------------------
\* File contents.

\* Mutant: the old contents are not copied into the larger buffer.
Grown_NoCopy(data, new_end) ==
    IF new_end <= Len(data) THEN data
    ELSE [k \in 1..(IF new_end < MinCap THEN MinCap ELSE 2 * new_end) |-> 0]

\* The buffer, zero-filled and large enough for new_end bytes.
Grown(data, new_end) ==
    IF new_end <= Len(data) THEN data
    ELSE [k \in 1..(IF new_end < MinCap THEN MinCap ELSE 2 * new_end) |->
             IF k <= Len(data) THEN data[k] ELSE 0]

\* Write the sequence `bytes` at position pos.
ramfs_file_write(t, n, pos, bytes) ==
    LET new_end == pos + Len(bytes)
        buf == Grown(t[n].data, new_end)
    IN  [t EXCEPT ![n].data = [k \in DOMAIN buf |-> IF k > pos /\ k <= new_end
                                                    THEN bytes[k - pos] ELSE buf[k]],
                  ![n].size = IF new_end > @ THEN new_end ELSE @]

\* file->pos is a uint64_t: where pos is negative the code's is 2^64 more,
\* behind the end of every file and every directory.
Behind(pos, end) == pos < 0 \/ pos >= end

\* How many bytes a read of `count` at pos returns.
ReadLen(t, n, pos, count) ==
    IF t[n].data = <<>> \/ Behind(pos, t[n].size) THEN 0 ELSE Min({count, t[n].size - pos})

ramfs_file_read(t, n, pos, count) == SubSeq(t[n].data, pos + 1, pos + ReadLen(t, n, pos, count))

\* How many directory entries a readdir of `count` at pos returns.
ReaddirLen(t, n, pos, count) ==
    IF Behind(pos, Len(t[n].entries)) THEN 0 ELSE Min({count, Len(t[n].entries) - pos})
=============================================================================
