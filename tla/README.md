# EarlnuxOS in TLA+

A verification project for the EarlnuxOS kernel: a single-core, 32-bit x86
hobby kernel in C with a shell. The modules translate the kernel's state
machines from the C sources; TLC checks them on small instances, and TLAPS
proves the most important results for every value of the constants.

## 1. The system

One thread runs for the whole life of the kernel: `kernel_main` initialises the
drivers, executes `sti` (kernel/kernel.c:571) and then loops over login and
shell for ever. The only concurrency is between that thread and interrupt
handlers, which run with interrupts off from the stub's `cli` to its `iret`
(kernel/arch/x86/isr_common.asm) and acknowledge the PIC before the registered
handler is called (kernel/arch/x86/isr.c). There is no second thread, no lock
and nothing is persisted.

| Component | State | Operations | Interacts with |
|---|---|---|---|
| Keyboard driver (drivers/keyboard.c) | ring buffer with head and tail, three modifier flags | IRQ1 handler, `keyboard_getchar`, `keyboard_has_data` | shell and login read it; IRQ0 wakes its `hlt` |
| Timer (drivers/pit.c) | `timer_ticks`, divisor | IRQ0 handler, `timer_get_uptime_ms` | wakes every `hlt`; `uptime` |
| Interrupt core (arch/x86/idt.c, isr.c, *.asm, drivers/pic.c) | handler table, PIC masks | register, dispatch, EOI, mask and unmask | all drivers |
| Physical memory (mm/pmm.c) | page descriptors, three zones of buddy free lists | `pmm_init`, `pmm_alloc_pages`, `pmm_free_pages`, statistics | fed by the boot memory map; used by paging |
| Virtual memory (mm/vmm.c) | page directories and tables | map, unmap, translate, clone, destroy, switch | takes frames from physical memory |
| Heap (mm/heap.c) | block headers in a growing arena, free list, counters | `kmalloc`, `kfree`, `krealloc`, `heap_expand` | used by everything that allocates |
| Bump allocator (mm/mm.c) | `heap_used` | `kmalloc`; `kfree` does nothing | the allocator the Makefile links in place of the three above |
| VFS (fs/vfs.c) | file systems, mounts, 1024 file descriptors | mount, open, close, read, write, seek, readdir, mkdir, unlink | calls the mounted file system |
| RAMFS (fs/ramfs.c) | inode tree with link and reference counts, file data | lookup, create, mkdir, unlink, truncate, read, write, readdir | below the VFS |
| Shell (kernel.c, shell_math.c) | working directory, line buffer, argument vector | readline, tokenise, path resolution, commands | keyboard, VFS, network, memory |
| Login (user.c) | logged-in user | first-boot set-up, login, logout | keyboard, VFS |
| Console (console.c, klog.c, lib/printf.c) | cursor, colours, VGA cells | putchar, scroll, set cursor, log | every component prints; some print from interrupts |
| Network (net/*.c, drivers/rtl8139.c) | interface table, ARP, static packet buffers, NIC rings | receive from IRQ, send, ping | thread (ping) and IRQ (replies) share buffers |
| PCI (drivers/pci.c), PS/2 controller (drivers/ps2.c), GDT | hardware registers | scan, init | boot |
| procfs, vibefs, UDP, TCP, DHCP, DNS, ps | none | stubs | - |

What is hard to get right here, and what makes each part correct:

* **Keyboard.** IRQ1 and the reader share a ring without a lock, and the reader
  tests the ring before it halts. Correct: every stored character is returned
  once, in order; a character is dropped only when the ring is full; no
  character waits for ever; the Shift flag does not outlive the keys that are down.
* **Physical memory.** Intrusive lists through descriptors that keep stale
  contents, and zone boundaries. Correct: the blocks on the lists and with
  callers partition the usable frames, and an allocation fails only for want of
  memory.
* **Heap.** The same questions for headers that lie in the memory they describe.
* **VFS and RAMFS.** Counts that decide when memory is freed, names created
  twice, positions in a directory that changes, buffers that grow. Correct: no
  name and no descriptor refers to freed memory, paths keep their meaning, a
  file holds what was written.
* **Network.** The NIC, its handler and the thread in every order, static
  buffers shared by handler and thread. Correct: driver and NIC agree on the
  receive ring, no packet is left behind, what should be answered is answered.
* **Virtual memory.** Tables shared between directories, the TLB, memory that
  runs out half way. Correct: the TLB never disagrees with the tables, address
  spaces are isolated, every frame has one owner.
* **Boot and interrupts.** Requests are latched from power-on while segments,
  gates, vectors, handlers and masks are set up one after the other. Correct: no
  interrupt finds anything missing, every one is acknowledged completely, and no
  byte in the keyboard controller is left without its interrupt.
* **Console, login, shell.** Prints from handlers in the middle of the thread's,
  a line that is in a buffer and on the screen, pointers into a buffer that is
  reused, commands of several calls. Correct: writes stay at the screen, what is
  shown is what is in the buffer, what runs is what was typed, no descriptor is
  left open, files and directories are the ones the user means.

## 2. Modules

| Module | Models | State | Actions |
|---|---|---|---|
| `Keyboard` | drivers/keyboard.c, the readers' side of kernel.c, the IRQ path of isr.c, the tick of pit.c | ring, flags, the thread's place in `keyboard_getchar`, bytes in the i8042 | one per scancode handled; one per access of the reader to the shared variables; timer; `sti`; external: key down and up |
| `KeyQueue` | what the ring promises | a bounded queue | put, drop when full, take |
| `KeyboardProofs` | - | - | theorems about `Keyboard` |
| `Pmm` | mm/pmm.c | page descriptors, lists, counters, the running call's locals | one per loop iteration of `pmm_init`, `buddy_free_range`, `buddy_alloc` and `buddy_free` |
| `FrameAllocator` | what `Pmm` promises | the set of blocks held | allocate, free |
| `Heap` | mm/heap.c | headers at their addresses, free list, break | `kmalloc`, `kfree`, `krealloc`, each whole, by callers that free in any order |
| `Ramfs` | fs/ramfs.c | inodes, directory entries in order, data | operators used by `Vfs` |
| `Vfs` | fs/vfs.c over `Ramfs` | descriptors, positions (integers: a seek may make one negative) | the eight calls, each whole |
| `Net` | drivers/rtl8139.c and net/{netif,eth,arp,ip,icmp}.c, `cmd_ping` | receive ring, registers, transmit buffers, static buffers, the thread's place | handler: enter, acknowledge, one packet, leave; thread: one per copy into or out of a shared buffer; NIC: receive, sent |
| `Vmm` | mm/vmm.c, the processor's TLB | frames read as tables and as pages, cr3, TLB, the running call's locals | map, map_range, unmap, clone and its loops, switch, destroy; external: TLB loads, callers |
| `Irq` | `kernel_main` up to `sti`, gdt.c, idt.c, pic.c, pit.c, ps2.c, pci.c, isr.c | masks, requests and in-service bits of the PICs, handlers, the i8042 | one per call of the boot sequence; interrupt, acknowledge, handler; `uptime`; external: tick, packet, key |
| `Console` | console.c, klog.c, the cell isr.c flashes | cells, cursor, the thread's place and registers in `console_putchar` | one per access to row, column and buffer, a scroll row by row; a handler's print and flash |
| `Session` | user.c, `shell_readline`, `tokenize`, `shell_run` over `Console` | line buffer, position, `argv[0]`, account | one per key and per stage of login and shell |
| `Shell` | `mount_initial_fs`, `resolve_path` and the file commands over `Vfs` | working directory, the running command | one per vfs call of a command |
| `Text` | shell_math.c, number conversion of printf.c, `ip4_parse`, `ip4_to_str` | the line typed | type, backspace; the rest are operators |
| `MC*` | - | - | instances for TLC. `MCFiles` puts `Shell` and `Vfs` to three uses with bounds of their own, `MCMemory` runs `Vmm` or `Heap`, `MCHeap` `Heap` alone |
| `NaturalLemmas` | - | - | least elements, induction over a set of numbers, remainders |
| `IrqProofs`, `NetProofs`, `SessionProofs`, `PmmProofs` | - | - | theorems about the module of that name |
| `FileProofs` | - | - | theorems about `Vfs` over `Ramfs` and about `Shell` |
| `MemoryProofs` | - | - | theorems about `Vmm` and, apart from it, about `Heap` |

`PROJECT.json` maps each definition to its lines. Conventions that a reader who
compares module and code should know:

* A handler runs with interrupts off, so its effect on what the thread sees is
  one step. `Net` still splits its handler, because the NIC goes on working.
* The thread's plain variables may be kept in registers by the compiler. Where
  that matters (`tx_desc`) the model chooses between the old and the new value.
* A call that fails and changes nothing is not a step. A call that fails half
  way is.
* Allocation in `Vfs` may fail at any time. Freed memory is a state of an inode
  of its own (`alive`): the linked `kfree` does nothing, so the contents stay
  readable, and the properties ask whether they are still referred to.
* The reference count in `Ramfs` saturates at `MaxRef` = 2. This is exact: no
  code lowers the count, and the only test of it is `<= 1` (ramfs.c:126).
* `Heap` counts in units of `HEAP_ALIGN`. A header that has become the inside of
  a larger block keeps its contents until the caller who owns the block writes
  to it, and a caller writes all of the block or nothing (`WrittenOrNot`).
* `Keyboard` has the Shift codes that a set-1 keyboard sends for no Shift key:
  around the code of an extended key (E0) it may pretend that a Shift goes down
  (`faked`), or that one that is held comes up, and take that back when the key
  comes up. The driver drops the E0 and takes them for real (keyboard.c:77, 87).
* A position in `Vfs` is an integer, and `vfs_seek` adds what it is given. A read
  or a listing at a negative position finds nothing; a write there leaves the
  file's buffer and ends the model (`wild`), as a join of the wrong blocks ends
  `Heap` (`intact`): what is overwritten is other data of the kernel.
* In `Vmm` a frame that is freed keeps its contents, and a directory or table is
  read through its physical address, as the code does: with paging on this works
  only for pages mapped at their own address. Touching another one is a fault,
  where the model stops, or hits a wrong page (`wild`).
* `Irq` models the 8259 as edge-triggered with latched requests, and the i8042
  as one byte that raises IRQ1 when it arrives and not again until it is read.
  Reading the byte takes the request back or not, as PICs differ.
* `Console` splits `console_putchar` at every access of the thread to the row,
  the column and the buffer; the column that is one past the last is visible to a
  handler. Where the C source reads a variable twice the build may load it again
  or keep it in a register, and the model chooses, except between the test and
  the decrement of a backspace, for which the build (-O2, Makefile:10) has one
  load. A handler's print is one step. The branches of `console_putchar` for a
  TAB and a carriage return are left out: no string of the kernel has one, and
  both readers of keys drop the TAB (kernel.c:223, user.c:28).
* `Session` says what of an account is stored only as a choice (all, part or
  nothing); `Shell` has the files. What `user_login_sequence` read of the file is
  not terminated (user.c:66), so that a login whose name and password are not in
  it may succeed all the same; one that fails asks for the name again.
  `tokenize` cuts the first `MaxArgs` words (16 in the code, kernel.c:237).
* `Irq` assumes that the i8042 answers within the 10000 polls ps2.c waits
  (ps2.c:13-41, 68-70); the branches for a controller that does not are left out.
* In `Net` the 4-byte address fields are modelled octet by octet with the load
  of a little-endian CPU, since byte order is what ARP and IP get wrong.
* Interface counters, log messages, checksums and statistics that nothing reads
  back are left out.
* Definitions whose name ends in a suffix after an underscore and whose comment
  starts with "Mutant" are deliberate errors: replacing the definition that
  follows by one of them must violate the property named in `PROJECT.json`.

The Makefile links mm/mm.c, a bump allocator with stubs for `pmm_init` and
`vmm_init`, in place of pmm.c, vmm.c and heap.c; `Pmm`, `Vmm` and `Heap` model
the latter as they stand. `kernel_main` never calls `mount_initial_fs`
(kernel.c:121), so in the booted kernel no file system is mounted; `Shell` starts
with that function, `Vfs` from the state its `vfs_mount` leaves.

## 3. Runs

| Run | Question | Result |
|---|---|---|
| `keyboard_ring` | Is the ring a bounded FIFO queue under every interleaving, and does every character reach the reader although an interrupt may fall between test and `hlt`? | holds |
| `irq_boot` | From power-on to the shell, does every interrupt find what it needs, is it acknowledged completely, and is every byte of the keyboard read in the end? | holds |
| `pmm_blocks` | Do lists, counters and ownership stay exact through any sequence of allocations and frees, and is `FrameAllocator` implemented? | holds |
| `pmm_twice` | Is each entry of the memory map added once (pmm.c:221)? | violated for an entry above 16MB |
| `pmm_kernel` | Is the kernel image reserved (pmm.c:236)? | violated on a map with an entry around it |
| `memory_calls` | Paging: does the TLB agree with the tables, are address spaces isolated, has every frame one owner? Heap: do blocks stay disjoint, is nothing lost, until `coalesce` joins a block with one that is not its neighbour? | holds |
| `heap_prev` | Do blocks stay disjoint whatever `coalesce` joins (heap.c:102)? | violated |
| `files_calls` | Tree: are link counts exact, is nothing freed that a name or a found file refers to, do open and listing keep what was there? File: does it hold what was last written at each position? Shell: does no command leave a descriptor open, does `cat` show what `write` was given, is the shell where `cd` was asked to go? | holds |
| `shell_dotdot` | Does `cd` follow every path (README.md:88, kernel.c:258)? | violated by `cd ../h` |
| `session_line` | Do writes stay at the screen, is the line on the screen the one in the buffer, is what runs the first word typed? | holds |
| `text_lines` | Are arithmetic and addresses read and printed right? | holds |
| `net_path` | Do driver and NIC stay in step, is every packet handled, is an answer with the right contents submitted for every broadcast ping, and is only a ping spoiled in the middle of which the handler sent? | holds |

What the passing runs say beyond the table:

* `EveryCharReturned` rests on the timer. The reader's test-then-halt does lose
  the wake-up of a key that arrives in between; the next tick, at most 1 ms
  later, makes up for it. With IRQ0 masked (the mutant) it fails.
* `ShiftNeverSticks` is one-sided on purpose: with both Shift keys down the
  release of one clears the flag (keyboard.c:80) while the other is held. The
  flag may be off with a Shift key down. It may also be on with none down, while
  an extended key is held for which the keyboard pretends a Shift; what cannot
  happen is that it is on with neither.
* `FoundFilesStay` is about files that a lookup found. A file that the same
  `vfs_open` created has a count one lower, and an unlink frees it under the
  descriptor (section 7).
* `KeyboardNotWedged` is what `ps2_init`'s flush is for: without it a key typed
  before boot stays in the controller, its edge is forgotten when the PIC is
  programmed, and no key ever interrupts again.
* `SpacesIsolated` and `FramesOwnedOnce` except clones that ran out of memory
  (`starved`), because such a clone leaves entries as the frame was. `TlbCoherent`
  is claimed through the end of such a clone as well, but no call follows it in
  the model: with page tables of unknown contents there is nothing to follow.
* `BlocksPartitionMemory`, `NoFalseOOM` and `ImplementsFrameAllocator` are about
  the frames `pmm_init` puts into the lists, whatever these are (`Managed`). They
  include the kernel image, which should not be among them: that is
  `KernelStaysReserved`, and it is violated (`pmm_kernel`).
* Callers of the heap free and resize in any order. `BlocksDisjoint` and
  `NothingLeaks` hold until `coalesce` follows a `prev_phys` that is not the
  block before the one it is freeing (`intact`): so everything else in heap.c,
  the split, the join with the next block, the expansion and the links of the
  list, is right whatever the order. `BlocksApart` is the same without that
  condition and does not hold (`heap_prev`).
* `ContentsMatch` is claimed up to the first write at a negative position.
* `WritesStayNear` is weaker than "inside the screen": a print from a handler that
  finds the column past the last one, or the row below the screen, between two of
  the thread's accesses does write to the row below the last one (console.c:66).
  It never gets further, and the cursor is back on the screen when the thread has
  finished its character.
* `RunsWhatWasTyped` says that a line with a word in it runs its first word, and
  gives for a line of blanks the only cases in which it *can* run a command
  (kernel.c:525): an old word stands past its end, or it is the first line after
  a login, where `argv` is not initialised. It does not say that it then does.
* `CwdIsPlace` follows the user through any sequence of `cd` to a directory by
  name, by absolute path and by a final `..`. A `cd` to any other path, or into a
  file, ends the promise until the next absolute one; such paths are the subject
  of `CdFollowsPath`, which does not hold (`shell_dotdot`).
* `ArithmeticRight` and `AddressRight` compare with definitions that do not scan:
  the value of a numeral by the weight of each position, a line by where its
  operator can stand, an address by the fields between its dots. Numbers that do
  not fit in an int, and octets that do not fit in a byte, are excepted.
  `AddressRight` is about the four octets in memory; the order in which a ping
  puts them on the wire is another matter (section 7).
* `ListingMissesNothing` holds for creations between two `vfs_readdir` calls
  because new entries go to the front and the position counts from the front: an
  entry may be listed twice, none is skipped. An unlink may skip one, and a
  seek, a read or a write through the descriptor, which nothing rejects on a
  directory, moves the position by bytes; the promise ends with these. That
  reads and writes had to be named was found by the proof.
* `PingWhole` draws the line for the static buffers: a ping goes out whole
  unless an answer was sent from the handler while it was being built. An answer
  is built in one handler, so `EchoAnswered` can speak of its contents as they
  are handed to the NIC. What becomes of the transmit buffer afterwards it does
  not say: a thread that was interrupted in `rtl8139_transmit` may write into the
  same one.

## 4. Bounds

| Module | Bound | Why it is enough |
|---|---|---|
| Keyboard | ring of 3 slots, 8 bytes (`MaxBytes`), a letter, a Shift and an arrow key, 4 bytes in the controller (`PortDepth`) | fills, overflows and wraps both indices; the arrow's codes with and without a pretended Shift, in the middle of typing; the theorems remove the bound |
| Pmm | 16 frames, blocks of 1, 2 and 4, two maps: one with a hole and a lone frame, one across all zones; `pmm_kernel`: one entry around the kernel image | a split and a merge of two levels, merges stopped by a hole, by a zone boundary and by the maximal order |
| Files, tree | 4 inodes, 2 descriptors, paths of depth 2 with `.` | a directory with a file, removed and made again while both are open |
| Files, contents | 1 file, 2 descriptors, 5 bytes (`MaxSize`), initial capacity 3 (`MinCap`), seeks by -1, 0 and 3, positions from -1 to 4 | the buffer grows, a hole, an overwrite after a seek back, truncation under a second descriptor, a write at a negative position |
| Heap | 16 units in pages of 4, headers of 2, requests of 1 and 4; `heap_prev`: 15 units in pages of 5 | blocks are split, joined with the next and with the one before, in every order; the heap expands several times and then cannot; the theorems cover every other size |
| Vmm | directories of 4 entries, 8 frames, 1 clone (`MaxClones`), 2 frames with callers (`MaxHeld`), 6 calls (`MaxCalls`); a machine with and one without memory above the identity mapping | map a user page, clone, write on both sides, unmap, switch, destroy; memory ends inside a clone |
| Irq | a card on the slave PIC, one line without a driver, 3 bytes, 4 ticks and packets, 1 uptime | requests of both controllers nested, a byte in the controller before boot and two after |
| Session | 2 rows of 4, line buffer of 5, names of 3, lines cut after 1 word (`MaxArgs`), 7 keys (`MaxKeys`), 1 character from handlers (`MaxLogs`) | a line wraps and scrolls, fills its buffer, is edited back to nothing, has a second word; login, a command and a line of blanks, or logout and login again; a print between any two accesses of the thread |
| Files, shell | 3 inodes, 2 descriptors, files of 5 bytes read 2 at a time (`CatBuf`), directories 2 deep (`MaxDepth`), 1 file with a lost write (`MaxLost`) | a longer text over a shorter one and back, `cd` down, up and to an absolute path, a file removed while it is the directory |
| Text | ints of 6 bits, octets of 4, lines of 6 characters (arithmetic) and 11 (addresses) | negative results, overflow in operands, values and octets, the longest address |
| Net | ring of 32 bytes, 3 packets of lengths 5, 8 and 9, 1 ping, 2 descriptors | three packets pass the end of the ring, with and without padding; descriptors wrap |

`Pmm`'s maps stay below `NPages`: the code's `page_array` covers 1GB and is not
checked against larger maps (pmm.c:57), which the model does not represent. File
positions from 2^31 on, for which the size asked of `kmalloc` (ramfs.c:234) no
longer fits in 32 bits, are not represented either; negative ones, which end in
the same way, are.

The uses that `MCFiles` and `MCMemory` put a system to share no state; such a run
is the union of theirs.

## 5. Fairness

* `Keyboard!FairSpec`: the thread runs when it is not halted (there is no other
  thread), the timer ticks (1000 Hz, never masked after boot), and a pending
  IRQ1 is delivered while interrupts are on. Nothing obliges anybody to press a
  key or a full ring to be read faster.
* `Net!FairSpec`: only the handler. The NIC's line is level-triggered and a
  ping is sent with interrupts on. Neither the thread nor the NIC has to do
  anything.
* `Irq!FairSpec`: the processor executes the boot code and `uptime` to its end,
  takes what is pending while interrupts are on and runs the handler; the
  controller passes a byte on when its buffer is free. Nobody has to type, to
  send a packet or to ask for the uptime.

All other runs check safety only. `CHECK_DEADLOCK FALSE` stands where the bound
on events or calls ends the behaviour: `irq_boot`, `net_path`, `session_line` and
`memory_calls`.

## 6. Proofs

Thirty-two results are proved for every value of the constants: thirty-two of the
thirty-nine properties of the passing runs. The assumptions are
the named ASSUMEs of the modules, which TLC evaluates in the runs, and one
hypothesis (`StartsOutsideNormal`, below). Where a proof needs induction
it is over a set of numbers, `SetInduction` in `NaturalLemmas`: if 0 is in S and
S is closed under successor then Nat is a subset of S. The set is
defined by the property, so no operator has to be instantiated.

**`KeyboardProofs`**, for every ring size of at least 2, every pair of tables
and any number of bytes: `TypeCorrect`; `NothingLostAlways`, returned characters
followed by the unread slots are the stored characters;
`ReaderHoldsOldestAlways`, no interrupt reuses the slot the reader is about to
release; `ImplementsQueueAlways`, the ring refines `KeyQueue` with capacity
`KB_BUF_SIZE - 1`; `ShiftNeverSticksAlways`.

The ring needs `RingInv == TypeOK /\ ReaderKnows /\ RingMatchesLog`.
`NothingLost` is not inductive: it speaks of the sequence of unread characters,
and a step of the handler has to know slot by slot that the j-th unread slot
holds the (Len(got) + j)-th stored character (`RingMatchesLog`), while the
reader's last step has to know that the slot it releases is not empty and that
`c` is what the slot holds (`ReaderKnows`). Distances in the ring are written
with IF in place of %, which keeps them linear. `ShiftNeverSticks` speaks of the moment
when the controller is empty; `ShiftInv` speaks of the bytes on their way: if the
last Shift code among them is a make code, that key is down or a Shift is
pretended, and if there is none the flag itself is right. The two or four bytes of
an extended key come as one, so the lemmas about `Send` are about a sequence of
codes.

**`IrqProofs`**, for every set of cards and lines, every boot-time request and
any number of events: `NoStrayInterruptAlways`, `NothingInServiceAlways`,
`KeyboardNotWedgedAlways`. `IrqInv` adds to the first what each boot step leaves
for the later ones (`Prepared`: from which place of the boot sequence on the GDT,
the IDT and the vectors are in place and every enabled line has its handler),
that a handler runs only with
interrupts off and alone (`OneAtATime`), which lines are in service while it
does (`InService`), what the i8042 holds at each step of `ps2_init`, and that
afterwards a byte in it has its request pending or its handler running
(`Controller`).

**`NetProofs`**, for every ring size and every set of packets and any number of
them: `RxInStepAlways`, `EchoAnsweredAlways`, `PingWholeAlways`. The invariant is
`RxInv /\ EchoInv /\ SendInv`. `RxInStep` compares two offsets; its proof has to
know where every unread packet is, which `RxInv` says with a function of
cumulative distances: packet j of the unread ones starts d[j] bytes after the
driver's offset, the distances add up by rounded packet lengths, they end where
the NIC writes next, and together fit in the ring (`Chain`). `EchoInv` counts
requests handled and answers submitted. `SendInv` follows a ping through the
static buffers place by place. `NetAssumption` asks that the ring size is a
multiple of 4 that divides 65536, as the code's 8192 is (the 16-bit read pointer
would otherwise not wrap with the ring), and that a packet with its header fits
in the ring, which the NIC guarantees.

**`SessionProofs`**, for every screen and buffer size, every line and any
interleaving with the handlers' prints: `WritesStayNearAlways`,
`RunsWhatWasTypedAlways` and `ScreenShowsLineAlways`. `CursorInv` says, for each of the
nine places in `console_putchar`, where the cursor and the thread's registers can
be: the column is past the last one only before its test (`wrap`), and the
row below the screen only before the scroll is done; then the thread's register
says the same, so that its test comes out right whether it loads again or not. `LineInv`
says that the cells in front of `pos` are typed characters and that a finished
line is terminated; with it the tokenizer's scan stops inside the buffer.
`DisplayInv` follows the echo of a key through `console_putchar`: between keys
the cells before the cursor, read row by row, are the line in the buffer; in the
middle of an echo the line ends at the cursor or one cell before it, depending on
what is left to print (`Still`). In the middle of a scroll the screen shows the
line in two parts, one of them moved already; `Ahead` is the screen as it will be
when the rest has moved, and shows the line whole. Its assumption,
`LineOnScreen`, says that a full line leaves the screen a row to scroll: 255
characters on 24 rows of 80 in the code. Otherwise the start of the line would
scroll away.

**`PmmProofs`**, for every number of frames and orders, every layout of the
zones and any sequence of calls, at every iteration of every loop:
`PmmTypeOK`; `BlocksPartitionMemoryAlways`; `ListsWellFormedAlways`;
`PmmImplementsFrameAllocator`. The theorems have the hypothesis
`StartsOutsideNormal`: no usable entry of the memory map starts in the zone
NORMAL. It is necessary, as `pmm_twice` shows with such an entry, and the maps
of `pmm_blocks` satisfy it. What is partitioned are the frames `pmm_init` has put
into the lists (`Managed`, and the constant of `FrameAllocator` with it): the
theorems say that the allocator gives each of these to one owner at a time,
and not that the kernel image should be among them (`pmm_kernel`).

`PmmInv == Typed /\ Control /\ FlagsInv /\ \E H, rk : Owned(H, rk)`. The lists
are intrusive, so that "the free blocks" is itself a claim: H is the set of their
first frames and rk a rank that falls along every `next`. `Owned` says that the
links of H are doubly linked lists, one for each zone and order, with their
heads in `free_list`; that the counters are the sizes of these sets; and that the
blocks of H, the callers' and the one in hand are pairwise disjoint and add up to
what has been given so far. A rank, and not a sequence per list, makes an
insertion at the head and a removal from the middle a change of three links.
`Control` relates the loops' locals to the entry that is being added, and the
arithmetic lemmas say that aligned blocks are nested or disjoint and that two
buddies make one aligned block of the next order.

**`FileProofs`**, for every number of inodes and descriptors, every path and any
sequence of calls: of `Shell`, `NothingLeftOpenAlways` and `CwdIsPlaceAlways`; of `Vfs`, `VfsTypeOK`,
`LinkCountsExactAlways`, `NoDanglingEntriesAlways`, `FoundFilesStayAlways`,
`ContentsMatchAlways`, `ListingMissesNothingAlways` and the action property
`OpenKeepsPathsAlways`: every property of `files_calls` but `CatShowsText`.

`OpenInv` names, for every place of every command, the one descriptor that is
open. `VfsInv` has three parts. `Tree`: entries name allocated inodes that are
younger than their directory, no two name the same one, every link count is
exact and no reference count is 0. Uniqueness is what makes the removal of an
entry safe, and age is what keeps an inode from being its own directory, where
unlinking would lower one count twice. `Sound`: a descriptor's file has been
numbered; a file that was found is the root or has a second reference, so that
no unlink reclaims it; what is to be listed is behind the position. `Stored`: the
buffer holds the written bytes and zeroes up to its capacity, not only up to the
size; otherwise a write behind the end would uncover old bytes. Positions are any
integers: a read or a listing at a negative one finds nothing, and a write there
is where `ContentsMatch` ends (`wild`). A path walk is a
recursive function and its result is reached by induction along the path
(`WalkKeeps`: a walk only takes references, and ends nowhere or at an inode it
keeps). `OpenKeepsPaths` is proved from a relation of tables, `Extends`:
whatever the old one finds in a directory, the new one finds; `CreateExtends`
needs that the name was not taken, which is what `vfs_open`'s failed lookup
shows (`CreatesNewName`), although the lookup of the directory that follows it
starts from a table with other reference counts. `CwdIsPlace` compares the
path `resolve_path` leaves with the place the user means, which is known (`place`
is not empty) as long as every path since the last absolute one was plain. `CdInv`
carries the agreement through a `cd` whose vfs calls are still to come; for paths with
dots at the end or nowhere, what the code does, cutting at the first `..` and
dropping one component, is what the recursive `Normal` computes (`CutIsNormal`).

**`MemoryProofs`**, of `Vmm`, for every number of entries in a table, every
layout of the memory (`VmmSizes`, `VmmMemory`: memory lies below the kernel's
share of the address space, `vmm_init`'s pages and the kernel's directory are
memory and not the allocator's) and any sequence of calls, at every iteration of
every loop: `FramesOwnedOnceAlways`, `SpacesIsolatedAlways`, `TlbCoherentAlways`.

`VmmInv` has two regimes. `Whole` holds until a clone runs out of memory.
`Owned` divides the allocator's frames among the allocator, the callers, the
directories and the *slots*, which are the places in a directory's own tables
that can name a frame; every frame is at one place. What a directory's own table
is depends on where `vmm_clone_dir` is: entries of the new directory that have
not been reached hold whatever the frame held before, and `Tb` and `Pg` do not
count them. The three ways in which a step moves frames (pass, give, take) are
lemmas about such divisions, `ApartPass`, `ApartGive` and `ApartTake`. `Views`
says for each directory which frame holds what was last written to each user
page, in a clone for the pages already copied. `Shared` and `Identity` speak of
the kernel's tables and low pages. With paging on, the directory is the kernel's
(`Paged`), and a clone would have to copy the identity mapping into frames that are themselves
within it, since it can touch no others, and frame 0 is not the allocator's: by a
pigeonhole argument such a clone never completes without running out
(`CloneNeverEnds`). After a clone has run out, `Starved` remains: no
step of a clone writes to the kernel's directory, its tables or the directory
that is copied (`Guarded`). This is enough for `TlbCoherent`.

**`MemoryProofs`**, of `Heap`, for every size of the heap, of pages and of
headers, whatever sizes are asked for and in whatever order callers free:
`BlocksDisjointAlways` and `NothingLeaksAlways`. `HeapInv` says that as long as
`intact` holds there is a sequence s with `Good(heap, s, blocks held)`: s is the
free list, linked both ways (`Linked`); the blocks of s and the held ones follow
each other from 0 to the break without gap or overlap (`Tiles`); and their
headers say which they are (`Marked`). It says nothing of `prev_phys`, because
nothing is true of it: no other part of the code depends on the field, and where
`coalesce` follows it `intact` tells whether it led to the neighbour on the left.
If it did, the join keeps the invariant (`PrevGood`); if not, the claim ends. In
the middle of a call one block is on no list
(`Out`); the helpers' lemmas (`Push`, `free_list_remove`, `maybe_split`,
`coalesce`) go from `Good` to `Out` and back. `Known` relates the history to the
headers: callers hold different blocks, of the sizes they were given, and
`used_bytes` is their sum. The walk of the free list, a recursive function, is
shown to return s by induction.

**Only model-checked:**

* the liveness properties `EveryCharReturned`, `EveryByteRead` and
  `EveryPacketHandled`: the prover has neither fairness nor ENABLED;
* `ArithmeticRight` and `AddressRight` of `Text` and `CatShowsText` of `Shell`:
  they compare folds and recursive definitions with others for every input;
* `NoFalseOOM`: it needs that no two free buddies lie side by side, which also
  depends on the kernel's image being exactly one block whose buddy is not
  managed, and on usable entries of the memory map not touching; the first is
  true of the code's numbers and not in `LayoutAssumption`, the second is up to
  the firmware.

## 7. Findings and observations

The four violations above are recorded in `PROJECT.json` with the lines they
contradict:

* `pmm_twice`: an entry that lies in NORMAL is added to its lists twice
  (pmm.c:222);
* `pmm_kernel`: the kernel's frames are marked reserved (pmm.c:236-240) after
  they have gone to the free lists, which are all the allocator looks at;
* `heap_prev`: `coalesce` trusts `prev_phys` (heap.c:103), which neither a split
  nor a join updates in the block that follows, so that it can join a block with
  a header that is not before it, and a caller's memory becomes part of a free
  block. A caller with one block that resizes it is enough to get there: after two
  growing `krealloc`s from an empty heap the block's `prev_phys` is the header of
  a block that was joined to the one before it and still says FREE;
* `shell_dotdot`: `resolve_path` drops everything after the first `..`, so that
  `cd ../h` goes to the parent.

Seen while modelling, without a run of their own:

Memory
* `total_pages` is only increased for the zone an entry starts in (pmm.c:233),
  so a zone can have more free than total pages;
* the heap's `free_bytes` counts a split's remainder twice (heap.c:86);
* cloning the kernel's directory with paging on meets its identity mapping and
  either faults or runs out of frames; page tables allocated above 8MB fault
  although a comment (vmm.c:234) says all tables are reachable; kernel tables
  made after a clone are not shared with it (vmm.c:153).

Files
* `vfs_unlink` frees an open file if that open created it (ramfs.c:126), since
  only lookups count references; those are never dropped (ramfs.c:86), so files
  that were ever found are never freed;
* `mkdir` of an existing directory hides it (ramfs.c:113); "Ensure /etc exists"
  (user.c:16) does so to /etc;
* with nothing mounted every login runs the first-run set-up and reports that
  the account was created (user.c:63), whatever of it was stored (user.c:48);
* `vfs_seek` takes any offset (vfs.c:163), so that a position can become negative
  or wrap; a write there computes a wrong end (ramfs.c:231) and copies to
  before the file's buffer;
* nothing rejects a read or a write through a directory's descriptor
  (vfs.c:149, vfs.c:156, ramfs.c:228); it moves the position of the listing;
* `strncpy` (lib/string.c:66) writes one byte past its limit.

Shell and console
* `resolve_path` takes names that contain two dots for `..`, and counts `.` as a
  component: `cd .` then `cd ..` stays; `cd` into a file succeeds;
* the credentials read at login are not terminated (user.c:66), so that `strstr`
  goes on into the stack;
* a line of blanks runs an earlier word or an uninitialised pointer
  (kernel.c:525); `logout` returns before `cmd_logout` can reset the directory
  (kernel.c:524);
* a backspace at column 0 stays there, so a wrapped line cannot be wiped from the
  screen (console.c:60);
* "2147483648/4294967295" wraps to the one quotient that traps (shell_math.c:54);
  `ip4_parse` takes octets modulo 256 and anything after a fourth dot.

Devices and network
* both Shift keys share a flag that either release clears (keyboard.c:80), and the
  Shift codes a keyboard sends around extended keys set and clear it as well,
  because the E0 before them is dropped (keyboard.c:77, 87);
* an ARP request for our address is compared in the wrong byte order (arp.c:27),
  as is an IP packet to it (ip.c:29), and a ping leaves with its addresses
  reversed (ip.c:69);
* after an error header the receive loop leaves without going on (rtl8139.c:62);
  the receiver is set up to store good packets only, so it does not happen;
* two RTL8139 cards would share one driver's static state;
* entry.asm clears `eax` before it pushes the multiboot magic, so the memory map
  is never used.

## 8. Not modelled, and the plan

Not modelled: the bump allocator (one counter; its callers see success or
failure), `find_mount` with several mounts (the kernel mounts one file system),
format strings and byte copies, exceptions (they print and halt), commands that
only print, the branches of `console_putchar` for a TAB and a carriage return
(nothing prints one), the timeouts of ps2.c, checksums and packet lengths, the
choice of the virtual interface,
the protocols and file systems that are stubs, colours and the hardware cursor,
and sizes at or above the limits of 32 bits. `Text` is the exception to the
last: it keeps widths. After a write outside a file's buffer and after a join of
the wrong heap blocks the models end.

The modules are as far as the code's own state goes, and every safety property
is proved except the four named at the end of section 6. What a proof of them
would take:

1. `NoFalseOOM` of `Pmm`: the layout of the kernel's image and the distance of
   memory map entries as assumptions, and in `PmmInv` that no two free buddies of
   a zone stand on the list of their order outside `buddy_free`.
2. `CatShowsText` of `Shell`: that the pieces `cat` reads are the file, by
   induction over the reads, on top of `ContentsMatch`.
