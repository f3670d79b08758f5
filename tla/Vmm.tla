-------------------------------- MODULE Vmm --------------------------------
(***************************************************************************)
(* Two-level paging (kernel/mm/vmm.c): the kernel's page directory, page   *)
(* tables taken from the physical memory manager, cloned directories, and  *)
(* the TLB the processor keeps beside them.                                *)
(*                                                                         *)
(* The code is sequential and no interrupt handler calls it: one call is   *)
(* one step, loops take one step per iteration.  The code dereferences     *)
(* physical addresses, so once paging is on it works only on frames that   *)
(* are mapped at their own address; touching another one is a page fault   *)
(* or hits the wrong page (wild), where the model stops.  A frame keeps    *)
(* its contents when it is freed, as pmm_free_page clears nothing.  Entry  *)
(* flags other than PTE_PRESENT are left out.                              *)
(***************************************************************************)
EXTENDS Naturals, FiniteSets

CONSTANTS
    E,             \* entries of a directory or a table (1024)
    KernelPde,     \* PDE_INDEX(KERNEL_BASE)
    IdPages,       \* pages vmm_init maps at their own address (8MB)
    NFrames,       \* page frames of the physical address space
    KDir,          \* the frame of kernel_pgdir_storage
    Machines,      \* the sets of frames the physical memory manager may own
    Normal,        \* the frames of its Normal zone
    Pages,         \* virtual pages the callers map
    Token,         \* what a page can hold
    MaxHeld,       \* bound: frames callers hold at once
    MaxClones,     \* bound: directories beside the kernel's
    MaxCalls,      \* bound: how many calls are made
    NONE           \* an entry without PTE_PRESENT

Idx    == 0..(E - 1)
VPage  == 0..(E * E - 1)
Frames == 0..(NFrames - 1)
Blank  == [k \in Idx |-> NONE]

ASSUME VmmSizes ==
    /\ E \in Nat \ {0} /\ KernelPde \in Idx /\ NFrames \in Nat
    /\ NFrames <= E * KernelPde /\ IdPages \in 1..(E * KernelPde)
    /\ KDir \in 1..(IdPages - 1) /\ KDir \in Frames
ASSUME VmmMemory ==
    /\ IdPages <= NFrames /\ \A mc \in Machines : mc \subseteq Frames \ {0, KDir}
    /\ Pages \subseteq IdPages..(E * E - 1)
    /\ Token # {} /\ NONE \notin Frames /\ NONE \notin Token
ASSUME VmmBounds == {MaxHeld, MaxClones, MaxCalls} \subseteq Nat

VARIABLES
    mem,       \* mem[f]: frame f read as a directory or a table
    data,      \* data[f]: frame f read as a caller's page
    own,       \* the frames of this machine the allocator manages: read only
    free,      \* those of them it has to give
    cr3, paging, tlb,     \* the processor
    pc,        \* the running loop, "idle" between calls
    dst, src, i, j, pt,   \* vmm_clone_dir's locals; src and i serve map loops too
    p, n,      \* vmm_map_range: the frame to map next, the pages to go
    dirs,      \* the directories that exist
    held,      \* frames a caller holds outside any directory
    calls,     \* how many calls have been made
    starved,   \* history: a clone went on without memory
    wild,      \* history: an address that is not mapped to itself was used
    view       \* history: view[d][v] is what the user page v of d should hold

tables == <<mem, data>>
cpu    == <<cr3, paging>>
regs   == <<pc, dst, src, i, j, pt, p, n>>
ghost  == <<starved, wild>>
vars   == <<tables, own, free, cpu, tlb, regs, dirs, held, calls, ghost, view>>

----------------------------------------------------------------------------
PDE_INDEX(v) == v \div E
PTE_INDEX(v) == v % E

\* The frame page v is mapped to by the directory at frame d (the processor's
\* walk, and vmm_virt_to_phys; no entry ever has PTE_HUGE).
vmm_virt_to_phys(d, v) ==
    LET pde == mem[d][PDE_INDEX(v)] IN
    IF pde = NONE THEN NONE ELSE mem[pde][PTE_INDEX(v)]

\* The frame can be used by its physical address.
Touches(fs) == ~paging \/ \A f \in fs : vmm_virt_to_phys(cr3, f) = f

\* pmm_alloc_page prefers the Normal zone; which free frame it takes is open.
Available == IF free \cap Normal # {} THEN free \cap Normal ELSE free

\* Mutant: the page's old translation stays cached.
vmm_flush_tlb_Missing(v) == UNCHANGED tlb

vmm_flush_tlb(v) == tlb' = {t \in tlb : t[1] # v}

vmm_flush_tlb_all ==
    /\ pc = "idle" /\ paging
    /\ tlb' = {}
    /\ UNCHANGED <<tables, free, cpu, regs, dirs, held, ghost, view>>

\* The processor fills the TLB from the tables at any moment (external); one
\* entry stands for its capacity.
TlbFill(v) ==
    /\ paging /\ ~wild
    /\ vmm_virt_to_phys(cr3, v) # NONE
    /\ tlb' = {<<v, vmm_virt_to_phys(cr3, v)>>}
    /\ UNCHANGED <<tables, free, cpu, regs, dirs, held, ghost, view>>

----------------------------------------------------------------------------
\* Static storage is zeroed.  A kernel either calls vmm_init ("boot") or
\* works with paging off ("idle"), as kernel_main does.
Init ==
    /\ mem = [f \in Frames |-> Blank]
    /\ data = [f \in Frames |-> CHOOSE t \in Token : TRUE]
    /\ own \in Machines /\ free = own
    /\ cr3 = 0 /\ paging = FALSE /\ tlb = {}
    /\ pc \in {"boot", "idle"}
    /\ dst = 0 /\ src = KDir /\ i = 0 /\ j = 0 /\ pt = 0 /\ p = 0 /\ n = 0
    /\ dirs = {KDir} /\ held = {} /\ calls = 0
    /\ starved = FALSE /\ wild = FALSE
    /\ view = [d \in {KDir} |-> [v \in VPage |-> NONE]]

\* vmm_map_page fails when the page has no table and no frame is left for one.
MapFails(d, v) == mem[d][PDE_INDEX(v)] = NONE /\ free = {}

\* The frames vmm_map_page may have to write: the page's table, or a new one.
TableFor(d, v) ==
    IF mem[d][PDE_INDEX(v)] = NONE THEN Available ELSE {mem[d][PDE_INDEX(v)]}

\* What a new page table holds.
alloc_page_table == Blank

\* vmm_map_page(d, v, f), when it does not fail.
MapPage(d, v, f) ==
    LET new == mem[d][PDE_INDEX(v)] = NONE IN
    /\ \E t \in TableFor(d, v) :
          /\ Touches({t})
          /\ mem' = [mem EXCEPT ![t] = [(IF new THEN alloc_page_table ELSE @)
                                          EXCEPT ![PTE_INDEX(v)] = f],
                                ![d] = [@ EXCEPT ![PDE_INDEX(v)] = t]]
          /\ free' = free \ {t}
    /\ vmm_flush_tlb(v)

\* The running call uses an address that is not mapped to itself.
Fault(fs) ==
    /\ \E f \in fs : ~Touches({f})
    /\ wild' = TRUE /\ pc' = "fault"
    /\ UNCHANGED <<tables, free, cpu, tlb, dst, src, i, j, pt, p, n, dirs, held,
                   starved, view>>

----------------------------------------------------------------------------
\* vmm_init: clears the kernel's directory, maps the first pages at their own
\* address (the second range, the VGA frames, is among them), then turns
\* paging on.  i is the next page.
vmm_identity_map ==
    /\ pc = "boot" /\ i < IdPages
    /\ IF MapFails(KDir, i) THEN UNCHANGED <<mem, free, tlb>> ELSE MapPage(KDir, i, i)
    /\ i' = i + 1
    /\ UNCHANGED <<data, cpu, pc, dst, src, j, pt, p, n, dirs, held, ghost, view>>

EnablePaging ==
    /\ pc = "boot" /\ i = IdPages
    /\ cr3' = KDir /\ paging' = TRUE /\ tlb' = {}
    /\ pc' = "idle" /\ i' = 0
    /\ UNCHANGED <<tables, free, dst, src, j, pt, p, n, dirs, held, ghost, view>>

----------------------------------------------------------------------------
\* The callers (external).  They map frames they allocated, kernel pages only
\* through the kernel's directory, and destroy no directory in use.
MayCall == pc = "idle" /\ ~starved

UserPage(v) == PDE_INDEX(v) < KernelPde

CallerAlloc ==
    /\ MayCall /\ Cardinality(held) < MaxHeld
    /\ \E f \in Available : held' = held \cup {f} /\ free' = free \ {f}
    /\ UNCHANGED <<tables, cpu, tlb, regs, dirs, ghost, view>>

CallerFree(f) ==
    /\ MayCall /\ f \in held
    /\ held' = held \ {f} /\ free' = free \cup {f}
    /\ UNCHANGED <<tables, cpu, tlb, regs, dirs, ghost, view>>

\* A program running in directory d writes to its page v.
UserWrite(d, v, t) ==
    /\ MayCall /\ view[d][v] # NONE
    /\ LET f == vmm_virt_to_phys(d, v) IN
       /\ data' = [data EXCEPT ![f] = t]
       /\ mem' = [mem EXCEPT ![f] = Blank]
    /\ view' = [view EXCEPT ![d][v] = t]
    /\ UNCHANGED <<free, cpu, tlb, regs, dirs, held, ghost>>

\* vmm_map_range(d, v, f, size): a run of frames the caller holds.
vmm_map_range(d, v, f, size) ==
    /\ MayCall
    /\ \A k \in 0..(size - 1) :
          /\ f + k \in held /\ v + k \in Pages
          /\ IF UserPage(v + k) THEN view[d][v + k] = NONE
                                ELSE d = KDir /\ vmm_virt_to_phys(d, v + k) = NONE
    /\ pc' = "map" /\ src' = d /\ i' = v /\ p' = f /\ n' = size
    /\ UNCHANGED <<tables, free, cpu, tlb, dst, j, pt, dirs, held, ghost, view>>

\* One iteration: vmm_map_page, whose result is ignored.
MapNext ==
    /\ pc = "map" /\ n > 0
    /\ \/ /\ MapFails(src, i)
          /\ UNCHANGED <<mem, free, tlb, held, view>>
       \/ /\ ~MapFails(src, i)
          /\ Touches({src})
          /\ MapPage(src, i, p)
          /\ held' = held \ {p}
          /\ view' = IF UserPage(i) THEN [view EXCEPT ![src][i] = data[p]] ELSE view
    /\ i' = i + 1 /\ p' = p + 1 /\ n' = n - 1
    /\ UNCHANGED <<data, cpu, pc, dst, src, j, pt, dirs, ghost>>

MapReturn ==
    /\ pc = "map" /\ n = 0
    /\ pc' = "idle" /\ src' = KDir /\ i' = 0 /\ p' = 0
    /\ UNCHANGED <<tables, free, cpu, tlb, dst, j, pt, n, dirs, held, ghost, view>>

MapFaults == pc = "map" /\ n > 0 /\ Fault({src} \cup TableFor(src, i))

\* The frame goes back to the caller.
vmm_unmap_page(d, v) ==
    LET t == mem[d][PDE_INDEX(v)] IN
    /\ MayCall
    /\ UserPage(v) \/ d = KDir
    /\ t # NONE
    /\ Touches({d, t})
    /\ held' = IF mem[t][PTE_INDEX(v)] = NONE THEN held ELSE held \cup {mem[t][PTE_INDEX(v)]}
    /\ Cardinality(held') <= MaxHeld
    /\ mem' = [mem EXCEPT ![t] = [@ EXCEPT ![PTE_INDEX(v)] = NONE]]
    /\ vmm_flush_tlb(v)
    /\ view' = [view EXCEPT ![d][v] = NONE]
    /\ UNCHANGED <<data, free, cpu, regs, dirs, ghost>>

UnmapFaults(d, v) ==
    /\ MayCall /\ mem[d][PDE_INDEX(v)] # NONE
    /\ Fault({d, mem[d][PDE_INDEX(v)]})

----------------------------------------------------------------------------
\* vmm_clone_dir(d): the new directory's frame, or NULL.
vmm_clone_dir(d) ==
    /\ MayCall /\ Cardinality(dirs) <= MaxClones
    /\ \E f \in Available : Touches({d, f}) /\ dst' = f /\ free' = free \ {f}
    /\ src' = d /\ i' = 0 /\ pc' = "clone"
    /\ UNCHANGED <<tables, cpu, tlb, j, pt, p, n, dirs, held, ghost, view>>

CloneFaults(d) ==
    /\ MayCall /\ Cardinality(dirs) <= MaxClones
    /\ Fault({d} \cup Available)

SetPde(e) == mem' = [mem EXCEPT ![dst] = [@ EXCEPT ![i] = e]]
SetPte(e) == mem' = [mem EXCEPT ![pt] = [@ EXCEPT ![j] = e]]

\* An entry that is not present, or the kernel's, is copied as it is.
ClonePde ==
    /\ pc = "clone" /\ i < E
    /\ mem[src][i] = NONE \/ i >= KernelPde
    /\ SetPde(mem[src][i]) /\ i' = i + 1
    /\ UNCHANGED <<data, free, cpu, tlb, pc, dst, src, j, pt, p, n, dirs, held, ghost, view>>

\* A user table gets a copy.  Without memory the loop goes on and the new
\* entry keeps what the frame held before.
CloneTable ==
    /\ pc = "clone" /\ i < E
    /\ mem[src][i] # NONE /\ i < KernelPde
    /\ \/ /\ free = {}
          /\ starved' = TRUE /\ i' = i + 1
          /\ UNCHANGED <<free, pc, j, pt>>
       \/ /\ \E f \in Available : /\ Touches({f, mem[src][i]})
                                  /\ pt' = f /\ free' = free \ {f}
          /\ pc' = "table" /\ j' = 0
          /\ UNCHANGED <<starved, i>>
    /\ UNCHANGED <<tables, cpu, tlb, dst, src, p, n, dirs, held, wild, view>>

\* Mutant: the copy's entry refers to the page of the original.
ClonePage_SamePage ==
    LET s == mem[mem[src][i]][j] IN
    /\ pc = "table" /\ j < E
    /\ SetPte(s) /\ j' = j + 1
    /\ UNCHANGED <<free, starved, data, cpu, tlb, pc, dst, src, i, pt, p, n, dirs, held,
                   wild, view>>

\* An entry of the table: a present page is copied into a frame of its own,
\* again skipped when there is none.
ClonePage ==
    LET s == mem[mem[src][i]][j] IN
    /\ pc = "table" /\ j < E
    /\ \/ /\ s = NONE
          /\ SetPte(NONE)
          /\ UNCHANGED <<data, free, starved>>
       \/ /\ s # NONE /\ free = {}
          /\ starved' = TRUE
          /\ UNCHANGED <<tables, free>>
       \/ /\ s # NONE
          /\ \E f \in Available :
                /\ Touches({f, s})
                /\ free' = free \ {f}
                /\ mem' = [mem EXCEPT ![f] = mem[s], ![pt] = [@ EXCEPT ![j] = f]]
                /\ data' = [data EXCEPT ![f] = data[s]]
          /\ UNCHANGED starved
    /\ j' = j + 1
    /\ UNCHANGED <<cpu, tlb, pc, dst, src, i, pt, p, n, dirs, held, wild, view>>

CloneTableDone ==
    /\ pc = "table" /\ j = E
    /\ SetPde(pt) /\ i' = i + 1 /\ pc' = "clone" /\ pt' = 0 /\ j' = 0
    /\ UNCHANGED <<data, free, cpu, tlb, dst, src, p, n, dirs, held, ghost, view>>

CopyFaults ==
    \/ /\ pc = "clone" /\ i < KernelPde /\ mem[src][i] # NONE
       /\ Fault({mem[src][i]} \cup Available)
    \/ /\ pc = "table" /\ j < E /\ mem[mem[src][i]][j] # NONE
       /\ Fault({mem[mem[src][i]][j]} \cup Available)

CloneReturn ==
    /\ pc = "clone" /\ i = E
    /\ dirs' = dirs \cup {dst}
    /\ view' = [d \in dirs \cup {dst} |-> IF d = dst THEN view[src] ELSE view[d]]
    /\ pc' = "idle" /\ src' = KDir /\ dst' = 0 /\ i' = 0
    /\ UNCHANGED <<tables, free, cpu, tlb, j, pt, p, n, held, ghost>>

----------------------------------------------------------------------------
UserTables(d) == {mem[d][k] : k \in {k \in 0..(KernelPde - 1) : mem[d][k] # NONE}}
PagesOf(t) == {mem[t][k] : k \in {k \in Idx : mem[t][k] # NONE}}

\* Mutant: the kernel's tables are given back as well.
DirFrames_KernelToo(d) ==
    {d} \cup {mem[d][k] : k \in {k \in Idx : mem[d][k] # NONE}}
        \cup UNION {PagesOf(t) : t \in UserTables(d)}

\* What vmm_destroy_dir gives back.
DirFrames(d) == {d} \cup UserTables(d) \cup UNION {PagesOf(t) : t \in UserTables(d)}

vmm_destroy_dir(d) ==
    /\ MayCall /\ d \in dirs \ {KDir, cr3}
    /\ Touches({d} \cup UserTables(d))
    /\ free' = free \cup DirFrames(d)
    /\ dirs' = dirs \ {d}
    /\ view' = [e \in dirs \ {d} |-> view[e]]
    /\ UNCHANGED <<tables, cpu, tlb, regs, held, ghost>>

\* cr3 gets the kernel's translation of the directory's address, 0 if it has
\* none.  The kernel itself must be mapped in the new space.
vmm_switch_dir(d) ==
    LET f == IF vmm_virt_to_phys(KDir, d) = NONE THEN 0 ELSE vmm_virt_to_phys(KDir, d)
    IN  /\ MayCall /\ d \in dirs /\ Touches({KDir})
        /\ cr3' = f /\ tlb' = {}
        /\ wild' = (paging /\ vmm_virt_to_phys(f, KDir) # KDir)
        /\ pc' = IF wild' THEN "fault" ELSE pc
        /\ UNCHANGED <<tables, free, paging, dst, src, i, j, pt, p, n, dirs, held,
                       starved, view>>

----------------------------------------------------------------------------
Callers ==
    \/ CallerAlloc
    \/ \E f \in held : CallerFree(f)
    \/ \E d \in dirs, v \in Pages :
          \/ \E t \in Token : UserWrite(d, v, t)
          \/ \E f \in held, size \in 1..MaxHeld : vmm_map_range(d, v, f, size)
          \/ vmm_unmap_page(d, v)
          \/ UnmapFaults(d, v)
    \/ \E d \in dirs : vmm_clone_dir(d) \/ CloneFaults(d) \/ vmm_destroy_dir(d)
                       \/ vmm_switch_dir(d)
    \/ vmm_flush_tlb_all

Loops ==
    \/ vmm_identity_map \/ EnablePaging
    \/ MapNext \/ MapReturn \/ MapFaults
    \/ ClonePde \/ CloneTable \/ ClonePage \/ CloneTableDone \/ CopyFaults \/ CloneReturn

Next ==
    /\ \/ Callers /\ calls < MaxCalls /\ calls' = calls + 1
       \/ Loops /\ UNCHANGED calls
       \/ \E v \in VPage : TlbFill(v) /\ UNCHANGED calls
    /\ UNCHANGED own

Spec == Init /\ [][Next]_vars

----------------------------------------------------------------------------
\* The processor never uses a translation the tables have lost: every cached
\* entry is what the directory in cr3 says now, whatever was mapped, unmapped
\* or switched since it was cached.
TlbCoherent == ~wild => \A t \in tlb : vmm_virt_to_phys(cr3, t[1]) = t[2]

\* Address spaces are isolated: a user page holds what was last written
\* through its own directory or copied when that was cloned, and a page that
\* was not mapped is not there.  (A clone that ran out of memory excepted.)
SpacesIsolated ==
    pc = "idle" /\ ~starved =>
        \A d \in dirs, v \in Pages : UserPage(v) =>
            LET f == vmm_virt_to_phys(d, v) IN
            IF view[d][v] = NONE THEN f = NONE ELSE f # NONE /\ data[f] = view[d][v]

\* Who has frame f: the allocator, a caller, or a directory as itself, as a
\* table or as a page.  vmm_init's pages, mapped at their own address, count not.
Owners(f) ==
    {<<"free">> : x \in {f} \cap free} \cup {<<"held">> : x \in {f} \cap held}
    \cup {<<"dir">> : d \in {f} \cap dirs}
    \cup {<<"table", x[2], IF x[2] < KernelPde THEN x[1] ELSE KDir>> :
            x \in {y \in dirs \X Idx : mem[y[1]][y[2]] = f}}
    \cup {<<"page", x[2], IF UserPage(x[2]) THEN x[1] ELSE KDir>> :
            x \in {y \in dirs \X VPage : /\ vmm_virt_to_phys(y[1], y[2]) = f
                                        /\ ~(y[1] = KDir /\ y[2] < IdPages)}}

\* Between calls every frame of the allocator has exactly one owner: nothing
\* leaks and nothing is given back while it is in use, by clone and destroy
\* as by map and unmap.  (A clone that ran out of memory excepted.)
FramesOwnedOnce ==
    pc = "idle" /\ ~starved =>
        \A f \in own : Cardinality(Owners(f)) = 1
=============================================================================
