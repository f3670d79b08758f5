---------------------------- MODULE MemoryProofs ----------------------------
(***************************************************************************)
(* Proofs about paging, for every size of the tables, every layout of the  *)
(* memory and any sequence of calls; and about the kernel heap, for every  *)
(* size of the heap and of the pages and for whatever sizes are requested. *)
(* The two components share no state.                                      *)
(***************************************************************************)
EXTENDS Vmm, Heap, FiniteSetTheorems, NaturalLemmas, TLAPS

----------------------------------------------------------------------------
\* The indexes of a page stand for the page.
LEMMA PageIndexes ==
    /\ \A v \in VPage : PDE_INDEX(v) \in Idx /\ PTE_INDEX(v) \in Idx
    /\ \A v, w \in VPage :
          PDE_INDEX(v) = PDE_INDEX(w) /\ PTE_INDEX(v) = PTE_INDEX(w) => v = w
    /\ \A k, l \in Idx : \E v \in VPage : PDE_INDEX(v) = k /\ PTE_INDEX(v) = l
<1>0. E \in Nat \ {0}
  BY VmmSizes
<1>1. ASSUME NEW v \in VPage
      PROVE  PDE_INDEX(v) \in Idx /\ PTE_INDEX(v) \in Idx
             /\ v = E * PDE_INDEX(v) + PTE_INDEX(v)
  <2> DEFINE q == v \div E
             r == v % E
  <2>1. q \in Nat /\ r \in 0..(E - 1) /\ v = E * q + r
    <3>1. v \in Nat
      BY DEF VPage
    <3> QED BY <1>0, <3>1, DivMod
  <2> HIDE DEF q, r
  <2>2. q < E
    <3> SUFFICES ASSUME q >= E PROVE FALSE
      BY <1>0, <2>1
    <3>1. PICK k \in Nat : q = E + k
      BY <1>0, <2>1
    <3>2. E * q = E * E + E * k /\ E * k \in Nat
      BY <1>0, <3>1
    <3> QED BY <1>0, <2>1, <3>2 DEF VPage
  <2> QED BY <1>0, <2>1, <2>2 DEF q, r, PDE_INDEX, PTE_INDEX, Idx
<1>2. ASSUME NEW k \in Idx, NEW l \in Idx
      PROVE  \E v \in VPage : PDE_INDEX(v) = k /\ PTE_INDEX(v) = l
  <2> DEFINE v == E * k + l
  <2>1. v % E = l /\ v \div E = k
    BY <1>0, ModUnique DEF Idx
  <2>2. v \in VPage
    <3>1. PICK x \in Nat : E = k + 1 + x
      BY <1>0 DEF Idx
    <3>2. E * E = E * k + E + E * x /\ E * x \in Nat /\ E * k \in Nat
      BY <1>0, <3>1 DEF Idx
    <3> QED BY <1>0, <3>2 DEF VPage, Idx
  <2> QED BY <2>1, <2>2 DEF PDE_INDEX, PTE_INDEX
<1>3. \A v, w \in VPage :
          PDE_INDEX(v) = PDE_INDEX(w) /\ PTE_INDEX(v) = PTE_INDEX(w) => v = w
  BY <1>1
<1> QED BY <1>1, <1>2, <1>3

\* The memory lies below the kernel's share of the address space.
LEMMA LowPages ==
    ASSUME NEW v \in 0..(E * KernelPde - 1)
    PROVE  v \in VPage /\ PDE_INDEX(v) < KernelPde
<1>0. E \in Nat \ {0} /\ KernelPde \in Idx /\ KernelPde \in Nat
  BY VmmSizes DEF Idx
<1>1. v \in VPage
  <2>1. PICK x \in Nat : E = KernelPde + 1 + x
    BY <1>0 DEF Idx
  <2>2. E * E = E * KernelPde + E + E * x /\ E * x \in Nat /\ E * KernelPde \in Nat
    BY <1>0, <2>1
  <2> QED BY <1>0, <2>2 DEF VPage
<1>2. PDE_INDEX(v) < KernelPde
  <2> DEFINE q == v \div E
             r == v % E
  <2>1. q \in Nat /\ r \in 0..(E - 1) /\ v = E * q + r
    <3>1. v \in Nat
      OBVIOUS
    <3> QED BY <1>0, <3>1, DivMod
  <2> HIDE DEF q, r
  <2> SUFFICES ASSUME q >= KernelPde PROVE FALSE
    BY <1>0, <2>1 DEF q, PDE_INDEX
  <2>2. PICK k \in Nat : q = KernelPde + k
    BY <1>0, <2>1
  <2>3. E * q = E * KernelPde + E * k /\ E * k \in Nat /\ E * KernelPde \in Nat
    BY <1>0, <2>2
  <2> QED BY <1>0, <2>1, <2>3
<1> QED BY <1>1, <1>2

LEMMA Layout ==
    /\ E \in Nat \ {0} /\ KernelPde \in Idx /\ Idx \subseteq Nat
    /\ \A k \in Idx : k < E
    /\ Frames \subseteq VPage /\ Frames \subseteq Nat /\ 0 \in Frames
    /\ \A f \in Frames : UserPage(f)
    /\ KDir \in Frames /\ KDir < IdPages
    /\ IdPages \in Nat /\ 0..(IdPages - 1) \subseteq Frames
    /\ Pages \subseteq VPage /\ VPage \subseteq Nat /\ \A v \in Pages : v >= IdPages
    /\ NONE \notin Frames /\ NONE \notin Token
    /\ \A mc \in Machines : mc \subseteq Frames /\ 0 \notin mc /\ KDir \notin mc
<1>0. E \in Nat \ {0} /\ KernelPde \in Nat /\ E * KernelPde \in Nat /\ E * E \in Nat
  BY VmmSizes DEF Idx
<1>1. Frames \subseteq 0..(E * KernelPde - 1)
  BY <1>0, VmmSizes DEF Frames
<1>2. Frames \subseteq VPage /\ \A f \in Frames : UserPage(f)
  BY <1>1, LowPages DEF UserPage
<1>3. 0 \in Frames /\ IdPages \in Nat /\ 0..(IdPages - 1) \subseteq Frames
  BY <1>0, VmmSizes, VmmMemory DEF Frames
<1>4. Pages \subseteq VPage /\ \A v \in Pages : v >= IdPages
  BY <1>0, <1>3, VmmMemory DEF VPage
<1>5. \A mc \in Machines : mc \subseteq Frames /\ 0 \notin mc /\ KDir \notin mc
  BY VmmMemory
<1> QED BY <1>0, <1>2, <1>3, <1>4, <1>5, VmmSizes, VmmMemory DEF Idx, Frames, VPage

----------------------------------------------------------------------------
(***************************************************************************)
(* Ownership.  A slot is a place in a directory's own tables that names a  *)
(* frame; at[s] is the frame slot s names.  The frames O are divided among *)
(* the allocator (fr), the callers (he), the directories (di) and the      *)
(* slots, each frame at one place.                                         *)
(***************************************************************************)
Apart(S, at, O, fr, he, di) ==
    /\ fr \subseteq O /\ he \subseteq O /\ di \subseteq O
    /\ fr \cap he = {} /\ fr \cap di = {} /\ he \cap di = {}
    /\ \A s \in S : at[s] # NONE => at[s] \in O /\ at[s] \notin fr \cup he \cup di
    /\ \A s, r \in S : at[s] = at[r] /\ at[s] # NONE => s = r
    /\ \A f \in O : f \in fr \cup he \cup di \/ \E s \in S : at[s] = f

\* Frames pass between the allocator, the callers and the directories.
LEMMA ApartPass ==
    ASSUME NEW S, NEW a, NEW b, NEW O, NEW fr, NEW he, NEW di,
           NEW fs, NEW hs, NEW ds, Apart(S, a, O, fr, he, di),
           \A s \in S : b[s] = a[s],
           fs \cup hs \cup ds = fr \cup he \cup di,
           fs \cap hs = {}, fs \cap ds = {}, hs \cap ds = {}
    PROVE  Apart(S, b, O, fs, hs, ds)
<1>1. fs \subseteq O /\ hs \subseteq O /\ ds \subseteq O
  BY DEF Apart
<1>2. \A s \in S : b[s] # NONE => b[s] \in O /\ b[s] \notin fs \cup hs \cup ds
  BY DEF Apart
<1>3. \A s, r \in S : b[s] = b[r] /\ b[s] # NONE => s = r
  BY DEF Apart
<1>4. \A f \in O : f \in fs \cup hs \cup ds \/ \E s \in S : b[s] = f
  BY DEF Apart
<1> QED BY <1>1, <1>2, <1>3, <1>4 DEF Apart

\* A frame f goes into the empty slot r.
LEMMA ApartGive ==
    ASSUME NEW S, NEW a, NEW b, NEW O, NEW fr, NEW he, NEW di, NEW r \in S,
           NEW f \in fr \cup he \cup di, Apart(S, a, O, fr, he, di),
           f # NONE, NONE \notin O,
           a[r] = NONE, b[r] = f, \A s \in S : s # r => b[s] = a[s]
    PROVE  Apart(S, b, O, fr \ {f}, he \ {f}, di \ {f})
<1>1. \A s \in S : b[s] # NONE => b[s] \in O /\ b[s] \notin (fr \ {f}) \cup (he \ {f}) \cup (di \ {f})
  BY DEF Apart
<1>2. \A s, q \in S : b[s] = b[q] /\ b[s] # NONE => s = q
  BY DEF Apart
<1>3. \A g \in O : g \in (fr \ {f}) \cup (he \ {f}) \cup (di \ {f}) \/ \E s \in S : b[s] = g
  <2> SUFFICES ASSUME NEW g \in O, g # f, NEW s \in S, a[s] = g
               PROVE  \E q \in S : b[q] = g
    BY DEF Apart
  <2>1. s # r
    OBVIOUS
  <2> QED BY <2>1
<1> QED BY <1>1, <1>2, <1>3 DEF Apart

\* The slots R are emptied; their frames go to the allocator or to a caller,
\* with the directory's frames ds.
LEMMA ApartTake ==
    ASSUME NEW S, NEW a, NEW b, NEW O, NEW fr, NEW he, NEW di,
           NEW R, NEW fs, NEW hs, NEW ds, Apart(S, a, O, fr, he, di), NONE \notin O,
           \A s \in S : b[s] = IF s \in R THEN NONE ELSE a[s],
           fr \cup he \cup di \subseteq fs \cup hs \cup ds,
           \A s \in S : s \in R /\ a[s] # NONE => a[s] \in fs \cup hs \cup ds,
           \A f \in fs \cup hs \cup ds :
                f \in fr \cup he \cup di \/ (f # NONE /\ \E s \in S : s \in R /\ f = a[s]),
           fs \cap hs = {}, fs \cap ds = {}, hs \cap ds = {}
    PROVE  Apart(S, b, O, fs, hs, ds)
<1>1. \A f \in fs \cup hs \cup ds : f \in O
  BY DEF Apart
<1>2. \A s \in S : b[s] # NONE => b[s] \in O /\ b[s] \notin fs \cup hs \cup ds
  BY DEF Apart
<1>3. \A s, r \in S : b[s] = b[r] /\ b[s] # NONE => s = r
  BY DEF Apart
<1>4. \A f \in O : f \in fs \cup hs \cup ds \/ \E s \in S : b[s] = f
  <2> SUFFICES ASSUME NEW f \in O, f \notin fs \cup hs \cup ds PROVE \E s \in S : b[s] = f
    OBVIOUS
  <2>0. f \notin fr \cup he \cup di
    OBVIOUS
  <2>1. PICK s \in S : a[s] = f
    BY <2>0 DEF Apart
  <2> QED BY <2>1
<1> QED BY <1>1, <1>2, <1>3, <1>4 DEF Apart

----------------------------------------------------------------------------
(***************************************************************************)
(* The invariant.  Whole describes the memory until a clone goes on        *)
(* without memory, in the middle of every loop as well; Starved is what is *)
(* left of it after that.                                                  *)
(***************************************************************************)
Cloning == pc \in {"clone", "table"}

\* The table of slot k that is directory d's own: a kernel table belongs to
\* the kernel's directory, the copy in progress to the new one.
Tb(d, k) ==
    IF \/ d \in dirs /\ (k < KernelPde \/ d = KDir)
       \/ Cloning /\ d = dst /\ k < i /\ k < KernelPde
    THEN mem[d][k]
    ELSE IF pc = "table" /\ d = dst /\ k = i THEN pt ELSE NONE

\* The frame of d's own page v, vmm_init's pages apart.
Pg(d, v) ==
    IF \/ Tb(d, PDE_INDEX(v)) = NONE
       \/ d = KDir /\ v < IdPages
       \/ pc = "table" /\ d = dst /\ PDE_INDEX(v) = i /\ PTE_INDEX(v) >= j
    THEN NONE
    ELSE mem[Tb(d, PDE_INDEX(v))][PTE_INDEX(v)]

Slots == ({0} \X Frames \X VPage) \cup ({1} \X Frames \X Idx)
At == [s \in Slots |-> IF s[1] = 0 THEN Pg(s[2], s[3]) ELSE Tb(s[2], s[3])]
DirSet == (dirs \ {KDir}) \cup (IF Cloning THEN {dst} ELSE {})

Owned == Apart(Slots, At, own, free, held, DirSet)

\* A directory shares the kernel's tables or has none in their place.
Shared ==
    \A d \in Frames, k \in KernelPde..(E - 1) :
        d \in dirs \/ (Cloning /\ d = dst /\ k < i) => mem[d][k] \in {NONE, mem[KDir][k]}

\* The kernel's low pages are mapped at their own address or not at all.
Identity == \A v \in 0..(IdPages - 1) : vmm_virt_to_phys(KDir, v) \in {NONE, v}

\* Frame f is the page that should hold w; NONE, that there should be no page.
Sees(f, w) == IF w = NONE THEN f = NONE ELSE f # NONE /\ data[f] = w

\* vmm_clone_dir has dealt with page v.
Copied(v) == PDE_INDEX(v) < i \/ (pc = "table" /\ PDE_INDEX(v) = i /\ PTE_INDEX(v) < j)

\* The user pages a caller can map.
Plain(v) == UserPage(v) /\ v >= IdPages

Views ==
    /\ \A d \in dirs, v \in VPage :
          IF Plain(v) THEN Sees(Pg(d, v), view[d][v]) ELSE view[d][v] = NONE
    /\ Cloning => \A v \in VPage : Plain(v) /\ Copied(v) => Sees(Pg(dst, v), view[src][v])

\* The loops: vmm_init's, vmm_map_range's and vmm_clone_dir's.
BootLoop ==
    /\ ~paging /\ i \in 0..IdPages /\ dirs = {KDir} /\ held = {}
    /\ \A v \in VPage : v >= i => vmm_virt_to_phys(KDir, v) = NONE
    /\ free = {} \/ \A v \in 0..(i - 1) : vmm_virt_to_phys(KDir, v) = v

MapLoop ==
    /\ src \in dirs
    /\ \A k \in 0..(n - 1) :
          /\ p + k \in held /\ i + k \in Pages
          /\ IF UserPage(i + k) THEN view[src][i + k] = NONE
             ELSE src = KDir /\ vmm_virt_to_phys(src, i + k) = NONE

CloneLoop ==
    /\ src \in dirs /\ dst \notin dirs /\ i \in 0..E
    /\ pc = "table" => i < KernelPde /\ mem[src][i] # NONE

Control ==
    /\ pc = "boot" => BootLoop
    /\ pc = "map" => MapLoop
    /\ Cloning => CloneLoop

\* With paging on: vmm_init mapped all its pages, or ran out of memory so that
\* there is nothing to work with.  What a clone copies of vmm_init's pages it
\* copies into frames among them, since it can touch no others.
Complete == \A v \in 0..(IdPages - 1) : vmm_virt_to_phys(KDir, v) = v

Barren ==
    /\ free = {} /\ held = {} /\ pc = "idle"
    /\ \A v \in VPage : v >= IdPages => vmm_virt_to_phys(KDir, v) = NONE

Paged ==
    /\ cr3 = KDir /\ dirs = {KDir}
    /\ Complete \/ Barren
    /\ Cloning => \A v \in 0..(IdPages - 1) : Copied(v) => Pg(dst, v) \in 0..(IdPages - 1)

Whole == Owned /\ Shared /\ Identity /\ Views /\ Control /\ (paging => Paged)

\* No step of vmm_clone_dir writes to the kernel's directory or its tables,
\* or to the directory it copies.
Kept == {KDir} \cup {mem[KDir][k] : k \in Idx} \cup (IF Cloning THEN {src} ELSE {})
Guarded ==
    \A t \in Kept : /\ t \notin free
                    /\ Cloning => t # dst
                    /\ pc = "table" => t # pt

Starved ==
    /\ pc \notin {"boot", "map"} /\ Guarded
    /\ paging => cr3 = KDir
    /\ Cloning => src \in dirs
    /\ pc = "table" => i \in Idx /\ mem[src][i] # NONE

Types ==
    /\ mem \in [Frames -> [Idx -> Frames \cup {NONE}]]
    /\ data \in [Frames -> Token]
    /\ own \in Machines /\ free \subseteq own /\ held \subseteq own
    /\ cr3 \in Frames /\ paging \in BOOLEAN /\ tlb \subseteq VPage \X Frames
    /\ pc \in {"boot", "idle", "map", "clone", "table", "fault"}
    /\ dst \in Frames /\ src \in Frames /\ i \in Nat /\ j \in 0..E /\ pt \in Frames
    /\ p \in Nat /\ n \in Nat
    /\ dirs \subseteq Frames /\ KDir \in dirs /\ calls \in Nat
    /\ starved \in BOOLEAN /\ wild \in BOOLEAN
    /\ view \in [dirs -> [VPage -> Token \cup {NONE}]]

VmmInv ==
    /\ Types
    /\ (pc = "fault") <=> wild
    /\ ~paging => tlb = {}
    /\ ~wild => IF starved THEN Starved ELSE Whole
    /\ TlbCoherent

----------------------------------------------------------------------------
\* What the invariant says of two slots.
LEMMA Separate ==
    ASSUME Types, Owned
    PROVE  /\ own \subseteq Frames /\ KDir \notin own /\ NONE \notin own /\ 0 \notin own
           /\ free \subseteq own /\ held \subseteq own /\ DirSet \subseteq own
           /\ free \cap held = {} /\ free \cap DirSet = {} /\ held \cap DirSet = {}
           /\ \A d \in Frames, k \in Idx : Tb(d, k) # NONE =>
                /\ Tb(d, k) \in own
                /\ Tb(d, k) \notin free /\ Tb(d, k) \notin held /\ Tb(d, k) \notin DirSet
           /\ \A d \in Frames, v \in VPage : Pg(d, v) # NONE =>
                /\ Pg(d, v) \in own
                /\ Pg(d, v) \notin free /\ Pg(d, v) \notin held /\ Pg(d, v) \notin DirSet
           /\ \A d, e \in Frames, k, l \in Idx :
                Tb(d, k) = Tb(e, l) /\ Tb(d, k) # NONE => d = e /\ k = l
           /\ \A d, e \in Frames, v, w \in VPage :
                Pg(d, v) = Pg(e, w) /\ Pg(d, v) # NONE => d = e /\ v = w
           /\ \A d, e \in Frames, k \in Idx, v \in VPage : Tb(d, k) # NONE => Tb(d, k) # Pg(e, v)
<1>1. own \subseteq Frames /\ KDir \notin own /\ NONE \notin own /\ 0 \notin own
  BY Layout DEF Types
<1>2. \A d \in Frames, k \in Idx : <<1, d, k>> \in Slots /\ At[<<1, d, k>>] = Tb(d, k)
  BY DEF Slots, At
<1>3. \A d \in Frames, v \in VPage : <<0, d, v>> \in Slots /\ At[<<0, d, v>>] = Pg(d, v)
  BY DEF Slots, At
<1>4. \A d \in Frames, k \in Idx : Tb(d, k) # NONE =>
        Tb(d, k) \in own /\ Tb(d, k) \notin free \cup held \cup DirSet
  BY <1>2 DEF Owned, Apart
<1>5. \A d \in Frames, v \in VPage : Pg(d, v) # NONE =>
        Pg(d, v) \in own /\ Pg(d, v) \notin free \cup held \cup DirSet
  BY <1>3 DEF Owned, Apart
<1>0. \A s, r \in Slots : At[s] = At[r] /\ At[s] # NONE => s = r
  BY DEF Owned, Apart
<1>6. ASSUME NEW d \in Frames, NEW e \in Frames, NEW k \in Idx, NEW l \in Idx,
             Tb(d, k) = Tb(e, l), Tb(d, k) # NONE
      PROVE  d = e /\ k = l
  <2>1. PICK s, r : s = <<1, d, k>> /\ r = <<1, e, l>>
    OBVIOUS
  <2>2. s \in Slots /\ r \in Slots /\ At[s] = At[r] /\ At[s] # NONE
    BY <2>1, <1>2, <1>6
  <2>3. s = r
    BY <1>0, <2>2
  <2> QED BY <2>1, <2>3
<1>7. ASSUME NEW d \in Frames, NEW e \in Frames, NEW v \in VPage, NEW w \in VPage,
             Pg(d, v) = Pg(e, w), Pg(d, v) # NONE
      PROVE  d = e /\ v = w
  <2>1. PICK s, r : s = <<0, d, v>> /\ r = <<0, e, w>>
    OBVIOUS
  <2>2. s \in Slots /\ r \in Slots /\ At[s] = At[r] /\ At[s] # NONE
    BY <2>1, <1>3, <1>7
  <2>3. s = r
    BY <1>0, <2>2
  <2> QED BY <2>1, <2>3
<1>8. ASSUME NEW d \in Frames, NEW e \in Frames, NEW k \in Idx, NEW v \in VPage,
             Tb(d, k) = Pg(e, v), Tb(d, k) # NONE
      PROVE  FALSE
  <2>1. PICK s, r : s = <<1, d, k>> /\ r = <<0, e, v>>
    OBVIOUS
  <2>2. s \in Slots /\ r \in Slots /\ At[s] = At[r] /\ At[s] # NONE
    BY <2>1, <1>2, <1>3, <1>8
  <2>3. s = r
    BY <1>0, <2>2
  <2> QED BY <2>1, <2>3
<1>9. /\ free \subseteq own /\ held \subseteq own /\ DirSet \subseteq own
      /\ free \cap held = {} /\ free \cap DirSet = {} /\ held \cap DirSet = {}
  BY DEF Owned, Apart
<1> QED BY <1>1, <1>4, <1>5, <1>6, <1>7, <1>8, <1>9

\* Frames pass between the allocator, the callers and the directories.
LEMMA OwnedPass ==
    ASSUME Owned, UNCHANGED own,
           free' \cup held' \cup DirSet' = free \cup held \cup DirSet,
           free' \cap held' = {}, free' \cap DirSet' = {}, held' \cap DirSet' = {},
           \A d \in Frames, k \in Idx : Tb(d, k)' = Tb(d, k),
           \A d \in Frames, v \in VPage : Pg(d, v)' = Pg(d, v)
    PROVE  Owned'
<1>1. \A s \in Slots : At'[s] = At[s]
  BY DEF Slots, At
<1>2. PICK b, fs, hs, ds : b = At' /\ fs = free' /\ hs = held' /\ ds = DirSet'
  OBVIOUS
<1>3. Apart(Slots, b, own, fs, hs, ds)
  BY <1>1, <1>2, ApartPass DEF Owned
<1> QED BY <1>2, <1>3 DEF Owned

\* Directory d gets the frame f as its table k.
LEMMA OwnedGiveTable ==
    ASSUME Types, Owned, UNCHANGED own, NEW d \in Frames, NEW k \in Idx,
           NEW f \in free \cup held \cup DirSet,
           Tb(d, k) = NONE, Tb(d, k)' = f,
           free' = free \ {f}, held' = held \ {f}, DirSet' = DirSet \ {f},
           \A e \in Frames, l \in Idx : ~ (e = d /\ l = k) => Tb(e, l)' = Tb(e, l),
           \A e \in Frames, v \in VPage : Pg(e, v)' = Pg(e, v)
    PROVE  Owned'
<1>0. f # NONE /\ NONE \notin own
  BY Separate
<1>1. <<1, d, k>> \in Slots /\ At[<<1, d, k>>] = NONE /\ At'[<<1, d, k>>] = f
  BY DEF Slots, At
<1>2. \A s \in Slots : s # <<1, d, k>> => At'[s] = At[s]
  BY DEF Slots, At
<1>3. PICK r, b : r = <<1, d, k>> /\ b = At'
  OBVIOUS
<1>4. Apart(Slots, b, own, free \ {f}, held \ {f}, DirSet \ {f})
  BY <1>0, <1>1, <1>2, <1>3, ApartGive DEF Owned
<1> QED BY <1>3, <1>4 DEF Owned

\* Directory d gets the frame f as its page v.
LEMMA OwnedGivePage ==
    ASSUME Types, Owned, UNCHANGED own, NEW d \in Frames, NEW v \in VPage,
           NEW f \in free \cup held \cup DirSet,
           Pg(d, v) = NONE, Pg(d, v)' = f,
           free' = free \ {f}, held' = held \ {f}, DirSet' = DirSet \ {f},
           \A e \in Frames, l \in Idx : Tb(e, l)' = Tb(e, l),
           \A e \in Frames, w \in VPage : ~ (e = d /\ w = v) => Pg(e, w)' = Pg(e, w)
    PROVE  Owned'
<1>0. f # NONE /\ NONE \notin own
  BY Separate
<1>1. <<0, d, v>> \in Slots /\ At[<<0, d, v>>] = NONE /\ At'[<<0, d, v>>] = f
  BY DEF Slots, At
<1>2. \A s \in Slots : s # <<0, d, v>> => At'[s] = At[s]
  BY DEF Slots, At
<1>3. PICK r, b : r = <<0, d, v>> /\ b = At'
  OBVIOUS
<1>4. Apart(Slots, b, own, free \ {f}, held \ {f}, DirSet \ {f})
  BY <1>0, <1>1, <1>2, <1>3, ApartGive DEF Owned
<1> QED BY <1>3, <1>4 DEF Owned

----------------------------------------------------------------------------
\* What a directory's walk finds is its slots' frames.
LEMMA Walks ==
    ASSUME Types, Control, ~wild, NEW d \in dirs
    PROVE  /\ d \in Frames
           /\ \A k \in Idx : k < KernelPde \/ d = KDir => Tb(d, k) = mem[d][k]
           /\ \A v \in VPage : UserPage(v) \/ d = KDir =>
                /\ Tb(d, PDE_INDEX(v)) = mem[d][PDE_INDEX(v)]
                /\ d # KDir \/ v >= IdPages => Pg(d, v) = vmm_virt_to_phys(d, v)
<1>1. \A k \in Idx : k < KernelPde \/ d = KDir => Tb(d, k) = mem[d][k]
  BY DEF Tb
<1>2. pc = "table" => d # dst
  BY DEF Control, CloneLoop, Cloning
<1>3. ASSUME NEW v \in VPage, UserPage(v) \/ d = KDir
      PROVE  /\ Tb(d, PDE_INDEX(v)) = mem[d][PDE_INDEX(v)]
             /\ d # KDir \/ v >= IdPages => Pg(d, v) = vmm_virt_to_phys(d, v)
  <2>1. Tb(d, PDE_INDEX(v)) = mem[d][PDE_INDEX(v)]
    BY <1>1, <1>3, PageIndexes DEF UserPage
  <2> QED BY <1>2, <2>1, Layout DEF Pg, vmm_virt_to_phys
<1> QED BY <1>1, <1>3 DEF Types

\* The kernel's directory and its tables are nobody else's.
LEMMA KernelApart ==
    ASSUME Types, Whole, ~wild
    PROVE  /\ KDir \in Frames /\ KDir \notin own /\ KDir \notin free
           /\ \A k \in Idx : mem[KDir][k] = Tb(KDir, k)
           /\ \A k \in Idx : mem[KDir][k] # NONE =>
                mem[KDir][k] \in own /\ mem[KDir][k] \notin free /\ mem[KDir][k] \notin DirSet
<1>1. \A k \in Idx : mem[KDir][k] = Tb(KDir, k)
  BY Walks DEF Types, Whole
<1> QED BY <1>1, Separate, Layout DEF Whole

\* Outside vmm_clone_dir.
LEMMA Quiet ==
    ASSUME ~Cloning
    PROVE  /\ DirSet = dirs \ {KDir}
           /\ \A d, k : Tb(d, k) = IF d \in dirs /\ (k < KernelPde \/ d = KDir)
                                   THEN mem[d][k] ELSE NONE
           /\ \A d, v : Pg(d, v) = IF Tb(d, PDE_INDEX(v)) = NONE \/ (d = KDir /\ v < IdPages)
                                   THEN NONE ELSE mem[Tb(d, PDE_INDEX(v))][PTE_INDEX(v)]
BY DEF Cloning, DirSet, Tb, Pg

\* A walk stays as it was when its frames do.
LEMMA WalkSame ==
    ASSUME NEW d, NEW v, d \in Frames, v \in VPage,
           mem'[d] = mem[d],
           mem[d][PDE_INDEX(v)] # NONE =>
               mem'[mem[d][PDE_INDEX(v)]] = mem[mem[d][PDE_INDEX(v)]]
    PROVE  vmm_virt_to_phys(d, v)' = vmm_virt_to_phys(d, v)
BY DEF vmm_virt_to_phys, PDE_INDEX, PTE_INDEX

----------------------------------------------------------------------------
(***************************************************************************)
(* vmm_map_page: directory d gets frame f at page v, through the table t.  *)
(***************************************************************************)
MapInto(d, v, f, t) ==
    mem' = [mem EXCEPT ![t] = [(IF mem[d][PDE_INDEX(v)] = NONE THEN alloc_page_table ELSE @)
                                  EXCEPT ![PTE_INDEX(v)] = f],
                       ![d] = [@ EXCEPT ![PDE_INDEX(v)] = t]]

LEMMA MapIntoIs ==
    ASSUME Types, NEW d \in Frames, NEW v \in VPage, NEW f \in Frames, NEW t \in Frames,
           d # t, MapInto(d, v, f, t)
    PROVE  /\ \A g \in Frames : g # d /\ g # t => mem'[g] = mem[g]
           /\ \A k \in Idx : mem'[d][k] = IF k = PDE_INDEX(v) THEN t ELSE mem[d][k]
           /\ \A k \in Idx : mem'[t][k] = IF k = PTE_INDEX(v) THEN f
                                          ELSE IF mem[d][PDE_INDEX(v)] = NONE THEN NONE
                                          ELSE mem[t][k]
           /\ mem' \in [Frames -> [Idx -> Frames \cup {NONE}]]
<1>0. PDE_INDEX(v) \in Idx /\ PTE_INDEX(v) \in Idx
  BY PageIndexes
<1>1. PICK x : x = [(IF mem[d][PDE_INDEX(v)] = NONE THEN alloc_page_table ELSE mem[t])
                       EXCEPT ![PTE_INDEX(v)] = f]
  OBVIOUS
<1>2. x \in [Idx -> Frames \cup {NONE}]
  BY <1>0, <1>1 DEF Types, alloc_page_table, Blank
<1>3. \A k \in Idx : x[k] = IF k = PTE_INDEX(v) THEN f
                            ELSE IF mem[d][PDE_INDEX(v)] = NONE THEN NONE ELSE mem[t][k]
  BY <1>0, <1>1 DEF Types, alloc_page_table, Blank
<1>4. mem' = [mem EXCEPT ![t] = x, ![d] = [mem[d] EXCEPT ![PDE_INDEX(v)] = t]]
  BY <1>1 DEF MapInto, Types
<1> QED BY <1>0, <1>2, <1>3, <1>4 DEF Types

LEMMA MapEffect ==
    ASSUME Types, Owned, ~Cloning, ~Cloning', UNCHANGED dirs,
           NEW d \in dirs, NEW v \in VPage, NEW f \in Frames, NEW t \in Frames,
           UserPage(v) \/ d = KDir,
           IF mem[d][PDE_INDEX(v)] = NONE THEN t \in free ELSE t = mem[d][PDE_INDEX(v)],
           MapInto(d, v, f, t)
    PROVE  /\ t \in own /\ d # t /\ d \in Frames
           /\ \A e \in Frames, l \in Idx :
                Tb(e, l)' = IF e = d /\ l = PDE_INDEX(v) THEN t ELSE Tb(e, l)
           /\ Tb(d, PDE_INDEX(v)) = mem[d][PDE_INDEX(v)]
           /\ \A e \in Frames, w \in VPage :
                Pg(e, w)' = IF e = d /\ w = v
                            THEN IF d = KDir /\ v < IdPages THEN NONE ELSE f
                            ELSE Pg(e, w)
           /\ \A w \in VPage : vmm_virt_to_phys(KDir, w)' =
                 IF d = KDir /\ w = v THEN f ELSE vmm_virt_to_phys(KDir, w)
           /\ \A e \in dirs, k \in Idx : k >= KernelPde /\ e # KDir => mem'[e][k] = mem[e][k]
           /\ \A k \in Idx : mem'[KDir][k] = mem[KDir][k] \/ (mem[KDir][k] = NONE /\ d = KDir)
<1>0. /\ d \in Frames /\ PDE_INDEX(v) \in Idx /\ PTE_INDEX(v) \in Idx /\ KDir \in dirs
      /\ PDE_INDEX(v) < KernelPde \/ d = KDir
  BY PageIndexes DEF Types, UserPage
<1>1. Tb(d, PDE_INDEX(v)) = mem[d][PDE_INDEX(v)]
  BY <1>0, Quiet
<1>2. t \in own /\ t \notin DirSet /\ t # KDir
  BY <1>0, <1>1, Separate
<1>3. \A e \in dirs : e # t
  BY <1>2, Quiet
<1>4. \A e \in Frames, l \in Idx : ~(e = d /\ l = PDE_INDEX(v)) => Tb(e, l) # t \/ t = NONE
  BY <1>0, <1>1, Separate
<1>5. /\ \A g \in Frames : g # d /\ g # t => mem'[g] = mem[g]
      /\ \A k \in Idx : mem'[d][k] = IF k = PDE_INDEX(v) THEN t ELSE mem[d][k]
      /\ \A k \in Idx : mem'[t][k] = IF k = PTE_INDEX(v) THEN f
                                     ELSE IF mem[d][PDE_INDEX(v)] = NONE THEN NONE ELSE mem[t][k]
  BY <1>0, <1>3, MapIntoIs
<1>6. \A e, k : Tb(e, k)' = IF e \in dirs /\ (k < KernelPde \/ e = KDir)
                            THEN mem'[e][k] ELSE NONE
  BY DEF Cloning, Tb
<1>7. \A e, w : Pg(e, w)' = IF Tb(e, PDE_INDEX(w))' = NONE \/ (e = KDir /\ w < IdPages)
                            THEN NONE ELSE mem'[Tb(e, PDE_INDEX(w))'][PTE_INDEX(w)]
  BY DEF Cloning, Pg, PDE_INDEX, PTE_INDEX
<1>8. \A e \in Frames, l \in Idx :
         Tb(e, l)' = IF e = d /\ l = PDE_INDEX(v) THEN t ELSE Tb(e, l)
  BY <1>0, <1>3, <1>5, <1>6, Quiet
<1>9. t # NONE
  BY <1>2, Separate
<1>10. ASSUME NEW e \in Frames, NEW w \in VPage, e = d, PDE_INDEX(w) = PDE_INDEX(v)
       PROVE  Pg(e, w)' = IF w = v THEN IF d = KDir /\ v < IdPages THEN NONE ELSE f
                          ELSE Pg(e, w)
  <2>1. Tb(e, PDE_INDEX(w))' = t
    BY <1>0, <1>8, <1>10
  <2>2. PTE_INDEX(w) \in Idx /\ (PTE_INDEX(w) = PTE_INDEX(v) <=> w = v)
    BY <1>10, PageIndexes
  <2>3. Pg(e, w)' = IF e = KDir /\ w < IdPages THEN NONE ELSE mem'[t][PTE_INDEX(w)]
    BY <1>7, <1>9, <2>1
  <2>4. Pg(e, w) = IF mem[d][PDE_INDEX(v)] = NONE \/ (e = KDir /\ w < IdPages)
                   THEN NONE ELSE mem[t][PTE_INDEX(w)]
    BY <1>1, <1>10, Quiet
  <2> QED BY <1>5, <1>10, <2>2, <2>3, <2>4
<1>11. ASSUME NEW e \in Frames, NEW w \in VPage, ~(e = d /\ PDE_INDEX(w) = PDE_INDEX(v))
       PROVE  Pg(e, w)' = Pg(e, w)
  <2>1. PDE_INDEX(w) \in Idx /\ Tb(e, PDE_INDEX(w))' = Tb(e, PDE_INDEX(w))
    BY <1>8, <1>11, PageIndexes
  <2>2. Tb(e, PDE_INDEX(w)) # NONE =>
          /\ Tb(e, PDE_INDEX(w)) \in Frames /\ Tb(e, PDE_INDEX(w)) # t
          /\ Tb(e, PDE_INDEX(w)) # d
    <3>1. Tb(e, PDE_INDEX(w)) # NONE => Tb(e, PDE_INDEX(w)) \in own /\ Tb(e, PDE_INDEX(w)) \notin DirSet
      BY <2>1, Separate
    <3>2. d \in DirSet \/ d = KDir
      BY Quiet
    <3>3. own \subseteq Frames /\ KDir \notin own
      BY Separate
    <3> QED BY <1>4, <1>9, <1>11, <2>1, <3>1, <3>2, <3>3
  <2>3. Tb(e, PDE_INDEX(w)) # NONE => mem'[Tb(e, PDE_INDEX(w))] = mem[Tb(e, PDE_INDEX(w))]
    BY <1>5, <2>2
  <2> QED BY <1>7, <2>1, <2>3, Quiet
<1>12. ASSUME NEW w \in VPage
       PROVE  vmm_virt_to_phys(KDir, w)' =
                 IF d = KDir /\ w = v THEN f ELSE vmm_virt_to_phys(KDir, w)
  <2>0. PDE_INDEX(w) \in Idx /\ PTE_INDEX(w) \in Idx
    BY PageIndexes
  <2>1. vmm_virt_to_phys(KDir, w)' = IF mem'[KDir][PDE_INDEX(w)] = NONE THEN NONE
                                     ELSE mem'[mem'[KDir][PDE_INDEX(w)]][PTE_INDEX(w)]
    BY DEF vmm_virt_to_phys, PDE_INDEX, PTE_INDEX
  <2>2. mem[KDir][PDE_INDEX(w)] = Tb(KDir, PDE_INDEX(w))
    BY <1>0, <2>0, Quiet
  <2>3. CASE d = KDir /\ PDE_INDEX(w) = PDE_INDEX(v)
    <3>1. PTE_INDEX(w) = PTE_INDEX(v) <=> w = v
      BY <2>3, PageIndexes
    <3>2. mem'[KDir][PDE_INDEX(w)] = t
      BY <1>0, <1>5, <2>3
    <3> QED BY <1>5, <1>9, <2>0, <2>1, <2>3, <3>1, <3>2 DEF vmm_virt_to_phys
  <2>4. CASE ~(d = KDir /\ PDE_INDEX(w) = PDE_INDEX(v))
    <3>1. mem'[KDir][PDE_INDEX(w)] = mem[KDir][PDE_INDEX(w)]
      BY <1>0, <1>2, <1>5, <2>0, <2>4, Layout
    <3>2. mem[KDir][PDE_INDEX(w)] # NONE =>
            /\ mem[KDir][PDE_INDEX(w)] \in Frames /\ mem[KDir][PDE_INDEX(w)] # t
            /\ mem[KDir][PDE_INDEX(w)] # d
      <4>0. KDir \in Frames /\ own \subseteq Frames /\ KDir \notin own
        BY Layout, Separate
      <4>1. Tb(KDir, PDE_INDEX(w)) # NONE =>
              Tb(KDir, PDE_INDEX(w)) \in own /\ Tb(KDir, PDE_INDEX(w)) \notin DirSet
        BY <2>0, <4>0, Separate
      <4>2. d \in DirSet \/ d = KDir
        BY Quiet
      <4>3. Tb(KDir, PDE_INDEX(w)) # t
        BY <1>4, <1>9, <2>0, <2>4, <4>0
      <4> QED BY <2>2, <4>0, <4>1, <4>2, <4>3
    <3> QED BY <1>5, <2>1, <2>4, <3>1, <3>2 DEF vmm_virt_to_phys
  <2> QED BY <2>3, <2>4
<1>13. \A e \in Frames, w \in VPage :
         Pg(e, w)' = IF e = d /\ w = v THEN IF d = KDir /\ v < IdPages THEN NONE ELSE f
                     ELSE Pg(e, w)
  BY <1>10, <1>11
<1>14. \A e \in dirs, k \in Idx : k >= KernelPde /\ e # KDir => mem'[e][k] = mem[e][k]
  <2>1. dirs \subseteq Frames
    BY DEF Types
  <2>2. ASSUME NEW e \in dirs, NEW k \in Idx, k >= KernelPde, e # KDir
        PROVE  mem'[e][k] = mem[e][k]
    <3>1. CASE e = d
      <4>1. k # PDE_INDEX(v)
        BY <1>0, <2>2, <3>1, Layout
      <4> QED BY <1>5, <3>1, <4>1
    <3>2. CASE e # d
      BY <1>3, <1>5, <2>1, <3>2
    <3> QED BY <3>1, <3>2
  <2> QED BY <2>2
<1>15. \A k \in Idx : mem'[KDir][k] = mem[KDir][k] \/ (mem[KDir][k] = NONE /\ d = KDir)
  <2>1. CASE d = KDir
    BY <1>5, <2>1
  <2>2. CASE d # KDir
    BY <1>2, <1>5, <2>2, Layout
  <2> QED BY <2>1, <2>2
<1> QED BY <1>0, <1>1, <1>2, <1>3, <1>8, <1>12, <1>13, <1>14, <1>15

\* A directory gets a page, and a new table for it if it has none.
LEMMA OwnedMap ==
    ASSUME Types, Owned, UNCHANGED own, NEW d \in Frames, NEW v \in VPage,
           NEW f \in held, NEW t \in Frames,
           IF Tb(d, PDE_INDEX(v)) = NONE THEN t \in free ELSE t = Tb(d, PDE_INDEX(v)),
           Pg(d, v) = NONE,
           free' = free \ {t}, held' = held \ {f}, DirSet' = DirSet,
           \A e \in Frames, l \in Idx :
               Tb(e, l)' = IF e = d /\ l = PDE_INDEX(v) THEN t ELSE Tb(e, l),
           \A e \in Frames, w \in VPage : Pg(e, w)' = IF e = d /\ w = v THEN f ELSE Pg(e, w)
    PROVE  Owned'
<1>0. PDE_INDEX(v) \in Idx
  BY PageIndexes
<1>00. /\ NONE \notin own /\ free \subseteq own /\ held \subseteq own
       /\ free \cap held = {} /\ free \cap DirSet = {} /\ held \cap DirSet = {}
  BY Separate
<1>1. CASE Tb(d, PDE_INDEX(v)) # NONE
  <2>1. t \notin free
    BY <1>0, <1>1, Separate
  <2>2. free' = free \ {f} /\ DirSet' = DirSet \ {f}
    BY <1>00, <2>1
  <2>3. \A e \in Frames, l \in Idx : Tb(e, l)' = Tb(e, l)
    BY <1>0, <1>1
  <2> QED BY <2>2, <2>3, OwnedGivePage
<1>2. CASE Tb(d, PDE_INDEX(v)) = NONE
  <2>1. PICK a, b, r, q : a = At /\ b = At' /\ r = <<1, d, PDE_INDEX(v)>> /\ q = <<0, d, v>>
    OBVIOUS
  <2>2. PICK c : c = [s \in Slots |-> IF s = r THEN t ELSE a[s]]
    OBVIOUS
  <2>3. /\ r \in Slots /\ q \in Slots /\ r # q
        /\ a[r] = NONE /\ a[q] = NONE /\ b[r] = t /\ b[q] = f
    BY <1>0, <1>2, <2>1 DEF Slots, At
  <2>4. \A s \in Slots : s # r /\ s # q => b[s] = a[s]
    BY <2>1 DEF Slots, At
  <2>5. t \in free /\ t # NONE /\ f # NONE /\ t # f
    BY <1>2, <1>00
  <2>6. Apart(Slots, a, own, free, held, DirSet)
    BY <2>1 DEF Owned
  <2>7. Apart(Slots, c, own, free \ {t}, held \ {t}, DirSet \ {t})
    <3>1. c[r] = t /\ \A s \in Slots : s # r => c[s] = a[s]
      BY <2>2, <2>3
    <3> QED BY <1>00, <2>3, <2>5, <2>6, <3>1, ApartGive
  <2>8. PICK fr, he, di : fr = free \ {t} /\ he = held \ {t} /\ di = DirSet \ {t}
    OBVIOUS
  <2>9. Apart(Slots, b, own, fr \ {f}, he \ {f}, di \ {f})
    <3>1. c[q] = NONE /\ b[q] = f /\ \A s \in Slots : s # q => b[s] = c[s]
      BY <2>2, <2>3, <2>4
    <3>2. f \in fr \cup he \cup di /\ Apart(Slots, c, own, fr, he, di)
      BY <2>5, <2>7, <2>8
    <3> QED BY <1>00, <2>3, <2>5, <3>1, <3>2, ApartGive
  <2>10. fr \ {f} = free' /\ he \ {f} = held' /\ di \ {f} = DirSet'
    BY <1>00, <2>5, <2>8
  <2> QED BY <2>1, <2>9, <2>10 DEF Owned
<1> QED BY <1>1, <1>2

LEMMA MapNextWhole ==
    ASSUME Types, Whole, ~wild, MapNext, UNCHANGED own
    PROVE  Whole'
<1> USE DEF Whole
<1>0. /\ pc = "map" /\ pc' = "map" /\ ~Cloning /\ ~Cloning' /\ n > 0 /\ n \in Nat
      /\ i' = i + 1 /\ p' = p + 1 /\ n' = n - 1
      /\ UNCHANGED <<data, cr3, paging, src, dirs>>
  BY DEF MapNext, Cloning, Types, cpu
<1>1. /\ src \in dirs /\ src \in Frames /\ p \in held /\ p \in Frames /\ i \in Pages /\ i \in VPage /\ i >= IdPages
      /\ IF UserPage(i) THEN view[src][i] = NONE
         ELSE src = KDir /\ vmm_virt_to_phys(src, i) = NONE
  <2>1. MapLoop /\ 0 \in 0..(n - 1) /\ p + 0 = p /\ i + 0 = i
    BY <1>0 DEF Control, Types
  <2>2. src \in dirs /\ p + 0 \in held /\ i + 0 \in Pages
        /\ IF UserPage(i + 0) THEN view[src][i + 0] = NONE
           ELSE src = KDir /\ vmm_virt_to_phys(src, i + 0) = NONE
    BY <2>1 DEF MapLoop
  <2> QED BY <2>1, <2>2, Layout, Separate DEF Types
<1>2. \A k \in 0..(n' - 1) :
         /\ p' + k \in held /\ p' + k # p /\ i' + k \in Pages /\ i' + k # i
         /\ IF UserPage(i' + k) THEN view[src][i' + k] = NONE
            ELSE src = KDir /\ vmm_virt_to_phys(src, i' + k) = NONE
  <2> SUFFICES ASSUME NEW k \in 0..(n' - 1)
               PROVE  /\ p' + k \in held /\ p' + k # p /\ i' + k \in Pages /\ i' + k # i
                      /\ IF UserPage(i' + k) THEN view[src][i' + k] = NONE
                         ELSE src = KDir /\ vmm_virt_to_phys(src, i' + k) = NONE
    OBVIOUS
  <2>1. k + 1 \in 0..(n - 1) /\ p' + k = p + (k + 1) /\ i' + k = i + (k + 1)
    BY <1>0 DEF Types
  <2>2. MapLoop
    BY <1>0 DEF Control
  <2>3. /\ p + (k + 1) \in held /\ i + (k + 1) \in Pages
        /\ IF UserPage(i + (k + 1)) THEN view[src][i + (k + 1)] = NONE
           ELSE src = KDir /\ vmm_virt_to_phys(src, i + (k + 1)) = NONE
    BY <2>1, <2>2 DEF MapLoop
  <2>4. p + (k + 1) # p /\ i + (k + 1) # i
    BY <2>1, <1>1, Layout
  <2> QED BY <2>1, <2>3, <2>4
<1>3. paging => cr3 = KDir /\ dirs = {KDir} /\ Complete
  BY <1>0 DEF Paged, Barren
<1>4. Pg(src, i) = NONE
  <2>1. CASE UserPage(i)
    BY <1>1, <2>1 DEF Views, Plain, Sees
  <2>2. CASE ~UserPage(i)
    BY <1>1, <2>2, Walks
  <2> QED BY <2>1, <2>2
<1>5. CASE MapFails(src, i) /\ UNCHANGED <<mem, free, tlb, held, view>>
  <2>1. \A e, l : Tb(e, l)' = Tb(e, l)
    BY <1>0, <1>5 DEF Cloning, Tb
  <2>2. \A e, w : Pg(e, w)' = Pg(e, w)
    BY <1>0, <1>5 DEF Cloning, Tb, Pg, PDE_INDEX, PTE_INDEX
  <2>3. \A e, w : vmm_virt_to_phys(e, w)' = vmm_virt_to_phys(e, w)
    BY <1>5 DEF vmm_virt_to_phys, PDE_INDEX, PTE_INDEX
  <2>4. DirSet' = DirSet
    BY <1>0 DEF DirSet, Cloning
  <2>5. Owned'
    BY <1>5, <2>1, <2>2, <2>4, OwnedPass, Separate
  <2>6. Shared' /\ Identity'
    BY <1>0, <1>5, <2>3 DEF Shared, Identity, Cloning
  <2>7. Views'
    BY <1>0, <1>5, <2>2 DEF Views, Plain, Sees, Cloning, UserPage, PDE_INDEX
  <2>8. Control'
    BY <1>0, <1>1, <1>2, <1>5, <2>3 DEF Control, MapLoop, Cloning, UserPage, PDE_INDEX
  <2>9. paging' => Paged'
    BY <1>0, <1>3, <2>3 DEF Paged, Complete, Cloning
  <2> QED BY <2>5, <2>6, <2>7, <2>8, <2>9
<1>6. CASE /\ ~MapFails(src, i) /\ MapPage(src, i, p) /\ held' = held \ {p}
           /\ view' = IF UserPage(i) THEN [view EXCEPT ![src][i] = data[p]] ELSE view
  <2>1. PICK t \in TableFor(src, i) : MapInto(src, i, p, t) /\ free' = free \ {t}
    BY <1>6 DEF MapPage, MapInto
  <2>2. /\ IF mem[src][PDE_INDEX(i)] = NONE THEN t \in free ELSE t = mem[src][PDE_INDEX(i)]
        /\ t \in Frames
    <3>1. PDE_INDEX(i) \in Idx /\ free \subseteq Frames
      BY <1>1, PageIndexes, Separate
    <3> QED BY <1>1, <2>1, <3>1 DEF TableFor, Available, Types
  <2>3. UserPage(i) \/ src = KDir
    BY <1>1
  <2>4. /\ \A e \in Frames, l \in Idx :
             Tb(e, l)' = IF e = src /\ l = PDE_INDEX(i) THEN t ELSE Tb(e, l)
        /\ Tb(src, PDE_INDEX(i)) = mem[src][PDE_INDEX(i)]
        /\ \A e \in Frames, w \in VPage : Pg(e, w)' = IF e = src /\ w = i THEN p ELSE Pg(e, w)
        /\ \A w \in VPage : vmm_virt_to_phys(KDir, w)' =
              IF src = KDir /\ w = i THEN p ELSE vmm_virt_to_phys(KDir, w)
        /\ \A e \in dirs, k \in Idx : k >= KernelPde /\ e # KDir => mem'[e][k] = mem[e][k]
        /\ \A k \in Idx : mem'[KDir][k] = mem[KDir][k] \/ (mem[KDir][k] = NONE /\ src = KDir)
    <3>1. ~(i < IdPages)
      BY <1>1, Layout
    <3> QED BY <1>0, <1>1, <2>1, <2>2, <2>3, <3>1, MapEffect
  <2>5. DirSet' = DirSet
    BY <1>0 DEF DirSet, Cloning
  <2>6. Owned'
    BY <1>1, <1>4, <1>6, <2>1, <2>2, <2>4, <2>5, OwnedMap
  <2>7. Shared'
    <3>1. KernelPde..(E - 1) \subseteq Idx /\ \A k \in KernelPde..(E - 1) : k >= KernelPde
      BY Layout DEF Idx
    <3> SUFFICES ASSUME NEW e \in Frames, NEW k \in KernelPde..(E - 1), e \in dirs
                 PROVE  mem'[e][k] \in {NONE, mem'[KDir][k]}
      BY <1>0 DEF Shared, Cloning
    <3>2. mem[e][k] \in {NONE, mem[KDir][k]}
      BY DEF Shared
    <3>3. e # KDir => mem'[e][k] = mem[e][k]
      BY <2>4, <3>1
    <3>4. mem'[KDir][k] = mem[KDir][k] \/ mem[KDir][k] = NONE
      BY <2>4, <3>1
    <3> QED BY <3>2, <3>3, <3>4
  <2>8. Identity'
    BY <1>1, <2>4, Layout DEF Identity
  <2>9. Views'
    <3>1. ASSUME NEW e \in dirs, NEW w \in VPage
          PROVE  IF Plain(w) THEN Sees(Pg(e, w), view[e][w])' ELSE view'[e][w] = NONE
      <4>1. CASE e = src /\ w = i
        <5>1. CASE UserPage(i)
          <6>1. view'[e][w] = data[p] /\ data[p] \in Token /\ Pg(e, w)' = p
            BY <1>1, <1>6, <2>4, <4>1, <5>1 DEF Types
          <6> QED BY <1>0, <1>1, <4>1, <5>1, <6>1, Layout DEF Plain, Sees
        <5>2. CASE ~UserPage(i)
          BY <1>6, <4>1, <5>2 DEF Views, Plain
        <5> QED BY <5>1, <5>2
      <4>2. CASE ~(e = src /\ w = i)
        <5>1. view'[e][w] = view[e][w]
          BY <1>1, <1>6, <4>2 DEF Types
        <5>2. Pg(e, w)' = Pg(e, w)
          BY <2>4, <4>2 DEF Types
        <5> QED BY <1>0, <5>1, <5>2 DEF Views, Sees
      <4> QED BY <4>1, <4>2
    <3> QED BY <1>0, <3>1 DEF Views, Plain, UserPage, PDE_INDEX
  <2>10. Control'
    <3>1. ASSUME NEW k \in 0..(n' - 1), NEW w, w = i' + k
          PROVE  /\ p' + k \in held' /\ w \in Pages
                 /\ IF UserPage(w) THEN view'[src][w] = NONE
                    ELSE src = KDir /\ vmm_virt_to_phys(KDir, w)' = NONE
      <4>1. p' + k \in held' /\ w \in Pages /\ w \in VPage /\ w # i
        BY <1>2, <1>6, <3>1, Layout
      <4>2. CASE UserPage(w)
        BY <1>1, <1>2, <1>6, <3>1, <4>1, <4>2 DEF Types
      <4>3. CASE ~UserPage(w)
        BY <1>2, <2>4, <3>1, <4>1, <4>3
      <4> QED BY <4>1, <4>2, <4>3
    <3>2. MapLoop'
      BY <1>0, <1>1, <3>1 DEF MapLoop, UserPage, PDE_INDEX, vmm_virt_to_phys, PTE_INDEX
    <3> QED BY <1>0, <3>2 DEF Control, Cloning
  <2>11. paging' => Paged'
    BY <1>0, <1>1, <1>3, <2>4, Layout DEF Paged, Complete, Cloning
  <2> QED BY <2>6, <2>7, <2>8, <2>9, <2>10, <2>11
<1> QED BY <1>5, <1>6 DEF MapNext

----------------------------------------------------------------------------
(***************************************************************************)
(* The calls and loops other than vmm_clone_dir.                           *)
(***************************************************************************)

\* Nothing but the processor's state changes.
LEMMA RestSame ==
    ASSUME Whole, UNCHANGED <<mem, data, own, free, pc, dst, src, i, j, pt, p, n, dirs, held, view>>,
           UNCHANGED <<paging, cr3>> \/ ~paging'
    PROVE  Whole'
<1>1. \A e, l : Tb(e, l)' = Tb(e, l)
  BY DEF Cloning, Tb
<1>2. \A e, w : Pg(e, w)' = Pg(e, w)
  BY DEF Cloning, Tb, Pg, PDE_INDEX, PTE_INDEX
<1>3. \A e, w : vmm_virt_to_phys(e, w)' = vmm_virt_to_phys(e, w)
  BY DEF vmm_virt_to_phys, PDE_INDEX, PTE_INDEX
<1>4. DirSet' = DirSet
  BY DEF DirSet, Cloning
<1>5. Owned'
  <2>1. Owned
    BY DEF Whole
  <2>2. free \cap held = {} /\ free \cap DirSet = {} /\ held \cap DirSet = {}
    BY <2>1 DEF Owned, Apart
  <2> QED BY <1>1, <1>2, <1>4, <2>1, <2>2, OwnedPass
<1>6. Shared' /\ Identity'
  BY <1>3 DEF Whole, Shared, Identity, Cloning
<1>7. Views'
  BY <1>2 DEF Whole, Views, Plain, Sees, Cloning, Copied, UserPage, PDE_INDEX, PTE_INDEX
<1>8. (Cloning => CloneLoop)'
  BY DEF Whole, Control, CloneLoop, Cloning
<1>9. (pc = "map" => MapLoop)'
  BY DEF Whole, Control, MapLoop, Cloning, UserPage, PDE_INDEX, PTE_INDEX, vmm_virt_to_phys
<1>10. (pc = "boot" => BootLoop)'
  BY <1>3 DEF Whole, Control, BootLoop
<1>11. paging' => Paged'
  BY <1>2, <1>3 DEF Whole, Paged, Complete, Barren, Cloning, Copied, PDE_INDEX, PTE_INDEX
<1> QED BY <1>5, <1>6, <1>7, <1>8, <1>9, <1>10, <1>11 DEF Whole, Control

\* A caller's step that leaves the tables alone.
LEMMA PassWhole ==
    ASSUME Types, Whole, ~wild, ~Cloning, ~Cloning', pc' # "boot",
           UNCHANGED <<mem, data, own, cr3, paging, dirs, view>>,
           free' \cup held' = free \cup held, free' \cap held' = {},
           pc' = "map" => MapLoop', paging => Complete
    PROVE  Whole'
<1>1. \A e, l : Tb(e, l)' = Tb(e, l)
  BY DEF Cloning, Tb
<1>2. \A e, w : Pg(e, w)' = Pg(e, w)
  BY DEF Cloning, Tb, Pg, PDE_INDEX, PTE_INDEX
<1>3. \A e, w : vmm_virt_to_phys(e, w)' = vmm_virt_to_phys(e, w)
  BY DEF vmm_virt_to_phys, PDE_INDEX, PTE_INDEX
<1>4. DirSet' = DirSet
  BY DEF DirSet, Cloning
<1>5. Owned'
  <2>1. Owned
    BY DEF Whole
  <2>2. free \cap DirSet = {} /\ held \cap DirSet = {}
    BY <2>1, Separate
  <2> QED BY <1>1, <1>2, <1>4, <2>1, <2>2, OwnedPass
<1>6. Shared' /\ Identity'
  BY <1>3 DEF Whole, Shared, Identity, Cloning
<1>7. Views'
  BY <1>2 DEF Whole, Views, Plain, Sees, Cloning, UserPage, PDE_INDEX
<1>8. Control'
  BY DEF Control, Cloning
<1>9. paging' => Paged'
  BY <1>3 DEF Whole, Paged, Complete, Cloning
<1> QED BY <1>5, <1>6, <1>7, <1>8, <1>9 DEF Whole

LEMMA CallerAllocWhole ==
    ASSUME Types, Whole, ~wild, CallerAlloc, UNCHANGED own
    PROVE  Whole'
<1>1. PICK f \in Available : held' = held \cup {f} /\ free' = free \ {f}
  BY DEF CallerAlloc
<1>2. f \in free /\ free \cap held = {}
  BY <1>1, Separate DEF Available, Whole
<1>3. /\ ~Cloning /\ ~Cloning' /\ pc' = "idle"
      /\ UNCHANGED <<mem, data, own, cr3, paging, dirs, view>>
  BY DEF CallerAlloc, MayCall, Cloning, regs, tables, cpu
<1>4. paging => Complete
  BY <1>2 DEF Whole, Paged, Barren
<1> QED BY <1>1, <1>2, <1>3, <1>4, PassWhole

LEMMA CallerFreeWhole ==
    ASSUME Types, Whole, ~wild, NEW f \in held, CallerFree(f), UNCHANGED own
    PROVE  Whole'
<1>1. held' = held \ {f} /\ free' = free \cup {f} /\ free \cap held = {}
  BY Separate DEF CallerFree, Whole
<1>2. /\ ~Cloning /\ ~Cloning' /\ pc' = "idle"
      /\ UNCHANGED <<mem, data, own, cr3, paging, dirs, view>>
  BY DEF CallerFree, MayCall, Cloning, regs, tables, cpu
<1>3. paging => Complete
  BY DEF Whole, Paged, Barren
<1> QED BY <1>1, <1>2, <1>3, PassWhole

LEMMA MapRangeWhole ==
    ASSUME Types, Whole, ~wild, NEW d \in dirs, NEW v \in Pages, NEW f \in held,
           NEW size \in 1..MaxHeld, vmm_map_range(d, v, f, size), UNCHANGED own
    PROVE  Whole'
<1>1. /\ ~Cloning /\ ~Cloning' /\ pc' = "map" /\ free' = free /\ held' = held
      /\ UNCHANGED <<mem, data, own, cr3, paging, dirs, view>>
  BY DEF vmm_map_range, MayCall, Cloning, tables, cpu
<1>2. MapLoop'
  BY DEF vmm_map_range, MapLoop, tables, UserPage, PDE_INDEX, PTE_INDEX, vmm_virt_to_phys
<1>3. paging => Complete
  BY DEF Whole, Paged, Barren
<1>4. free \cap held = {}
  BY Separate DEF Whole
<1> QED BY <1>1, <1>2, <1>3, <1>4, PassWhole

LEMMA MapReturnWhole ==
    ASSUME Types, Whole, ~wild, MapReturn, UNCHANGED own
    PROVE  Whole'
<1>1. /\ ~Cloning /\ ~Cloning' /\ pc' = "idle" /\ free' = free /\ held' = held
      /\ UNCHANGED <<mem, data, own, cr3, paging, dirs, view>>
  BY DEF MapReturn, Cloning, tables, cpu
<1>2. paging => Complete
  BY DEF MapReturn, Whole, Paged, Barren
<1>3. free \cap held = {}
  BY Separate DEF Whole
<1> QED BY <1>1, <1>2, <1>3, PassWhole

LEMMA SwitchWhole ==
    ASSUME Types, Whole, ~wild, NEW d \in dirs, vmm_switch_dir(d), UNCHANGED own
    PROVE  ~wild' /\ Whole' /\ (paging => cr3' = KDir)
<1>1. paging => cr3 = KDir /\ d = KDir /\ vmm_virt_to_phys(KDir, KDir) = KDir
  BY DEF Whole, Paged, vmm_switch_dir, Touches
<1>2. KDir # NONE
  BY Layout
<1>3. paging => cr3' = KDir
  BY <1>1, <1>2 DEF vmm_switch_dir
<1>4. ~wild'
  BY <1>1, <1>2 DEF vmm_switch_dir
<1>5. UNCHANGED <<mem, data, own, free, pc, dst, src, i, j, pt, p, n, dirs, held, view, paging>>
  BY <1>4 DEF vmm_switch_dir, tables
<1>6. UNCHANGED <<paging, cr3>> \/ ~paging'
  BY <1>1, <1>3, <1>5
<1> QED BY <1>3, <1>4, <1>5, <1>6, RestSame

----------------------------------------------------------------------------
LEMMA UserWriteWhole ==
    ASSUME Types, Whole, ~wild, NEW d \in dirs, NEW v \in Pages, NEW t \in Token,
           UserWrite(d, v, t), UNCHANGED own
    PROVE  Whole' /\ \A w \in VPage : vmm_virt_to_phys(KDir, w)' = vmm_virt_to_phys(KDir, w)
<1> USE DEF Whole
<1>0. /\ pc = "idle" /\ pc' = "idle" /\ ~Cloning /\ ~Cloning'
      /\ UNCHANGED <<own, free, held, dirs, cr3, paging>>
  BY DEF UserWrite, MayCall, Cloning, regs, cpu
<1>1. v \in VPage /\ v >= IdPages /\ d \in Frames /\ KDir \in dirs /\ KDir \in Frames
  BY Layout DEF Types
<1>2. PICK f : f = vmm_virt_to_phys(d, v)
  OBVIOUS
<1>3. Plain(v) /\ Pg(d, v) = f /\ f # NONE /\ data[f] = view[d][v]
  <2>1. Plain(v) /\ Pg(d, v) # NONE
    BY <1>1 DEF UserWrite, Views, Sees
  <2>2. Pg(d, v) = f
    BY <1>1, <1>2, <2>1, Walks DEF Plain
  <2> QED BY <1>1, <2>1, <2>2 DEF Views, Sees, UserWrite
<1>4. /\ f \in own /\ f \in Frames /\ f \notin DirSet /\ f # KDir
      /\ \A e \in Frames, k \in Idx : Tb(e, k) # f
  BY <1>1, <1>3, Separate
<1>5. /\ data' = [data EXCEPT ![f] = t] /\ mem' = [mem EXCEPT ![f] = Blank]
      /\ view' = [view EXCEPT ![d][v] = t]
  BY <1>2 DEF UserWrite
<1>6. \A g : g \in Frames /\ g # f => mem'[g] = mem[g] /\ data'[g] = data[g]
  BY <1>5 DEF Types
<1>7. \A e \in dirs : e # f /\ e \in Frames /\ mem'[e] = mem[e]
  BY <1>0, <1>4, <1>6, Quiet DEF Types
<1>8. \A e \in Frames, l \in Idx : Tb(e, l)' = Tb(e, l)
  BY <1>0, <1>7 DEF Cloning, Tb
<1>9. ASSUME NEW e \in Frames, NEW w \in VPage PROVE Pg(e, w)' = Pg(e, w)
  <2>1. PDE_INDEX(w) \in Idx
    BY PageIndexes
  <2>2. Tb(e, PDE_INDEX(w)) # NONE =>
          Tb(e, PDE_INDEX(w)) \in Frames /\ Tb(e, PDE_INDEX(w)) # f
    BY <1>4, <2>1, Separate
  <2>3. Tb(e, PDE_INDEX(w)) # NONE => mem'[Tb(e, PDE_INDEX(w))] = mem[Tb(e, PDE_INDEX(w))]
    BY <1>6, <2>2
  <2>4. Pg(e, w)' = IF Tb(e, PDE_INDEX(w))' = NONE \/ (e = KDir /\ w < IdPages)
                    THEN NONE ELSE mem'[Tb(e, PDE_INDEX(w))'][PTE_INDEX(w)]
    BY <1>0 DEF Cloning, Pg, PDE_INDEX, PTE_INDEX
  <2> QED BY <1>0, <1>8, <2>1, <2>3, <2>4, Quiet
<1>10. ASSUME NEW w \in VPage
       PROVE  vmm_virt_to_phys(KDir, w)' = vmm_virt_to_phys(KDir, w)
  <2>1. mem[KDir][PDE_INDEX(w)] # NONE =>
          mem[KDir][PDE_INDEX(w)] \in Frames /\ mem[KDir][PDE_INDEX(w)] # f
    BY <1>1, <1>4, PageIndexes, Walks DEF Types
  <2> QED BY <1>1, <1>6, <1>7, <2>1, WalkSame
<1>11. Owned'
  <2>1. DirSet' = DirSet
    BY <1>0 DEF DirSet, Cloning
  <2> QED BY <1>0, <1>8, <1>9, <2>1, OwnedPass, Separate
<1>12. Shared' /\ Identity'
  BY <1>0, <1>1, <1>7, <1>10, Layout DEF Shared, Identity, Cloning
<1>13. Views'
  <2>1. ASSUME NEW e \in dirs, NEW w \in VPage
        PROVE  IF Plain(w) THEN Sees(Pg(e, w), view[e][w])' ELSE view'[e][w] = NONE
    <3>1. CASE e = d /\ w = v
      BY <1>1, <1>3, <1>4, <1>5, <1>9, <3>1, Layout DEF Sees, Types
    <3>2. CASE ~(e = d /\ w = v)
      <4>1. view'[e][w] = view[e][w]
        BY <1>1, <1>5, <3>2 DEF Types
      <4>2. Pg(e, w)' = Pg(e, w)
        BY <1>9 DEF Types
      <4>3. Pg(e, w) # NONE => Pg(e, w) \in Frames /\ Pg(e, w) # f
        BY <1>1, <1>3, <3>2, Separate DEF Types
      <4> QED BY <1>6, <4>1, <4>2, <4>3 DEF Views, Sees
    <3> QED BY <3>1, <3>2
  <2> QED BY <1>0, <2>1 DEF Views, Plain, UserPage, PDE_INDEX
<1>14. Control'
  BY <1>0 DEF Control, Cloning
<1>15. paging' => Paged'
  BY <1>0, <1>10, Layout DEF Paged, Complete, Barren, Cloning
<1> QED BY <1>10, <1>11, <1>12, <1>13, <1>14, <1>15

\* The slots R are emptied.
LEMMA OwnedTake ==
    ASSUME Types, Owned, UNCHANGED own, NEW R,
           \A d \in Frames, k \in Idx : Tb(d, k)' = IF <<1, d, k>> \in R THEN NONE ELSE Tb(d, k),
           \A d \in Frames, v \in VPage : Pg(d, v)' = IF <<0, d, v>> \in R THEN NONE ELSE Pg(d, v),
           free' \cap held' = {}, free' \cap DirSet' = {}, held' \cap DirSet' = {},
           free \cup held \cup DirSet \subseteq free' \cup held' \cup DirSet',
           \A d \in Frames, k \in Idx : <<1, d, k>> \in R /\ Tb(d, k) # NONE =>
               Tb(d, k) \in free' \cup held' \cup DirSet',
           \A d \in Frames, v \in VPage : <<0, d, v>> \in R /\ Pg(d, v) # NONE =>
               Pg(d, v) \in free' \cup held' \cup DirSet',
           \A f \in free' \cup held' \cup DirSet' :
               \/ f \in free \cup held \cup DirSet
               \/ f # NONE /\ \E d \in Frames, k \in Idx : <<1, d, k>> \in R /\ f = Tb(d, k)
               \/ f # NONE /\ \E d \in Frames, v \in VPage : <<0, d, v>> \in R /\ f = Pg(d, v)
    PROVE  Owned'
<1>0. NONE \notin own
  BY Separate
<1>1. PICK a, b, fs, hs, ds : a = At /\ b = At' /\ fs = free' /\ hs = held' /\ ds = DirSet'
  OBVIOUS
<1>2. \A s \in Slots : b[s] = IF s \in R THEN NONE ELSE a[s]
  BY <1>1 DEF At, Slots
<1>3. \A s \in Slots : s \in R /\ a[s] # NONE => a[s] \in fs \cup hs \cup ds
  BY <1>1 DEF At, Slots
<1>4. ASSUME NEW f \in fs \cup hs \cup ds
      PROVE  f \in free \cup held \cup DirSet \/ (f # NONE /\ \E s \in Slots : s \in R /\ f = a[s])
  <2>1. CASE f \in free \cup held \cup DirSet
    BY <2>1
  <2>2. CASE f # NONE /\ \E d \in Frames, k \in Idx : <<1, d, k>> \in R /\ f = Tb(d, k)
    <3>1. PICK d \in Frames, k \in Idx : <<1, d, k>> \in R /\ f = Tb(d, k)
      BY <2>2
    <3>2. <<1, d, k>> \in Slots /\ a[<<1, d, k>>] = Tb(d, k)
      BY <1>1 DEF At, Slots
    <3> QED BY <2>2, <3>1, <3>2
  <2>3. CASE f # NONE /\ \E d \in Frames, v \in VPage : <<0, d, v>> \in R /\ f = Pg(d, v)
    <3>1. PICK d \in Frames, v \in VPage : <<0, d, v>> \in R /\ f = Pg(d, v)
      BY <2>3
    <3>2. <<0, d, v>> \in Slots /\ a[<<0, d, v>>] = Pg(d, v)
      BY <1>1 DEF At, Slots
    <3> QED BY <2>3, <3>1, <3>2
  <2> QED BY <1>1, <2>1, <2>2, <2>3
<1>5. Apart(Slots, a, own, free, held, DirSet)
  BY <1>1 DEF Owned
<1>6. Apart(Slots, b, own, fs, hs, ds)
  <2>1. fs \cap hs = {} /\ fs \cap ds = {} /\ hs \cap ds = {}
        /\ free \cup held \cup DirSet \subseteq fs \cup hs \cup ds
    BY <1>1
  <2> QED BY <1>0, <1>2, <1>3, <1>4, <1>5, <2>1, ApartTake
<1> QED BY <1>1, <1>6 DEF Owned

LEMMA UnmapWhole ==
    ASSUME Types, Whole, ~wild, NEW d \in dirs, NEW v \in Pages,
           vmm_unmap_page(d, v), UNCHANGED own
    PROVE  /\ Whole' /\ held' \subseteq own
           /\ \A w \in VPage : w # v => vmm_virt_to_phys(KDir, w)' = vmm_virt_to_phys(KDir, w)
<1> USE DEF Whole
<1>0. /\ pc = "idle" /\ pc' = "idle" /\ ~Cloning /\ ~Cloning'
      /\ UNCHANGED <<data, own, free, dirs, cr3, paging>>
  BY DEF vmm_unmap_page, MayCall, Cloning, regs, cpu
<1>1. /\ v \in VPage /\ v >= IdPages /\ d \in Frames /\ KDir \in dirs /\ KDir \in Frames
      /\ UserPage(v) \/ d = KDir
      /\ PDE_INDEX(v) \in Idx /\ PTE_INDEX(v) \in Idx
  BY Layout, PageIndexes DEF Types, vmm_unmap_page
<1>2. PICK t, x : t = mem[d][PDE_INDEX(v)] /\ x = mem[t][PTE_INDEX(v)]
  OBVIOUS
<1>3. /\ t # NONE /\ held' = (IF x = NONE THEN held ELSE held \cup {x})
      /\ mem' = [mem EXCEPT ![t] = [@ EXCEPT ![PTE_INDEX(v)] = NONE]]
      /\ view' = [view EXCEPT ![d][v] = NONE]
  BY <1>2 DEF vmm_unmap_page
<1>4. Tb(d, PDE_INDEX(v)) = t /\ Pg(d, v) = x
  <2>1. Tb(d, PDE_INDEX(v)) = t /\ Pg(d, v) = vmm_virt_to_phys(d, v)
    BY <1>1, <1>2, Walks
  <2> QED BY <1>2, <1>3, <2>1 DEF vmm_virt_to_phys
<1>5. t \in own /\ t \in Frames /\ t \notin DirSet /\ t # KDir
  BY <1>1, <1>3, <1>4, Separate
<1>6. /\ \A g : g \in Frames /\ g # t => mem'[g] = mem[g]
      /\ \A k \in Idx : mem'[t][k] = IF k = PTE_INDEX(v) THEN NONE ELSE mem[t][k]
  BY <1>1, <1>3, <1>5 DEF Types
<1>7. \A e \in dirs : e # t /\ e \in Frames /\ mem'[e] = mem[e]
  BY <1>0, <1>5, <1>6, Quiet DEF Types
<1>8. \A e \in Frames, l \in Idx : Tb(e, l)' = Tb(e, l)
  BY <1>0, <1>7 DEF Cloning, Tb
<1>9. ASSUME NEW e \in Frames, NEW w \in VPage
      PROVE  Pg(e, w)' = IF e = d /\ w = v THEN NONE ELSE Pg(e, w)
  <2>1. PDE_INDEX(w) \in Idx /\ PTE_INDEX(w) \in Idx
    BY PageIndexes
  <2>2. Pg(e, w)' = IF Tb(e, PDE_INDEX(w)) = NONE \/ (e = KDir /\ w < IdPages)
                    THEN NONE ELSE mem'[Tb(e, PDE_INDEX(w))][PTE_INDEX(w)]
    BY <1>0, <1>8, <2>1 DEF Cloning, Pg, PDE_INDEX, PTE_INDEX
  <2>3. Pg(e, w) = IF Tb(e, PDE_INDEX(w)) = NONE \/ (e = KDir /\ w < IdPages)
                   THEN NONE ELSE mem[Tb(e, PDE_INDEX(w))][PTE_INDEX(w)]
    BY <1>0, Quiet
  <2>4. CASE e = d /\ PDE_INDEX(w) = PDE_INDEX(v)
    <3>1. PTE_INDEX(w) = PTE_INDEX(v) <=> w = v
      BY <1>1, <2>4, PageIndexes
    <3> QED BY <1>4, <1>6, <2>1, <2>2, <2>3, <2>4, <3>1
  <2>5. CASE ~(e = d /\ PDE_INDEX(w) = PDE_INDEX(v))
    <3>1. Tb(e, PDE_INDEX(w)) # NONE =>
            Tb(e, PDE_INDEX(w)) \in Frames /\ Tb(e, PDE_INDEX(w)) # t
      BY <1>1, <1>3, <1>4, <2>1, <2>5, Separate
    <3> QED BY <1>6, <2>2, <2>3, <2>5, <3>1
  <2> QED BY <2>4, <2>5
<1>10. ASSUME NEW w \in VPage
       PROVE  vmm_virt_to_phys(KDir, w)' =
                 IF d = KDir /\ w = v THEN NONE ELSE vmm_virt_to_phys(KDir, w)
  <2>1. PDE_INDEX(w) \in Idx /\ PTE_INDEX(w) \in Idx
    BY PageIndexes
  <2>2. /\ mem'[KDir] = mem[KDir] /\ mem[KDir][PDE_INDEX(w)] = Tb(KDir, PDE_INDEX(w))
        /\ mem[KDir][PDE_INDEX(w)] \in Frames \cup {NONE}
    BY <1>1, <1>7, <2>1, Walks DEF Types
  <2>3. CASE d = KDir /\ PDE_INDEX(w) = PDE_INDEX(v)
    <3>1. PTE_INDEX(w) = PTE_INDEX(v) <=> w = v
      BY <1>1, <2>3, PageIndexes
    <3>2. vmm_virt_to_phys(KDir, w)' = mem'[t][PTE_INDEX(w)]
      BY <1>2, <1>3, <2>2, <2>3 DEF vmm_virt_to_phys, PDE_INDEX, PTE_INDEX
    <3>3. vmm_virt_to_phys(KDir, w) = mem[t][PTE_INDEX(w)]
      BY <1>2, <1>3, <2>3 DEF vmm_virt_to_phys
    <3> QED BY <1>6, <2>1, <2>3, <3>1, <3>2, <3>3
  <2>4. CASE ~(d = KDir /\ PDE_INDEX(w) = PDE_INDEX(v))
    <3>1. mem[KDir][PDE_INDEX(w)] # t
      BY <1>1, <1>3, <1>4, <2>1, <2>2, <2>4, Separate
    <3>2. vmm_virt_to_phys(KDir, w)' = vmm_virt_to_phys(KDir, w)
      BY <1>1, <1>6, <2>2, <3>1, WalkSame
    <3> QED BY <2>4, <3>2
  <2> QED BY <2>3, <2>4
<1>11. x # NONE => x \in own /\ x \notin free /\ x \notin DirSet
  BY <1>1, <1>4, Separate
<1>12. held' \subseteq own
  BY <1>3, <1>11, Separate
<1>13. Owned'
  <2>0. DirSet' = DirSet
    BY <1>0 DEF DirSet, Cloning
  <2> DEFINE R == {<<0, d, v>>}
  <2>1. \A e \in Frames, k \in Idx : <<1, e, k>> \notin R
    OBVIOUS
  <2>2. \A e \in Frames, w \in VPage : <<0, e, w>> \in R <=> e = d /\ w = v
    OBVIOUS
  <2> HIDE DEF R
  <2>3. free \cap held = {} /\ free \cap DirSet = {} /\ held \cap DirSet = {}
    BY Separate
  <2>4. free' \cap held' = {} /\ free' \cap DirSet' = {} /\ held' \cap DirSet' = {}
        /\ free \cup held \cup DirSet \subseteq free' \cup held' \cup DirSet'
    BY <1>0, <1>3, <1>11, <2>0, <2>3
  <2>5. \A e \in Frames, w \in VPage : <<0, e, w>> \in R /\ Pg(e, w) # NONE =>
               Pg(e, w) \in free' \cup held' \cup DirSet'
    BY <1>3, <1>4, <2>2
  <2>6. ASSUME NEW f \in free' \cup held' \cup DirSet'
        PROVE  \/ f \in free \cup held \cup DirSet
               \/ f # NONE /\ \E e \in Frames, w \in VPage : <<0, e, w>> \in R /\ f = Pg(e, w)
    BY <1>0, <1>1, <1>3, <1>4, <2>0, <2>2
  <2>7. \A e \in Frames, k \in Idx : Tb(e, k)' = IF <<1, e, k>> \in R THEN NONE ELSE Tb(e, k)
    BY <1>8, <2>1
  <2>8. \A e \in Frames, w \in VPage : Pg(e, w)' = IF <<0, e, w>> \in R THEN NONE ELSE Pg(e, w)
    BY <1>9, <2>2
  <2> QED BY <2>1, <2>4, <2>5, <2>6, <2>7, <2>8, OwnedTake
<1>14. Shared' /\ Identity'
  BY <1>0, <1>1, <1>7, <1>10, Layout DEF Shared, Identity, Cloning
<1>15. Views'
  <2>1. ASSUME NEW e \in dirs, NEW w \in VPage
        PROVE  IF Plain(w) THEN Sees(Pg(e, w), view[e][w])' ELSE view'[e][w] = NONE
    <3>1. CASE e = d /\ w = v
      BY <1>1, <1>3, <1>9, <3>1 DEF Sees, Types
    <3>2. CASE ~(e = d /\ w = v)
      <4>1. view'[e][w] = view[e][w]
        BY <1>1, <1>3, <3>2 DEF Types
      <4>2. Pg(e, w)' = Pg(e, w)
        BY <1>9, <3>2 DEF Types
      <4> QED BY <1>0, <4>1, <4>2 DEF Views, Sees
    <3> QED BY <3>1, <3>2
  <2> QED BY <1>0, <2>1 DEF Views, Plain, UserPage, PDE_INDEX
<1>16. Control'
  BY <1>0 DEF Control, Cloning
<1>17. paging' => Paged'
  <2> SUFFICES ASSUME paging' PROVE Paged'
    OBVIOUS
  <2>1. cr3 = KDir /\ dirs = {KDir} /\ (Complete \/ Barren) /\ d = KDir
    BY <1>0 DEF Paged
  <2>2. Complete => Complete'
    BY <1>1, <1>10, Layout DEF Complete
  <2>3. Barren => Barren'
    <3> SUFFICES ASSUME Barren PROVE Barren'
      OBVIOUS
    <3>1. x = NONE
      BY <1>1, <1>4, <2>1, Walks DEF Barren
    <3> QED BY <1>0, <1>3, <1>10, <3>1 DEF Barren
  <2> QED BY <1>0, <2>1, <2>2, <2>3 DEF Paged, Cloning
<1> QED BY <1>1, <1>10, <1>12, <1>13, <1>14, <1>15, <1>16, <1>17

LEMMA DestroyWhole ==
    ASSUME Types, Whole, ~wild, NEW d \in dirs, vmm_destroy_dir(d), UNCHANGED own
    PROVE  Whole' /\ free' \subseteq own
<1> USE DEF Whole
<1>0. /\ pc = "idle" /\ pc' = "idle" /\ ~Cloning /\ ~Cloning' /\ d # KDir
      /\ UNCHANGED <<mem, data, own, held, cr3, paging>>
      /\ free' = free \cup DirFrames(d) /\ dirs' = dirs \ {d}
      /\ view' = [e \in dirs \ {d} |-> view[e]]
  BY DEF vmm_destroy_dir, MayCall, Cloning, regs, tables, cpu
<1>1. /\ d \in Frames /\ d \in DirSet /\ DirSet = dirs \ {KDir} /\ DirSet' = DirSet \ {d}
      /\ KDir \in dirs /\ d \in own
  <2>1. DirSet = dirs \ {KDir} /\ DirSet' = dirs' \ {KDir}
    BY <1>0 DEF DirSet, Cloning
  <2> QED BY <1>0, <2>1, Separate DEF Types
<1>2. \A e \in Frames, l \in Idx : Tb(e, l)' = IF e = d THEN NONE ELSE Tb(e, l)
  <2>1. \A e, k : Tb(e, k)' = IF e \in dirs' /\ (k < KernelPde \/ e = KDir)
                              THEN mem'[e][k] ELSE NONE
    BY <1>0 DEF Cloning, Tb
  <2> QED BY <1>0, <2>1, Quiet
<1>3. ASSUME NEW e \in Frames, NEW w \in VPage
      PROVE  Pg(e, w)' = IF e = d THEN NONE ELSE Pg(e, w)
  <2>1. Pg(e, w)' = IF Tb(e, PDE_INDEX(w))' = NONE \/ (e = KDir /\ w < IdPages)
                    THEN NONE ELSE mem'[Tb(e, PDE_INDEX(w))'][PTE_INDEX(w)]
    BY <1>0 DEF Cloning, Pg, PDE_INDEX, PTE_INDEX
  <2>2. Tb(e, PDE_INDEX(w))' = IF e = d THEN NONE ELSE Tb(e, PDE_INDEX(w))
    BY <1>2, PageIndexes
  <2> QED BY <1>0, <2>1, <2>2, Quiet
<1>4. \A w : vmm_virt_to_phys(KDir, w)' = vmm_virt_to_phys(KDir, w)
  BY <1>0 DEF vmm_virt_to_phys, PDE_INDEX, PTE_INDEX
<1>5. \A k \in Idx : Tb(d, k) = IF k < KernelPde THEN mem[d][k] ELSE NONE
  BY <1>0, Quiet
<1>6. \A k \in Idx : Tb(d, k) # NONE => Tb(d, k) \in DirFrames(d)
  BY <1>5, Layout DEF DirFrames, UserTables, Idx
<1>7. ASSUME NEW w \in VPage, Pg(d, w) # NONE PROVE Pg(d, w) \in DirFrames(d)
  <2>1. PDE_INDEX(w) \in Idx /\ PTE_INDEX(w) \in Idx
    BY PageIndexes
  <2>2. Tb(d, PDE_INDEX(w)) # NONE /\ Pg(d, w) = mem[Tb(d, PDE_INDEX(w))][PTE_INDEX(w)]
    BY <1>0, <1>7, Quiet
  <2>3. Tb(d, PDE_INDEX(w)) \in UserTables(d)
    BY <1>5, <2>1, <2>2, Layout DEF UserTables, Idx
  <2>4. Pg(d, w) \in PagesOf(Tb(d, PDE_INDEX(w)))
    BY <1>7, <2>1, <2>2 DEF PagesOf
  <2> QED BY <2>3, <2>4 DEF DirFrames
<1>8. ASSUME NEW f \in DirFrames(d)
      PROVE  \/ f = d
             \/ f # NONE /\ \E k \in Idx : f = Tb(d, k)
             \/ f # NONE /\ \E w \in VPage : f = Pg(d, w)
  <2>1. CASE f \in UserTables(d)
    <3>1. PICK k \in 0..(KernelPde - 1) : mem[d][k] # NONE /\ f = mem[d][k]
      BY <2>1 DEF UserTables
    <3>2. k \in Idx /\ k < KernelPde
      BY Layout DEF Idx
    <3> QED BY <1>5, <3>1, <3>2
  <2>2. CASE f \in UNION {PagesOf(t) : t \in UserTables(d)}
    <3>1. PICK t \in UserTables(d) : f \in PagesOf(t)
      BY <2>2
    <3>2. PICK k \in 0..(KernelPde - 1) : mem[d][k] # NONE /\ t = mem[d][k]
      BY <3>1 DEF UserTables
    <3>3. k \in Idx /\ k < KernelPde /\ Tb(d, k) = t /\ t # NONE
      <4>1. k \in Idx /\ k < KernelPde
        BY Layout DEF Idx
      <4> QED BY <1>5, <3>2, <4>1
    <3>4. PICK l \in Idx : mem[t][l] # NONE /\ f = mem[t][l]
      BY <3>1 DEF PagesOf
    <3>5. PICK w \in VPage : PDE_INDEX(w) = k /\ PTE_INDEX(w) = l
      BY <3>3, PageIndexes
    <3>6. Pg(d, w) = f
      BY <1>0, <3>3, <3>4, <3>5, Quiet
    <3> QED BY <3>4, <3>6
  <2> QED BY <2>1, <2>2 DEF DirFrames
<1>9. \A f \in DirFrames(d) : f \in own /\ f \notin held /\ f \notin DirSet \ {d}
  BY <1>1, <1>8, Separate
<1>10. free' \subseteq own
  BY <1>0, <1>9, Separate
<1>11. Owned'
  <2> DEFINE R == {1} \X {d} \X Idx \cup {0} \X {d} \X VPage
  <2>1. \A e \in Frames, k \in Idx : <<1, e, k>> \in R <=> e = d
    OBVIOUS
  <2>2. \A e \in Frames, w \in VPage : <<0, e, w>> \in R <=> e = d
    OBVIOUS
  <2> HIDE DEF R
  <2>3. free \cap held = {} /\ free \cap DirSet = {} /\ held \cap DirSet = {}
    BY Separate
  <2>4. d \in DirFrames(d)
    BY DEF DirFrames
  <2>5. free' \cap held' = {} /\ free' \cap DirSet' = {} /\ held' \cap DirSet' = {}
        /\ free \cup held \cup DirSet \subseteq free' \cup held' \cup DirSet'
    BY <1>0, <1>1, <1>9, <2>3, <2>4
  <2>6. \A e \in Frames, k \in Idx : <<1, e, k>> \in R /\ Tb(e, k) # NONE =>
               Tb(e, k) \in free' \cup held' \cup DirSet'
    BY <1>0, <1>6, <2>1
  <2>7. \A e \in Frames, w \in VPage : <<0, e, w>> \in R /\ Pg(e, w) # NONE =>
               Pg(e, w) \in free' \cup held' \cup DirSet'
    BY <1>0, <1>7, <2>2
  <2>8. ASSUME NEW f \in free' \cup held' \cup DirSet'
        PROVE  \/ f \in free \cup held \cup DirSet
               \/ f # NONE /\ \E e \in Frames, k \in Idx : <<1, e, k>> \in R /\ f = Tb(e, k)
               \/ f # NONE /\ \E e \in Frames, w \in VPage : <<0, e, w>> \in R /\ f = Pg(e, w)
    BY <1>0, <1>1, <1>8, <2>1, <2>2
  <2>9. \A e \in Frames, k \in Idx : Tb(e, k)' = IF <<1, e, k>> \in R THEN NONE ELSE Tb(e, k)
    BY <1>2, <2>1
  <2>10. \A e \in Frames, w \in VPage : Pg(e, w)' = IF <<0, e, w>> \in R THEN NONE ELSE Pg(e, w)
    BY <1>3, <2>2
  <2> QED BY <2>5, <2>6, <2>7, <2>8, <2>9, <2>10, OwnedTake
<1>12. Shared' /\ Identity'
  BY <1>0, <1>4 DEF Shared, Identity, Cloning
<1>13. Views'
  <2>1. ASSUME NEW e \in dirs', NEW w \in VPage
        PROVE  IF Plain(w) THEN Sees(Pg(e, w), view[e][w])' ELSE view'[e][w] = NONE
    <3>1. e \in dirs /\ e # d /\ e \in Frames /\ view'[e] = view[e]
      BY <1>0 DEF Types
    <3>2. Pg(e, w)' = Pg(e, w)
      BY <1>3, <3>1
    <3> QED BY <1>0, <3>1, <3>2 DEF Views, Sees
  <2> QED BY <1>0, <2>1 DEF Views, Plain, UserPage, PDE_INDEX
<1>14. Control'
  BY <1>0 DEF Control, Cloning
<1>15. ~paging'
  BY <1>0, <1>1 DEF Paged
<1> QED BY <1>10, <1>11, <1>12, <1>13, <1>14, <1>15

----------------------------------------------------------------------------
LEMMA IdentityMapWhole ==
    ASSUME Types, Whole, ~wild, vmm_identity_map, UNCHANGED own
    PROVE  Whole'
<1> USE DEF Whole
<1>0. /\ pc = "boot" /\ pc' = "boot" /\ ~Cloning /\ ~Cloning'
      /\ i < IdPages /\ i' = i + 1
      /\ UNCHANGED <<data, dirs, held, view, cr3, paging>>
  BY DEF vmm_identity_map, Cloning, cpu
<1>1. BootLoop
  BY <1>0 DEF Control
<1>2. /\ i \in VPage /\ i \in Frames /\ UserPage(i) /\ i \in Nat
      /\ KDir \in dirs /\ KDir \in Frames /\ DirSet = {} /\ DirSet' = {}
      /\ PDE_INDEX(i) \in Idx
  <2>1. i \in 0..(IdPages - 1)
    BY <1>0, Layout DEF Types
  <2> QED BY <1>0, <1>1, <2>1, Layout, PageIndexes DEF BootLoop, DirSet, Cloning
<1>3. CASE MapFails(KDir, i) /\ UNCHANGED <<mem, free, tlb>>
  <2>1. \A e, l : Tb(e, l)' = Tb(e, l)
    BY <1>0, <1>3 DEF Cloning, Tb
  <2>2. \A e, w : Pg(e, w)' = Pg(e, w)
    BY <1>0, <1>3 DEF Cloning, Tb, Pg, PDE_INDEX, PTE_INDEX
  <2>3. \A e, w : vmm_virt_to_phys(e, w)' = vmm_virt_to_phys(e, w)
    BY <1>3 DEF vmm_virt_to_phys, PDE_INDEX, PTE_INDEX
  <2>4. Owned'
    BY <1>0, <1>2, <1>3, <2>1, <2>2, OwnedPass, Separate
  <2>5. Shared' /\ Identity'
    BY <1>0, <1>3, <2>3 DEF Shared, Identity, Cloning
  <2>6. Views'
    BY <1>0, <1>3, <2>2 DEF Views, Plain, Sees, Cloning, UserPage, PDE_INDEX
  <2>7. BootLoop'
    BY <1>0, <1>1, <1>2, <1>3, <2>3, Layout DEF BootLoop, MapFails
  <2> QED BY <1>0, <1>1, <2>4, <2>5, <2>6, <2>7 DEF Control, BootLoop, Cloning
<1>4. CASE ~MapFails(KDir, i) /\ MapPage(KDir, i, i)
  <2>1. PICK t \in TableFor(KDir, i) : MapInto(KDir, i, i, t) /\ free' = free \ {t}
    BY <1>4 DEF MapPage, MapInto
  <2>2. /\ IF mem[KDir][PDE_INDEX(i)] = NONE THEN t \in free ELSE t = mem[KDir][PDE_INDEX(i)]
        /\ t \in Frames
    <3>1. free \subseteq Frames
      BY Separate
    <3> QED BY <1>2, <2>1, <3>1 DEF TableFor, Available, Types
  <2>3. /\ \A e \in Frames, l \in Idx :
             Tb(e, l)' = IF e = KDir /\ l = PDE_INDEX(i) THEN t ELSE Tb(e, l)
        /\ Tb(KDir, PDE_INDEX(i)) = mem[KDir][PDE_INDEX(i)]
        /\ \A e \in Frames, w \in VPage : Pg(e, w)' = IF e = KDir /\ w = i THEN NONE ELSE Pg(e, w)
        /\ \A w \in VPage : vmm_virt_to_phys(KDir, w)' =
              IF w = i THEN i ELSE vmm_virt_to_phys(KDir, w)
    BY <1>0, <1>2, <2>1, <2>2, MapEffect
  <2>4. \A e \in Frames, w \in VPage : Pg(e, w)' = Pg(e, w)
    BY <1>0, <2>3, Quiet
  <2>5. held = {}
    BY <1>1 DEF BootLoop
  <2>6. Owned'
    <3>1. CASE mem[KDir][PDE_INDEX(i)] = NONE
      <4>1. held' = held \ {t} /\ DirSet' = DirSet \ {t}
        BY <1>0, <1>2, <2>5
      <4>2. t \in free \cup held \cup DirSet
        BY <2>2, <3>1
      <4>3. PICK k \in Idx : k = PDE_INDEX(i)
        BY <1>2
      <4>4. Tb(KDir, k) = NONE /\ Tb(KDir, k)' = t
        BY <1>2, <2>3, <3>1, <4>3
      <4> QED BY <1>2, <2>1, <2>3, <2>4, <4>1, <4>2, <4>3, <4>4, OwnedGiveTable
    <3>2. CASE mem[KDir][PDE_INDEX(i)] # NONE
      <4>1. \A e \in Frames, l \in Idx : Tb(e, l)' = Tb(e, l)
        BY <1>2, <2>2, <2>3, <3>2
      <4>2. t \notin free
        BY <1>2, <2>2, <2>3, <3>2, Separate
      <4> QED BY <1>0, <1>2, <2>1, <2>4, <2>5, <4>1, <4>2, OwnedPass
    <3> QED BY <3>1, <3>2
  <2>7. Shared'
    BY <1>0, <1>1 DEF BootLoop, Shared, Cloning
  <2>8. Identity'
    BY <2>3, Layout DEF Identity
  <2>9. Views'
    <3>1. \A e \in dirs : e \in Frames
      BY DEF Types
    <3> QED BY <1>0, <2>4, <3>1 DEF Views, Plain, Sees, Cloning, UserPage, PDE_INDEX
  <2>10. BootLoop'
    <3>1. ASSUME NEW v \in VPage, v >= i + 1 PROVE vmm_virt_to_phys(KDir, v)' = NONE
      <4>1. v \in Nat /\ i \in Nat /\ v # i /\ v >= i
        BY <1>2, <3>1, Layout
      <4>2. vmm_virt_to_phys(KDir, v) = NONE
        BY <1>1, <4>1 DEF BootLoop
      <4> QED BY <2>3, <4>1, <4>2
    <3>2. free' = {} \/ \A v \in 0..i : vmm_virt_to_phys(KDir, v)' = v
      <4>1. CASE free = {}
        BY <2>1, <4>1
      <4>2. CASE free # {}
        <5>1. \A v \in 0..(i - 1) : vmm_virt_to_phys(KDir, v) = v
          BY <1>1, <4>2 DEF BootLoop
        <5>2. \A v \in 0..i : v \in VPage /\ (v = i \/ v \in 0..(i - 1))
          BY <1>0, <1>2, Layout
        <5> QED BY <2>3, <5>1, <5>2
      <4> QED BY <4>1, <4>2
    <3>3. i' - 1 = i /\ i' \in 0..IdPages
      BY <1>0, <1>2, Layout
    <3> QED BY <1>0, <1>1, <3>1, <3>2, <3>3 DEF BootLoop
  <2> QED BY <1>0, <1>1, <2>6, <2>7, <2>8, <2>9, <2>10 DEF Control, BootLoop, Cloning
<1> QED BY <1>3, <1>4 DEF vmm_identity_map

LEMMA EnablePagingWhole ==
    ASSUME Types, Whole, ~wild, EnablePaging, UNCHANGED own
    PROVE  Whole'
<1> USE DEF Whole
<1>0. /\ pc = "boot" /\ pc' = "idle" /\ ~Cloning /\ ~Cloning' /\ i = IdPages
      /\ cr3' = KDir /\ paging' /\ UNCHANGED <<mem, data, free, dirs, held, view>>
  BY DEF EnablePaging, Cloning, tables
<1>1. BootLoop
  BY <1>0 DEF Control
<1>2. \A e, l : Tb(e, l)' = Tb(e, l)
  BY <1>0 DEF Cloning, Tb
<1>3. \A e, w : Pg(e, w)' = Pg(e, w)
  BY <1>0 DEF Cloning, Tb, Pg, PDE_INDEX, PTE_INDEX
<1>4. \A e, w : vmm_virt_to_phys(e, w)' = vmm_virt_to_phys(e, w)
  BY <1>0 DEF vmm_virt_to_phys, PDE_INDEX, PTE_INDEX
<1>5. Owned'
  <2>1. DirSet' = DirSet
    BY <1>0 DEF DirSet, Cloning
  <2> QED BY <1>0, <1>2, <1>3, <2>1, OwnedPass, Separate
<1>6. Shared' /\ Identity'
  BY <1>0, <1>4 DEF Shared, Identity, Cloning
<1>7. Views'
  BY <1>0, <1>3 DEF Views, Plain, Sees, Cloning, UserPage, PDE_INDEX
<1>8. Control'
  BY <1>0 DEF Control, Cloning
<1>9. Paged'
  BY <1>0, <1>1, <1>4 DEF Paged, BootLoop, Complete, Barren, Cloning
<1> QED BY <1>5, <1>6, <1>7, <1>8, <1>9

----------------------------------------------------------------------------
(***************************************************************************)
(* vmm_clone_dir, with or without memory, leaves the kernel's directory    *)
(* and its tables as they are.                                             *)
(***************************************************************************)
LEMMA WholeGuarded ==
    ASSUME Types, Whole, ~wild
    PROVE  Guarded
<1> USE DEF Whole
<1>1. /\ KDir \in Frames /\ KDir \notin own /\ KDir \notin free
      /\ \A k \in Idx : mem[KDir][k] # NONE =>
            mem[KDir][k] \in own /\ mem[KDir][k] \notin free /\ mem[KDir][k] \notin DirSet
  BY KernelApart
<1>2. Cloning => dst \in DirSet /\ dst \in own /\ dst # KDir
  BY <1>1, Separate DEF DirSet
<1>3. pc = "table" => pt # KDir /\ \A k \in Idx : mem[KDir][k] # pt
  <2> SUFFICES ASSUME pc = "table" PROVE pt # KDir /\ \A k \in Idx : mem[KDir][k] # pt
    OBVIOUS
  <2>1. dst \in Frames /\ dst \notin dirs /\ i \in Idx /\ pt \in Frames /\ pt # NONE
    BY Layout DEF Control, CloneLoop, Cloning, Types, Idx
  <2>2. Tb(dst, i) = pt
    BY <2>1 DEF Tb, Idx
  <2>3. \A k \in Idx : Tb(KDir, k) # pt
    BY <1>1, <1>2, <2>1, <2>2, Separate DEF Cloning
  <2>4. pt \in own
    BY <2>1, <2>2, Separate
  <2> QED BY <1>1, <2>3, <2>4, KernelApart
<1>4. NONE \notin free /\ NONE # dst
  BY Layout, Separate DEF Types
<1>5. Cloning => src \notin free /\ src # dst /\ (pc = "table" => src # pt)
  <2> SUFFICES ASSUME Cloning PROVE src \notin free /\ src # dst /\ (pc = "table" => src # pt)
    OBVIOUS
  <2>1. src \in dirs /\ src # dst /\ (src \in DirSet \/ src = KDir)
    BY DEF Control, CloneLoop, DirSet
  <2>2. free \cap DirSet = {}
    BY Separate
  <2>3. pc = "table" => pt \notin DirSet
    <3> SUFFICES ASSUME pc = "table" PROVE pt \notin DirSet
      OBVIOUS
    <3>1. dst \in Frames /\ dst \notin dirs /\ i \in Idx /\ pt # NONE
      BY Layout DEF Control, CloneLoop, Types, Idx
    <3>2. Tb(dst, i) = pt
      BY <3>1 DEF Tb, Idx
    <3> QED BY <3>1, <3>2, Separate
  <2> QED BY <1>1, <1>3, <2>1, <2>2, <2>3
<1> QED BY <1>1, <1>2, <1>3, <1>4, <1>5 DEF Guarded, Kept

CloneStep == ClonePde \/ CloneTable \/ ClonePage \/ CloneTableDone \/ CloneReturn

LEMMA GuardedStep ==
    ASSUME Types, Guarded, CloneStep
    PROVE  /\ Guarded' /\ mem'[KDir] = mem[KDir] /\ mem'[src] = mem[src]
           /\ \A w \in VPage : vmm_virt_to_phys(KDir, w)' = vmm_virt_to_phys(KDir, w)
<1>0. /\ KDir \in Frames /\ dst \in Frames /\ pt \in Frames /\ free \subseteq Frames
      /\ \A k \in Idx : mem[KDir][k] \in Frames \cup {NONE}
  BY Layout DEF Types
<1>1. PICK K : K = {KDir} \cup {mem[KDir][k] : k \in Idx} \cup {src}
  OBVIOUS
<1>a. Cloning /\ src \in Frames
  BY DEF CloneStep, ClonePde, CloneTable, ClonePage, CloneTableDone, CloneReturn, Cloning, Types
<1>2. \A t \in K : t \notin free /\ (Cloning => t # dst) /\ (pc = "table" => t # pt)
  BY <1>1, <1>a DEF Guarded, Kept
<1>3. /\ \A t \in K : t \in Frames => mem'[t] = mem[t]
      /\ \A t \in K : t \notin free' /\ (Cloning' => t # dst') /\ (pc' = "table" => t # pt')
  <2>1. CASE ClonePde
    BY <1>0, <1>2, <2>1 DEF ClonePde, SetPde, Cloning, Types
  <2>2. CASE CloneTable
    BY <1>0, <1>2, <2>2 DEF CloneTable, Cloning, Types, Available, tables
  <2>3. CASE ClonePage
    <3>1. pc = "table" /\ pc' = "table" /\ UNCHANGED <<dst, pt>> /\ free' \subseteq free
      BY <2>3 DEF ClonePage
    <3>2. \/ mem' = mem
          \/ mem' = [mem EXCEPT ![pt] = [@ EXCEPT ![j] = NONE]]
          \/ \E f \in free : \A g \in Frames : g # f /\ g # pt => mem'[g] = mem[g]
      BY <1>0, <2>3 DEF ClonePage, SetPte, tables, Available, Types
    <3>3. \A t \in K : t \in Frames => mem'[t] = mem[t]
      BY <1>0, <1>2, <3>1, <3>2 DEF Types
    <3> QED BY <1>2, <3>1, <3>3 DEF Cloning
  <2>4. CASE CloneTableDone
    BY <1>0, <1>2, <2>4 DEF CloneTableDone, SetPde, Cloning, Types
  <2>5. CASE CloneReturn
    BY <1>0, <1>2, <2>5 DEF CloneReturn, Cloning, Types, tables
  <2> QED BY <2>1, <2>2, <2>3, <2>4, <2>5 DEF CloneStep
<1>4. mem'[KDir] = mem[KDir] /\ mem'[src] = mem[src]
  BY <1>0, <1>1, <1>3, <1>a
<1>5. Guarded'
  <2>1. Cloning' => src' = src
    BY DEF CloneStep, ClonePde, CloneTable, ClonePage, CloneTableDone, CloneReturn, Cloning
  <2>2. Kept' \subseteq K
    BY <1>1, <1>4, <2>1 DEF Kept
  <2> QED BY <1>3, <2>2 DEF Guarded
<1>6. ASSUME NEW w \in VPage
      PROVE  vmm_virt_to_phys(KDir, w)' = vmm_virt_to_phys(KDir, w)
  <2>1. PDE_INDEX(w) \in Idx
    BY PageIndexes
  <2>2. mem[KDir][PDE_INDEX(w)] # NONE =>
          mem'[mem[KDir][PDE_INDEX(w)]] = mem[mem[KDir][PDE_INDEX(w)]]
    BY <1>0, <1>1, <1>3, <2>1
  <2> QED BY <1>0, <1>4, <2>2, WalkSame
<1> QED BY <1>4, <1>5, <1>6

----------------------------------------------------------------------------
(***************************************************************************)
(* vmm_clone_dir with memory.                                              *)
(***************************************************************************)
LEMMA CloneDirWhole ==
    ASSUME Types, Whole, ~wild, NEW d \in dirs, vmm_clone_dir(d), UNCHANGED own
    PROVE  Whole'
<1> USE DEF Whole
<1>1. PICK f \in Available : Touches({d, f}) /\ dst' = f /\ free' = free \ {f}
  BY DEF vmm_clone_dir
<1>2. /\ pc = "idle" /\ pc' = "clone" /\ ~Cloning /\ Cloning' /\ src' = d /\ i' = 0
      /\ UNCHANGED <<mem, data, own, cr3, paging, dirs, held, view>>
  BY DEF vmm_clone_dir, MayCall, Cloning, tables, cpu
<1>3. f \in free /\ f \in own /\ f \notin DirSet /\ f \notin held /\ f \notin dirs /\ KDir # f
  <2>1. f \in free /\ f \in own /\ f \notin DirSet /\ f \notin held /\ KDir # f
    BY <1>1, Separate DEF Available
  <2> QED BY <1>2, <2>1, Quiet
<1>4. \A e \in Frames, l \in Idx : Tb(e, l)' = Tb(e, l)
  BY <1>2, Layout DEF Tb, Cloning
<1>5. \A e \in Frames, w \in VPage : Pg(e, w)' = Pg(e, w)
  <2> SUFFICES ASSUME NEW e \in Frames, NEW w \in VPage PROVE Pg(e, w)' = Pg(e, w)
    OBVIOUS
  <2>1. PICK k : k = PDE_INDEX(w)
    OBVIOUS
  <2>2. k \in Idx /\ Tb(e, k)' = Tb(e, k)
    BY <1>4, <2>1, PageIndexes
  <2> QED BY <1>2, <2>1, <2>2 DEF Pg, Cloning, PDE_INDEX, PTE_INDEX
<1>6. \A e, w : vmm_virt_to_phys(e, w)' = vmm_virt_to_phys(e, w)
  BY <1>2 DEF vmm_virt_to_phys, PDE_INDEX, PTE_INDEX
<1>7. DirSet' = DirSet \cup {f}
  BY <1>1, <1>2 DEF DirSet, Cloning
<1>8. Owned'
  <2>1. free \cap held = {} /\ free \cap DirSet = {} /\ held \cap DirSet = {}
    BY Separate
  <2>2. /\ free' \cup held' \cup DirSet' = free \cup held \cup DirSet
        /\ free' \cap held' = {} /\ free' \cap DirSet' = {} /\ held' \cap DirSet' = {}
    BY <1>1, <1>2, <1>3, <1>7, <2>1
  <2> QED BY <1>4, <1>5, <2>2, OwnedPass
<1>9. Shared' /\ Identity'
  BY <1>2, <1>6, Layout DEF Shared, Identity, Cloning, Idx
<1>10. \A v \in VPage : ~Copied(v)'
  BY <1>2, PageIndexes, Layout DEF Copied, PDE_INDEX
<1>11. Views'
  <2>1. \A e \in dirs : e \in Frames
    BY DEF Types
  <2> QED BY <1>2, <1>5, <1>10, <2>1 DEF Views, Plain, Sees, Cloning, UserPage, PDE_INDEX
<1>12. Control'
  BY <1>1, <1>2, <1>3, Layout DEF Control, CloneLoop
<1>13. paging' => Paged'
  <2>1. \A v \in 0..(IdPages - 1) : v \in VPage
    BY Layout
  <2> QED BY <1>2, <1>3, <1>6, <1>10, <2>1 DEF Paged, Barren, Complete
<1> QED BY <1>8, <1>9, <1>11, <1>12, <1>13

LEMMA ClonePdeWhole ==
    ASSUME Types, Whole, ~wild, ClonePde, UNCHANGED own
    PROVE  Whole'
<1> USE DEF Whole
<1>0. /\ pc = "clone" /\ pc' = "clone" /\ Cloning /\ Cloning' /\ i < E /\ i' = i + 1
      /\ mem[src][i] = NONE \/ i >= KernelPde
      /\ UNCHANGED <<data, own, free, cr3, paging, dst, src, j, pt, dirs, held, view>>
  BY DEF ClonePde, Cloning, cpu
<1>1. /\ src \in dirs /\ dst \notin dirs /\ i \in Idx /\ i \in Nat /\ src \in Frames /\ dst \in Frames
      /\ KDir \in dirs /\ KDir # dst /\ dst \in DirSet
  BY <1>0, Layout DEF Control, CloneLoop, Types, Idx, DirSet
<1>2. /\ \A g \in Frames : g # dst => mem'[g] = mem[g]
      /\ \A k \in Idx : mem'[dst][k] = IF k = i THEN mem[src][i] ELSE mem[dst][k]
  BY <1>1 DEF ClonePde, SetPde, Types
<1>3. \A e \in Frames, l \in Idx : Tb(e, l)' = Tb(e, l)
  <2> SUFFICES ASSUME NEW e \in Frames, NEW l \in Idx PROVE Tb(e, l)' = Tb(e, l)
    OBVIOUS
  <2>0. l \in Nat /\ KernelPde \in Nat
    BY Layout
  <2>1. CASE e = dst
    BY <1>0, <1>1, <1>2, <2>0, <2>1 DEF Tb
  <2>2. CASE e # dst
    BY <1>0, <1>2, <2>2 DEF Tb
  <2> QED BY <2>1, <2>2
<1>4. ASSUME NEW e \in Frames, NEW w \in VPage PROVE Pg(e, w)' = Pg(e, w)
  <2>1. PICK k : k = PDE_INDEX(w)
    OBVIOUS
  <2>2. k \in Idx /\ Tb(e, k)' = Tb(e, k)
    BY <1>3, <2>1, PageIndexes
  <2>3. Tb(e, k) # NONE => Tb(e, k) \in Frames /\ Tb(e, k) # dst
    BY <1>1, <2>2, Separate
  <2>4. Tb(e, k) # NONE => mem'[Tb(e, k)] = mem[Tb(e, k)]
    BY <1>2, <2>3
  <2> QED BY <1>0, <2>1, <2>2, <2>4 DEF Pg, PDE_INDEX, PTE_INDEX
<1>5. /\ mem'[KDir] = mem[KDir]
      /\ \A w \in VPage : vmm_virt_to_phys(KDir, w)' = vmm_virt_to_phys(KDir, w)
  BY WholeGuarded, GuardedStep DEF CloneStep
<1>6. Owned'
  <2>1. DirSet' = DirSet
    BY <1>0 DEF DirSet
  <2> QED BY <1>0, <1>3, <1>4, <2>1, OwnedPass, Separate
<1>7. Shared'
  <2> SUFFICES ASSUME NEW e \in Frames, NEW k \in KernelPde..(E - 1),
                      e \in dirs \/ (e = dst /\ k < i + 1)
               PROVE  mem'[e][k] \in {NONE, mem[KDir][k]}
    BY <1>0, <1>5 DEF Shared
  <2>0. k \in Idx /\ k \in Nat
    BY Layout DEF Idx
  <2>1. CASE e \in dirs
    BY <1>1, <1>2, <2>1 DEF Shared
  <2>2. CASE e = dst /\ k < i
    BY <1>0, <1>1, <1>2, <2>0, <2>2 DEF Shared
  <2>3. CASE e = dst /\ k = i
    BY <1>1, <1>2, <2>0, <2>3 DEF Shared
  <2> QED BY <1>1, <2>0, <2>1, <2>2, <2>3
<1>8. Identity'
  BY <1>5, Layout DEF Identity
<1>9. ASSUME NEW v \in VPage
      PROVE  Copied(v)' <=> Copied(v) \/ PDE_INDEX(v) = i
  <2>1. Copied(v)' <=> PDE_INDEX(v) < i + 1
    BY <1>0 DEF Copied, PDE_INDEX, PTE_INDEX
  <2>2. Copied(v) <=> PDE_INDEX(v) < i
    BY <1>0 DEF Copied
  <2>3. PDE_INDEX(v) \in Nat
    BY PageIndexes, Layout
  <2> QED BY <1>1, <2>1, <2>2, <2>3
<1>10. Views'
  <2>1. ASSUME NEW e \in dirs, NEW w \in VPage
        PROVE  IF Plain(w) THEN Sees(Pg(e, w), view[e][w])' ELSE view'[e][w] = NONE
    <3>1. e \in Frames
      BY DEF Types
    <3> QED BY <1>0, <1>4, <3>1 DEF Views, Sees
  <2>2. ASSUME NEW w \in VPage, Plain(w), Copied(w)'
        PROVE  Sees(Pg(dst, w), view[src][w])'
    <3>1. Sees(Pg(dst, w), view[src][w]) => Sees(Pg(dst, w), view[src][w])'
      BY <1>0, <1>1, <1>4 DEF Sees
    <3>2. CASE Copied(w)
      BY <1>0, <2>2, <3>1, <3>2 DEF Views
    <3>3. CASE PDE_INDEX(w) = i
      <4>1. i < KernelPde /\ mem[src][i] = NONE
        BY <1>0, <1>1, <2>2, <3>3, Layout DEF Plain, UserPage, Idx
      <4>2. Tb(src, i) = NONE
        BY <1>1, <4>1 DEF Tb
      <4>3. Pg(src, w) = NONE
        BY <3>3, <4>2 DEF Pg
      <4>4. view[src][w] = NONE
        BY <1>1, <2>2, <4>3 DEF Views, Sees
      <4>5. Tb(dst, i) = NONE
        BY <1>0, <1>1 DEF Tb
      <4>6. Pg(dst, w) = NONE
        BY <3>3, <4>5 DEF Pg
      <4> QED BY <3>1, <4>4, <4>6 DEF Sees
    <3> QED BY <1>9, <2>2, <3>2, <3>3
  <2> QED BY <1>0, <2>1, <2>2 DEF Views, Plain, UserPage, PDE_INDEX
<1>11. Control'
  BY <1>0, <1>1, Layout DEF Control, CloneLoop
<1>12. paging' => Paged'
  <2> SUFFICES ASSUME paging' PROVE Paged'
    OBVIOUS
  <2>1. cr3 = KDir /\ dirs = {KDir} /\ Complete /\ src = KDir
    BY <1>0, <1>1 DEF Paged, Barren
  <2>2. Complete'
    BY <1>5, <2>1, Layout DEF Complete
  <2>3. ASSUME NEW v \in 0..(IdPages - 1), Copied(v)'
        PROVE  Pg(dst, v)' \in 0..(IdPages - 1)
    <3>0. v \in VPage /\ v # NONE /\ UserPage(v)
      BY Layout
    <3>1. PDE_INDEX(v) # i
      <4> SUFFICES ASSUME PDE_INDEX(v) = i PROVE FALSE
        OBVIOUS
      <4>1. i < KernelPde /\ mem[KDir][i] = NONE
        BY <1>0, <1>1, <2>1, <3>0, Layout DEF UserPage, Idx
      <4> QED BY <2>1, <3>0, <4>1 DEF Complete, vmm_virt_to_phys
    <3>2. Copied(v)
      BY <1>9, <2>3, <3>0, <3>1
    <3>3. Pg(dst, v) \in 0..(IdPages - 1)
      BY <1>0, <3>2 DEF Paged
    <3> QED BY <1>0, <1>1, <1>4, <3>0, <3>3
  <2> QED BY <1>0, <2>1, <2>2, <2>3 DEF Paged
<1> QED BY <1>6, <1>7, <1>8, <1>10, <1>11, <1>12

\* Where vmm_clone_dir's loops stand.
LEMMA InClone ==
    ASSUME Types, Whole, ~wild, Cloning
    PROVE  /\ src \in dirs /\ src \in Frames /\ dst \in Frames /\ dst \notin dirs
           /\ KDir \in dirs /\ KDir # dst /\ dst \in DirSet /\ dst \in own
           /\ i \in Nat /\ j \in Nat /\ (i < E => i \in Idx) /\ (j < E => j \in Idx)
           /\ pc = "table" => i \in Idx /\ i < KernelPde /\ mem[src][i] # NONE
           /\ pc = "table" => Tb(dst, i) = pt /\ pt \in Frames /\ pt \in own /\ pt \notin DirSet /\ pt \notin free
           /\ paging => cr3 = KDir /\ dirs = {KDir} /\ Complete /\ src = KDir
<1> USE DEF Whole
<1>1. /\ src \in dirs /\ src \in Frames /\ dst \in Frames /\ dst \notin dirs
      /\ KDir \in dirs /\ KDir # dst /\ dst \in DirSet
      /\ i \in Nat /\ j \in Nat /\ (i < E => i \in Idx) /\ (j < E => j \in Idx)
  BY Layout DEF Control, CloneLoop, Types, Idx, DirSet
<1>2. dst \in own
  BY <1>1, Separate
<1>3. pc = "table" => i \in Idx /\ i < KernelPde /\ mem[src][i] # NONE
  BY <1>1, Layout DEF Control, CloneLoop, Idx
<1>4. paging => cr3 = KDir /\ dirs = {KDir} /\ Complete /\ src = KDir
  BY <1>1 DEF Paged, Barren, Cloning
<1>5. pc = "table" => Tb(dst, i) = pt /\ pt \in Frames /\ pt # NONE
  BY <1>1, Layout DEF Tb, Types
<1>6. pc = "table" => pt \in own /\ pt \notin DirSet /\ pt \notin free
  BY <1>1, <1>3, <1>5, Separate
<1> QED BY <1>1, <1>2, <1>3, <1>4, <1>5, <1>6

LEMMA CloneTableWhole ==
    ASSUME Types, Whole, ~wild, CloneTable, ~starved', UNCHANGED own
    PROVE  Whole'
<1> USE DEF Whole
<1>1. PICK f \in Available : pt' = f /\ free' = free \ {f}
  BY DEF CloneTable
<1>2. /\ pc = "clone" /\ pc' = "table" /\ Cloning /\ Cloning' /\ i < E /\ j' = 0
      /\ mem[src][i] # NONE /\ i < KernelPde
      /\ UNCHANGED <<mem, data, own, i, cr3, paging, dst, src, dirs, held, view>>
  BY DEF CloneTable, Cloning, cpu, tables
<1>3. /\ src \in dirs /\ src \in Frames /\ dst \in Frames /\ dst \notin dirs
      /\ i \in Nat /\ i \in Idx
      /\ paging => cr3 = KDir /\ dirs = {KDir} /\ Complete /\ src = KDir
  BY <1>2, InClone
<1>4. f \in free /\ f \notin held /\ f \notin DirSet
  BY <1>1, Separate DEF Available
<1>5. Tb(dst, i) = NONE
  BY <1>2, <1>3 DEF Tb
<1>6. \A e \in Frames, l \in Idx : Tb(e, l)' = IF e = dst /\ l = i THEN f ELSE Tb(e, l)
  BY <1>1, <1>2, <1>3 DEF Tb
<1>7. ASSUME NEW e \in Frames, NEW w \in VPage PROVE Pg(e, w)' = Pg(e, w)
  <2>1. PICK k, l : k = PDE_INDEX(w) /\ l = PTE_INDEX(w)
    OBVIOUS
  <2>2. k \in Idx /\ l \in Idx /\ l >= 0
    <3>1. k \in Idx /\ l \in Idx
      BY <2>1, PageIndexes
    <3> QED BY <3>1 DEF Idx
  <2>3. CASE e = dst /\ k = i
    <3>1. Pg(e, w) = NONE
      BY <1>5, <2>1, <2>3 DEF Pg
    <3>2. Pg(e, w)' = NONE
      BY <1>2, <2>1, <2>2, <2>3 DEF Pg, PDE_INDEX, PTE_INDEX
    <3> QED BY <3>1, <3>2
  <2>4. CASE ~(e = dst /\ k = i)
    <3>1. Tb(e, k)' = Tb(e, k)
      BY <1>6, <2>2, <2>4
    <3> QED BY <1>2, <2>1, <2>4, <3>1 DEF Pg, PDE_INDEX, PTE_INDEX
  <2> QED BY <2>3, <2>4
<1>8. \A e, w : vmm_virt_to_phys(e, w)' = vmm_virt_to_phys(e, w)
  BY <1>2 DEF vmm_virt_to_phys, PDE_INDEX, PTE_INDEX
<1>9. Owned'
  <2>1. PICK k \in Idx : k = i
    BY <1>3
  <2>2. DirSet' = DirSet \ {f} /\ held' = held \ {f}
    BY <1>2, <1>4 DEF DirSet
  <2>3. f \in free \cup held \cup DirSet
    BY <1>4
  <2>4. PICK e \in Frames : e = dst
    BY <1>3
  <2>5. Tb(e, k) = NONE /\ Tb(e, k)' = f
    BY <1>5, <1>6, <2>1, <2>4
  <2> QED BY <1>1, <1>6, <1>7, <2>1, <2>2, <2>3, <2>4, <2>5, OwnedGiveTable
<1>10. Shared' /\ Identity'
  BY <1>2, <1>8 DEF Shared, Identity
<1>11. ASSUME NEW v \in VPage PROVE Copied(v)' <=> Copied(v)
  <2>1. PTE_INDEX(v) \in Nat
    BY PageIndexes, Layout
  <2>2. Copied(v)' <=> PDE_INDEX(v) < i \/ (PDE_INDEX(v) = i /\ PTE_INDEX(v) < 0)
    BY <1>2 DEF Copied, PDE_INDEX, PTE_INDEX
  <2> QED BY <1>2, <2>1, <2>2 DEF Copied
<1>12. Views'
  <2>1. \A e \in dirs : e \in Frames
    BY DEF Types
  <2> QED BY <1>2, <1>3, <1>7, <1>11, <2>1 DEF Views, Plain, Sees, UserPage, PDE_INDEX
<1>13. Control'
  BY <1>2, <1>3 DEF Control, CloneLoop
<1>14. paging' => Paged'
  <2>1. \A v \in 0..(IdPages - 1) : v \in VPage
    BY Layout
  <2> QED BY <1>2, <1>3, <1>7, <1>8, <1>11, <2>1 DEF Paged, Complete
<1> QED BY <1>9, <1>10, <1>12, <1>13, <1>14

LEMMA CloneTableDoneWhole ==
    ASSUME Types, Whole, ~wild, CloneTableDone, UNCHANGED own
    PROVE  Whole'
<1> USE DEF Whole
<1>1. /\ pc = "table" /\ pc' = "clone" /\ Cloning /\ Cloning' /\ j = E /\ i' = i + 1
      /\ UNCHANGED <<data, own, free, cr3, paging, dst, src, dirs, held, view>>
  BY DEF CloneTableDone, Cloning, cpu
<1>2. /\ src \in dirs /\ src \in Frames /\ dst \in Frames /\ dst \notin dirs /\ dst \in DirSet
      /\ i \in Nat /\ i \in Idx /\ i < KernelPde /\ Tb(dst, i) = pt /\ KDir # dst /\ KDir \in dirs
      /\ paging => cr3 = KDir /\ dirs = {KDir} /\ Complete /\ src = KDir
  BY <1>1, InClone
<1>3. /\ \A g \in Frames : g # dst => mem'[g] = mem[g]
      /\ \A k \in Idx : mem'[dst][k] = IF k = i THEN pt ELSE mem[dst][k]
  BY <1>2 DEF CloneTableDone, SetPde, Types
<1>4. \A e \in Frames, l \in Idx : Tb(e, l)' = Tb(e, l)
  <2> SUFFICES ASSUME NEW e \in Frames, NEW l \in Idx PROVE Tb(e, l)' = Tb(e, l)
    OBVIOUS
  <2>0. l \in Nat /\ KernelPde \in Nat
    BY Layout
  <2>1. CASE e = dst
    BY <1>1, <1>2, <1>3, <2>0, <2>1 DEF Tb
  <2>2. CASE e # dst
    BY <1>1, <1>3, <2>2 DEF Tb
  <2> QED BY <2>1, <2>2
<1>5. ASSUME NEW e \in Frames, NEW w \in VPage PROVE Pg(e, w)' = Pg(e, w)
  <2>1. PICK k, l : k = PDE_INDEX(w) /\ l = PTE_INDEX(w)
    OBVIOUS
  <2>2. k \in Idx /\ l \in Idx /\ ~(l >= j) /\ Tb(e, k)' = Tb(e, k)
    <3>1. k \in Idx /\ l \in Idx
      BY <2>1, PageIndexes
    <3>2. ~(l >= E)
      BY <3>1, VmmSizes DEF Idx
    <3> QED BY <1>1, <1>4, <3>1, <3>2
  <2>3. Tb(e, k) # NONE => Tb(e, k) \in Frames /\ Tb(e, k) # dst
    BY <1>2, <2>2, Separate
  <2>4. Tb(e, k) # NONE => mem'[Tb(e, k)] = mem[Tb(e, k)]
    BY <1>3, <2>3
  <2> QED BY <1>1, <2>1, <2>2, <2>4 DEF Pg, PDE_INDEX, PTE_INDEX
<1>6. /\ mem'[KDir] = mem[KDir]
      /\ \A w \in VPage : vmm_virt_to_phys(KDir, w)' = vmm_virt_to_phys(KDir, w)
  BY WholeGuarded, GuardedStep DEF CloneStep
<1>7. Owned'
  <2>1. DirSet' = DirSet
    BY <1>1 DEF DirSet
  <2> QED BY <1>1, <1>4, <1>5, <2>1, OwnedPass, Separate
<1>8. Shared'
  <2> SUFFICES ASSUME NEW e \in Frames, NEW k \in KernelPde..(E - 1),
                      e \in dirs \/ (e = dst /\ k < i + 1)
               PROVE  mem'[e][k] \in {NONE, mem[KDir][k]}
    BY <1>1, <1>6 DEF Shared
  <2>0. k \in Idx /\ k \in Nat /\ KernelPde \in Nat
    BY Layout DEF Idx
  <2>1. e \in dirs
    BY <1>2, <2>0
  <2> QED BY <1>2, <1>3, <2>1 DEF Shared
<1>9. Identity'
  BY <1>6, Layout DEF Identity
<1>10. ASSUME NEW v \in VPage PROVE Copied(v)' <=> Copied(v)
  <2>1. PDE_INDEX(v) \in Nat /\ PTE_INDEX(v) < E
    BY PageIndexes, Layout
  <2>2. Copied(v)' <=> PDE_INDEX(v) < i + 1
    BY <1>1 DEF Copied, PDE_INDEX, PTE_INDEX
  <2> QED BY <1>1, <1>2, <2>1, <2>2 DEF Copied
<1>11. Views'
  <2>1. \A e \in dirs : e \in Frames
    BY DEF Types
  <2> QED BY <1>1, <1>2, <1>5, <1>10, <2>1 DEF Views, Plain, Sees, UserPage, PDE_INDEX
<1>12. Control'
  BY <1>1, <1>2, Layout DEF Control, CloneLoop
<1>13. paging' => Paged'
  <2>1. \A v \in 0..(IdPages - 1) : v \in VPage
    BY Layout
  <2> QED BY <1>1, <1>2, <1>5, <1>6, <1>10, <2>1 DEF Paged, Complete
<1> QED BY <1>7, <1>8, <1>9, <1>11, <1>12, <1>13

\* One entry of a table is copied: x is the copy's entry.
EntryCopied(x) ==
    /\ pc = "table" /\ pc' = "table" /\ j < E /\ j' = j + 1
    /\ UNCHANGED <<own, i, dst, src, pt, dirs>>
    /\ \A g \in Frames : g \notin free /\ g # pt => mem'[g] = mem[g]
    /\ \A k \in Idx : mem'[pt][k] = IF k = j THEN x ELSE mem[pt][k]

\* What the copied entry of page v changes in the view of the spaces.
EntryFollows(x, v) ==
    /\ \A e \in Frames, l \in Idx : Tb(e, l)' = Tb(e, l)
    /\ \A e \in Frames, w \in VPage : Pg(e, w)' = IF e = dst /\ w = v THEN x ELSE Pg(e, w)
    /\ Pg(dst, v) = NONE
    /\ \A w \in VPage : Copied(w)' <=> Copied(w) \/ w = v
    /\ \A e \in dirs : mem'[e] = mem[e]

\* Copying an entry adds one page to the new space and changes no other.
LEMMA ClonePageEffect ==
    ASSUME Types, Whole, ~wild, NEW x, NEW v \in VPage, PDE_INDEX(v) = i, PTE_INDEX(v) = j,
           EntryCopied(x)
    PROVE  EntryFollows(x, v)
<1> USE DEF Whole, EntryCopied
<1>0. Cloning /\ Cloning'
  BY DEF Cloning
<1>1. /\ src \in dirs /\ src \in Frames /\ dst \in Frames /\ dst \notin dirs
      /\ KDir \in dirs /\ KDir # dst /\ dst \in DirSet /\ dst \in own
      /\ i \in Nat /\ j \in Nat /\ i \in Idx /\ j \in Idx /\ i < KernelPde
      /\ Tb(dst, i) = pt /\ pt \in Frames /\ pt \in own /\ pt \notin DirSet /\ pt \notin free
  BY <1>0, InClone
<1>2. \A e \in dirs \cup {dst} : e \in Frames /\ e \notin free /\ e # pt
  <2>1. dirs \subseteq DirSet \cup {KDir} /\ dirs \subseteq Frames
    BY DEF DirSet, Types
  <2>2. KDir \notin own /\ DirSet \cap free = {} /\ free \subseteq own
    BY Separate
  <2> QED BY <1>1, <2>1, <2>2
<1>3. \A e \in dirs \cup {dst} : mem'[e] = mem[e]
  BY <1>2
<1>4. \A e \in Frames, l \in Idx : Tb(e, l)' = Tb(e, l)
  BY <1>0, <1>3 DEF Tb
<1>5. Pg(dst, v) = NONE
  BY <1>1 DEF Pg
<1>6. ASSUME NEW e \in Frames, NEW w \in VPage
      PROVE  Pg(e, w)' = IF e = dst /\ w = v THEN x ELSE Pg(e, w)
  <2>1. PICK k, l : k = PDE_INDEX(w) /\ l = PTE_INDEX(w)
    OBVIOUS
  <2>2. k \in Idx /\ l \in Idx /\ Tb(e, k)' = Tb(e, k) /\ l \in Nat
    <3>1. k \in Idx /\ l \in Idx
      BY <2>1, PageIndexes
    <3> QED BY <1>4, <3>1 DEF Idx
  <2>3. Pg(e, w)' = IF \/ Tb(e, k) = NONE \/ (e = KDir /\ w < IdPages)
                       \/ e = dst /\ k = i /\ l >= j + 1
                    THEN NONE ELSE mem'[Tb(e, k)][l]
    BY <2>1, <2>2 DEF Pg, PDE_INDEX, PTE_INDEX
  <2>4. Pg(e, w) = IF \/ Tb(e, k) = NONE \/ (e = KDir /\ w < IdPages)
                      \/ e = dst /\ k = i /\ l >= j
                   THEN NONE ELSE mem[Tb(e, k)][l]
    BY <2>1 DEF Pg
  <2>5. CASE e = dst /\ k = i
    <3>1. l = j <=> w = v
      BY <2>1, <2>5, PageIndexes
    <3>2. Tb(e, k) = pt /\ pt # NONE /\ e # KDir
      BY <1>1, <2>5, Layout
    <3> QED BY <1>1, <2>2, <2>3, <2>4, <2>5, <3>1, <3>2
  <2>6. CASE ~(e = dst /\ k = i)
    <3>1. Tb(e, k) # NONE => Tb(e, k) \in Frames /\ Tb(e, k) \notin free /\ Tb(e, k) # pt
      <4>1. own \subseteq Frames /\ (Tb(e, k) # NONE => Tb(e, k) \in own /\ Tb(e, k) \notin free)
        BY <2>2, Separate
      <4>2. Tb(e, k) = Tb(dst, i) /\ Tb(e, k) # NONE => e = dst /\ k = i
        BY <1>1, <2>2, Separate
      <4> QED BY <1>1, <2>6, <4>1, <4>2
    <3>2. Tb(e, k) # NONE => mem'[Tb(e, k)] = mem[Tb(e, k)]
      BY <3>1
    <3>3. ~(e = dst /\ w = v)
      BY <2>1, <2>6
    <3> QED BY <2>3, <2>4, <2>6, <3>2, <3>3
  <2> QED BY <2>5, <2>6
<1>7. ASSUME NEW w \in VPage PROVE Copied(w)' <=> Copied(w) \/ w = v
  <2>1. Copied(w)' <=> PDE_INDEX(w) < i \/ (PDE_INDEX(w) = i /\ PTE_INDEX(w) < j + 1)
    BY DEF Copied, PDE_INDEX, PTE_INDEX
  <2>2. Copied(w) <=> PDE_INDEX(w) < i \/ (PDE_INDEX(w) = i /\ PTE_INDEX(w) < j)
    BY DEF Copied
  <2>3. PTE_INDEX(w) \in Nat /\ PDE_INDEX(w) \in Nat
    BY PageIndexes, Layout
  <2>4. PDE_INDEX(w) = i /\ PTE_INDEX(w) = j <=> w = v
    BY PageIndexes
  <2> QED BY <1>1, <2>1, <2>2, <2>3, <2>4
<1> HIDE DEF Whole, EntryCopied
<1> QED BY <1>3, <1>4, <1>5, <1>6, <1>7 DEF EntryFollows

LEMMA ClonePageWhole ==
    ASSUME Types, Whole, ~wild, ClonePage, ~starved', UNCHANGED own
    PROVE  Whole'
<1> USE DEF Whole
<1>0. /\ pc = "table" /\ pc' = "table" /\ Cloning /\ Cloning' /\ j < E /\ j' = j + 1
      /\ UNCHANGED <<own, i, cr3, paging, dst, src, pt, dirs, held, view>>
  BY DEF ClonePage, Cloning, cpu
<1>1. /\ src \in dirs /\ src \in Frames /\ dst \in Frames /\ dst \notin dirs
      /\ KDir \in dirs /\ KDir # dst
      /\ i \in Idx /\ j \in Idx /\ i < KernelPde /\ mem[src][i] # NONE
      /\ pt \in Frames /\ pt \notin free
      /\ paging => cr3 = KDir /\ dirs = {KDir} /\ Complete /\ src = KDir
  BY <1>0, InClone
<1>2. PICK v \in VPage : PDE_INDEX(v) = i /\ PTE_INDEX(v) = j
  BY <1>1, PageIndexes
<1>3. PICK s : s = mem[mem[src][i]][j]
  OBVIOUS
<1>4. UserPage(v) /\ vmm_virt_to_phys(src, v) = s /\ s \in Frames \cup {NONE}
  <2>1. UserPage(v)
    BY <1>1, <1>2 DEF UserPage
  <2>2. mem[src][i] \in Frames
    BY <1>1 DEF Types
  <2> QED BY <1>1, <1>2, <1>3, <2>1, <2>2 DEF vmm_virt_to_phys, Types
<1>5. Plain(v) => Pg(src, v) = s
  BY <1>1, <1>4, Walks DEF Plain
<1>6. paging /\ v \in 0..(IdPages - 1) => s = v /\ v # NONE
  BY <1>1, <1>4, Layout DEF Complete
<1>7. /\ mem'[KDir] = mem[KDir]
      /\ \A w \in VPage : vmm_virt_to_phys(KDir, w)' = vmm_virt_to_phys(KDir, w)
  BY WholeGuarded, GuardedStep DEF CloneStep
<1>8. DirSet' = DirSet
  BY <1>0 DEF DirSet
<1>9. ASSUME NEW x,
             \A g \in Frames : g \notin free /\ g # pt => mem'[g] = mem[g],
             \A k \in Idx : mem'[pt][k] = IF k = j THEN x ELSE mem[pt][k],
             \A g \in Frames : g \notin free => data'[g] = data[g],
             Owned', Plain(v) => Sees(x, view[src][v])', paging /\ v < IdPages => x \in 0..(IdPages - 1)
      PROVE  Whole'
  <2>1. /\ \A e \in Frames, w \in VPage : Pg(e, w)' = IF e = dst /\ w = v THEN x ELSE Pg(e, w)
        /\ \A w \in VPage : Copied(w)' <=> Copied(w) \/ w = v
        /\ \A e \in dirs : mem'[e] = mem[e]
    <3>1. /\ pc = "table" /\ pc' = "table" /\ j < E /\ j' = j + 1
          /\ UNCHANGED <<own, i, dst, src, pt, dirs>>
      BY <1>0
    <3>2. EntryCopied(x)
      BY <1>9, <3>1 DEF EntryCopied
    <3> HIDE DEF Whole
    <3>3. EntryFollows(x, v)
      BY <1>2, <3>2, ClonePageEffect
    <3> QED BY <3>3 DEF EntryFollows
  <2>2. ASSUME NEW e \in Frames, NEW w \in VPage, NEW y, ~(e = dst /\ w = v), Sees(Pg(e, w), y)
        PROVE  IF y = NONE THEN Pg(e, w)' = NONE ELSE Pg(e, w)' # NONE /\ data'[Pg(e, w)'] = y
    <3>1. Pg(e, w)' = Pg(e, w)
      BY <2>1, <2>2
    <3>2. Pg(e, w) # NONE => Pg(e, w) \in Frames /\ Pg(e, w) \notin free
      BY Separate
    <3> QED BY <1>9, <2>2, <3>1, <3>2 DEF Sees
  <2>3. Shared'
    <3> SUFFICES ASSUME NEW e \in Frames, NEW k \in KernelPde..(E - 1),
                        e \in dirs \/ (e = dst /\ k < i)
                 PROVE  mem'[e][k] \in {NONE, mem[KDir][k]}
      BY <1>0, <1>7 DEF Shared
    <3>1. ~(k < i)
      BY <1>1, Layout DEF Idx
    <3> QED BY <2>1, <3>1 DEF Shared
  <2>4. Identity'
    BY <1>7, Layout DEF Identity
  <2>5. Views'
    <3>1. ASSUME NEW e \in dirs, NEW w \in VPage
          PROVE  IF Plain(w) THEN Sees(Pg(e, w), view[e][w])' ELSE view'[e][w] = NONE
      <4>1. e \in Frames /\ e # dst
        BY <1>1 DEF Types
      <4>2. CASE Plain(w)
        <5>1. Sees(Pg(e, w), view[e][w])
          BY <4>2 DEF Views
        <5> QED BY <1>0, <2>2, <4>1, <4>2, <5>1 DEF Sees
      <4>3. CASE ~Plain(w)
        BY <1>0, <4>3 DEF Views
      <4> QED BY <4>2, <4>3
    <3>2. ASSUME NEW w \in VPage, Plain(w), Copied(w)'
          PROVE  Sees(Pg(dst, w), view[src][w])'
      <4>1. CASE w = v
        <5>1. Pg(dst, w)' = x
          BY <1>0, <1>1, <2>1, <4>1
        <5> QED BY <1>0, <1>9, <3>2, <4>1, <5>1 DEF Sees
      <4>2. CASE w # v
        <5>1. Sees(Pg(dst, w), view[src][w])
          BY <1>0, <2>1, <3>2, <4>2 DEF Views
        <5> QED BY <1>0, <1>1, <2>2, <4>2, <5>1 DEF Sees
      <4> QED BY <4>1, <4>2
    <3> QED BY <1>0, <3>1, <3>2 DEF Views, Plain, UserPage, PDE_INDEX
  <2>6. Control'
    <3>1. mem'[src] = mem[src]
      BY <1>1, <2>1
    <3> QED BY <1>0, <1>1, <3>1 DEF Control, CloneLoop
  <2>7. paging' => Paged'
    <3> SUFFICES ASSUME paging' PROVE Paged'
      OBVIOUS
    <3>1. Complete'
      BY <1>0, <1>1, <1>7, Layout DEF Complete
    <3>2. ASSUME NEW w \in 0..(IdPages - 1), Copied(w)'
          PROVE  Pg(dst, w)' \in 0..(IdPages - 1)
      <4>0. w \in VPage /\ w < IdPages
        BY Layout
      <4>1. CASE w = v
        BY <1>0, <1>1, <1>9, <2>1, <4>0, <4>1
      <4>2. CASE w # v
        <5>1. Copied(w) /\ Pg(dst, w)' = Pg(dst, w)
          BY <1>0, <1>1, <2>1, <3>2, <4>0, <4>2
        <5> QED BY <1>0, <5>1 DEF Paged
      <4> QED BY <4>1, <4>2
    <3> QED BY <1>0, <1>1, <3>1, <3>2 DEF Paged
  <2> QED BY <1>9, <2>3, <2>4, <2>5, <2>6, <2>7
<1>10. CASE s = NONE
  <2>1. UNCHANGED <<data, free>> /\ mem' = [mem EXCEPT ![pt] = [@ EXCEPT ![j] = NONE]]
    BY <1>3, <1>10 DEF ClonePage, SetPte
  <2>2. /\ \A g \in Frames : g \notin free /\ g # pt => mem'[g] = mem[g]
        /\ \A k \in Idx : mem'[pt][k] = IF k = j THEN NONE ELSE mem[pt][k]
        /\ \A g \in Frames : g \notin free => data'[g] = data[g]
    BY <1>1, <2>1 DEF Types
  <2>3. /\ \A e \in Frames, l \in Idx : Tb(e, l)' = Tb(e, l)
        /\ \A e \in Frames, w \in VPage : Pg(e, w)' = Pg(e, w)
    <3>1. EntryCopied(NONE)
      BY <1>0, <2>2 DEF EntryCopied
    <3> HIDE DEF Whole
    <3>2. EntryFollows(NONE, v)
      BY <1>2, <3>1, ClonePageEffect
    <3> QED BY <3>2 DEF EntryFollows
  <2>4. Owned'
    BY <1>0, <1>8, <2>1, <2>3, OwnedPass, Separate
  <2>5. Plain(v) => Sees(NONE, view[src][v])'
    <3> SUFFICES ASSUME Plain(v) PROVE view[src][v] = NONE
      BY <1>0 DEF Sees
    <3> QED BY <1>1, <1>5, <1>10 DEF Views, Sees
  <2>6. paging /\ v < IdPages => NONE \in 0..(IdPages - 1)
    BY <1>6, <1>10, Layout
  <2> QED BY <1>9, <2>2, <2>4, <2>5, <2>6
<1>11. CASE s # NONE
  <2>1. PICK f \in Available :
          /\ Touches({f, s}) /\ free' = free \ {f}
          /\ mem' = [mem EXCEPT ![f] = mem[s], ![pt] = [@ EXCEPT ![j] = f]]
          /\ data' = [data EXCEPT ![f] = data[s]]
    BY <1>3, <1>11 DEF ClonePage
  <2>2. f \in free /\ f \in own /\ f \in Frames /\ f \notin held /\ f \notin DirSet /\ f # pt /\ f # NONE
    BY <1>1, <2>1, Separate, Layout DEF Available
  <2>3. /\ \A g \in Frames : g \notin free /\ g # pt => mem'[g] = mem[g]
        /\ \A k \in Idx : mem'[pt][k] = IF k = j THEN f ELSE mem[pt][k]
        /\ \A g \in Frames : g \notin free => data'[g] = data[g]
        /\ data'[f] = data[s]
    <3>1. PICK y : y = mem[s]
      OBVIOUS
    <3>2. mem' = [mem EXCEPT ![f] = y, ![pt] = [@ EXCEPT ![j] = f]]
      BY <2>1, <3>1
    <3> QED BY <1>1, <2>1, <2>2, <3>2 DEF Types
  <2>4. /\ \A e \in Frames, l \in Idx : Tb(e, l)' = Tb(e, l)
        /\ \A e \in Frames, w \in VPage : Pg(e, w)' = IF e = dst /\ w = v THEN f ELSE Pg(e, w)
        /\ Pg(dst, v) = NONE
    <3>1. EntryCopied(f)
      BY <1>0, <2>3 DEF EntryCopied
    <3> HIDE DEF Whole
    <3>2. EntryFollows(f, v)
      BY <1>2, <3>1, ClonePageEffect
    <3> QED BY <3>2 DEF EntryFollows
  <2>5. Owned'
    <3>1. PICK d \in Frames : d = dst
      BY <1>1
    <3>2. f \in free \cup held \cup DirSet /\ held' = held \ {f} /\ DirSet' = DirSet \ {f}
      BY <1>0, <1>8, <2>2
    <3>3. Pg(d, v) = NONE /\ Pg(d, v)' = f
      BY <2>4, <3>1
    <3> QED BY <2>1, <2>4, <3>1, <3>2, <3>3, OwnedGivePage
  <2>6. Plain(v) => Sees(f, view[src][v])'
    <3> SUFFICES ASSUME Plain(v) PROVE view[src][v] # NONE /\ data'[f] = view[src][v]
      BY <1>0, <2>2 DEF Sees
    <3>1. Sees(s, view[src][v])
      BY <1>1, <1>5 DEF Views
    <3> QED BY <1>11, <2>3, <3>1 DEF Sees
  <2>7. paging /\ v < IdPages => f \in 0..(IdPages - 1)
    <3> SUFFICES ASSUME paging, f >= IdPages PROVE FALSE
      BY <2>2, Layout
    <3>1. vmm_virt_to_phys(KDir, f) = f
      BY <1>1, <2>1 DEF Touches
    <3>2. f \in VPage
      BY <2>2, Layout
    <3>3. Pg(KDir, f) = f
      BY <1>1, <3>1, <3>2, Walks
    <3>4. KDir \in Frames
      BY Layout
    <3>5. Pg(KDir, f) # NONE => Pg(KDir, f) \notin free
      BY <3>2, <3>4, Separate
    <3> QED BY <2>2, <3>3, <3>5
  <2> QED BY <1>9, <2>3, <2>5, <2>6, <2>7
<1> QED BY <1>10, <1>11

\* With paging on, no clone gets to its end with memory: it would have copied
\* vmm_init's pages into fewer frames than there are pages.
LEMMA CloneNeverEnds ==
    ASSUME Types, Whole, ~wild, pc = "clone", i = E
    PROVE  ~paging
<1> USE DEF Whole
<1> SUFFICES ASSUME paging PROVE FALSE
  OBVIOUS
<1>0. Cloning
  BY DEF Cloning
<1>1. dst \in Frames /\ IdPages \in Nat /\ IdPages > 0
  BY <1>0, InClone, VmmSizes, Layout
<1>2. ASSUME NEW v \in 0..(IdPages - 1) PROVE v \in VPage /\ Pg(dst, v) \in 1..(IdPages - 1)
  <2>1. v \in VPage /\ PDE_INDEX(v) < i
    BY PageIndexes, Layout
  <2>2. Pg(dst, v) \in 0..(IdPages - 1)
    BY <1>0, <2>1 DEF Paged, Copied
  <2>3. Pg(dst, v) # NONE
    BY <2>2, Layout
  <2>4. Pg(dst, v) \in own /\ 0 \notin own
    BY <1>1, <2>1, <2>3, Separate
  <2>5. Pg(dst, v) # 0
    BY <2>4
  <2> QED BY <2>1, <2>2, <2>5
<1>3. PICK S, T, g : /\ S = 0..(IdPages - 1) /\ T = 1..(IdPages - 1)
                     /\ g = [v \in S |-> Pg(dst, v)]
  OBVIOUS
<1>4. g \in [S -> T]
  BY <1>2, <1>3
<1>5. IsFiniteSet(S) /\ IsFiniteSet(T) /\ Cardinality(T) < Cardinality(S)
  <2>1. IsFiniteSet(0..(IdPages - 1)) /\ Cardinality(0..(IdPages - 1)) = IdPages
    BY <1>1, FS_Interval
  <2>2. IsFiniteSet(1..(IdPages - 1)) /\ Cardinality(1..(IdPages - 1)) = IdPages - 1
    BY <1>1, FS_Interval
  <2> QED BY <1>1, <1>3, <2>1, <2>2
<1>6. PICK v, w \in S : v # w /\ g[v] = g[w]
  BY <1>4, <1>5, FS_PigeonHole
<1>7. Pg(dst, v) = Pg(dst, w) /\ Pg(dst, v) # NONE /\ v \in VPage /\ w \in VPage
  <2>1. Pg(dst, v) \in 1..(IdPages - 1) /\ v \in VPage /\ w \in VPage
    BY <1>2, <1>3, <1>6
  <2> QED BY <1>3, <1>6, <2>1, Layout
<1> QED BY <1>1, <1>6, <1>7, Separate

LEMMA CloneReturnWhole ==
    ASSUME Types, Whole, ~wild, CloneReturn, UNCHANGED own
    PROVE  Whole'
<1> USE DEF Whole
<1>0. /\ pc = "clone" /\ pc' = "idle" /\ Cloning /\ ~Cloning' /\ i = E
      /\ dirs' = dirs \cup {dst}
      /\ view' = [d \in dirs \cup {dst} |-> IF d = dst THEN view[src] ELSE view[d]]
      /\ UNCHANGED <<mem, data, own, free, cr3, paging, held>>
  BY DEF CloneReturn, Cloning, cpu, tables
<1>1. src \in dirs /\ dst \in Frames /\ dst \notin dirs /\ KDir \in dirs /\ KDir # dst
  BY <1>0, InClone
<1>2. \A e \in Frames, l \in Idx : Tb(e, l)' = Tb(e, l)
  <2>1. \A l \in Idx : l < i
    BY <1>0, Layout
  <2> QED BY <1>0, <1>1, <2>1 DEF Tb
<1>3. ASSUME NEW e \in Frames, NEW w \in VPage PROVE Pg(e, w)' = Pg(e, w)
  <2>1. PICK k : k = PDE_INDEX(w)
    OBVIOUS
  <2>2. k \in Idx /\ Tb(e, k)' = Tb(e, k)
    BY <1>2, <2>1, PageIndexes
  <2> QED BY <1>0, <2>1, <2>2 DEF Pg, PDE_INDEX, PTE_INDEX
<1>4. \A e, w : vmm_virt_to_phys(e, w)' = vmm_virt_to_phys(e, w)
  BY <1>0 DEF vmm_virt_to_phys, PDE_INDEX, PTE_INDEX
<1>5. Owned'
  <2>1. DirSet' = DirSet
    BY <1>0, <1>1 DEF DirSet
  <2> QED BY <1>0, <1>2, <1>3, <2>1, OwnedPass, Separate
<1>6. Shared'
  <2>1. \A k \in KernelPde..(E - 1) : k < i
    BY <1>0, Layout DEF Idx
  <2> QED BY <1>0, <2>1 DEF Shared
<1>7. Identity'
  BY <1>4 DEF Identity
<1>8. Views'
  <2>1. ASSUME NEW e \in dirs', NEW w \in VPage
        PROVE  IF Plain(w) THEN Sees(Pg(e, w), view[e][w])' ELSE view'[e][w] = NONE
    <3>0. e \in Frames /\ Pg(e, w)' = Pg(e, w)
      BY <1>0, <1>1, <1>3 DEF Types
    <3>1. CASE e = dst
      <4>1. view'[e] = view[src]
        BY <1>0, <3>1
      <4>2. Copied(w)
        BY <1>0, PageIndexes, Layout DEF Copied
      <4>3. IF Plain(w) THEN Sees(Pg(dst, w), view[src][w]) ELSE view[src][w] = NONE
        BY <1>0, <1>1, <4>2 DEF Views
      <4> QED BY <1>0, <3>0, <3>1, <4>1, <4>3 DEF Sees
    <3>2. CASE e # dst
      <4>1. e \in dirs /\ view'[e] = view[e]
        BY <1>0, <3>2
      <4> QED BY <1>0, <3>0, <4>1 DEF Views, Sees
    <3> QED BY <3>1, <3>2
  <2> QED BY <1>0, <2>1 DEF Views, Plain, UserPage, PDE_INDEX
<1>9. Control'
  BY <1>0 DEF Control, Cloning
<1>10. ~paging'
  BY <1>0, CloneNeverEnds
<1> QED BY <1>5, <1>6, <1>7, <1>8, <1>9, <1>10

----------------------------------------------------------------------------
(***************************************************************************)
(* The invariant is kept by every step.                                    *)
(***************************************************************************)

\* A step that leaves the cached translations' walks as they were.
LEMMA InvKept ==
    ASSUME VmmInv, ~wild, ~wild', pc' # "fault", Types', UNCHANGED <<cr3, paging>>, tlb' \subseteq tlb,
           paging => \A t \in tlb' : vmm_virt_to_phys(KDir, t[1])' = vmm_virt_to_phys(KDir, t[1]),
           IF starved' THEN Starved' ELSE Whole'
    PROVE  VmmInv'
<1>1. paging => cr3 = KDir
  BY DEF VmmInv, Starved, Whole, Paged
<1>2. ~paging => tlb' = {}
  BY DEF VmmInv
<1>3. TlbCoherent'
  <2> SUFFICES ASSUME NEW t \in tlb' PROVE vmm_virt_to_phys(cr3, t[1])' = t[2]
    BY DEF TlbCoherent
  <2>1. paging /\ cr3' = KDir
    BY <1>1, <1>2
  <2>2. vmm_virt_to_phys(KDir, t[1]) = t[2]
    BY <1>1, <2>1 DEF VmmInv, TlbCoherent
  <2>3. vmm_virt_to_phys(cr3, t[1])' = vmm_virt_to_phys(KDir, t[1])'
    BY <2>1 DEF vmm_virt_to_phys, PDE_INDEX, PTE_INDEX
  <2> QED BY <2>1, <2>2, <2>3
<1> QED BY <1>2, <1>3 DEF VmmInv

LEMMA WalkType ==
    ASSUME Types, NEW d \in Frames, NEW v \in VPage
    PROVE  vmm_virt_to_phys(d, v) \in Frames \cup {NONE}
<1>1. PICK k, l \in Idx : k = PDE_INDEX(v) /\ l = PTE_INDEX(v)
  BY PageIndexes
<1>2. mem[d][k] # NONE => mem[mem[d][k]][l] \in Frames \cup {NONE}
  BY DEF Types
<1> QED BY <1>1, <1>2 DEF vmm_virt_to_phys

\* An address that is not mapped to itself is used: the model stops.
LEMMA FaultInv ==
    ASSUME VmmInv, NEW fs, Fault(fs), UNCHANGED own, calls' \in Nat
    PROVE  VmmInv'
<1>1. wild' /\ pc' = "fault" /\ UNCHANGED <<paging, tlb>>
  BY DEF Fault, cpu
<1>2. Types'
  BY DEF VmmInv, Types, Fault, tables, cpu
<1> QED BY <1>1, <1>2 DEF VmmInv, TlbCoherent

\* The callers' steps.
LEMMA CallersInv ==
    ASSUME VmmInv, Callers, UNCHANGED own, calls' \in Nat
    PROVE  VmmInv'
<1> USE DEF VmmInv
<1>a. MayCall \/ vmm_flush_tlb_all
  BY ZenonT(30) DEF Callers, CallerAlloc, CallerFree, UserWrite, vmm_map_range, vmm_unmap_page, UnmapFaults,
         vmm_clone_dir, CloneFaults, vmm_destroy_dir, vmm_switch_dir
<1>b. pc = "idle"
  BY <1>a DEF MayCall, vmm_flush_tlb_all
<1>0. /\ pc = "idle" /\ ~wild /\ Types /\ own \subseteq Frames /\ Frames \subseteq Nat
      /\ MayCall => ~starved /\ Whole
  <2>1. pc = "idle" /\ ~wild /\ Types
    BY <1>b
  <2>2. own \subseteq Frames /\ Frames \subseteq Nat
    BY <2>1, Layout DEF Types
  <2> QED BY <2>1, <2>2 DEF MayCall
<1>1. CASE CallerAlloc
  <2>1. Whole'
    BY <1>0, <1>1, CallerAllocWhole DEF CallerAlloc
  <2>2. Types'
    BY <1>0, <1>1 DEF Types, CallerAlloc, Available, tables, cpu, regs, ghost
  <2>3. \A w : vmm_virt_to_phys(KDir, w)' = vmm_virt_to_phys(KDir, w)
    BY <1>1 DEF CallerAlloc, tables, vmm_virt_to_phys, PDE_INDEX, PTE_INDEX
  <2> QED BY <1>0, <1>1, <2>1, <2>2, <2>3, InvKept DEF CallerAlloc, cpu, regs, ghost
<1>2. ASSUME NEW f \in held, CallerFree(f) PROVE VmmInv'
  <2>1. Whole'
    BY <1>0, <1>2, CallerFreeWhole DEF CallerFree
  <2>2. Types'
    BY <1>0, <1>2 DEF Types, CallerFree, tables, cpu, regs, ghost
  <2>3. \A w : vmm_virt_to_phys(KDir, w)' = vmm_virt_to_phys(KDir, w)
    BY <1>2 DEF CallerFree, tables, vmm_virt_to_phys, PDE_INDEX, PTE_INDEX
  <2> QED BY <1>0, <1>2, <2>1, <2>2, <2>3, InvKept DEF CallerFree, cpu, regs, ghost
<1>3. ASSUME NEW d \in dirs, NEW v \in Pages, NEW t \in Token, UserWrite(d, v, t) PROVE VmmInv'
  <2>1. Whole' /\ \A w \in VPage : vmm_virt_to_phys(KDir, w)' = vmm_virt_to_phys(KDir, w)
    BY <1>0, <1>3, UserWriteWhole DEF UserWrite
  <2>2. Types'
    <3>1. PICK f : f = vmm_virt_to_phys(d, v)
      OBVIOUS
    <3>2. /\ data' = [data EXCEPT ![f] = t] /\ mem' = [mem EXCEPT ![f] = Blank]
          /\ view' = [view EXCEPT ![d][v] = t]
      BY <1>3, <3>1 DEF UserWrite
    <3>3. /\ mem' \in [Frames -> [Idx -> Frames \cup {NONE}]] /\ data' \in [Frames -> Token]
          /\ view' \in [dirs -> [VPage -> Token \cup {NONE}]]
      BY <1>0, <3>2, Layout DEF Types, Blank
    <3> QED BY <1>0, <1>3, <3>3 DEF Types, UserWrite, cpu, regs, ghost
  <2>3. \A t1 \in tlb : t1[1] \in VPage
    BY <1>0 DEF Types
  <2> QED BY <1>0, <1>3, <2>1, <2>2, <2>3, InvKept DEF UserWrite, cpu, regs, ghost
<1>4. ASSUME NEW d \in dirs, NEW v \in Pages, NEW f \in held, NEW size \in 1..MaxHeld,
             vmm_map_range(d, v, f, size)
      PROVE  VmmInv'
  <2>1. Whole'
    BY <1>0, <1>4, MapRangeWhole DEF vmm_map_range
  <2>2. Types'
    <3>1. v \in Nat /\ size \in Nat /\ f \in Nat
      <4>1. f \in own /\ MaxHeld \in Nat
        BY <1>0, VmmBounds DEF Types
      <4> QED BY <1>0, <4>1, Layout
    <3> QED BY <1>0, <1>4, <3>1 DEF Types, vmm_map_range, tables, cpu, ghost
  <2>3. \A w : vmm_virt_to_phys(KDir, w)' = vmm_virt_to_phys(KDir, w)
    BY <1>4 DEF vmm_map_range, tables, vmm_virt_to_phys, PDE_INDEX, PTE_INDEX
  <2> QED BY <1>0, <1>4, <2>1, <2>2, <2>3, InvKept DEF vmm_map_range, cpu, ghost
<1>5. ASSUME NEW d \in dirs, NEW v \in Pages, vmm_unmap_page(d, v) PROVE VmmInv'
  <2>1. /\ Whole' /\ held' \subseteq own
        /\ \A w \in VPage : w # v => vmm_virt_to_phys(KDir, w)' = vmm_virt_to_phys(KDir, w)
    BY <1>0, <1>5, UnmapWhole DEF vmm_unmap_page
  <2>2. Types'
    <3>1. PICK t : t = mem[d][PDE_INDEX(v)]
      OBVIOUS
    <3>2. /\ mem' = [mem EXCEPT ![t] = [@ EXCEPT ![PTE_INDEX(v)] = NONE]]
          /\ view' = [view EXCEPT ![d][v] = NONE]
      BY <1>5, <3>1 DEF vmm_unmap_page
    <3>3. /\ mem' \in [Frames -> [Idx -> Frames \cup {NONE}]]
          /\ view' \in [dirs -> [VPage -> Token \cup {NONE}]]
      BY <1>0, <3>2 DEF Types
    <3> QED BY <1>0, <1>5, <2>1, <3>3 DEF Types, vmm_unmap_page, vmm_flush_tlb, cpu, regs, ghost
  <2>3. tlb' = {t \in tlb : t[1] # v} /\ \A t \in tlb : t[1] \in VPage
    BY <1>0, <1>5 DEF vmm_unmap_page, vmm_flush_tlb, Types
  <2> QED BY <1>0, <1>5, <2>1, <2>2, <2>3, InvKept DEF vmm_unmap_page, cpu, regs, ghost
<1>6. ASSUME NEW d \in dirs, NEW v \in Pages, UnmapFaults(d, v) PROVE VmmInv'
  BY <1>6, FaultInv DEF UnmapFaults
<1>7. ASSUME NEW d \in dirs, vmm_clone_dir(d) PROVE VmmInv'
  <2>1. Whole'
    BY <1>0, <1>7, CloneDirWhole DEF vmm_clone_dir
  <2>2. Types'
    <3>1. PICK f \in free : dst' = f /\ free' = free \ {f}
      BY <1>7 DEF vmm_clone_dir, Available
    <3>2. f \in Frames /\ d \in Frames
      BY <1>0 DEF Types
    <3> QED BY <1>0, <1>7, <3>1, <3>2 DEF Types, vmm_clone_dir, tables, cpu, ghost
  <2>3. \A w : vmm_virt_to_phys(KDir, w)' = vmm_virt_to_phys(KDir, w)
    BY <1>7 DEF vmm_clone_dir, tables, vmm_virt_to_phys, PDE_INDEX, PTE_INDEX
  <2> QED BY <1>0, <1>7, <2>1, <2>2, <2>3, InvKept DEF vmm_clone_dir, cpu, ghost
<1>8. ASSUME NEW d \in dirs, CloneFaults(d) PROVE VmmInv'
  BY <1>8, FaultInv DEF CloneFaults
<1>9. ASSUME NEW d \in dirs, vmm_destroy_dir(d) PROVE VmmInv'
  <2>1. Whole' /\ free' \subseteq own
    BY <1>0, <1>9, DestroyWhole DEF vmm_destroy_dir
  <2>2. Types'
    BY <1>0, <1>9, <2>1 DEF Types, vmm_destroy_dir, tables, cpu, regs, ghost
  <2>3. \A w : vmm_virt_to_phys(KDir, w)' = vmm_virt_to_phys(KDir, w)
    BY <1>9 DEF vmm_destroy_dir, tables, vmm_virt_to_phys, PDE_INDEX, PTE_INDEX
  <2> QED BY <1>0, <1>9, <2>1, <2>2, <2>3, InvKept DEF vmm_destroy_dir, cpu, regs, ghost
<1>10. ASSUME NEW d \in dirs, vmm_switch_dir(d) PROVE VmmInv'
  <2>1. ~wild' /\ Whole'
    BY <1>0, <1>10, SwitchWhole DEF vmm_switch_dir
  <2>2. cr3' \in Frames
    <3>1. d \in VPage /\ KDir \in Frames
      BY <1>0, Layout DEF Types
    <3>2. vmm_virt_to_phys(KDir, d) \in Frames \cup {NONE}
      BY <1>0, <3>1, WalkType
    <3> QED BY <1>10, <3>2, Layout DEF vmm_switch_dir
  <2>3. pc' = pc /\ tlb' = {} /\ UNCHANGED starved
    BY <1>10, <2>1 DEF vmm_switch_dir
  <2>4. Types'
    BY <1>0, <1>10, <2>1, <2>2, <2>3 DEF Types, vmm_switch_dir, tables
  <2> QED BY <1>0, <1>10, <2>1, <2>3, <2>4 DEF MayCall, vmm_switch_dir, TlbCoherent
<1>11. CASE vmm_flush_tlb_all
  <2>1. /\ tlb' = {}
        /\ UNCHANGED <<mem, data, own, free, pc, dst, src, i, j, pt, p, n, dirs, held, view>>
        /\ UNCHANGED <<paging, cr3, starved, wild>>
    BY <1>11 DEF vmm_flush_tlb_all, tables, regs, cpu, ghost
  <2>2. Types'
    BY <1>0, <2>1 DEF Types
  <2>3. ~starved => Whole'
    BY <1>0, <2>1, RestSame
  <2>4. starved => Starved'
    BY <1>0, <2>1 DEF Starved, Guarded, Kept, Cloning
  <2> QED BY <1>0, <2>1, <2>2, <2>3, <2>4 DEF TlbCoherent
<1> QED BY <1>1, <1>2, <1>3, <1>4, <1>5, <1>6, <1>7, <1>8, <1>9, <1>10, <1>11 DEF Callers

LEMMA CloneStepInv ==
    ASSUME VmmInv, CloneStep, UNCHANGED <<own, calls>>
    PROVE  VmmInv'
<1> USE DEF VmmInv
<1>0. Cloning /\ ~wild /\ ~wild' /\ pc' # "fault" /\ Types /\ UNCHANGED <<tlb, cr3, paging>>
  <2>1. /\ Cloning /\ wild' = wild /\ pc' # "fault" /\ UNCHANGED <<tlb, cr3, paging>>
    BY DEF CloneStep, ClonePde, CloneTable, ClonePage, CloneTableDone, CloneReturn, Cloning, cpu, ghost
  <2> QED BY <2>1 DEF Cloning
<1>1. own \subseteq Frames /\ Frames \subseteq Nat /\ free \subseteq Frames
  BY <1>0, Layout DEF Types
<1>3. /\ Guarded /\ src \in dirs /\ (paging => cr3 = KDir)
      /\ pc = "table" => i \in Idx /\ mem[src][i] # NONE
  BY <1>0, InClone, WholeGuarded DEF Starved
<1>2. Types'
  <2>1. CASE ClonePde
    <3>1. mem' \in [Frames -> [Idx -> Frames \cup {NONE}]]
      <4>1. PICK x : x = mem[src][i]
        OBVIOUS
      <4>2. x \in Frames \cup {NONE}
        <5>1. i \in Idx
          BY <1>0, <2>1, Layout DEF ClonePde, Types, Idx
        <5> QED BY <1>0, <4>1, <5>1 DEF Types
      <4>3. mem' = [mem EXCEPT ![dst] = [@ EXCEPT ![i] = x]]
        BY <2>1, <4>1 DEF ClonePde, SetPde
      <4> QED BY <1>0, <4>2, <4>3 DEF Types
    <3> QED BY <1>0, <2>1, <3>1 DEF Types, ClonePde, cpu, ghost
  <2>2. CASE CloneTable
    <3>1. free' \subseteq own /\ pt' \in Frames /\ j' \in 0..E /\ i' \in Nat /\ pc' \in {"clone", "table"}
          /\ starved' \in BOOLEAN
      <4>1. CASE /\ starved' = TRUE /\ i' = i + 1
                 /\ UNCHANGED <<free, pc, j, pt>>
        BY <1>0, <2>2, <4>1 DEF Types, CloneTable
      <4>2. ASSUME NEW f \in free, pt' = f, free' = free \ {f}, pc' = "table", j' = 0,
                   UNCHANGED <<starved, i>>
            PROVE  /\ free' \subseteq own /\ pt' \in Frames /\ j' \in 0..E /\ i' \in Nat
                   /\ pc' \in {"clone", "table"} /\ starved' \in BOOLEAN
        BY <1>0, <1>1, <4>2, VmmSizes DEF Types
      <4> QED BY <2>2, <4>1, <4>2 DEF CloneTable, Available
    <3> QED BY <1>0, <2>2, <3>1 DEF Types, CloneTable, tables, cpu
  <2>3. CASE ClonePage
    <3>0. j \in Idx /\ j' \in 0..E
      BY <1>0, <2>3, Layout DEF ClonePage, Types, Idx
    <3>1. PICK s : s = mem[mem[src][i]][j]
      OBVIOUS
    <3>2. \/ /\ mem' = [mem EXCEPT ![pt] = [@ EXCEPT ![j] = NONE]]
             /\ UNCHANGED <<data, free, starved>>
          \/ /\ starved' = TRUE /\ UNCHANGED <<mem, data, free>>
          \/ \E f \in free :
                /\ s # NONE
                /\ free' = free \ {f}
                /\ mem' = [mem EXCEPT ![f] = mem[s], ![pt] = [@ EXCEPT ![j] = f]]
                /\ data' = [data EXCEPT ![f] = data[s]]
                /\ UNCHANGED starved
      BY <2>3, <3>1 DEF ClonePage, SetPte, Available, tables
    <3>3. /\ mem' \in [Frames -> [Idx -> Frames \cup {NONE}]] /\ data' \in [Frames -> Token]
          /\ free' \subseteq own /\ starved' \in BOOLEAN
      <4>1. CASE mem' = [mem EXCEPT ![pt] = [@ EXCEPT ![j] = NONE]] /\ UNCHANGED <<data, free, starved>>
        BY <1>0, <3>0, <4>1 DEF Types
      <4>2. CASE starved' = TRUE /\ UNCHANGED <<mem, data, free>>
        BY <1>0, <4>2 DEF Types
      <4>3. ASSUME NEW f \in free, s # NONE, free' = free \ {f},
                   mem' = [mem EXCEPT ![f] = mem[s], ![pt] = [@ EXCEPT ![j] = f]],
                   data' = [data EXCEPT ![f] = data[s]], UNCHANGED starved
            PROVE  /\ mem' \in [Frames -> [Idx -> Frames \cup {NONE}]] /\ data' \in [Frames -> Token]
                   /\ free' \subseteq own /\ starved' \in BOOLEAN
        <5>1. s \in Frames
          <6>1. i \in Idx /\ mem[src][i] # NONE
            BY <1>0, <1>3, <2>3 DEF ClonePage
          <6> QED BY <1>0, <3>0, <3>1, <4>3, <6>1 DEF Types
        <5>2. PICK y, z : y = mem[s] /\ z = data[s]
          OBVIOUS
        <5>3. y \in [Idx -> Frames \cup {NONE}] /\ z \in Token /\ f \in Frames
          BY <1>0, <1>1, <5>1, <5>2 DEF Types
        <5>4. mem' = [mem EXCEPT ![f] = y, ![pt] = [@ EXCEPT ![j] = f]] /\ data' = [data EXCEPT ![f] = z]
          BY <4>3, <5>2
        <5> QED BY <1>0, <3>0, <4>3, <5>3, <5>4 DEF Types
      <4> QED BY <3>2, <4>1, <4>2, <4>3
    <3> QED BY <1>0, <2>3, <3>0, <3>3 DEF Types, ClonePage, cpu
  <2>4. CASE CloneTableDone
    <3>1. mem' \in [Frames -> [Idx -> Frames \cup {NONE}]]
      BY <1>0, <2>4 DEF Types, CloneTableDone, SetPde
    <3> QED BY <1>0, <2>4, <3>1, VmmSizes, Layout DEF Types, CloneTableDone, cpu, ghost
  <2>5. CASE CloneReturn
    <3>1. dirs' \subseteq Frames /\ KDir \in dirs'
      BY <1>0, <2>5 DEF Types, CloneReturn
    <3>2. view' \in [dirs' -> [VPage -> Token \cup {NONE}]]
      BY <1>0, <1>3, <2>5 DEF Types, CloneReturn
    <3> QED BY <1>0, <2>5, <3>1, <3>2, Layout DEF Types, CloneReturn, tables, cpu, ghost
  <2> QED BY <2>1, <2>2, <2>3, <2>4, <2>5 DEF CloneStep
<1>4. /\ Guarded' /\ mem'[src] = mem[src]
      /\ \A w \in VPage : vmm_virt_to_phys(KDir, w)' = vmm_virt_to_phys(KDir, w)
  BY <1>0, <1>3, GuardedStep
<1>5. starved' => Starved'
  <2>1. pc' \in {"clone", "table", "idle"} /\ UNCHANGED <<paging, cr3>>
    BY <1>0 DEF CloneStep, ClonePde, CloneTable, ClonePage, CloneTableDone, CloneReturn
  <2>2. Cloning' => src' = src /\ dirs' = dirs
    BY DEF CloneStep, ClonePde, CloneTable, ClonePage, CloneTableDone, CloneReturn, Cloning
  <2>3. pc' = "table" => i' \in Idx /\ mem'[src'][i'] # NONE
    <3>1. CASE CloneTable
      <4>1. pc' = "table" => i' = i /\ i \in Idx /\ mem[src][i] # NONE /\ src' = src
        BY <1>0, <3>1, Layout DEF CloneTable, Types, Idx
      <4> QED BY <1>4, <4>1
    <3>2. CASE ClonePage
      BY <1>3, <1>4, <3>2 DEF ClonePage
    <3> QED BY <3>1, <3>2 DEF CloneStep, ClonePde, CloneTableDone, CloneReturn
  <2> QED BY <1>3, <1>4, <2>1, <2>2, <2>3 DEF Starved
<1>6. starved => starved'
  BY DEF CloneStep, ClonePde, CloneTable, ClonePage, CloneTableDone, CloneReturn, ghost
<1>7. ~starved' => Whole'
  BY <1>0, <1>6, ClonePdeWhole, CloneTableWhole, ClonePageWhole, CloneTableDoneWhole,
     CloneReturnWhole DEF CloneStep
<1>8. \A t \in tlb : t[1] \in VPage
  BY <1>0 DEF Types
<1> QED BY <1>0, <1>2, <1>4, <1>5, <1>7, <1>8, InvKept

\* What vmm_map_page changes, for the types and for the TLB.
LEMMA MapPageStep ==
    ASSUME Types, Owned, ~Cloning, ~Cloning', UNCHANGED dirs,
           NEW d \in dirs, NEW v \in VPage, NEW f \in Frames, UserPage(v) \/ d = KDir,
           ~MapFails(d, v), MapPage(d, v, f)
    PROVE  /\ mem' \in [Frames -> [Idx -> Frames \cup {NONE}]] /\ free' \subseteq free
           /\ tlb' = {t \in tlb : t[1] # v}
           /\ \A w \in VPage : w # v => vmm_virt_to_phys(KDir, w)' = vmm_virt_to_phys(KDir, w)
<1>1. PICK t \in TableFor(d, v) : MapInto(d, v, f, t) /\ free' = free \ {t}
  BY DEF MapPage, MapInto
<1>2. IF mem[d][PDE_INDEX(v)] = NONE THEN t \in free ELSE t = mem[d][PDE_INDEX(v)]
  BY <1>1 DEF TableFor, Available
<1>3. t \in Frames /\ d \in Frames
  <2>1. d \in Frames /\ PDE_INDEX(v) \in Idx
    BY PageIndexes DEF Types
  <2> QED BY <1>2, <2>1, Separate DEF Types
<1>4. /\ d # t
      /\ \A w \in VPage : vmm_virt_to_phys(KDir, w)' =
            IF d = KDir /\ w = v THEN f ELSE vmm_virt_to_phys(KDir, w)
  BY <1>1, <1>2, <1>3, MapEffect
<1>5. mem' \in [Frames -> [Idx -> Frames \cup {NONE}]]
  BY <1>1, <1>3, <1>4, MapIntoIs
<1> QED BY <1>1, <1>4, <1>5 DEF MapPage, vmm_flush_tlb

LEMMA BootInv ==
    ASSUME VmmInv, vmm_identity_map, UNCHANGED <<own, calls>>
    PROVE  VmmInv'
<1> USE DEF VmmInv
<1>0. /\ pc = "boot" /\ ~wild /\ ~starved /\ Whole /\ Types /\ tlb = {} /\ BootLoop
      /\ ~Cloning /\ ~Cloning' /\ UNCHANGED <<cr3, paging, starved, wild, pc, dirs>>
  <2>1. pc = "boot" /\ UNCHANGED <<cr3, paging, starved, wild, pc, dirs>>
    BY DEF vmm_identity_map, cpu, ghost
  <2> QED BY <2>1 DEF Starved, Whole, Control, BootLoop, Cloning
<1>1. Whole'
  BY <1>0, IdentityMapWhole
<1>2. /\ mem' \in [Frames -> [Idx -> Frames \cup {NONE}]] /\ free' \subseteq free /\ tlb' = {}
  <2>1. CASE UNCHANGED <<mem, free, tlb>>
    BY <1>0, <2>1 DEF Types
  <2>2. CASE ~MapFails(KDir, i) /\ MapPage(KDir, i, i)
    <3>1. i \in VPage /\ i \in Frames /\ KDir \in dirs
      <4>1. i \in 0..(IdPages - 1)
        BY <1>0, Layout DEF vmm_identity_map, Types
      <4> QED BY <1>0, <4>1, Layout DEF Types
    <3>2. Owned
      BY <1>0 DEF Whole
    <3> QED BY <1>0, <2>2, <3>1, <3>2, MapPageStep
  <2> QED BY <2>1, <2>2 DEF vmm_identity_map
<1>3. Types'
  BY <1>0, <1>2 DEF Types, vmm_identity_map, cpu, ghost
<1> QED BY <1>0, <1>1, <1>2, <1>3 DEF TlbCoherent

LEMMA PagingInv ==
    ASSUME VmmInv, EnablePaging, UNCHANGED <<own, calls>>
    PROVE  VmmInv'
<1> USE DEF VmmInv
<1>0. pc = "boot" /\ ~wild /\ ~starved /\ Whole /\ Types
  BY DEF EnablePaging, Starved
<1>1. Whole'
  BY <1>0, EnablePagingWhole
<1>2. Types'
  BY <1>0, Layout DEF Types, EnablePaging, tables, ghost
<1> QED BY <1>0, <1>1, <1>2 DEF TlbCoherent, EnablePaging, ghost

LEMMA MapInv ==
    ASSUME VmmInv, MapNext, UNCHANGED <<own, calls>>
    PROVE  VmmInv'
<1> USE DEF VmmInv
<1>0. /\ pc = "map" /\ ~wild /\ ~starved /\ Whole /\ Types /\ MapLoop /\ n > 0
      /\ ~Cloning /\ ~Cloning' /\ UNCHANGED <<cr3, paging, starved, wild, pc, dirs, src>>
  <2>1. pc = "map" /\ n > 0 /\ UNCHANGED <<cr3, paging, starved, wild, pc, dirs, src>>
    BY DEF MapNext, cpu, ghost
  <2> QED BY <2>1 DEF Starved, Whole, Control, Cloning
<1>1. Whole'
  BY <1>0, MapNextWhole
<1>2. /\ src \in dirs /\ p \in held /\ i \in Pages /\ i \in VPage /\ p \in Frames
      /\ UserPage(i) \/ src = KDir
  <2>1. 0 \in 0..(n - 1) /\ p + 0 = p /\ i + 0 = i
    BY <1>0 DEF Types
  <2>2. src \in dirs /\ p + 0 \in held /\ i + 0 \in Pages /\ (UserPage(i + 0) \/ src = KDir)
    BY <1>0, <2>1 DEF MapLoop
  <2> QED BY <1>0, <2>1, <2>2, Layout DEF Types
<1>3. /\ mem' \in [Frames -> [Idx -> Frames \cup {NONE}]] /\ free' \subseteq free
      /\ held' \subseteq held /\ view' \in [dirs -> [VPage -> Token \cup {NONE}]]
      /\ tlb' \subseteq tlb
      /\ \A t \in tlb' : vmm_virt_to_phys(KDir, t[1])' = vmm_virt_to_phys(KDir, t[1])
  <2>1. CASE UNCHANGED <<mem, free, tlb, held, view>>
    BY <1>0, <2>1 DEF Types, vmm_virt_to_phys, PDE_INDEX, PTE_INDEX
  <2>2. CASE /\ ~MapFails(src, i) /\ MapPage(src, i, p)
             /\ held' = held \ {p}
             /\ view' = IF UserPage(i) THEN [view EXCEPT ![src][i] = data[p]] ELSE view
    <3>1. Owned
      BY <1>0 DEF Whole
    <3>2. /\ mem' \in [Frames -> [Idx -> Frames \cup {NONE}]] /\ free' \subseteq free
          /\ tlb' = {t \in tlb : t[1] # i}
          /\ \A w \in VPage : w # i => vmm_virt_to_phys(KDir, w)' = vmm_virt_to_phys(KDir, w)
      BY <1>0, <1>2, <2>2, <3>1, MapPageStep
    <3>3. view' \in [dirs -> [VPage -> Token \cup {NONE}]]
      <4>1. PICK z : z = data[p]
        OBVIOUS
      <4>2. z \in Token
        BY <1>0, <1>2, <4>1 DEF Types
      <4>3. view' = IF UserPage(i) THEN [view EXCEPT ![src][i] = z] ELSE view
        BY <2>2, <4>1
      <4> QED BY <1>0, <4>2, <4>3 DEF Types
    <3>4. \A t \in tlb' : t[1] \in VPage /\ t[1] # i
      BY <1>0, <3>2 DEF Types
    <3> QED BY <2>2, <3>2, <3>3, <3>4
  <2> QED BY <2>1, <2>2 DEF MapNext
<1>4. Types'
  <2>1. i' \in Nat /\ p' \in Nat /\ n' \in Nat
    BY <1>0 DEF MapNext, Types
  <2> QED BY <1>0, <1>3, <2>1 DEF Types, MapNext, cpu, ghost
<1> QED BY <1>0, <1>1, <1>3, <1>4, InvKept

LEMMA LoopsInv ==
    ASSUME VmmInv, Loops, UNCHANGED <<own, calls>>
    PROVE  VmmInv'
<1>0. calls' \in Nat
  BY DEF VmmInv, Types
<1>1. CASE MapReturn
  <2> USE DEF VmmInv
  <2>0. /\ pc = "map" /\ ~wild /\ ~starved /\ Whole /\ Types
        /\ UNCHANGED <<mem, cr3, paging, starved, wild, tlb>> /\ pc' = "idle"
    BY <1>1 DEF MapReturn, Starved, tables, cpu, ghost
  <2>1. Whole'
    BY <1>1, <2>0, MapReturnWhole
  <2>2. Types'
    BY <1>1, <2>0, Layout DEF Types, MapReturn, tables, cpu, ghost
  <2>3. \A w : vmm_virt_to_phys(KDir, w)' = vmm_virt_to_phys(KDir, w)
    BY <2>0 DEF vmm_virt_to_phys, PDE_INDEX, PTE_INDEX
  <2> QED BY <2>0, <2>1, <2>2, <2>3, InvKept
<1>2. CASE MapFaults
  BY <1>0, <1>2, FaultInv DEF MapFaults
<1>3. CASE CopyFaults
  BY <1>0, <1>3, FaultInv DEF CopyFaults
<1> QED BY <1>1, <1>2, <1>3, BootInv, PagingInv, MapInv, CloneStepInv DEF Loops, CloneStep

\* The processor caches what the tables say.
LEMMA TlbFillInv ==
    ASSUME VmmInv, NEW v \in VPage, TlbFill(v), UNCHANGED <<own, calls>>
    PROVE  VmmInv'
<1> USE DEF VmmInv
<1>0. /\ UNCHANGED <<mem, data, own, free, pc, dst, src, i, j, pt, p, n, dirs, held, view>>
      /\ UNCHANGED <<paging, cr3, starved, wild, calls>> /\ paging /\ ~wild
  BY DEF TlbFill, tables, cpu, regs, ghost
<1>1. PICK f : f = vmm_virt_to_phys(cr3, v)
  OBVIOUS
<1>2. f \in Frames /\ tlb' = {<<v, f>>}
  BY <1>1, WalkType DEF TlbFill, Types
<1>3. Types'
  BY <1>0, <1>2 DEF Types
<1>4. ~starved => Whole'
  BY <1>0, RestSame
<1>5. starved => Starved'
  BY <1>0 DEF Starved, Guarded, Kept, Cloning
<1>6. TlbCoherent'
  <2>1. vmm_virt_to_phys(cr3, v)' = vmm_virt_to_phys(cr3, v)
    BY <1>0 DEF vmm_virt_to_phys, PDE_INDEX, PTE_INDEX
  <2> SUFFICES ASSUME NEW t \in tlb' PROVE vmm_virt_to_phys(cr3, t[1])' = t[2]
    BY DEF TlbCoherent
  <2>2. t = <<v, f>>
    BY <1>2
  <2>3. t[1] = v /\ t[2] = f
    BY <2>2
  <2>4. vmm_virt_to_phys(cr3, t[1])' = vmm_virt_to_phys(cr3, v)'
    BY <2>3 DEF vmm_virt_to_phys, PDE_INDEX, PTE_INDEX
  <2> QED BY <1>1, <2>1, <2>3, <2>4
<1> QED BY <1>0, <1>3, <1>4, <1>5, <1>6

LEMMA InitInv ==
    ASSUME Init
    PROVE  VmmInv
<1>0. /\ mem = [f \in Frames |-> Blank] /\ own \in Machines /\ free = own /\ held = {}
      /\ dirs = {KDir} /\ pc \in {"boot", "idle"} /\ ~paging /\ tlb = {} /\ i = 0
      /\ ~starved /\ ~wild /\ ~Cloning
      /\ view = [d \in {KDir} |-> [v \in VPage |-> NONE]]
  BY DEF Init, Cloning
<1>1. \A f \in Frames, k \in Idx : mem[f][k] = NONE
  BY <1>0 DEF Blank
<1>2. \A d \in Frames, k \in Idx : Tb(d, k) = NONE
  BY <1>0, <1>1 DEF Tb, Cloning
<1>3. \A d \in Frames, v \in VPage : Pg(d, v) = NONE
  BY <1>2, PageIndexes DEF Pg
<1>4. \A v \in VPage : vmm_virt_to_phys(KDir, v) = NONE
  BY <1>1, PageIndexes, Layout DEF vmm_virt_to_phys
<1>5. Types
  <2>1. (CHOOSE t \in Token : TRUE) \in Token
    BY VmmMemory
  <2>2. PICK z : z = CHOOSE t \in Token : TRUE
    OBVIOUS
  <2>3. data = [f \in Frames |-> z] /\ z \in Token
    BY <2>1, <2>2 DEF Init
  <2>4. data \in [Frames -> Token]
    BY <2>3
  <2>5. mem \in [Frames -> [Idx -> Frames \cup {NONE}]]
    BY <1>0 DEF Blank
  <2>6. view \in [dirs -> [VPage -> Token \cup {NONE}]]
    BY <1>0
  <2>7. /\ dst = 0 /\ src = KDir /\ j = 0 /\ pt = 0 /\ p = 0 /\ n = 0 /\ cr3 = 0 /\ calls = 0
        /\ paging = FALSE /\ starved = FALSE /\ wild = FALSE
    BY DEF Init
  <2>8. 0 \in 0..E /\ 0 \in Frames /\ KDir \in Frames
    BY Layout
  <2> QED BY <1>0, <2>4, <2>5, <2>6, <2>7, <2>8 DEF Types
<1>6. Owned
  <2>1. \A s \in Slots : At[s] = NONE
    BY <1>2, <1>3 DEF At, Slots
  <2>2. DirSet = {}
    BY <1>0 DEF DirSet
  <2> QED BY <1>0, <2>1, <2>2 DEF Owned, Apart
<1>7. Shared /\ Identity
  <2>1. \A k \in KernelPde..(E - 1) : k \in Idx
    BY Layout DEF Idx
  <2>2. \A v \in 0..(IdPages - 1) : v \in VPage
    BY Layout
  <2> QED BY <1>0, <1>1, <1>4, <2>1, <2>2 DEF Shared, Identity
<1>8. Views
  BY <1>0, <1>3, Layout DEF Views, Sees
<1>9. Control
  <2>1. 0 \in 0..IdPages /\ 0..(i - 1) = {}
    BY <1>0, Layout
  <2> QED BY <1>0, <1>4, <2>1 DEF Control, BootLoop
<1> QED BY <1>0, <1>5, <1>6, <1>7, <1>8, <1>9 DEF VmmInv, Whole, TlbCoherent

----------------------------------------------------------------------------
\* The memory, the tables and the processor agree in every state, whatever is
\* mapped, unmapped, cloned, destroyed or switched to in whatever order.
THEOREM VmmInvAlways == Spec => []VmmInv
<1>1. Init => VmmInv
  BY InitInv
<1>2. VmmInv /\ [Next]_vars => VmmInv'
  <2> SUFFICES ASSUME VmmInv, [Next]_vars PROVE VmmInv'
    OBVIOUS
  <2>1. CASE Callers /\ calls' = calls + 1 /\ UNCHANGED own
    BY <2>1, CallersInv DEF VmmInv, Types
  <2>2. CASE Loops /\ UNCHANGED calls /\ UNCHANGED own
    BY <2>2, LoopsInv
  <2>3. ASSUME NEW v \in VPage, TlbFill(v) /\ UNCHANGED calls, UNCHANGED own PROVE VmmInv'
    BY <2>3, TlbFillInv
  <2>4. CASE UNCHANGED vars
    <3>1. /\ UNCHANGED <<mem, data, own, free, pc, dst, src, i, j, pt, p, n, dirs, held, view>>
          /\ UNCHANGED <<paging, cr3, starved, wild, calls, tlb>>
      BY <2>4 DEF vars, tables, cpu, regs, ghost
    <3>2. Types'
      BY <3>1 DEF VmmInv, Types
    <3>3. ~wild /\ ~starved => Whole'
      BY <3>1, RestSame DEF VmmInv
    <3>4. ~wild /\ starved => Starved'
      BY <3>1 DEF VmmInv, Starved, Guarded, Kept, Cloning
    <3>5. TlbCoherent'
      BY <3>1 DEF VmmInv, TlbCoherent, vmm_virt_to_phys, PDE_INDEX, PTE_INDEX
    <3> QED BY <3>1, <3>2, <3>3, <3>4, <3>5 DEF VmmInv
  <2> QED BY <2>1, <2>2, <2>3, <2>4 DEF Next
<1> QED BY <1>1, <1>2, PTL DEF Spec

\* The processor never uses a translation the tables have lost: vmm_map_page
\* and vmm_unmap_page flush the page they change, vmm_switch_dir the whole TLB,
\* and no step of vmm_clone_dir writes to the tables the processor walks.
THEOREM TlbCoherentAlways == Spec => []TlbCoherent
<1>1. VmmInv => TlbCoherent
  BY DEF VmmInv
<1> QED BY <1>1, VmmInvAlways, PTL

\* Between calls a directory's user page holds what was last written through
\* that directory, or what vmm_clone_dir copied into it: no other directory
\* reaches its frame.
THEOREM SpacesIsolatedAlways == Spec => []SpacesIsolated
<1>1. VmmInv => SpacesIsolated
  <2> SUFFICES ASSUME VmmInv, pc = "idle", ~starved, NEW d \in dirs, NEW v \in Pages, UserPage(v)
               PROVE  LET f == vmm_virt_to_phys(d, v) IN
                      IF view[d][v] = NONE THEN f = NONE ELSE f # NONE /\ data[f] = view[d][v]
    BY DEF SpacesIsolated
  <2>1. Types /\ Whole /\ ~wild
    BY DEF VmmInv
  <2>2. v \in VPage /\ Plain(v)
    BY Layout DEF Plain
  <2>3. Pg(d, v) = vmm_virt_to_phys(d, v)
    BY <2>1, <2>2, Walks DEF Whole, Plain
  <2>4. Sees(vmm_virt_to_phys(d, v), view[d][v])
    BY <2>1, <2>2, <2>3 DEF Whole, Views
  <2> QED BY <2>4 DEF Sees
<1> QED BY <1>1, VmmInvAlways, PTL

\* Between calls, the owners of a frame are the places the invariant gives it.
LEMMA OwnersAre ==
    ASSUME VmmInv, pc = "idle", ~starved, NEW f \in own
    PROVE  \A o : o \in Owners(f) <=>
             \/ o = <<"free">> /\ f \in free
             \/ o = <<"held">> /\ f \in held
             \/ o = <<"dir">> /\ f \in DirSet
             \/ \E e \in Frames, k \in Idx : Tb(e, k) = f /\ o = <<"table", k, e>>
             \/ \E e \in Frames, v \in VPage : Pg(e, v) = f /\ o = <<"page", v, e>>
<1>0. /\ Types /\ Whole /\ ~wild /\ ~Cloning /\ Control /\ Owned /\ Shared
      /\ f # NONE /\ f # KDir /\ dirs \subseteq Frames /\ KDir \in dirs /\ KDir \in Frames
  <2>1. Types /\ Whole /\ ~wild /\ ~Cloning
    BY DEF VmmInv, Cloning
  <2>2. Owned
    BY <2>1 DEF Whole
  <2> QED BY <2>1, <2>2, Separate DEF Whole, Types
<1>1. f \in dirs <=> f \in DirSet
  BY <1>0 DEF DirSet
<1>2. ASSUME NEW d \in dirs, NEW k \in Idx, mem[d][k] = f
      PROVE  Tb(IF k < KernelPde THEN d ELSE KDir, k) = f
  <2>1. CASE k < KernelPde
    BY <1>0, <1>2, <2>1, Walks
  <2>2. CASE ~(k < KernelPde)
    <3>1. k \in KernelPde..(E - 1) /\ d \in Frames
      BY <1>0, <2>2, Layout DEF Idx
    <3>2. mem[KDir][k] = f
      BY <1>0, <1>2, <3>1 DEF Shared
    <3> QED BY <1>0, <2>2, <3>2, Walks
  <2> QED BY <2>1, <2>2
<1>3. ASSUME NEW d \in dirs, NEW v \in VPage, vmm_virt_to_phys(d, v) = f,
             ~(d = KDir /\ v < IdPages)
      PROVE  Pg(IF UserPage(v) THEN d ELSE KDir, v) = f
  <2>0. v \in Nat /\ IdPages \in Nat /\ PDE_INDEX(v) \in Idx
    BY Layout, PageIndexes
  <2>1. CASE UserPage(v)
    BY <1>0, <1>3, <2>0, <2>1, Walks
  <2>2. CASE ~UserPage(v)
    <3>1. PDE_INDEX(v) \in KernelPde..(E - 1) /\ d \in Frames
      BY <1>0, <2>0, <2>2, Layout DEF Idx, UserPage
    <3>2. mem[d][PDE_INDEX(v)] # NONE
      BY <1>0, <1>3 DEF vmm_virt_to_phys
    <3>3. mem[KDir][PDE_INDEX(v)] = mem[d][PDE_INDEX(v)]
      BY <1>0, <3>1, <3>2 DEF Shared
    <3>4. vmm_virt_to_phys(KDir, v) = f
      BY <1>3, <3>3 DEF vmm_virt_to_phys
    <3>5. v >= IdPages
      <4> SUFFICES ASSUME v < IdPages PROVE FALSE
        BY <2>0
      <4>1. v \in 0..(IdPages - 1)
        BY <2>0
      <4> QED BY <2>2, <4>1, Layout
    <3> QED BY <1>0, <2>2, <3>4, <3>5, Walks
  <2> QED BY <2>1, <2>2
<1>4. ASSUME NEW e \in Frames, NEW k \in Idx, Tb(e, k) = f
      PROVE  e \in dirs /\ mem[e][k] = f /\ (IF k < KernelPde THEN e ELSE KDir) = e
  BY <1>0, <1>4 DEF Tb, Cloning
<1>5. ASSUME NEW e \in Frames, NEW v \in VPage, Pg(e, v) = f
      PROVE  /\ e \in dirs /\ vmm_virt_to_phys(e, v) = f /\ ~(e = KDir /\ v < IdPages)
             /\ (IF UserPage(v) THEN e ELSE KDir) = e
  <2>1. Tb(e, PDE_INDEX(v)) # NONE /\ ~(e = KDir /\ v < IdPages)
    BY <1>0, <1>5 DEF Pg
  <2>2. /\ e \in dirs /\ mem[e][PDE_INDEX(v)] = Tb(e, PDE_INDEX(v))
        /\ (IF UserPage(v) THEN e ELSE KDir) = e
    BY <1>0, <2>1 DEF Tb, Cloning, UserPage
  <2>3. Pg(e, v) = mem[Tb(e, PDE_INDEX(v))][PTE_INDEX(v)]
    BY <1>0, <1>5 DEF Pg
  <2> QED BY <1>5, <2>1, <2>2, <2>3 DEF vmm_virt_to_phys
<1>6. ASSUME NEW o
      PROVE  (\E x \in {y \in dirs \X Idx : mem[y[1]][y[2]] = f} :
                 o = <<"table", x[2], IF x[2] < KernelPde THEN x[1] ELSE KDir>>)
             <=> \E e \in Frames, k \in Idx : Tb(e, k) = f /\ o = <<"table", k, e>>
  <2>1. ASSUME NEW x \in {y \in dirs \X Idx : mem[y[1]][y[2]] = f},
               o = <<"table", x[2], IF x[2] < KernelPde THEN x[1] ELSE KDir>>
        PROVE  \E e \in Frames, k \in Idx : Tb(e, k) = f /\ o = <<"table", k, e>>
    <3>1. PICK d, k : d = x[1] /\ k = x[2]
      OBVIOUS
    <3>2. d \in dirs /\ k \in Idx /\ mem[d][k] = f
      BY <2>1, <3>1
    <3>3. PICK e : e = IF k < KernelPde THEN d ELSE KDir
      OBVIOUS
    <3>4. e \in Frames /\ Tb(e, k) = f
      BY <1>0, <1>2, <3>2, <3>3
    <3>5. o = <<"table", k, e>>
      BY <2>1, <3>1, <3>3
    <3> QED BY <3>2, <3>4, <3>5
  <2>2. ASSUME NEW e \in Frames, NEW k \in Idx, Tb(e, k) = f, o = <<"table", k, e>>
        PROVE  \E x \in {y \in dirs \X Idx : mem[y[1]][y[2]] = f} :
                 o = <<"table", x[2], IF x[2] < KernelPde THEN x[1] ELSE KDir>>
    <3>1. PICK x : x = <<e, k>>
      OBVIOUS
    <3>2. x \in {y \in dirs \X Idx : mem[y[1]][y[2]] = f} /\ x[1] = e /\ x[2] = k
      BY <1>4, <2>2, <3>1
    <3>3. o = <<"table", x[2], IF x[2] < KernelPde THEN x[1] ELSE KDir>>
      BY <1>4, <2>2, <3>2
    <3> QED BY <3>2, <3>3
  <2> QED BY <2>1, <2>2
<1>7. ASSUME NEW o
      PROVE  (\E x \in {y \in dirs \X VPage : /\ vmm_virt_to_phys(y[1], y[2]) = f
                                              /\ ~(y[1] = KDir /\ y[2] < IdPages)} :
                 o = <<"page", x[2], IF UserPage(x[2]) THEN x[1] ELSE KDir>>)
             <=> \E e \in Frames, v \in VPage : Pg(e, v) = f /\ o = <<"page", v, e>>
  <2> DEFINE S == {y \in dirs \X VPage : /\ vmm_virt_to_phys(y[1], y[2]) = f
                                         /\ ~(y[1] = KDir /\ y[2] < IdPages)}
  <2>0. \A d \in dirs, v \in VPage :
          <<d, v>> \in S <=> vmm_virt_to_phys(d, v) = f /\ ~(d = KDir /\ v < IdPages)
    BY DEF vmm_virt_to_phys, PDE_INDEX, PTE_INDEX
  <2>1. ASSUME NEW x \in S, o = <<"page", x[2], IF UserPage(x[2]) THEN x[1] ELSE KDir>>
        PROVE  \E e \in Frames, v \in VPage : Pg(e, v) = f /\ o = <<"page", v, e>>
    <3>1. PICK d \in dirs, v \in VPage : x = <<d, v>>
      OBVIOUS
    <3>2. vmm_virt_to_phys(d, v) = f /\ ~(d = KDir /\ v < IdPages)
      BY <2>0, <2>1, <3>1
    <3>3. PICK e : e = IF UserPage(v) THEN d ELSE KDir
      OBVIOUS
    <3>4. e \in Frames /\ Pg(e, v) = f
      BY <1>0, <1>3, <3>2, <3>3
    <3>5. x[1] = d /\ x[2] = v
      BY <3>1
    <3>6. o = <<"page", v, e>>
      BY <2>1, <3>3, <3>5
    <3> QED BY <3>4, <3>6
  <2>2. ASSUME NEW e \in Frames, NEW v \in VPage, Pg(e, v) = f, o = <<"page", v, e>>
        PROVE  \E x \in S : o = <<"page", x[2], IF UserPage(x[2]) THEN x[1] ELSE KDir>>
    <3>1. PICK x : x = <<e, v>>
      OBVIOUS
    <3>2. x \in S
      BY <1>5, <2>0, <2>2, <3>1
    <3>3. x[1] = e /\ x[2] = v
      BY <3>1
    <3>4. o = <<"page", x[2], IF UserPage(x[2]) THEN x[1] ELSE KDir>>
      BY <1>5, <2>2, <3>3
    <3> QED BY <3>2, <3>4
  <2> QED BY <2>1, <2>2
<1>8. \A o : o \in Owners(f) <=>
             \/ o = <<"free">> /\ f \in free
             \/ o = <<"held">> /\ f \in held
             \/ o = <<"dir">> /\ f \in dirs
             \/ \E x \in {y \in dirs \X Idx : mem[y[1]][y[2]] = f} :
                  o = <<"table", x[2], IF x[2] < KernelPde THEN x[1] ELSE KDir>>
             \/ \E x \in {y \in dirs \X VPage : /\ vmm_virt_to_phys(y[1], y[2]) = f
                                                /\ ~(y[1] = KDir /\ y[2] < IdPages)} :
                  o = <<"page", x[2], IF UserPage(x[2]) THEN x[1] ELSE KDir>>
  BY Zenon DEF Owners
<1> QED BY <1>1, <1>6, <1>7, <1>8

\* Between calls every frame of the allocator has exactly one owner, the
\* allocator, a caller, or one place in one directory: vmm_clone_dir,
\* vmm_destroy_dir, vmm_map_page and vmm_unmap_page lose none and give none
\* to two.
THEOREM FramesOwnedOnceAlways == Spec => []FramesOwnedOnce
<1>1. VmmInv => FramesOwnedOnce
  <2> SUFFICES ASSUME VmmInv, pc = "idle", ~starved, NEW f \in own
               PROVE  Cardinality(Owners(f)) = 1
    BY DEF FramesOwnedOnce
  <2>0. Types /\ Owned /\ f # NONE
    <3>1. Types /\ Owned
      BY DEF VmmInv, Whole
    <3> QED BY <3>1, Separate
  <2> DEFINE T(e, k) == Tb(e, k) = f
             P(e, v) == Pg(e, v) = f
  <2>1. \/ f \in free \/ f \in held \/ f \in DirSet
        \/ \E e \in Frames, k \in Idx : T(e, k)
        \/ \E e \in Frames, v \in VPage : P(e, v)
    <3>1. f \in free \cup held \cup DirSet \/ \E s \in Slots : At[s] = f
      BY <2>0 DEF Owned, Apart
    <3>2. ASSUME NEW s \in Slots, At[s] = f
          PROVE  \/ \E e \in Frames, k \in Idx : T(e, k)
                 \/ \E e \in Frames, v \in VPage : P(e, v)
      <4>1. CASE s \in {0} \X Frames \X VPage
        BY <3>2, <4>1 DEF At
      <4>2. CASE s \in {1} \X Frames \X Idx
        BY <3>2, <4>2 DEF At
      <4> QED BY <4>1, <4>2 DEF Slots
    <3> QED BY <3>1, <3>2
  <2>2. /\ ~(f \in free /\ f \in held) /\ ~(f \in free /\ f \in DirSet) /\ ~(f \in held /\ f \in DirSet)
        /\ \A e \in Frames, k \in Idx : T(e, k) => f \notin free /\ f \notin held /\ f \notin DirSet
        /\ \A e \in Frames, v \in VPage : P(e, v) => f \notin free /\ f \notin held /\ f \notin DirSet
        /\ \A d, e \in Frames, k, l \in Idx : T(d, k) /\ T(e, l) => d = e /\ k = l
        /\ \A d, e \in Frames, v, w \in VPage : P(d, v) /\ P(e, w) => d = e /\ v = w
        /\ \A d, e \in Frames, k \in Idx, v \in VPage : ~(T(d, k) /\ P(e, v))
    BY <2>0, Separate
  <2>3. \A o : o \in Owners(f) <=>
             \/ o = <<"free">> /\ f \in free
             \/ o = <<"held">> /\ f \in held
             \/ o = <<"dir">> /\ f \in DirSet
             \/ \E e \in Frames, k \in Idx : T(e, k) /\ o = <<"table", k, e>>
             \/ \E e \in Frames, v \in VPage : P(e, v) /\ o = <<"page", v, e>>
    BY OwnersAre
  <2> HIDE DEF T, P
  <2>4. \E o \in Owners(f) : \A x \in Owners(f) : x = o
    <3>1. CASE f \in free
      <4>1. PICK o : o = <<"free">>
        OBVIOUS
      <4>2. o \in Owners(f)
        BY <2>3, <3>1, <4>1
      <4>3. \A x \in Owners(f) : x = o
        BY <2>2, <2>3, <3>1, <4>1
      <4> QED BY <4>2, <4>3
    <3>2. CASE f \in held
      <4>1. PICK o : o = <<"held">>
        OBVIOUS
      <4>2. o \in Owners(f)
        BY <2>3, <3>2, <4>1
      <4>3. \A x \in Owners(f) : x = o
        BY <2>2, <2>3, <3>2, <4>1
      <4> QED BY <4>2, <4>3
    <3>3. CASE f \in DirSet
      <4>1. PICK o : o = <<"dir">>
        OBVIOUS
      <4>2. o \in Owners(f)
        BY <2>3, <3>3, <4>1
      <4>3. \A x \in Owners(f) : x = o
        BY <2>2, <2>3, <3>3, <4>1
      <4> QED BY <4>2, <4>3
    <3>4. ASSUME NEW e \in Frames, NEW k \in Idx, T(e, k)
          PROVE  \E o \in Owners(f) : \A x \in Owners(f) : x = o
      <4>1. PICK o : o = <<"table", k, e>>
        OBVIOUS
      <4>2. o \in Owners(f)
        BY <2>3, <3>4, <4>1
      <4>3. \A x \in Owners(f) : x = o
        BY <2>2, <2>3, <3>4, <4>1
      <4> QED BY <4>2, <4>3
    <3>5. ASSUME NEW e \in Frames, NEW v \in VPage, P(e, v)
          PROVE  \E o \in Owners(f) : \A x \in Owners(f) : x = o
      <4>1. PICK o : o = <<"page", v, e>>
        OBVIOUS
      <4>2. o \in Owners(f)
        BY <2>3, <3>5, <4>1
      <4>3. \A x \in Owners(f) : x = o
        BY <2>2, <2>3, <3>5, <4>1
      <4> QED BY <4>2, <4>3
    <3> QED BY <2>1, <3>1, <3>2, <3>3, <3>4, <3>5
  <2>5. PICK o \in Owners(f) : \A x \in Owners(f) : x = o
    BY <2>4
  <2>6. Owners(f) = {o}
    BY <2>5
  <2> QED BY <2>6, FS_Singleton
<1> QED BY <1>1, VmmInvAlways, PTL

----------------------------------------------------------------------------
(***************************************************************************)
(* The heap.  Its state, and what two heaps have in common that differ in  *)
(* the links of the free list only.                                        *)
(***************************************************************************)
Where == Addr \cup {NULL}
Headers == [magic : {"junk", "FREE", "USED"}, size : Nat, prev_phys : Where,
            next_free : Where, prev_free : Where]
Heaps == [hdr : [Addr -> Headers], free_list : Where, brk : 0..HEAP_SIZE, used_bytes : Int]

SameBlocks(g, h) ==
    \A a \in Addr : /\ g.hdr[a].magic = h.hdr[a].magic /\ g.hdr[a].size = h.hdr[a].size
                    /\ g.hdr[a].prev_phys = h.hdr[a].prev_phys
SameBounds(g, h) == g.brk = h.brk /\ g.used_bytes = h.used_bytes

\* s is the free list of heap h, linked both ways.
Linked(h, s) ==
    /\ s \in Seq(Addr)
    /\ \A k, m \in DOMAIN s : s[k] = s[m] => k = m
    /\ h.free_list = IF s = <<>> THEN NULL ELSE s[1]
    /\ \A k \in DOMAIN s :
          /\ h.hdr[s[k]].next_free = IF k = Len(s) THEN NULL ELSE s[k + 1]
          /\ h.hdr[s[k]].prev_free = IF k = 1 THEN NULL ELSE s[k - 1]

LEMMA HeapSizes == {HDR, PAGE, HEAP_SIZE} \subseteq Nat \ {0} /\ NULL \notin Addr /\ Addr \subseteq Nat
  BY HeapAssumption DEF Addr

\* What a header and a heap consist of.
LEMMA HeaderFields ==
    ASSUME NEW r \in Headers
    PROVE  /\ r.magic \in {"junk", "FREE", "USED"} /\ r.size \in Nat /\ r.prev_phys \in Where
           /\ r.next_free \in Where /\ r.prev_free \in Where
  BY DEF Headers

LEMMA HeapFields ==
    ASSUME NEW h \in Heaps
    PROVE  /\ h.hdr \in [Addr -> Headers] /\ h.free_list \in Where /\ h.brk \in 0..HEAP_SIZE
           /\ h.used_bytes \in Int
           /\ \A a \in Addr : h.hdr[a] \in Headers
  BY DEF Heaps

\* A heap with other headers and another head of the list.
WithLinks(h, f, x) == [h EXCEPT !.hdr = f, !.free_list = x]

LEMMA SetLinks ==
    ASSUME NEW h \in Heaps, NEW f \in [Addr -> Headers], NEW x \in Where,
           NEW g, g = WithLinks(h, f, x)
    PROVE  /\ g \in Heaps /\ g.hdr = f /\ g.free_list = x
           /\ SameBounds(g, h)
  BY DEF WithLinks, Heaps, SameBounds

\* One link of one header.
WithNext(f, b, x) == [f EXCEPT ![b].next_free = x]

LEMMA SetNext ==
    ASSUME NEW f \in [Addr -> Headers], NEW b \in Addr, NEW x \in Where,
           NEW g, g = WithNext(f, b, x)
    PROVE  /\ g \in [Addr -> Headers]
           /\ \A a \in Addr : /\ g[a].magic = f[a].magic /\ g[a].size = f[a].size
                              /\ g[a].prev_phys = f[a].prev_phys /\ g[a].prev_free = f[a].prev_free
                              /\ g[a].next_free = IF a = b THEN x ELSE f[a].next_free
<1>1. g = [f EXCEPT ![b] = [f[b] EXCEPT !.next_free = x]]
  BY DEF WithNext
<1>2. PICK r : r = [f[b] EXCEPT !.next_free = x]
  OBVIOUS
<1>3. /\ r \in Headers /\ r.magic = f[b].magic /\ r.size = f[b].size /\ r.prev_phys = f[b].prev_phys
      /\ r.prev_free = f[b].prev_free /\ r.next_free = x
  BY <1>2 DEF Headers
<1>4. g = [f EXCEPT ![b] = r]
  BY <1>1, <1>2
<1>5. g \in [Addr -> Headers]
  BY <1>3, <1>4
<1>6. \A a \in Addr : g[a] = IF a = b THEN r ELSE f[a]
  BY <1>4
<1> QED BY <1>3, <1>5, <1>6

WithPrev(f, b, x) == [f EXCEPT ![b].prev_free = x]

LEMMA SetPrev ==
    ASSUME NEW f \in [Addr -> Headers], NEW b \in Addr, NEW x \in Where,
           NEW g, g = WithPrev(f, b, x)
    PROVE  /\ g \in [Addr -> Headers]
           /\ \A a \in Addr : /\ g[a].magic = f[a].magic /\ g[a].size = f[a].size
                              /\ g[a].prev_phys = f[a].prev_phys /\ g[a].next_free = f[a].next_free
                              /\ g[a].prev_free = IF a = b THEN x ELSE f[a].prev_free
<1>1. g = [f EXCEPT ![b] = [f[b] EXCEPT !.prev_free = x]]
  BY DEF WithPrev
<1>2. PICK r : r = [f[b] EXCEPT !.prev_free = x]
  OBVIOUS
<1>3. /\ r \in Headers /\ r.magic = f[b].magic /\ r.size = f[b].size /\ r.prev_phys = f[b].prev_phys
      /\ r.next_free = f[b].next_free /\ r.prev_free = x
  BY <1>2 DEF Headers
<1>4. g = [f EXCEPT ![b] = r]
  BY <1>1, <1>2
<1>5. g \in [Addr -> Headers]
  BY <1>3, <1>4
<1>6. \A a \in Addr : g[a] = IF a = b THEN r ELSE f[a]
  BY <1>4
<1> QED BY <1>3, <1>5, <1>6

\* Both links of one header.
WithBoth(f, b, x, y) == [f EXCEPT ![b].next_free = x, ![b].prev_free = y]

LEMMA SetBoth ==
    ASSUME NEW f \in [Addr -> Headers], NEW b \in Addr, NEW x \in Where, NEW y \in Where,
           NEW g, g = WithBoth(f, b, x, y)
    PROVE  /\ g \in [Addr -> Headers]
           /\ \A a \in Addr : /\ g[a].magic = f[a].magic /\ g[a].size = f[a].size
                              /\ g[a].prev_phys = f[a].prev_phys
                              /\ g[a].next_free = IF a = b THEN x ELSE f[a].next_free
                              /\ g[a].prev_free = IF a = b THEN y ELSE f[a].prev_free
<1>1. PICK e : e = WithNext(f, b, x)
  OBVIOUS
<1>2. g = WithPrev(e, b, y)
  BY <1>1 DEF WithNext, WithPrev, WithBoth
<1>3. /\ e \in [Addr -> Headers]
      /\ \A a \in Addr : /\ e[a].magic = f[a].magic /\ e[a].size = f[a].size
                         /\ e[a].prev_phys = f[a].prev_phys /\ e[a].prev_free = f[a].prev_free
                         /\ e[a].next_free = IF a = b THEN x ELSE f[a].next_free
  BY <1>1, SetNext
<1>4. /\ g \in [Addr -> Headers]
      /\ \A a \in Addr : /\ g[a].magic = e[a].magic /\ g[a].size = e[a].size
                         /\ g[a].prev_phys = e[a].prev_phys /\ g[a].next_free = e[a].next_free
                         /\ g[a].prev_free = IF a = b THEN y ELSE e[a].prev_free
  BY <1>2, <1>3, SetPrev
<1> QED BY <1>3, <1>4

\* What Push does to the headers.
LEMMA PushIs ==
    ASSUME NEW h \in Heaps, NEW b \in Addr, h.free_list # b
    PROVE  LET g == Push(h, b) IN
           /\ g \in Heaps /\ g.free_list = b /\ SameBlocks(g, h) /\ SameBounds(g, h)
           /\ \A a \in Addr :
                 /\ g.hdr[a].next_free = IF a = b THEN h.free_list ELSE h.hdr[a].next_free
                 /\ g.hdr[a].prev_free = IF a = b THEN NULL
                                         ELSE IF a = h.free_list THEN b ELSE h.hdr[a].prev_free
<1>0. h.hdr \in [Addr -> Headers] /\ h.free_list \in Where /\ NULL \in Where /\ b \in Where /\ NULL \notin Addr
  BY HeapFields, HeapSizes DEF Where
<1>1. PICK l : l = WithBoth(h.hdr, b, h.free_list, NULL)
  OBVIOUS
<1>2. /\ l \in [Addr -> Headers]
      /\ \A a \in Addr : /\ l[a].magic = h.hdr[a].magic /\ l[a].size = h.hdr[a].size
                         /\ l[a].prev_phys = h.hdr[a].prev_phys
                         /\ l[a].next_free = IF a = b THEN h.free_list ELSE h.hdr[a].next_free
                         /\ l[a].prev_free = IF a = b THEN NULL ELSE h.hdr[a].prev_free
  BY <1>0, <1>1, SetBoth
<1>3. PICK f : f = IF h.free_list = NULL THEN l ELSE WithPrev(l, h.free_list, b)
  OBVIOUS
<1>4. Push(h, b) = WithLinks(h, f, b)
  BY <1>1, <1>3 DEF Push, WithBoth, WithPrev, WithLinks
<1>5. /\ f \in [Addr -> Headers]
      /\ \A a \in Addr : /\ f[a].magic = l[a].magic /\ f[a].size = l[a].size
                         /\ f[a].prev_phys = l[a].prev_phys /\ f[a].next_free = l[a].next_free
                         /\ f[a].prev_free = IF a = h.free_list THEN b ELSE l[a].prev_free
  <2>1. CASE h.free_list = NULL
    BY <1>0, <1>2, <1>3, <2>1
  <2>2. CASE h.free_list # NULL
    <3>1. h.free_list \in Addr /\ f = WithPrev(l, h.free_list, b)
      BY <1>0, <1>3, <2>2 DEF Where
    <3> QED BY <1>0, <1>2, <3>1, SetPrev
  <2> QED BY <2>1, <2>2
<1>6. PICK g : g = Push(h, b)
  OBVIOUS
<1>7. /\ g \in Heaps /\ g.hdr = f /\ g.free_list = b /\ SameBounds(g, h)
  BY <1>0, <1>4, <1>5, <1>6, SetLinks
<1>8. SameBlocks(g, h)
  BY <1>2, <1>5, <1>7 DEF SameBlocks
<1>9. \A a \in Addr :
         /\ g.hdr[a].next_free = IF a = b THEN h.free_list ELSE h.hdr[a].next_free
         /\ g.hdr[a].prev_free = IF a = b THEN NULL
                                 ELSE IF a = h.free_list THEN b ELSE h.hdr[a].prev_free
  BY <1>2, <1>5, <1>7
<1> QED BY <1>6, <1>7, <1>8, <1>9

\* What free_list_remove does to the headers.
LEMMA RemoveIs ==
    ASSUME NEW h \in Heaps, NEW b \in Addr, NEW x, NEW y,
           x = h.hdr[b].prev_free, y = h.hdr[b].next_free, x # b, y # b
    PROVE  LET g == free_list_remove(h, b) IN
           /\ g \in Heaps /\ SameBlocks(g, h) /\ SameBounds(g, h)
           /\ g.free_list = IF x = NULL THEN y ELSE h.free_list
           /\ \A a \in Addr :
                 /\ g.hdr[a].next_free = IF a = b THEN NULL ELSE IF a = x THEN y ELSE h.hdr[a].next_free
                 /\ g.hdr[a].prev_free = IF a = b THEN NULL ELSE IF a = y THEN x ELSE h.hdr[a].prev_free
<1>0. /\ h.hdr \in [Addr -> Headers] /\ h.free_list \in Where /\ NULL \in Where /\ NULL \notin Addr
      /\ x \in Where /\ y \in Where
  BY HeapFields, HeapSizes, HeaderFields DEF Where
<1>1. PICK u : u = IF x = NULL THEN h.hdr ELSE WithNext(h.hdr, x, y)
  OBVIOUS
<1>2. /\ u \in [Addr -> Headers]
      /\ \A a \in Addr : /\ u[a].magic = h.hdr[a].magic /\ u[a].size = h.hdr[a].size
                         /\ u[a].prev_phys = h.hdr[a].prev_phys /\ u[a].prev_free = h.hdr[a].prev_free
                         /\ u[a].next_free = IF a = x THEN y ELSE h.hdr[a].next_free
  <2>1. CASE x = NULL
    BY <1>0, <1>1, <2>1
  <2>2. CASE x # NULL
    <3>1. x \in Addr /\ u = WithNext(h.hdr, x, y)
      BY <1>0, <1>1, <2>2 DEF Where
    <3> QED BY <1>0, <3>1, SetNext
  <2> QED BY <2>1, <2>2
<1>3. PICK v : v = IF y = NULL THEN u ELSE WithPrev(u, y, x)
  OBVIOUS
<1>4. /\ v \in [Addr -> Headers]
      /\ \A a \in Addr : /\ v[a].magic = u[a].magic /\ v[a].size = u[a].size
                         /\ v[a].prev_phys = u[a].prev_phys /\ v[a].next_free = u[a].next_free
                         /\ v[a].prev_free = IF a = y THEN x ELSE u[a].prev_free
  <2>1. CASE y = NULL
    BY <1>0, <1>2, <1>3, <2>1
  <2>2. CASE y # NULL
    <3>1. y \in Addr /\ v = WithPrev(u, y, x)
      BY <1>0, <1>3, <2>2 DEF Where
    <3> QED BY <1>0, <1>2, <3>1, SetPrev
  <2> QED BY <2>1, <2>2
<1>5. PICK f : f = WithBoth(v, b, NULL, NULL)
  OBVIOUS
<1>6. /\ f \in [Addr -> Headers]
      /\ \A a \in Addr : /\ f[a].magic = v[a].magic /\ f[a].size = v[a].size
                         /\ f[a].prev_phys = v[a].prev_phys
                         /\ f[a].next_free = IF a = b THEN NULL ELSE v[a].next_free
                         /\ f[a].prev_free = IF a = b THEN NULL ELSE v[a].prev_free
  BY <1>0, <1>4, <1>5, SetBoth
<1>7. PICK z : z = IF x = NULL THEN y ELSE h.free_list
  OBVIOUS
<1>8. free_list_remove(h, b) = WithLinks(h, f, z)
  BY <1>1, <1>3, <1>5, <1>7 DEF free_list_remove, WithNext, WithPrev, WithBoth, WithLinks
<1>9. PICK g : g = free_list_remove(h, b)
  OBVIOUS
<1>10. /\ g \in Heaps /\ g.hdr = f /\ g.free_list = z /\ SameBounds(g, h)
  BY <1>0, <1>6, <1>7, <1>8, <1>9, SetLinks
<1>11. SameBlocks(g, h)
  BY <1>2, <1>4, <1>6, <1>10 DEF SameBlocks
<1>12. \A a \in Addr :
         /\ g.hdr[a].next_free = IF a = b THEN NULL ELSE IF a = x THEN y ELSE h.hdr[a].next_free
         /\ g.hdr[a].prev_free = IF a = b THEN NULL ELSE IF a = y THEN x ELSE h.hdr[a].prev_free
  BY <1>2, <1>4, <1>6, <1>10
<1> QED BY <1>7, <1>9, <1>10, <1>11, <1>12

\* Push puts a block in front of the list.
LEMMA PushLinked ==
    ASSUME NEW h \in Heaps, NEW s, Linked(h, s), NEW b \in Addr, b \notin ToSet(s)
    PROVE  \E q : /\ Linked(Push(h, b), q) /\ ToSet(q) = ToSet(s) \cup {b}
                  /\ Push(h, b) \in Heaps /\ SameBlocks(Push(h, b), h) /\ SameBounds(Push(h, b), h)
<1>0. s \in Seq(Addr) /\ Len(s) \in Nat /\ DOMAIN s = 1..Len(s) /\ NULL \notin Addr
      /\ \A k \in 1..Len(s) : s[k] \in Addr /\ s[k] # b
  BY HeapSizes DEF Linked, ToSet
<1>1. h.free_list = IF s = <<>> THEN NULL ELSE s[1]
  BY DEF Linked
<1>2. h.free_list # b
  BY <1>0, <1>1
<1>3. PICK g : g = Push(h, b)
  OBVIOUS
<1>4. /\ g \in Heaps /\ g.free_list = b /\ SameBlocks(g, h) /\ SameBounds(g, h)
      /\ \A a \in Addr :
            /\ g.hdr[a].next_free = IF a = b THEN h.free_list ELSE h.hdr[a].next_free
            /\ g.hdr[a].prev_free = IF a = b THEN NULL
                                    ELSE IF a = h.free_list THEN b ELSE h.hdr[a].prev_free
  BY <1>2, <1>3, PushIs
<1>5. PICK q : q = <<b>> \o s
  OBVIOUS
<1>6. /\ q \in Seq(Addr) /\ Len(q) = Len(s) + 1 /\ DOMAIN q = 1..Len(q) /\ q[1] = b /\ q # <<>>
      /\ \A k \in 2..Len(q) : q[k] = s[k - 1]
  BY <1>0, <1>5
<1>7. \A k, m \in DOMAIN q : q[k] = q[m] => k = m
  <2> SUFFICES ASSUME NEW k \in DOMAIN q, NEW m \in DOMAIN q, q[k] = q[m], k # m PROVE FALSE
    OBVIOUS
  <2>1. \A x \in DOMAIN q : x # 1 => x \in 2..Len(q) /\ x - 1 \in 1..Len(s) /\ q[x] = s[x - 1]
    BY <1>0, <1>6
  <2>2. \A x, y \in 1..Len(s) : s[x] = s[y] => x = y
    BY <1>0 DEF Linked
  <2>3. k # 1 /\ m # 1
    BY <1>0, <1>6, <2>1
  <2>4. k - 1 = m - 1
    BY <2>1, <2>2, <2>3
  <2> QED BY <1>0, <1>6, <2>4
<1>8. ASSUME NEW k \in DOMAIN q
      PROVE  /\ g.hdr[q[k]].next_free = IF k = Len(q) THEN NULL ELSE q[k + 1]
             /\ g.hdr[q[k]].prev_free = IF k = 1 THEN NULL ELSE q[k - 1]
  <2>1. CASE k = 1
    <3>1. g.hdr[b].next_free = h.free_list /\ g.hdr[b].prev_free = NULL
      BY <1>4
    <3>2. CASE s = <<>>
      BY <1>0, <1>1, <1>6, <2>1, <3>1, <3>2
    <3>3. CASE s # <<>>
      <4>1. 2 \in 2..Len(q) /\ 2 - 1 = 1 /\ k # Len(q) /\ k + 1 = 2
        BY <1>0, <1>6, <2>1, <3>3
      <4>2. q[2] = s[1]
        BY <1>6, <4>1
      <4> QED BY <1>1, <1>6, <2>1, <3>1, <3>3, <4>1, <4>2
    <3> QED BY <3>2, <3>3
  <2>2. CASE k # 1
    <3>1. k \in 2..Len(q) /\ k - 1 \in 1..Len(s) /\ q[k] = s[k - 1] /\ q[k] # b /\ q[k] \in Addr
          /\ s # <<>>
      BY <1>0, <1>6, <2>2
    <3>2. /\ h.hdr[s[k - 1]].next_free = IF k - 1 = Len(s) THEN NULL ELSE s[(k - 1) + 1]
          /\ h.hdr[s[k - 1]].prev_free = IF k - 1 = 1 THEN NULL ELSE s[(k - 1) - 1]
      BY <1>0, <3>1 DEF Linked
    <3>3. /\ g.hdr[q[k]].next_free = h.hdr[q[k]].next_free
          /\ g.hdr[q[k]].prev_free = IF q[k] = s[1] THEN b ELSE h.hdr[q[k]].prev_free
      BY <1>1, <1>4, <3>1
    <3>4. g.hdr[q[k]].next_free = IF k = Len(q) THEN NULL ELSE q[k + 1]
      <4>1. k = Len(q) <=> k - 1 = Len(s)
        BY <1>0, <1>6, <3>1
      <4>2. k # Len(q) => k + 1 \in 2..Len(q) /\ (k + 1) - 1 = (k - 1) + 1
        BY <1>0, <1>6, <3>1
      <4> QED BY <1>6, <3>1, <3>2, <3>3, <4>1, <4>2
    <3>5. g.hdr[q[k]].prev_free = q[k - 1]
      <4>1. CASE k = 2
        <5>1. q[k] = s[1] /\ k - 1 = 1
          BY <3>1, <4>1
        <5> QED BY <1>6, <3>3, <5>1
      <4>2. CASE k # 2
        <5>1. k - 1 \in 2..Len(q) /\ (k - 1) - 1 \in 1..Len(s) /\ 1 \in 1..Len(s) /\ k - 1 # 1
          BY <1>0, <1>6, <3>1, <4>2
        <5>2. s[k - 1] # s[1]
          BY <1>0, <3>1, <5>1 DEF Linked
        <5> QED BY <1>6, <3>1, <3>2, <3>3, <5>1, <5>2
      <4> QED BY <4>1, <4>2
    <3> QED BY <2>2, <3>4, <3>5
  <2> QED BY <2>1, <2>2
<1>9. Linked(g, q)
  BY <1>4, <1>6, <1>7, <1>8 DEF Linked
<1>10. ToSet(q) = ToSet(s) \cup {b}
  <2>1. \A k \in DOMAIN q : q[k] \in ToSet(s) \cup {b}
    <3> SUFFICES ASSUME NEW k \in DOMAIN q, k # 1 PROVE q[k] \in ToSet(s)
      BY <1>6
    <3>1. k \in 2..Len(q) /\ k - 1 \in DOMAIN s /\ q[k] = s[k - 1]
      BY <1>0, <1>6
    <3> QED BY <3>1 DEF ToSet
  <2>2. \A k \in DOMAIN s : s[k] \in ToSet(q)
    <3> SUFFICES ASSUME NEW k \in DOMAIN s PROVE s[k] \in ToSet(q)
      OBVIOUS
    <3>1. k + 1 \in DOMAIN q /\ k + 1 \in 2..Len(q) /\ (k + 1) - 1 = k
      BY <1>0, <1>6
    <3>2. q[k + 1] = s[k]
      BY <1>6, <3>1
    <3> QED BY <3>1, <3>2 DEF ToSet
  <2>3. b \in ToSet(q)
    <3>1. 1 \in DOMAIN q
      BY <1>0, <1>6
    <3> QED BY <1>6, <3>1 DEF ToSet
  <2> QED BY <2>1, <2>2, <2>3 DEF ToSet
<1> QED BY <1>3, <1>4, <1>9, <1>10

\* q is s without its k-th element.
Without(q, s, k, S) ==
    /\ q \in Seq(S) /\ Len(q) = Len(s) - 1
    /\ \A m \in 1..Len(q) : q[m] = IF m < k THEN s[m] ELSE s[m + 1]

LEMMA RemoveAtIs ==
    ASSUME NEW S, NEW s \in Seq(S), NEW k \in DOMAIN s
    PROVE  Without(RemoveAt(s, k), s, k, S)
<1>0. PICK q : q = RemoveAt(s, k)
  OBVIOUS
<1>1. k \in 1..Len(s) /\ Len(s) \in Nat
  OBVIOUS
<1>2. PICK x, y : x = SubSeq(s, 1, k - 1) /\ y = SubSeq(s, k + 1, Len(s))
  OBVIOUS
<1>3. x \in Seq(S) /\ Len(x) = k - 1 /\ \A m \in 1..(k - 1) : x[m] = s[m]
  BY <1>1, <1>2
<1>4. y \in Seq(S) /\ Len(y) = Len(s) - k /\ \A m \in 1..(Len(s) - k) : y[m] = s[k + m]
  BY <1>1, <1>2
<1>5. q = x \o y
  BY <1>0, <1>2 DEF RemoveAt
<1>6. /\ q \in Seq(S) /\ Len(q) = Len(s) - 1
      /\ \A m \in 1..Len(q) : q[m] = IF m <= Len(x) THEN x[m] ELSE y[m - Len(x)]
  BY <1>1, <1>3, <1>4, <1>5, SMTT(30)
<1>7. ASSUME NEW m \in 1..Len(q) PROVE q[m] = IF m < k THEN s[m] ELSE s[m + 1]
  <2>1. CASE m < k
    BY <1>1, <1>3, <1>6, <2>1
  <2>2. CASE ~ (m < k)
    <3>1. m - Len(x) \in 1..(Len(s) - k) /\ ~ (m <= Len(x)) /\ k + (m - Len(x)) = m + 1
      BY <1>1, <1>3, <1>6, <2>2
    <3> QED BY <1>4, <1>6, <2>2, <3>1
  <2> QED BY <2>1, <2>2
<1> QED BY <1>0, <1>6, <1>7 DEF Without

\* The elements that are left, and where they were.
LEMMA RemoveAtSet ==
    ASSUME NEW S, NEW s \in Seq(S), NEW k \in DOMAIN s,
           NEW q, q = RemoveAt(s, k)
    PROVE  (\A x, y \in DOMAIN s : s[x] = s[y] => x = y) =>
           /\ \A x, y \in DOMAIN q : q[x] = q[y] => x = y
           /\ ToSet(q) = ToSet(s) \ {s[k]}
<1>1. /\ q \in Seq(S) /\ Len(q) = Len(s) - 1
      /\ \A m \in 1..Len(q) : q[m] = IF m < k THEN s[m] ELSE s[m + 1]
  <2>1. Without(q, s, k, S)
    BY RemoveAtIs
  <2> QED BY <2>1 DEF Without
<1>0. k \in 1..Len(s) /\ Len(s) \in Nat /\ DOMAIN s = 1..Len(s)
  OBVIOUS
<1> SUFFICES ASSUME \A x, y \in DOMAIN s : s[x] = s[y] => x = y
             PROVE  /\ \A x, y \in DOMAIN q : q[x] = q[y] => x = y
                    /\ ToSet(q) = ToSet(s) \ {s[k]}
  OBVIOUS
<1>2. DOMAIN q = 1..Len(q) /\ Len(q) \in Nat
  BY <1>1
<1>3. ASSUME NEW m \in DOMAIN q
      PROVE  \E x \in DOMAIN s : /\ x # k /\ q[m] = s[x]
                                 /\ m = IF x < k THEN x ELSE x - 1
  <2>1. CASE m < k
    BY <1>0, <1>1, <1>2, <2>1
  <2>2. CASE ~ (m < k)
    <3>1. m + 1 \in DOMAIN s /\ m + 1 # k /\ q[m] = s[m + 1] /\ ~ (m + 1 < k) /\ (m + 1) - 1 = m
      BY <1>0, <1>1, <1>2, <2>2
    <3> QED BY <3>1
  <2> QED BY <2>1, <2>2
<1>4. ASSUME NEW x \in DOMAIN s, x # k
      PROVE  \E m \in DOMAIN q : q[m] = s[x]
  <2>1. CASE x < k
    <3>1. x \in DOMAIN q /\ x \in 1..Len(q)
      BY <1>0, <1>1, <1>2, <2>1
    <3> QED BY <1>1, <2>1, <3>1
  <2>2. CASE ~ (x < k)
    <3>1. x - 1 \in DOMAIN q /\ x - 1 \in 1..Len(q) /\ ~ (x - 1 < k) /\ (x - 1) + 1 = x
      BY <1>0, <1>1, <1>2, <1>4, <2>2
    <3> QED BY <1>1, <3>1
  <2> QED BY <2>1, <2>2
<1>5. ASSUME NEW x \in DOMAIN q, NEW y \in DOMAIN q, q[x] = q[y] PROVE x = y
  <2>1. PICK a \in DOMAIN s : a # k /\ q[x] = s[a] /\ x = IF a < k THEN a ELSE a - 1
    BY <1>3
  <2>2. PICK b \in DOMAIN s : b # k /\ q[y] = s[b] /\ y = IF b < k THEN b ELSE b - 1
    BY <1>3
  <2> QED BY <1>5, <2>1, <2>2
<1>6. ToSet(q) \subseteq ToSet(s) \ {s[k]}
  <2> SUFFICES ASSUME NEW m \in DOMAIN q PROVE q[m] \in ToSet(s) \ {s[k]}
    BY DEF ToSet
  <2>1. PICK x \in DOMAIN s : x # k /\ q[m] = s[x]
    BY <1>3
  <2> QED BY <2>1 DEF ToSet
<1>7. ToSet(s) \ {s[k]} \subseteq ToSet(q)
  <2> SUFFICES ASSUME NEW x \in DOMAIN s, s[x] # s[k] PROVE s[x] \in ToSet(q)
    BY DEF ToSet
  <2>1. PICK m \in DOMAIN q : q[m] = s[x]
    BY <1>4
  <2> QED BY <2>1 DEF ToSet
<1> QED BY <1>5, <1>6, <1>7

\* free_list_remove takes one block out of the list.
LEMMA RemoveLinked ==
    ASSUME NEW h \in Heaps, NEW s, Linked(h, s), NEW b \in ToSet(s)
    PROVE  \E q : LET g == free_list_remove(h, b) IN
                  /\ Linked(g, q) /\ ToSet(q) = ToSet(s) \ {b}
                  /\ g \in Heaps /\ SameBlocks(g, h) /\ SameBounds(g, h)
<1>0. s \in Seq(Addr) /\ Len(s) \in Nat /\ DOMAIN s = 1..Len(s) /\ NULL \notin Addr
      /\ \A x \in 1..Len(s) : s[x] \in Addr
  BY HeapSizes DEF Linked
<1>1. PICK k \in 1..Len(s) : b = s[k]
  BY <1>0 DEF ToSet
<1>2. \A x, y \in 1..Len(s) : s[x] = s[y] => x = y
  BY <1>0 DEF Linked
<1>3. \A x \in 1..Len(s) : /\ h.hdr[s[x]].next_free = IF x = Len(s) THEN NULL ELSE s[x + 1]
                           /\ h.hdr[s[x]].prev_free = IF x = 1 THEN NULL ELSE s[x - 1]
  BY <1>0 DEF Linked
<1>4. PICK x, y : x = h.hdr[b].prev_free /\ y = h.hdr[b].next_free
  OBVIOUS
<1>5. /\ x = IF k = 1 THEN NULL ELSE s[k - 1]
      /\ y = IF k = Len(s) THEN NULL ELSE s[k + 1]
  BY <1>1, <1>3, <1>4
<1>6. /\ k # 1 => k - 1 \in 1..Len(s) /\ k - 1 # k
      /\ k # Len(s) => k + 1 \in 1..Len(s) /\ k + 1 # k
  <2>1. Len(s) \in Nat /\ k \in 1..Len(s)
    BY <1>0
  <2> QED BY <2>1
<1>7. x # b /\ y # b /\ b \in Addr
  BY <1>0, <1>1, <1>2, <1>5, <1>6
<1>8. PICK g : g = free_list_remove(h, b)
  OBVIOUS
<1>9. /\ g \in Heaps /\ SameBlocks(g, h) /\ SameBounds(g, h)
      /\ g.free_list = IF x = NULL THEN y ELSE h.free_list
      /\ \A a \in Addr :
            /\ g.hdr[a].next_free = IF a = b THEN NULL ELSE IF a = x THEN y ELSE h.hdr[a].next_free
            /\ g.hdr[a].prev_free = IF a = b THEN NULL ELSE IF a = y THEN x ELSE h.hdr[a].prev_free
  BY <1>4, <1>7, <1>8, RemoveIs
<1>10. PICK q : q = RemoveAt(s, k)
  OBVIOUS
<1>11. /\ q \in Seq(Addr) /\ Len(q) = Len(s) - 1
       /\ \A m \in 1..Len(q) : q[m] = IF m < k THEN s[m] ELSE s[m + 1]
  <2>1. s \in Seq(Addr) /\ k \in DOMAIN s
    BY <1>0
  <2>2. Without(q, s, k, Addr)
    BY <1>10, <2>1, RemoveAtIs
  <2> QED BY <2>2 DEF Without
<1>12. /\ \A c, d \in DOMAIN q : q[c] = q[d] => c = d
       /\ ToSet(q) = ToSet(s) \ {b}
  BY <1>0, <1>1, <1>2, <1>10, RemoveAtSet
<1>13. DOMAIN q = 1..Len(q) /\ Len(q) \in Nat
  BY <1>11
<1>14. g.free_list = IF q = <<>> THEN NULL ELSE q[1]
  <2>1. h.free_list = s[1] /\ s # <<>>
    BY <1>0, <1>1 DEF Linked
  <2>2. q = <<>> <=> Len(s) = 1
    BY <1>0, <1>11, <1>13
  <2>3. CASE k = 1
    <3>1. g.free_list = y
      BY <1>5, <1>9, <2>3
    <3>2. CASE Len(s) = 1
      BY <1>5, <2>2, <2>3, <3>1, <3>2
    <3>3. CASE Len(s) # 1
      <4>1. 1 \in 1..Len(q) /\ ~ (1 < k) /\ 1 + 1 = k + 1
        BY <1>0, <1>11, <2>3, <3>3
      <4>2. q[1] = s[k + 1]
        BY <1>11, <4>1
      <4> QED BY <1>5, <2>2, <2>3, <3>1, <3>3, <4>2
    <3> QED BY <3>2, <3>3
  <2>4. CASE k # 1
    <3>1. x # NULL /\ Len(s) # 1 /\ 1 \in 1..Len(q) /\ 1 < k
      BY <1>0, <1>1, <1>5, <1>6, <1>11, <2>4
    <3> QED BY <1>9, <1>11, <2>1, <2>2, <3>1
  <2> QED BY <2>3, <2>4
<1>15. ASSUME NEW m \in DOMAIN q
       PROVE  /\ g.hdr[q[m]].next_free = IF m = Len(q) THEN NULL ELSE q[m + 1]
              /\ g.hdr[q[m]].prev_free = IF m = 1 THEN NULL ELSE q[m - 1]
  <2>0. PICK w : w = IF m < k THEN m ELSE m + 1
    OBVIOUS
  <2>1. w \in 1..Len(s) /\ w # k /\ q[m] = s[w] /\ q[m] \in Addr /\ q[m] # b /\ w \in Nat
    BY <1>0, <1>1, <1>2, <1>11, <1>13, <2>0
  <2>2. /\ h.hdr[q[m]].next_free = IF w = Len(s) THEN NULL ELSE s[w + 1]
        /\ h.hdr[q[m]].prev_free = IF w = 1 THEN NULL ELSE s[w - 1]
    BY <1>3, <2>1
  <2>3. /\ g.hdr[q[m]].next_free = IF q[m] = x THEN y ELSE h.hdr[q[m]].next_free
        /\ g.hdr[q[m]].prev_free = IF q[m] = y THEN x ELSE h.hdr[q[m]].prev_free
    BY <1>9, <2>1
  <2>4. q[m] = x <=> w = k - 1
    <3>1. CASE k = 1
      BY <1>0, <1>5, <2>1, <3>1
    <3>2. CASE k # 1
      <4>1. x = s[k - 1] /\ k - 1 \in 1..Len(s)
        BY <1>5, <1>6, <3>2
      <4> QED BY <1>2, <2>1, <4>1
    <3> QED BY <3>1, <3>2
  <2>5. q[m] = y <=> w = k + 1
    <3>1. CASE k = Len(s)
      <4>1. y = NULL /\ q[m] # NULL
        BY <1>0, <1>5, <2>1, <3>1
      <4>2. w \in 1..Len(s) /\ Len(s) \in Nat
        BY <1>0, <2>1
      <4>3. w # k + 1
        BY <3>1, <4>2
      <4> QED BY <4>1, <4>3
    <3>2. CASE k # Len(s)
      <4>1. y = s[k + 1] /\ k + 1 \in 1..Len(s)
        BY <1>5, <1>6, <3>2
      <4> QED BY <1>2, <2>1, <4>1
    <3> QED BY <3>1, <3>2
  <2>6. w = k - 1 <=> m = k - 1
    BY <1>1, <1>13, <2>0
  <2>7. w = k + 1 <=> m = k
    BY <1>1, <1>13, <2>0
  <2>8. g.hdr[q[m]].next_free = IF m = Len(q) THEN NULL ELSE q[m + 1]
    <3>1. CASE m = k - 1
      <4>1. g.hdr[q[m]].next_free = y /\ m + 1 = k
        BY <1>1, <2>3, <2>4, <2>6, <3>1
      <4>2. m = Len(q) <=> k = Len(s)
        BY <1>0, <1>11, <1>1, <3>1
      <4>3. m # Len(q) => m + 1 \in 1..Len(q) /\ ~ (m + 1 < k)
        BY <1>13, <4>1
      <4> QED BY <1>5, <1>11, <4>1, <4>2, <4>3
    <3>2. CASE m # k - 1
      <4>1. g.hdr[q[m]].next_free = IF w = Len(s) THEN NULL ELSE s[w + 1]
        BY <2>2, <2>3, <2>4, <2>6, <3>2
      <4>2. w = Len(s) <=> m = Len(q)
        BY <1>0, <1>1, <1>11, <1>13, <2>0, <3>2
      <4>3. m # Len(q) => m + 1 \in 1..Len(q) /\ (m + 1 < k <=> m < k)
        BY <1>1, <1>13, <3>2
      <4>4. m # Len(q) => q[m + 1] = s[w + 1]
        BY <1>11, <2>0, <4>3
      <4> QED BY <4>1, <4>2, <4>4
    <3> QED BY <3>1, <3>2
  <2>9. g.hdr[q[m]].prev_free = IF m = 1 THEN NULL ELSE q[m - 1]
    <3>1. CASE m = k
      <4>1. g.hdr[q[m]].prev_free = x
        BY <2>3, <2>5, <2>7, <3>1
      <4>2. m # 1 => m - 1 \in 1..Len(q) /\ m - 1 < k
        BY <1>13, <3>1
      <4> QED BY <1>5, <1>11, <3>1, <4>1, <4>2
    <3>2. CASE m # k
      <4>1. g.hdr[q[m]].prev_free = IF w = 1 THEN NULL ELSE s[w - 1]
        BY <2>2, <2>3, <2>5, <2>7, <3>2
      <4>2. w = 1 <=> m = 1
        BY <1>1, <1>13, <2>0, <3>2
      <4>3. m # 1 => m - 1 \in 1..Len(q) /\ (m - 1 < k <=> m < k) /\ (m - 1) + 1 = m /\ (m + 1) - 1 = m
        BY <1>1, <1>13, <3>2
      <4>4. m # 1 => q[m - 1] = s[w - 1]
        BY <1>11, <2>0, <4>3
      <4> QED BY <4>1, <4>2, <4>4
    <3> QED BY <3>1, <3>2
  <2> QED BY <2>8, <2>9
<1>16. Linked(g, q)
  BY <1>11, <1>12, <1>14, <1>15 DEF Linked
<1> QED BY <1>8, <1>9, <1>12, <1>16

\* The free list, followed from its head.
IsFreeList(w, L, h) ==
    w = [k \in 0..L |-> IF k > 0 THEN Follow(h, w[k - 1])
                        ELSE IF h.free_list = NULL THEN <<>> ELSE <<h.free_list>>]

LEMMA FreeListExists ==
    ASSUME NEW h, NEW L \in Nat
    PROVE  \E w : IsFreeList(w, L, h)
<1> DEFINE start == IF h.free_list = NULL THEN <<>> ELSE <<h.free_list>>
           S == {x \in Nat : \E w : IsFreeList(w, x, h)}
<1>1. 0 \in S
  <2> DEFINE w == [k \in 0..0 |-> start]
  <2>1. w = [k \in 0..0 |-> IF k > 0 THEN Follow(h, w[k - 1]) ELSE start]
    OBVIOUS
  <2>2. IsFreeList(w, 0, h)
    BY <2>1 DEF IsFreeList
  <2> QED BY <2>2
<1>2. ASSUME NEW m \in Nat, m \in S PROVE m + 1 \in S
  <2>1. PICK w : IsFreeList(w, m, h)
    BY <1>2
  <2> HIDE DEF start
  <2>2. /\ w[0] = start
        /\ \A k \in 0..m : k > 0 => w[k] = Follow(h, w[k - 1])
    BY <2>1 DEF IsFreeList, start
  <2>3. PICK v : v = [k \in 0..(m + 1) |-> IF k = m + 1 THEN Follow(h, w[m]) ELSE w[k]]
    OBVIOUS
  <2>4. \A k \in 0..(m + 1) : v[k] = IF k > 0 THEN Follow(h, v[k - 1]) ELSE start
    <3> SUFFICES ASSUME NEW k \in 0..(m + 1)
                 PROVE  v[k] = IF k > 0 THEN Follow(h, v[k - 1]) ELSE start
      OBVIOUS
    <3>1. CASE k = 0
      BY <2>2, <2>3, <3>1
    <3>2. CASE k = m + 1
      <4>1. k - 1 = m /\ m \in 0..(m + 1) /\ m # m + 1 /\ k > 0
        BY <3>2
      <4>2. v[k] = Follow(h, w[m]) /\ v[m] = w[m]
        BY <2>3, <3>2, <4>1
      <4> QED BY <3>2, <4>1, <4>2
    <3>3. CASE k # 0 /\ k # m + 1
      <4>1. k \in 0..m /\ k - 1 \in 0..m /\ k - 1 \in 0..(m + 1) /\ k - 1 # m + 1 /\ k > 0
        BY <3>3
      <4>2. v[k] = w[k] /\ v[k - 1] = w[k - 1]
        BY <2>3, <3>3, <4>1
      <4> QED BY <2>2, <4>1, <4>2
    <3> QED BY <3>1, <3>2, <3>3
  <2>5. v = [k \in 0..(m + 1) |-> v[k]]
    BY <2>3
  <2>6. v = [k \in 0..(m + 1) |-> IF k > 0 THEN Follow(h, v[k - 1]) ELSE start]
    BY <2>4, <2>5, Zenon
  <2>7. IsFreeList(v, m + 1, h)
    BY <2>6 DEF IsFreeList, start
  <2> QED BY <2>7
<1> HIDE DEF S
<1>3. Nat \subseteq S
  BY <1>1, <1>2, SetInduction
<1> QED BY <1>3 DEF S

\* A list without a cycle has no more blocks than there are addresses.
LEMMA ListShort ==
    ASSUME NEW s \in Seq(Addr), \A k, m \in DOMAIN s : s[k] = s[m] => k = m
    PROVE  Len(s) <= HEAP_SIZE
<1>1. Len(s) \in Nat /\ DOMAIN s = 1..Len(s) /\ s \in [1..Len(s) -> Addr]
  OBVIOUS
<1>2. s \in Injection(1..Len(s), Addr)
  BY <1>1 DEF Injection, IsInjective
<1>3. HEAP_SIZE \in Nat \ {0}
  BY HeapSizes
<1>4. IsFiniteSet(Addr) /\ Cardinality(Addr) = HEAP_SIZE
  <2>1. /\ IsFiniteSet(0..(HEAP_SIZE - 1))
        /\ Cardinality(0..(HEAP_SIZE - 1)) = IF 0 > HEAP_SIZE - 1 THEN 0 ELSE (HEAP_SIZE - 1) - 0 + 1
    BY <1>3, FS_Interval
  <2> QED BY <1>3, <2>1 DEF Addr
<1>5. Cardinality(1..Len(s)) = Len(s)
  <2>1. Cardinality(1..Len(s)) = IF 1 > Len(s) THEN 0 ELSE Len(s) - 1 + 1
    BY <1>1, FS_Interval
  <2> QED BY <1>1, <2>1
<1>6. Cardinality(1..Len(s)) <= Cardinality(Addr)
  BY <1>2, <1>4, FS_Injection
<1> QED BY <1>4, <1>5, <1>6

LEMMA TakeOneMore ==
    ASSUME NEW S, NEW s \in Seq(S), NEW k \in Nat, k + 1 \in 1..Len(s)
    PROVE  Append(SubSeq(s, 1, k), s[k + 1]) = SubSeq(s, 1, k + 1)
<1>1. SubSeq(s, 1, k) = [x \in 1..k |-> s[x]] /\ SubSeq(s, 1, k + 1) = [x \in 1..(k + 1) |-> s[x]]
  OBVIOUS
<1>2. SubSeq(s, 1, k) \in Seq(S) /\ Len(SubSeq(s, 1, k)) = k
      /\ SubSeq(s, 1, k + 1) \in Seq(S) /\ Len(SubSeq(s, 1, k + 1)) = k + 1
  OBVIOUS
<1> QED BY <1>1, <1>2

LEMMA OneElement ==
    ASSUME NEW S, NEW s \in Seq(S), 1 \in 1..Len(s)
    PROVE  SubSeq(s, 1, 1) = <<s[1]>>
<1>1. Append(SubSeq(s, 1, 0), s[0 + 1]) = SubSeq(s, 1, 0 + 1)
  BY TakeOneMore
<1>2. SubSeq(s, 1, 0) = <<>> /\ 0 + 1 = 1
  OBVIOUS
<1>3. Append(<<>>, s[1]) = <<s[1]>>
  OBVIOUS
<1> QED BY <1>1, <1>2, <1>3

LEMMA FreeSeqIs ==
    ASSUME NEW h \in Heaps, NEW s, Linked(h, s)
    PROVE  FreeSeq(h) = s
<1>0. PICK L \in Nat : /\ L = Len(s) /\ s \in Seq(Addr) /\ DOMAIN s = 1..L /\ NULL \notin Addr
                       /\ \A x \in 1..L : s[x] \in Addr
  BY HeapSizes DEF Linked
<1> DEFINE upto(k) == IF k + 1 <= L THEN k + 1 ELSE L
<1>1. L <= HEAP_SIZE /\ HEAP_SIZE \in Nat
  BY <1>0, ListShort, HeapSizes DEF Linked
<1>2. \E w : IsFreeList(w, HEAP_SIZE, h)
  BY <1>1, FreeListExists
<1>3. PICK w : IsFreeList(w, HEAP_SIZE, h) /\ FreeSeq(h) = w[HEAP_SIZE]
  BY <1>2, Zenon DEF FreeSeq, IsFreeList
<1>4. /\ w[0] = IF h.free_list = NULL THEN <<>> ELSE <<h.free_list>>
      /\ \A k \in 0..HEAP_SIZE : k > 0 => w[k] = Follow(h, w[k - 1])
  BY <1>1, <1>3 DEF IsFreeList
<1>5. \A k \in 1..L : h.hdr[s[k]].next_free = IF k = L THEN NULL ELSE s[k + 1]
  BY <1>0 DEF Linked
<1> DEFINE S == {k \in Nat : k <= HEAP_SIZE => w[k] = SubSeq(s, 1, upto(k))}
<1>6. 0 \in S
  <2>1. h.free_list = IF s = <<>> THEN NULL ELSE s[1]
    BY DEF Linked
  <2>2. CASE s = <<>>
    <3>1. w[0] = <<>> /\ upto(0) = 0
      BY <1>0, <1>4, <2>1, <2>2
    <3>2. SubSeq(s, 1, 0) = <<>>
      BY <1>0
    <3> QED BY <3>1, <3>2
  <2>3. CASE s # <<>>
    <3>1. 1 \in 1..L /\ upto(0) = 1
      BY <1>0, <2>3
    <3>2. w[0] = <<s[1]>>
      BY <1>0, <1>4, <2>1, <2>3, <3>1
    <3>3. SubSeq(s, 1, 1) = <<s[1]>>
      BY <1>0, <3>1, OneElement
    <3> QED BY <3>1, <3>2, <3>3
  <2> QED BY <2>2, <2>3
<1>7. ASSUME NEW k \in Nat, k \in S PROVE k + 1 \in S
  <2> SUFFICES ASSUME k + 1 <= HEAP_SIZE PROVE w[k + 1] = SubSeq(s, 1, upto(k + 1))
    OBVIOUS
  <2>1. k + 1 \in 0..HEAP_SIZE /\ k + 1 > 0 /\ (k + 1) - 1 = k /\ k <= HEAP_SIZE
    BY <1>1
  <2>2. PICK x : x = SubSeq(s, 1, upto(k))
    OBVIOUS
  <2>3. w[k + 1] = Follow(h, x)
    BY <1>4, <1>7, <2>1, <2>2
  <2>4. upto(k) \in 0..L
    BY <1>0
  <2>5. x \in Seq(Addr) /\ Len(x) = upto(k) /\ \A m \in 1..upto(k) : x[m] = s[m]
    BY <1>0, <2>2, <2>4
  <2>6. CASE k + 1 >= L
    <3>1. upto(k) = L /\ upto(k + 1) = L
      BY <2>6
    <3>2. CASE L = 0
      <4>1. x = <<>>
        BY <2>5, <3>1, <3>2
      <4> QED BY <2>2, <2>3, <3>1, <4>1 DEF Follow
    <3>3. CASE L # 0
      <4>1. L \in 1..L
        BY <1>0, <3>3
      <4>2. Last(x) = s[L]
        BY <2>5, <3>1, <4>1 DEF Last
      <4>3. h.hdr[Last(x)].next_free = NULL
        BY <1>5, <4>1, <4>2
      <4> QED BY <2>2, <2>3, <3>1, <4>3 DEF Follow
    <3> QED BY <3>2, <3>3
  <2>7. CASE ~ (k + 1 >= L)
    <3>1. upto(k) = k + 1 /\ upto(k + 1) = (k + 1) + 1 /\ k + 1 \in 1..L /\ (k + 1) + 1 \in 1..L
          /\ k + 1 # L
      BY <2>7
    <3>2. Last(x) = s[k + 1] /\ x # <<>>
      BY <2>5, <3>1 DEF Last
    <3>3. h.hdr[Last(x)].next_free = s[(k + 1) + 1] /\ s[(k + 1) + 1] # NULL
      BY <1>0, <1>5, <3>1, <3>2
    <3>4. w[k + 1] = Append(x, s[(k + 1) + 1])
      BY <2>3, <3>2, <3>3 DEF Follow
    <3>5. Append(SubSeq(s, 1, k + 1), s[(k + 1) + 1]) = SubSeq(s, 1, (k + 1) + 1)
      BY <1>0, <3>1, TakeOneMore
    <3> QED BY <2>2, <3>1, <3>4, <3>5
  <2> QED BY <2>6, <2>7
<1> HIDE DEF S
<1>8. Nat \subseteq S
  BY <1>6, <1>7, SetInduction
<1>9. w[HEAP_SIZE] = SubSeq(s, 1, L)
  <2>1. upto(HEAP_SIZE) = L
    BY <1>1
  <2> QED BY <1>1, <1>8, <2>1 DEF S
<1>10. SubSeq(s, 1, L) = s
  BY <1>0
<1> QED BY <1>3, <1>9, <1>10

\* FirstFit finds a block of the list, large enough, or none.
LEMMA FirstFitIs ==
    ASSUME NEW h \in Heaps, NEW s, Linked(h, s), NEW size, NEW b, b = FirstFit(h, size), b # NULL
    PROVE  b \in ToSet(s) /\ b \in Addr /\ h.hdr[b].magic = "FREE" /\ h.hdr[b].size >= size
<1> DEFINE fits == {k \in DOMAIN s : h.hdr[s[k]].magic = "FREE" /\ h.hdr[s[k]].size >= size}
<1>1. FreeSeq(h) = s
  BY FreeSeqIs
<1>2. fits # {} /\ b = s[Min(fits)]
  BY <1>1 DEF FirstFit
<1>3. fits \in SUBSET Nat
  BY DEF Linked
<1>4. \E x \in fits : \A y \in fits : x <= y
  BY <1>2, <1>3, LeastNat
<1>5. Min(fits) \in fits
  BY <1>4 DEF Min
<1>6. s \in Seq(Addr)
  BY DEF Linked
<1> HIDE DEF fits
<1>7. PICK k \in fits : b = s[k]
  BY <1>2, <1>5
<1>8. k \in DOMAIN s /\ h.hdr[s[k]].magic = "FREE" /\ h.hdr[s[k]].size >= size
  BY <1>7 DEF fits
<1> QED BY <1>6, <1>7, <1>8 DEF ToSet

(***************************************************************************)
(* The blocks of a heap: G, those on the free list (F) and those callers   *)
(* hold (U), lie one behind another from the start to the break.          *)
(***************************************************************************)
End(h, b) == b + HDR + h.hdr[b].size

Tiles(h, G) ==
    /\ G \subseteq Addr
    /\ \A b \in G : b < h.brk /\ (End(h, b) \in G \/ End(h, b) = h.brk)
    /\ \A b, d \in G : b < d => End(h, b) <= d
    /\ \A a \in 0..(h.brk - 1) : \E b \in G : b <= a /\ a < End(h, b)

Marked(h, F, U) ==
    /\ F \cap U = {}
    /\ \A b \in F : h.hdr[b].magic = "FREE"
    /\ \A b \in U : h.hdr[b].magic = "USED"

Good(h, s, U) ==
    /\ h \in Heaps /\ Linked(h, s)
    /\ Tiles(h, ToSet(s) \cup U) /\ Marked(h, ToSet(s), U)

LEMMA EndIs ==
    ASSUME NEW h \in Heaps, NEW b \in Addr
    PROVE  End(h, b) = b + HDR + h.hdr[b].size /\ End(h, b) \in Nat /\ b < End(h, b)
           /\ b \in Nat /\ h.hdr[b].size \in Nat /\ HDR \in Nat \ {0}
<1>1. b \in Nat /\ HDR \in Nat \ {0} /\ h.hdr[b].size \in Nat
  BY HeapSizes, HeapFields, HeaderFields
<1> QED BY <1>1 DEF End

LEMMA BreakIs ==
    ASSUME NEW h \in Heaps
    PROVE  h.brk \in Nat /\ h.brk <= HEAP_SIZE /\ HEAP_SIZE \in Nat /\ \A a \in Nat : a < h.brk => a \in Addr
<1>1. h.brk \in 0..HEAP_SIZE /\ HEAP_SIZE \in Nat
  BY HeapFields, HeapSizes
<1> QED BY <1>1 DEF Addr

\* A change that leaves the links of the listed blocks alone.
LEMMA LinkedKept ==
    ASSUME NEW h, NEW g, NEW s, Linked(h, s), g.free_list = h.free_list,
           \A a \in ToSet(s) : /\ g.hdr[a].next_free = h.hdr[a].next_free
                               /\ g.hdr[a].prev_free = h.hdr[a].prev_free
    PROVE  Linked(g, s)
<1>1. \A k \in DOMAIN s : s[k] \in ToSet(s)
  BY DEF ToSet
<1> QED BY <1>1 DEF Linked

\* A change that leaves the sizes of the blocks alone.
LEMMA TilesKept ==
    ASSUME NEW h, NEW g, NEW G, Tiles(h, G), g.brk = h.brk,
           \A a \in G : g.hdr[a].size = h.hdr[a].size
    PROVE  Tiles(g, G)
<1>1. \A a \in G : End(g, a) = End(h, a)
  BY DEF End
<1> QED BY <1>1 DEF Tiles

\* The ways in which a header is written.
Extended(h, b, r, y) == [h EXCEPT !.hdr[b] = r, !.brk = y]
Headed(h, b, r) == [h EXCEPT !.hdr[b] = r]
Resized(h, b, x) == [h EXCEPT !.hdr[b].size = x]
Remarked(h, b, m, z) == [h EXCEPT !.hdr[b].magic = m, !.used_bytes = z]

LEMMA SetExtended ==
    ASSUME NEW h \in Heaps, NEW b \in Addr, NEW r \in Headers, NEW y \in 0..HEAP_SIZE,
           NEW g, g = Extended(h, b, r, y)
    PROVE  /\ g \in Heaps /\ g.free_list = h.free_list /\ g.brk = y /\ g.used_bytes = h.used_bytes
           /\ \A a \in Addr : g.hdr[a] = IF a = b THEN r ELSE h.hdr[a]
<1>1. h.hdr \in [Addr -> Headers] /\ h.free_list \in Where
  BY HeapFields
<1> QED BY <1>1 DEF Heaps, Extended

LEMMA SetHeaded ==
    ASSUME NEW h \in Heaps, NEW b \in Addr, NEW r \in Headers, NEW g, g = Headed(h, b, r)
    PROVE  /\ g \in Heaps /\ g.free_list = h.free_list /\ g.brk = h.brk /\ g.used_bytes = h.used_bytes
           /\ \A a \in Addr : g.hdr[a] = IF a = b THEN r ELSE h.hdr[a]
<1>1. h.hdr \in [Addr -> Headers] /\ h.free_list \in Where
  BY HeapFields
<1> QED BY <1>1 DEF Heaps, Headed

LEMMA SetResized ==
    ASSUME NEW h \in Heaps, NEW b \in Addr, NEW x \in Nat, NEW g, g = Resized(h, b, x)
    PROVE  /\ g \in Heaps /\ g.free_list = h.free_list /\ g.brk = h.brk /\ g.used_bytes = h.used_bytes
           /\ \A a \in Addr : a # b => g.hdr[a] = h.hdr[a]
           /\ g.hdr[b].size = x /\ g.hdr[b].magic = h.hdr[b].magic
           /\ g.hdr[b].prev_phys = h.hdr[b].prev_phys
           /\ g.hdr[b].next_free = h.hdr[b].next_free /\ g.hdr[b].prev_free = h.hdr[b].prev_free
<1>1. PICK r : r = [h.hdr[b] EXCEPT !.size = x]
  OBVIOUS
<1>2. h.hdr[b] \in Headers
  BY HeapFields
<1>3. /\ r \in Headers /\ r.size = x /\ r.magic = h.hdr[b].magic /\ r.prev_phys = h.hdr[b].prev_phys
      /\ r.next_free = h.hdr[b].next_free /\ r.prev_free = h.hdr[b].prev_free
  BY <1>1, <1>2 DEF Headers
<1>4. g = Headed(h, b, r)
  BY <1>1 DEF Resized, Headed
<1> QED BY <1>3, <1>4, SetHeaded

LEMMA SetRemarked ==
    ASSUME NEW h \in Heaps, NEW b \in Addr, NEW m \in {"junk", "FREE", "USED"}, NEW z \in Int,
           NEW g, g = Remarked(h, b, m, z)
    PROVE  /\ g \in Heaps /\ g.free_list = h.free_list /\ g.brk = h.brk /\ g.used_bytes = z
           /\ \A a \in Addr : a # b => g.hdr[a] = h.hdr[a]
           /\ g.hdr[b].size = h.hdr[b].size /\ g.hdr[b].magic = m
           /\ g.hdr[b].prev_phys = h.hdr[b].prev_phys
           /\ g.hdr[b].next_free = h.hdr[b].next_free /\ g.hdr[b].prev_free = h.hdr[b].prev_free
<1>1. PICK r : r = [h.hdr[b] EXCEPT !.magic = m]
  OBVIOUS
<1>2. h.hdr[b] \in Headers
  BY HeapFields
<1>3. /\ r \in Headers /\ r.size = h.hdr[b].size /\ r.magic = m /\ r.prev_phys = h.hdr[b].prev_phys
      /\ r.next_free = h.hdr[b].next_free /\ r.prev_free = h.hdr[b].prev_free
  BY <1>1, <1>2 DEF Headers
<1>4. PICK k : k = Headed(h, b, r)
  OBVIOUS
<1>5. /\ k \in Heaps /\ k.free_list = h.free_list /\ k.brk = h.brk
      /\ \A a \in Addr : k.hdr[a] = IF a = b THEN r ELSE h.hdr[a]
  BY <1>3, <1>4, SetHeaded
<1>6. g = [k EXCEPT !.used_bytes = z]
  BY <1>1, <1>4 DEF Remarked, Headed
<1>7. g \in Heaps /\ g.free_list = k.free_list /\ g.brk = k.brk /\ g.used_bytes = z /\ g.hdr = k.hdr
  BY <1>5, <1>6 DEF Heaps
<1> QED BY <1>3, <1>5, <1>7

\* The header of a new free block.
NewBlock(x, y) == [JUNK EXCEPT !.magic = "FREE", !.size = x, !.prev_phys = y]

LEMMA NewBlockIs ==
    ASSUME NEW x \in Nat, NEW y \in Where, NEW r, r = NewBlock(x, y)
    PROVE  r \in Headers /\ r.magic = "FREE" /\ r.size = x /\ r.prev_phys = y
<1>1. NULL \in Where
  BY DEF Where
<1> QED BY <1>1 DEF NewBlock, JUNK, Headers

\* The header of the block that heap_expand makes.
LastBlock(x) == [JUNK EXCEPT !.magic = "FREE", !.size = x]

LEMMA LastBlockIs ==
    ASSUME NEW x \in Nat, NEW r, r = LastBlock(x)
    PROVE  r \in Headers /\ r.magic = "FREE" /\ r.size = x /\ r.prev_phys = NULL
<1>1. NULL \in Where
  BY DEF Where
<1> QED BY <1>1 DEF LastBlock, JUNK, Headers

\* The blocks with a new one at the break.
LEMMA TilesGrow ==
    ASSUME NEW h \in Heaps, NEW g \in Heaps, NEW G, Tiles(h, G),
           h.brk \in Addr, g.brk = End(g, h.brk),
           \A a \in G : g.hdr[a].size = h.hdr[a].size
    PROVE  Tiles(g, G \cup {h.brk}) /\ h.brk \notin G
<1>0. h.brk \in Nat /\ g.brk \in Nat /\ h.brk < g.brk /\ G \subseteq Addr
  BY EndIs, BreakIs DEF Tiles
<1>1. \A a \in G : /\ End(g, a) = End(h, a) /\ End(h, a) \in Nat /\ a \in Nat /\ a < h.brk
                   /\ End(h, a) \in G \/ End(h, a) = h.brk
  BY <1>0, EndIs DEF End, Tiles
<1>2. \A a \in G : End(g, a) <= h.brk /\ a < g.brk
  BY <1>0, <1>1
<1>3. h.brk \notin G
  BY <1>0, <1>1
<1>4. \A b \in G \cup {h.brk} : b < g.brk /\ (End(g, b) \in G \cup {h.brk} \/ End(g, b) = g.brk)
  BY <1>0, <1>1, <1>2
<1>5. \A b, d \in G \cup {h.brk} : b < d => End(g, b) <= d
  <2> SUFFICES ASSUME NEW b \in G \cup {h.brk}, NEW d \in G \cup {h.brk}, b < d PROVE End(g, b) <= d
    OBVIOUS
  <2>1. b \in G
    BY <1>0, <1>1
  <2>2. CASE d = h.brk
    BY <1>2, <2>1, <2>2
  <2>3. CASE d \in G
    BY <1>1, <2>1, <2>3 DEF Tiles
  <2> QED BY <2>2, <2>3
<1>6. ASSUME NEW a \in 0..(g.brk - 1) PROVE \E b \in G \cup {h.brk} : b <= a /\ a < End(g, b)
  <2>1. CASE a < h.brk
    <3>1. a \in 0..(h.brk - 1)
      BY <1>0, <2>1
    <3>2. PICK b \in G : b <= a /\ a < End(h, b)
      BY <3>1 DEF Tiles
    <3> QED BY <1>1, <3>2
  <2>2. CASE ~ (a < h.brk)
    <3>1. h.brk <= a /\ a < g.brk
      BY <1>0, <2>2
    <3> QED BY <3>1
  <2> QED BY <2>1, <2>2
<1> QED BY <1>0, <1>3, <1>4, <1>5, <1>6 DEF Tiles

\* The blocks with one of them cut in two.
LEMMA TilesSplit ==
    ASSUME NEW h \in Heaps, NEW g \in Heaps, NEW G, Tiles(h, G), NEW b \in G, NEW r \in Addr,
           g.brk = h.brk, End(g, b) = r, End(g, r) = End(h, b),
           \A a \in G \ {b} : g.hdr[a].size = h.hdr[a].size
    PROVE  Tiles(g, G \cup {r}) /\ r \notin G
<1>0. h.brk \in Nat /\ g.brk \in Nat /\ G \subseteq Addr /\ b \in Addr
  BY BreakIs DEF Tiles
<1>1. b \in Nat /\ r \in Nat /\ b < r /\ r < End(h, b) /\ End(h, b) \in Nat
  BY <1>0, EndIs
<1>2. End(h, b) \in G \/ End(h, b) = h.brk
  BY DEF Tiles
<1>3. \A a \in G : End(h, a) \in Nat /\ a \in Nat /\ a < h.brk /\ (End(h, a) \in G \/ End(h, a) = h.brk)
  BY <1>0, EndIs DEF Tiles
<1>4. \A a \in G \ {b} : End(g, a) = End(h, a)
  BY DEF End
<1>5. r \notin G
  BY <1>0, <1>1 DEF Tiles
<1>6. r < g.brk
  BY <1>0, <1>1, <1>2, <1>3
<1>7. \A a \in G \cup {r} : a < g.brk /\ (End(g, a) \in G \cup {r} \/ End(g, a) = g.brk)
  BY <1>2, <1>3, <1>4, <1>6
<1>8. \A x, y \in G : x < y => End(h, x) <= y
  BY DEF Tiles
<1>9. \A x, y \in G \cup {r} : x < y => End(g, x) <= y
  <2> SUFFICES ASSUME NEW x \in G \cup {r}, NEW y \in G \cup {r}, x < y PROVE End(g, x) <= y
    OBVIOUS
  <2>1. CASE x = r
    <3>1. y \in G /\ y \in Nat
      <4>1. y # r
        BY <1>1, <2>1
      <4> QED BY <1>3, <4>1
    <3>2. b < y
      BY <1>1, <2>1, <3>1
    <3> QED BY <1>8, <2>1, <3>1, <3>2
  <2>2. CASE x = b
    <3>1. CASE y = r
      BY <1>1, <2>2, <3>1
    <3>2. CASE y \in G
      <4>1. End(h, b) <= y /\ y \in Nat
        BY <1>3, <1>8, <2>2, <3>2
      <4> QED BY <1>1, <2>2, <4>1
    <3> QED BY <3>1, <3>2
  <2>3. CASE x \in G \ {b}
    <3>1. End(g, x) = End(h, x) /\ x \in Nat /\ End(h, x) \in Nat
      BY <1>3, <1>4, <2>3
    <3>2. CASE y \in G
      BY <1>8, <2>3, <3>1, <3>2
    <3>3. CASE y = r
      <4>1. CASE x < b
        BY <1>1, <1>8, <2>3, <3>1, <3>3, <4>1
      <4>2. CASE ~ (x < b)
        <5>1. b < x /\ End(h, b) <= x
          BY <1>1, <1>8, <2>3, <3>1, <4>2
        <5> QED BY <1>1, <3>1, <3>3, <5>1
      <4> QED BY <4>1, <4>2
    <3> QED BY <3>2, <3>3
  <2> QED BY <2>1, <2>2, <2>3
<1>10. ASSUME NEW a \in 0..(g.brk - 1) PROVE \E x \in G \cup {r} : x <= a /\ a < End(g, x)
  <2>1. PICK x \in G : x <= a /\ a < End(h, x)
    BY <1>10 DEF Tiles
  <2>2. CASE x # b
    BY <1>4, <2>1, <2>2
  <2>3. CASE x = b /\ a < r
    BY <2>1, <2>3
  <2>4. CASE x = b /\ ~ (a < r)
    <3>1. r <= a
      BY <1>0, <1>1, <2>4
    <3> QED BY <2>1, <2>4, <3>1
  <2> QED BY <2>2, <2>3, <2>4
<1> QED BY <1>0, <1>5, <1>7, <1>9, <1>10 DEF Tiles

\* The blocks with one of them joined to the one before it.
LEMMA TilesJoin ==
    ASSUME NEW h \in Heaps, NEW g \in Heaps, NEW G, Tiles(h, G), NEW b \in G, NEW r \in G,
           g.brk = h.brk, End(h, b) = r, End(g, b) = End(h, r),
           \A a \in G \ {b} : g.hdr[a].size = h.hdr[a].size
    PROVE  Tiles(g, G \ {r})
<1>0. h.brk \in Nat /\ g.brk \in Nat /\ G \subseteq Addr /\ b \in Addr /\ r \in Addr
  BY BreakIs DEF Tiles
<1>1. b \in Nat /\ r \in Nat /\ b < r /\ r < End(h, r) /\ End(h, r) \in Nat
  BY <1>0, EndIs
<1>2. End(h, r) \in G \/ End(h, r) = h.brk
  BY DEF Tiles
<1>3. \A a \in G : End(h, a) \in Nat /\ a \in Nat /\ a < h.brk /\ (End(h, a) \in G \/ End(h, a) = h.brk)
  BY <1>0, EndIs DEF Tiles
<1>4. \A a \in G \ {b} : End(g, a) = End(h, a)
  BY DEF End
<1>5. \A x, y \in G : x < y => End(h, x) <= y
  BY DEF Tiles
<1>6. \A a \in G \ {b} : End(h, a) # r
  <2> SUFFICES ASSUME NEW a \in G \ {b}, End(h, a) = r PROVE FALSE
    OBVIOUS
  <2>1. a \in Nat /\ a # b /\ a < r
    BY <1>0, EndIs
  <2>2. a < b => r <= b
    BY <1>5
  <2>3. b < a => r <= a
    BY <1>5
  <2> QED BY <1>1, <2>1, <2>2, <2>3
<1>7. b # r /\ End(h, r) # r
  BY <1>1
<1>8. \A a \in G \ {r} : a < g.brk /\ (End(g, a) \in G \ {r} \/ End(g, a) = g.brk)
  BY <1>2, <1>3, <1>4, <1>6, <1>7
<1>9. \A x, y \in G \ {r} : x < y => End(g, x) <= y
  <2> SUFFICES ASSUME NEW x \in G \ {r}, NEW y \in G \ {r}, x < y PROVE End(g, x) <= y
    OBVIOUS
  <2>1. CASE x # b
    BY <1>4, <1>5, <2>1
  <2>2. CASE x = b
    <3>1. r <= y /\ y # r /\ y \in Nat
      BY <1>3, <1>5, <2>2
    <3>2. r < y
      BY <1>1, <3>1
    <3> QED BY <1>5, <2>2, <3>2
  <2> QED BY <2>1, <2>2
<1>10. ASSUME NEW a \in 0..(g.brk - 1) PROVE \E x \in G \ {r} : x <= a /\ a < End(g, x)
  <2>1. PICK x \in G : x <= a /\ a < End(h, x)
    BY <1>10 DEF Tiles
  <2>2. CASE x # b /\ x # r
    BY <1>4, <2>1, <2>2
  <2>3. CASE x = b
    <3>1. a < End(g, b)
      BY <1>0, <1>1, <2>1, <2>3
    <3> QED BY <1>7, <2>1, <2>3, <3>1
  <2>4. CASE x = r
    <3>1. b <= a
      BY <1>0, <1>1, <2>1, <2>4
    <3> QED BY <1>7, <2>1, <2>4, <3>1
  <2> QED BY <2>2, <2>3, <2>4
<1> QED BY <1>0, <1>8, <1>9, <1>10 DEF Tiles

\* The blocks that callers hold keep their sizes.
KeepsHeld(g, h, U) == \A u \in U : g.hdr[u].size = h.hdr[u].size

\* A size that is rounded up does not become smaller.
LEMMA AlignUpIs ==
    ASSUME NEW x \in Nat
    PROVE  AlignUp(x, PAGE) \in Nat /\ AlignUp(x, PAGE) >= x
<1>0. PAGE \in Nat \ {0}
  BY HeapSizes
<1>1. PICK y \in Nat : y = x + PAGE - 1
  BY <1>0
<1>2. /\ y \div PAGE \in Nat /\ y % PAGE \in 0..(PAGE - 1)
      /\ y = (PAGE * (y \div PAGE)) + (y % PAGE)
  BY <1>0, <1>1, DivMod
<1>3. PICK d \in Nat, m \in 0..(PAGE - 1) : d = y \div PAGE /\ y = PAGE * d + m
  BY <1>2
<1>4. PAGE * d = d * PAGE /\ d * PAGE \in Nat
  BY <1>0, <1>3
<1>5. d * PAGE >= x
  BY <1>0, <1>1, <1>3, <1>4
<1> QED BY <1>1, <1>3, <1>4, <1>5 DEF AlignUp

\* heap_expand adds a free block at the break, or changes nothing.
LEMMA ExpandGood ==
    ASSUME NEW h, NEW s, NEW U, Good(h, s, U), NEW size \in Nat,
           NEW g, g = heap_expand(h, size)
    PROVE  /\ \E q : Good(g, q, U)
           /\ KeepsHeld(g, h, U) /\ g.used_bytes = h.used_bytes
<1> DEFINE expand == AlignUp(size + HDR, PAGE)
           blk == [JUNK EXCEPT !.magic = "FREE", !.size = expand - HDR]
<1>0. h \in Heaps /\ Linked(h, s) /\ Tiles(h, ToSet(s) \cup U) /\ ToSet(s) \cup U \subseteq Addr
  BY DEF Good, Tiles
<1>1. HDR \in Nat \ {0} /\ size + HDR \in Nat /\ NULL \in Where
  BY HeapSizes DEF Where
<1>2. expand \in Nat /\ expand >= size + HDR
  BY <1>1, AlignUpIs
<1>3. CASE h.brk + expand > HEAP_SIZE
  <2>1. g = h
    BY <1>3 DEF heap_expand
  <2> QED BY <2>1 DEF KeepsHeld
<1>4. CASE ~ (h.brk + expand > HEAP_SIZE)
  <2>1. h.brk \in Nat /\ h.brk <= HEAP_SIZE /\ HEAP_SIZE \in Nat /\ h.used_bytes \in Int
    BY <1>0, BreakIs, HeapFields
  <2>2. h.brk \in Addr /\ h.brk + expand \in 0..HEAP_SIZE
    BY <1>1, <1>2, <1>4, <2>1 DEF Addr
  <2>3. blk \in Headers /\ blk.magic = "FREE" /\ blk.size = expand - HDR /\ blk.prev_phys = NULL
    <3>1. PICK x \in Nat : x = expand - HDR
      BY <1>1, <1>2
    <3>2. blk = LastBlock(x)
      BY <3>1 DEF LastBlock
    <3> HIDE DEF blk, expand
    <3> QED BY <3>1, <3>2, LastBlockIs
  <2> HIDE DEF blk, expand
  <2>4. PICK y : y = h.brk + expand
    OBVIOUS
  <2>5. PICK e : e = Extended(h, h.brk, blk, y)
    OBVIOUS
  <2>6. g = Push(e, h.brk)
    <3>1. [h EXCEPT !.hdr[h.brk] = blk, !.brk = @ + expand] = e
      BY <2>4, <2>5 DEF Extended
    <3> QED BY <1>4, <3>1 DEF heap_expand, blk, expand
  <2>7. /\ e \in Heaps /\ e.free_list = h.free_list /\ e.brk = y /\ e.used_bytes = h.used_bytes
        /\ \A a \in Addr : e.hdr[a] = IF a = h.brk THEN blk ELSE h.hdr[a]
    <3>1. h \in Heaps /\ h.brk \in Addr /\ blk \in Headers /\ y \in 0..HEAP_SIZE
      BY <1>0, <2>2, <2>3, <2>4
    <3> QED BY <2>5, <3>1, SetExtended
  <2>8. \A a \in ToSet(s) \cup U : a # h.brk
    BY <1>0, <2>1, HeapSizes DEF Tiles
  <2>9. \A a \in ToSet(s) \cup U : e.hdr[a] = h.hdr[a]
    BY <1>0, <2>7, <2>8
  <2>10. e.brk = End(e, h.brk)
    BY <1>1, <1>2, <2>1, <2>2, <2>3, <2>4, <2>7 DEF End
  <2>11. Tiles(e, (ToSet(s) \cup U) \cup {h.brk}) /\ h.brk \notin ToSet(s) \cup U
    BY <1>0, <2>2, <2>7, <2>9, <2>10, TilesGrow
  <2>12. Linked(e, s)
    BY <1>0, <2>7, <2>9, LinkedKept
  <2>13. PICK q : /\ Linked(g, q) /\ ToSet(q) = ToSet(s) \cup {h.brk}
                  /\ g \in Heaps /\ SameBlocks(g, e) /\ SameBounds(g, e)
    BY <2>2, <2>6, <2>7, <2>11, <2>12, PushLinked
  <2>14. Tiles(g, ToSet(q) \cup U)
    <3>1. ToSet(q) \cup U = (ToSet(s) \cup U) \cup {h.brk}
      BY <2>13
    <3>2. \A a \in (ToSet(s) \cup U) \cup {h.brk} : g.hdr[a].size = e.hdr[a].size
      BY <1>0, <2>2, <2>13 DEF SameBlocks
    <3>3. Tiles(g, (ToSet(s) \cup U) \cup {h.brk})
      BY <2>11, <2>13, <3>2, TilesKept DEF SameBounds
    <3> QED BY <3>1, <3>3
  <2>15. \A a \in ToSet(s) \cup U : /\ g.hdr[a].magic = h.hdr[a].magic /\ g.hdr[a].size = h.hdr[a].size
                                    /\ g.hdr[a].prev_phys = h.hdr[a].prev_phys
    BY <1>0, <2>9, <2>13 DEF SameBlocks
  <2>16. g.hdr[h.brk].magic = "FREE" /\ g.hdr[h.brk].prev_phys = NULL
    BY <2>2, <2>3, <2>7, <2>13 DEF SameBlocks
  <2>17. Marked(g, ToSet(q), U)
    <3>1. Marked(h, ToSet(s), U)
      BY DEF Good
    <3> QED BY <2>11, <2>13, <2>15, <2>16, <3>1 DEF Marked
  <2>19. Good(g, q, U)
    BY <2>13, <2>14, <2>17 DEF Good
  <2>20. KeepsHeld(g, h, U) /\ g.used_bytes = h.used_bytes
    BY <2>7, <2>13, <2>15 DEF KeepsHeld, SameBounds
  <2> QED BY <2>19, <2>20
<1> QED BY <1>3, <1>4

\* The heap while block b is on no list: neither listed nor held.
Out(h, s, U, b) ==
    /\ h \in Heaps /\ Linked(h, s)
    /\ b \notin ToSet(s) \cup U
    /\ Tiles(h, ToSet(s) \cup U \cup {b}) /\ Marked(h, ToSet(s), U)

LEMMA OutFacts ==
    ASSUME NEW h, NEW s, NEW U, NEW b, Out(h, s, U, b)
    PROVE  /\ h \in Heaps /\ Linked(h, s) /\ b \notin ToSet(s) \cup U
           /\ Tiles(h, ToSet(s) \cup U \cup {b}) /\ Marked(h, ToSet(s), U)
           /\ ToSet(s) \cup U \cup {b} \subseteq Addr
           /\ b \in Addr /\ ToSet(s) \subseteq Addr /\ U \subseteq Addr
  BY DEF Out, Tiles

LEMMA GoodFacts ==
    ASSUME NEW h, NEW s, NEW U, Good(h, s, U)
    PROVE  /\ h \in Heaps /\ Linked(h, s)
           /\ Tiles(h, ToSet(s) \cup U) /\ Marked(h, ToSet(s), U)
           /\ ToSet(s) \cup U \subseteq Addr /\ ToSet(s) \subseteq Addr /\ U \subseteq Addr
  BY DEF Good, Tiles

\* free_list_remove takes a block from the list.
LEMMA RemoveOut ==
    ASSUME NEW h, NEW s, NEW U, Good(h, s, U), NEW b \in ToSet(s),
           NEW g, g = free_list_remove(h, b)
    PROVE  /\ \E q : Out(g, q, U, b)
           /\ SameBlocks(g, h) /\ SameBounds(g, h)
<1>0. /\ h \in Heaps /\ Linked(h, s) /\ Tiles(h, ToSet(s) \cup U) /\ Marked(h, ToSet(s), U)
      /\ ToSet(s) \cup U \subseteq Addr
  BY GoodFacts
<1>1. PICK q : /\ Linked(g, q) /\ ToSet(q) = ToSet(s) \ {b}
               /\ g \in Heaps /\ SameBlocks(g, h) /\ SameBounds(g, h)
  BY <1>0, RemoveLinked
<1>2. ToSet(q) \cup U \cup {b} = ToSet(s) \cup U /\ b \notin ToSet(q) \cup U
  BY <1>0, <1>1 DEF Marked
<1>3. \A a \in ToSet(s) \cup U : /\ g.hdr[a].magic = h.hdr[a].magic /\ g.hdr[a].size = h.hdr[a].size
                                 /\ g.hdr[a].prev_phys = h.hdr[a].prev_phys
  BY <1>0, <1>1 DEF SameBlocks
<1>4. Tiles(g, ToSet(s) \cup U)
  BY <1>0, <1>1, <1>3, TilesKept DEF SameBounds
<1>5. Marked(g, ToSet(q), U)
  BY <1>0, <1>1, <1>3 DEF Marked
<1>6. Out(g, q, U, b)
  BY <1>1, <1>2, <1>4, <1>5 DEF Out
<1> QED BY <1>1, <1>6

\* maybe_split cuts the rest off a block that is on no list.
LEMMA SplitOut ==
    ASSUME NEW h, NEW s, NEW U, NEW b, Out(h, s, U, b),
           NEW size \in Nat, size <= h.hdr[b].size, NEW g, g = maybe_split(h, b, size)
    PROVE  /\ \E q : Out(g, q, U, b)
           /\ KeepsHeld(g, h, U) /\ g.used_bytes = h.used_bytes
           /\ size <= g.hdr[b].size
<1>0. /\ h \in Heaps /\ Linked(h, s) /\ b \notin ToSet(s) \cup U
      /\ Tiles(h, ToSet(s) \cup U \cup {b}) /\ Marked(h, ToSet(s), U)
      /\ ToSet(s) \cup U \cup {b} \subseteq Addr /\ b \in Addr /\ ToSet(s) \subseteq Addr /\ U \subseteq Addr
  BY OutFacts
<1>1. /\ h.hdr[b].size \in Nat /\ HDR \in Nat \ {0} /\ b \in Nat /\ End(h, b) = b + HDR + h.hdr[b].size
      /\ End(h, b) \in Nat
  BY <1>0, EndIs
<1>2. CASE h.hdr[b].size < size + MIN_BLOCK
  <2>1. g = h
    BY <1>2 DEF maybe_split
  <2> QED BY <2>1 DEF KeepsHeld
<1>3. CASE ~ (h.hdr[b].size < size + MIN_BLOCK)
  <2>1. PICK x \in Nat : x = h.hdr[b].size - size - HDR
    BY <1>1, <1>3 DEF MIN_BLOCK
  <2>2. PICK r \in Nat : r = b + HDR + size
    BY <1>1
  <2>3. r < End(h, b) /\ r + HDR + x = End(h, b)
    BY <1>1, <2>1, <2>2, <1>3 DEF MIN_BLOCK
  <2>4. End(h, b) <= h.brk /\ h.brk \in Nat
    <3>1. End(h, b) = h.brk \/ End(h, b) \in ToSet(s) \cup U \cup {b}
      BY <1>0 DEF Tiles
    <3>2. h.brk \in Nat
      BY <1>0, BreakIs
    <3>3. \A a \in ToSet(s) \cup U \cup {b} : a < h.brk
      BY <1>0 DEF Tiles
    <3> QED BY <1>1, <3>1, <3>2, <3>3
  <2>5. r \in Addr
    <3>1. r < h.brk
      BY <1>1, <2>2, <2>3, <2>4
    <3> QED BY <1>0, <3>1, BreakIs
  <2>6. PICK blk : blk = NewBlock(x, b)
    OBVIOUS
  <2>7. blk \in Headers /\ blk.magic = "FREE" /\ blk.size = x /\ blk.prev_phys = b
    <3>1. b \in Where
      BY <1>0 DEF Where
    <3> QED BY <2>6, <3>1, NewBlockIs
  <2>8. PICK v : v = Headed(h, r, blk)
    OBVIOUS
  <2>9. PICK w : w = Resized(v, b, size)
    OBVIOUS
  <2>10. g = Push(w, r)
    <3>1. g = Push([h EXCEPT !.hdr[r] = blk, !.hdr[b].size = size], r)
      BY <1>3, <2>1, <2>2, <2>6 DEF maybe_split, NewBlock
    <3>2. [h EXCEPT !.hdr[r] = blk, !.hdr[b].size = size] = w
      BY <2>8, <2>9 DEF Headed, Resized
    <3> QED BY <3>1, <3>2
  <2>11. /\ v \in Heaps /\ v.free_list = h.free_list /\ v.brk = h.brk /\ v.used_bytes = h.used_bytes
         /\ \A a \in Addr : v.hdr[a] = IF a = r THEN blk ELSE h.hdr[a]
    BY <1>0, <2>5, <2>7, <2>8, SetHeaded
  <2>12. /\ w \in Heaps /\ w.free_list = v.free_list /\ w.brk = v.brk /\ w.used_bytes = v.used_bytes
         /\ \A a \in Addr : a # b => w.hdr[a] = v.hdr[a]
         /\ w.hdr[b].size = size
    <3>1. v \in Heaps /\ b \in Addr
      BY <1>0, <2>11
    <3> QED BY <2>9, <3>1, SetResized
  <2>13. r # b
    BY <1>1, <2>2
  <2>14. End(w, b) = r /\ End(w, r) = End(h, b)
    <3>1. w.hdr[b].size = size /\ w.hdr[r].size = x
      BY <2>5, <2>7, <2>11, <2>12, <2>13
    <3> QED BY <2>2, <2>3, <3>1 DEF End
  <2>15. \A a \in Addr : a # b /\ a # r => w.hdr[a] = h.hdr[a]
    BY <2>11, <2>12
  <2>16. r \notin ToSet(s) \cup U \cup {b}
    <3>1. ASSUME NEW d \in ToSet(s) \cup U \cup {b}, d = r PROVE FALSE
      <4>1. b < r
        BY <1>1, <2>2
      <4>2. End(h, b) <= r
        BY <1>0, <3>1, <4>1 DEF Tiles
      <4> QED BY <1>1, <2>2, <2>3, <4>2
    <3> QED BY <3>1
  <2>17. \A a \in ToSet(s) \cup U : w.hdr[a] = h.hdr[a]
    BY <1>0, <2>15, <2>16
  <2>18. Tiles(w, (ToSet(s) \cup U \cup {b}) \cup {r})
    <3>1. \A a \in (ToSet(s) \cup U \cup {b}) \ {b} : w.hdr[a].size = h.hdr[a].size
      BY <2>17
    <3>2. b \in ToSet(s) \cup U \cup {b} /\ w.brk = h.brk
      BY <2>11, <2>12
    <3> QED BY <1>0, <2>5, <2>12, <2>14, <3>1, <3>2, TilesSplit
  <2>19. Linked(w, s)
    BY <1>0, <2>11, <2>12, <2>17, LinkedKept
  <2>20. PICK q : /\ Linked(g, q) /\ ToSet(q) = ToSet(s) \cup {r}
                  /\ g \in Heaps /\ SameBlocks(g, w) /\ SameBounds(g, w)
    BY <2>5, <2>10, <2>12, <2>16, <2>19, PushLinked
  <2>21. \A a \in Addr : /\ g.hdr[a].magic = w.hdr[a].magic /\ g.hdr[a].size = w.hdr[a].size
                         /\ g.hdr[a].prev_phys = w.hdr[a].prev_phys
    BY <2>20 DEF SameBlocks
  <2>22. ToSet(q) \cup U \cup {b} = (ToSet(s) \cup U \cup {b}) \cup {r}
    BY <2>20
  <2>23. Tiles(g, ToSet(q) \cup U \cup {b})
    <3>1. \A a \in (ToSet(s) \cup U \cup {b}) \cup {r} : g.hdr[a].size = w.hdr[a].size
      BY <1>0, <2>5, <2>21
    <3>2. Tiles(g, (ToSet(s) \cup U \cup {b}) \cup {r})
      BY <2>18, <2>20, <3>1, TilesKept DEF SameBounds
    <3> QED BY <2>22, <3>2
  <2>24. \A a \in ToSet(s) \cup U : /\ g.hdr[a].magic = h.hdr[a].magic /\ g.hdr[a].size = h.hdr[a].size
                                    /\ g.hdr[a].prev_phys = h.hdr[a].prev_phys
    BY <1>0, <2>17, <2>21
  <2>25. g.hdr[r].magic = "FREE" /\ g.hdr[r].prev_phys = b
    <3>1. w.hdr[r] = blk
      BY <2>5, <2>11, <2>12, <2>13
    <3> QED BY <2>5, <2>7, <2>21, <3>1
  <2>26. Marked(g, ToSet(q), U)
    BY <1>0, <2>16, <2>20, <2>24, <2>25 DEF Marked
  <2>27. Out(g, q, U, b)
    BY <1>0, <2>13, <2>20, <2>23, <2>26 DEF Out
  <2>28. KeepsHeld(g, h, U) /\ g.used_bytes = h.used_bytes
    BY <2>11, <2>12, <2>20, <2>24 DEF KeepsHeld, SameBounds
  <2>29. size <= g.hdr[b].size
    BY <1>0, <2>12, <2>21
  <2> QED BY <2>27, <2>28, <2>29
<1> QED BY <1>2, <1>3

\* A block that is on no list is marked as held.
LEMMA MarkUsed ==
    ASSUME NEW h, NEW s, NEW U, NEW b, Out(h, s, U, b),
           NEW z \in Int, NEW g, g = Remarked(h, b, "USED", z)
    PROVE  /\ Good(g, s, U \cup {b}) /\ KeepsHeld(g, h, U \cup {b}) /\ g.used_bytes = z
<1>0. /\ h \in Heaps /\ Linked(h, s) /\ b \notin ToSet(s) \cup U
      /\ Tiles(h, ToSet(s) \cup U \cup {b}) /\ Marked(h, ToSet(s), U)
      /\ ToSet(s) \cup U \cup {b} \subseteq Addr /\ b \in Addr /\ ToSet(s) \subseteq Addr /\ U \subseteq Addr
  BY OutFacts
<1>1. /\ g \in Heaps /\ g.free_list = h.free_list /\ g.brk = h.brk /\ g.used_bytes = z
      /\ \A a \in Addr : a # b => g.hdr[a] = h.hdr[a]
      /\ g.hdr[b].size = h.hdr[b].size /\ g.hdr[b].magic = "USED"
      /\ g.hdr[b].prev_phys = h.hdr[b].prev_phys
  <2>1. PICK m \in {"junk", "FREE", "USED"} : m = "USED"
    OBVIOUS
  <2>2. g = Remarked(h, b, m, z)
    BY <2>1
  <2> QED BY <1>0, <2>1, <2>2, SetRemarked
<1>2. \A a \in ToSet(s) \cup U : g.hdr[a] = h.hdr[a]
  BY <1>0, <1>1
<1>3. \A a \in ToSet(s) \cup U \cup {b} : g.hdr[a].size = h.hdr[a].size
  BY <1>1, <1>2
<1>4. Linked(g, s)
  BY <1>0, <1>1, <1>2, LinkedKept
<1>5. Tiles(g, ToSet(s) \cup U \cup {b})
  BY <1>0, <1>1, <1>3, TilesKept
<1>6. Marked(g, ToSet(s), U \cup {b})
  BY <1>0, <1>1, <1>2 DEF Marked
<1>7. ToSet(s) \cup (U \cup {b}) = ToSet(s) \cup U \cup {b}
  OBVIOUS
<1>8. Good(g, s, U \cup {b})
  BY <1>1, <1>4, <1>5, <1>6, <1>7 DEF Good
<1> QED BY <1>1, <1>3, <1>8 DEF KeepsHeld

\* What taking block b out of heap h does to its header and to used_bytes.
Takes(g, h, b) ==
    /\ g.hdr[b].size \in Nat /\ g.used_bytes = h.used_bytes + g.hdr[b].size

Fits(h, b, size) == size <= h.hdr[b].size

\* kmalloc takes a listed block that is large enough.
LEMMA TakenGood ==
    ASSUME NEW h, NEW s, NEW U, Good(h, s, U), NEW b \in ToSet(s),
           NEW size \in Nat, Fits(h, b, size), NEW W, W = U \cup {b},
           NEW g, g = Taken(h, b, size)
    PROVE  /\ \E q : Good(g, q, W)
           /\ KeepsHeld(g, h, U) /\ Takes(g, h, b) /\ Fits(g, b, size)
           /\ b \notin U /\ b \in Addr
<1>0. h \in Heaps /\ ToSet(s) \cup U \subseteq Addr /\ b \in Addr /\ U \subseteq Addr
  BY GoodFacts
<1>1. PICK e : e = free_list_remove(h, b)
  OBVIOUS
<1>2. /\ \E q : Out(e, q, U, b)
      /\ SameBlocks(e, h) /\ SameBounds(e, h)
  BY <1>1, RemoveOut
<1>3. PICK q : Out(e, q, U, b)
  BY <1>2
<1>4. /\ \A a \in Addr : e.hdr[a].size = h.hdr[a].size
      /\ e.used_bytes = h.used_bytes
  BY <1>2 DEF SameBlocks, SameBounds
<1>5. PICK v : v = maybe_split(e, b, size)
  OBVIOUS
<1>6. size <= e.hdr[b].size
  BY <1>0, <1>4 DEF Fits
<1>7. /\ \E y : Out(v, y, U, b)
      /\ KeepsHeld(v, e, U) /\ v.used_bytes = e.used_bytes
      /\ size <= v.hdr[b].size
  BY <1>3, <1>5, <1>6, SplitOut
<1>8. PICK y : Out(v, y, U, b)
  BY <1>7
<1>9. v \in Heaps /\ b \notin U
  BY <1>8, OutFacts
<1>10. PICK z \in Int : z = v.used_bytes + v.hdr[b].size
  <2>1. v.hdr[b].size \in Nat /\ v.used_bytes \in Int
    BY <1>0, <1>9, EndIs, HeapFields
  <2> QED BY <2>1
<1>11. g = Remarked(v, b, "USED", z)
  BY <1>1, <1>5, <1>10 DEF Taken, Remarked
<1>12. /\ Good(g, y, U \cup {b}) /\ KeepsHeld(g, v, U \cup {b}) /\ g.used_bytes = z
  BY <1>8, <1>11, MarkUsed
<1>13. g.hdr[b].size = v.hdr[b].size
  BY <1>12 DEF KeepsHeld
<1>14. g.hdr[b].size \in Nat
  BY <1>0, <1>9, <1>13, EndIs
<1>15. KeepsHeld(g, h, U)
  BY <1>0, <1>4, <1>7, <1>12 DEF KeepsHeld
<1>16. g.used_bytes = h.used_bytes + g.hdr[b].size
  BY <1>4, <1>7, <1>10, <1>12, <1>13
<1>17. Fits(g, b, size)
  BY <1>7, <1>13 DEF Fits
<1> QED BY <1>0, <1>9, <1>12, <1>14, <1>15, <1>16, <1>17 DEF Takes

\* What a caller writes into a block it holds touches no other header.
LEMMA WrittenGood ==
    ASSUME NEW h, NEW s, NEW U, Good(h, s, U), NEW b \in U, NEW z \in Nat, z <= h.hdr[b].size,
           NEW g, g = Written(h, b, z)
    PROVE  Good(g, s, U) /\ KeepsHeld(g, h, U) /\ g.used_bytes = h.used_bytes
<1>0. /\ h \in Heaps /\ Linked(h, s) /\ Tiles(h, ToSet(s) \cup U) /\ Marked(h, ToSet(s), U)
      /\ ToSet(s) \cup U \subseteq Addr /\ b \in Addr
  BY GoodFacts
<1>1. h.hdr \in [Addr -> Headers]
  BY <1>0, HeapFields
<1>2. PICK W : W = (b + HDR)..(b + HDR + z - 1)
  OBVIOUS
<1>3. PICK f : f = [a \in Addr |-> IF a \in W THEN JUNK ELSE h.hdr[a]]
  OBVIOUS
<1>4. JUNK \in Headers
  <2>1. NULL \in Where
    BY DEF Where
  <2> QED BY <2>1 DEF JUNK, Headers
<1>5. f \in [Addr -> Headers]
  BY <1>1, <1>3, <1>4
<1>6. g = [h EXCEPT !.hdr = f]
  BY <1>2, <1>3 DEF Written
<1>7. /\ g \in Heaps /\ g.hdr = f /\ g.free_list = h.free_list /\ g.brk = h.brk
      /\ g.used_bytes = h.used_bytes
  BY <1>0, <1>5, <1>6 DEF Heaps
<1>8. ASSUME NEW a \in ToSet(s) \cup U PROVE a \notin W
  <2>1. /\ HDR \in Nat \ {0} /\ b \in Nat /\ h.hdr[b].size \in Nat /\ a \in Nat
        /\ End(h, b) = b + HDR + h.hdr[b].size
    BY <1>0, EndIs, HeapSizes
  <2>2. b < a => End(h, b) <= a
    BY <1>0, <1>8 DEF Tiles
  <2> QED BY <1>2, <2>1, <2>2
<1>9. \A a \in ToSet(s) \cup U : g.hdr[a] = h.hdr[a]
  BY <1>0, <1>3, <1>7, <1>8
<1>10. Linked(g, s)
  BY <1>0, <1>7, <1>9, LinkedKept
<1>11. Tiles(g, ToSet(s) \cup U)
  BY <1>0, <1>7, <1>9, TilesKept
<1>12. Marked(g, ToSet(s), U)
  BY <1>0, <1>9 DEF Marked
<1>13. Good(g, s, U)
  BY <1>7, <1>10, <1>11, <1>12 DEF Good
<1> QED BY <1>7, <1>9, <1>13 DEF KeepsHeld

\* kfree first marks the block.
LEMMA MarkFree ==
    ASSUME NEW h, NEW s, NEW U, Good(h, s, U), NEW b \in U, NEW z \in Int, NEW V, V = U \ {b},
           NEW g, g = Remarked(h, b, "FREE", z)
    PROVE  /\ Out(g, s, V, b)
           /\ KeepsHeld(g, h, U) /\ g.used_bytes = z /\ g.hdr[b].magic = "FREE"
<1>0. /\ h \in Heaps /\ Linked(h, s) /\ Tiles(h, ToSet(s) \cup U) /\ Marked(h, ToSet(s), U)
      /\ ToSet(s) \cup U \subseteq Addr /\ b \in Addr
  BY GoodFacts
<1>1. /\ g \in Heaps /\ g.free_list = h.free_list /\ g.brk = h.brk /\ g.used_bytes = z
      /\ \A a \in Addr : a # b => g.hdr[a] = h.hdr[a]
      /\ g.hdr[b].size = h.hdr[b].size /\ g.hdr[b].magic = "FREE"
      /\ g.hdr[b].prev_phys = h.hdr[b].prev_phys
  <2>1. PICK m \in {"junk", "FREE", "USED"} : m = "FREE"
    OBVIOUS
  <2>2. g = Remarked(h, b, m, z)
    BY <2>1
  <2> QED BY <1>0, <2>1, <2>2, SetRemarked
<1>2. b \notin ToSet(s) \cup V
  BY <1>0 DEF Marked
<1>3. \A a \in ToSet(s) \cup V : g.hdr[a] = h.hdr[a]
  BY <1>0, <1>1, <1>2
<1>4. \A a \in ToSet(s) \cup U : g.hdr[a].size = h.hdr[a].size
  BY <1>1, <1>3
<1>5. Linked(g, s)
  BY <1>0, <1>1, <1>3, LinkedKept
<1>6. Tiles(g, ToSet(s) \cup U)
  BY <1>0, <1>1, <1>4, TilesKept
<1>7. Marked(g, ToSet(s), V)
  BY <1>0, <1>3 DEF Marked
<1>8. ToSet(s) \cup V \cup {b} = ToSet(s) \cup U
  OBVIOUS
<1>9. Out(g, s, V, b)
  BY <1>1, <1>2, <1>5, <1>6, <1>7, <1>8 DEF Out
<1> QED BY <1>1, <1>4, <1>9 DEF KeepsHeld

\* JoinNext joins a block that is on no list with a free one behind it.
LEMMA JoinOut ==
    ASSUME NEW h, NEW s, NEW U, NEW b, Out(h, s, U, b),
           NEW g, g = JoinNext(h, b)
    PROVE  /\ \E q : Out(g, q, U, b)
           /\ KeepsHeld(g, h, U) /\ g.used_bytes = h.used_bytes
           /\ g.hdr[b].magic = h.hdr[b].magic
<1>0. /\ h \in Heaps /\ Linked(h, s) /\ b \notin ToSet(s) \cup U
      /\ Tiles(h, ToSet(s) \cup U \cup {b}) /\ Marked(h, ToSet(s), U)
      /\ ToSet(s) \cup U \cup {b} \subseteq Addr /\ b \in Addr /\ ToSet(s) \subseteq Addr /\ U \subseteq Addr
  BY OutFacts
<1>1. PICK r \in Nat : r = b + HDR + h.hdr[b].size /\ r = End(h, b) /\ b < r /\ b \in Nat /\ HDR \in Nat
                       /\ h.hdr[b].size \in Nat
  BY <1>0, EndIs
<1>2. r \in ToSet(s) \cup U \cup {b} \/ r = h.brk
  BY <1>0, <1>1 DEF Tiles
<1>3. h.brk \in Nat /\ \A x \in ToSet(s) \cup U \cup {b} : x < h.brk
  BY <1>0, BreakIs DEF Tiles
<1>4. CASE ~ (r < h.brk /\ h.hdr[r].magic = "FREE")
  <2>1. g = h
    BY <1>1, <1>4 DEF JoinNext
  <2> QED BY <2>1 DEF KeepsHeld
<1>5. CASE r < h.brk /\ h.hdr[r].magic = "FREE"
  <2>1. r \in ToSet(s)
    <3>1. r # b /\ r # h.brk
      BY <1>1, <1>3, <1>5
    <3>2. r \notin U
      BY <1>0, <1>5 DEF Marked
    <3> QED BY <1>2, <3>1, <3>2
  <2>2. r \in Addr /\ h.hdr[r].size \in Nat /\ End(h, r) = r + HDR + h.hdr[r].size
    BY <1>0, <2>1, EndIs
  <2>3. PICK e : e = free_list_remove(h, r)
    OBVIOUS
  <2>4. PICK q : /\ Linked(e, q) /\ ToSet(q) = ToSet(s) \ {r}
                 /\ e \in Heaps /\ SameBlocks(e, h) /\ SameBounds(e, h)
    BY <1>0, <2>1, <2>3, RemoveLinked
  <2>5. \A a \in Addr : /\ e.hdr[a].magic = h.hdr[a].magic /\ e.hdr[a].size = h.hdr[a].size
                        /\ e.hdr[a].prev_phys = h.hdr[a].prev_phys
    BY <2>4 DEF SameBlocks
  <2>6. PICK y \in Nat : y = e.hdr[b].size + HDR + h.hdr[r].size
    BY <1>0, <1>1, <2>2, <2>5
  <2>7. g = Resized(e, b, y)
    BY <1>1, <1>5, <2>3, <2>6 DEF JoinNext, Resized
  <2>8. /\ g \in Heaps /\ g.free_list = e.free_list /\ g.brk = e.brk /\ g.used_bytes = e.used_bytes
        /\ \A a \in Addr : a # b => g.hdr[a] = e.hdr[a]
        /\ g.hdr[b].size = y /\ g.hdr[b].magic = e.hdr[b].magic
        /\ g.hdr[b].prev_phys = e.hdr[b].prev_phys
    <3>1. e \in Heaps /\ b \in Addr
      BY <1>0, <2>4
    <3> QED BY <2>7, <3>1, SetResized
  <2>9. \A a \in Addr : /\ g.hdr[a].magic = h.hdr[a].magic
                        /\ a # b => g.hdr[a].size = h.hdr[a].size
    BY <1>0, <2>5, <2>8
  <2>10. Linked(g, q)
    <3>1. \A a \in ToSet(q) : g.hdr[a] = e.hdr[a]
      BY <1>0, <2>4, <2>8
    <3> QED BY <2>4, <2>8, <3>1, LinkedKept
  <2>11. End(g, b) = End(h, r)
    <3>1. g.hdr[b].size = h.hdr[b].size + HDR + h.hdr[r].size
      BY <1>0, <2>5, <2>6, <2>8
    <3> QED BY <1>1, <2>2, <3>1 DEF End
  <2>12. Tiles(g, (ToSet(s) \cup U \cup {b}) \ {r})
    <3>1. g.brk = h.brk
      BY <2>4, <2>8 DEF SameBounds
    <3>2. \A a \in (ToSet(s) \cup U \cup {b}) \ {b} : g.hdr[a].size = h.hdr[a].size
      BY <1>0, <2>9
    <3>3. b \in ToSet(s) \cup U \cup {b} /\ r \in ToSet(s) \cup U \cup {b} /\ End(h, b) = r
      BY <1>1, <2>1
    <3> QED BY <1>0, <2>8, <2>11, <3>1, <3>2, <3>3, TilesJoin
  <2>13. (ToSet(s) \cup U \cup {b}) \ {r} = ToSet(q) \cup U \cup {b}
    <3>1. r \notin U /\ r # b
      BY <1>0, <1>1, <2>1 DEF Marked
    <3> QED BY <2>4, <3>1
  <2>14. Marked(g, ToSet(q), U)
    BY <1>0, <2>4, <2>9 DEF Marked
  <2>15. Out(g, q, U, b)
    BY <1>0, <2>4, <2>8, <2>10, <2>12, <2>13, <2>14 DEF Out
  <2>16. KeepsHeld(g, h, U)
    BY <1>0, <2>9 DEF KeepsHeld
  <2>17. g.used_bytes = h.used_bytes /\ g.hdr[b].magic = h.hdr[b].magic
    BY <1>0, <2>4, <2>8, <2>9 DEF SameBounds
  <2> QED BY <2>15, <2>16, <2>17
<1> QED BY <1>4, <1>5

\* The block before is joined if it is the one that lies there.
LEMMA PrevGood ==
    ASSUME NEW h, NEW s, NEW U, NEW b, Out(h, s, U, b), h.hdr[b].magic = "FREE",
           JoinsNeighbour(h, b), NEW g, g = JoinPrev(h, b)
    PROVE  /\ \E q : Good(g, q, U)
           /\ KeepsHeld(g, h, U) /\ g.used_bytes = h.used_bytes
<1>0. /\ h \in Heaps /\ Linked(h, s) /\ b \notin ToSet(s) \cup U
      /\ Tiles(h, ToSet(s) \cup U \cup {b}) /\ Marked(h, ToSet(s), U)
      /\ ToSet(s) \cup U \cup {b} \subseteq Addr /\ b \in Addr /\ ToSet(s) \subseteq Addr /\ U \subseteq Addr
  BY OutFacts
<1>1. PICK x : x = h.hdr[b].prev_phys
  OBVIOUS
<1>2. CASE ~ (x # NULL /\ h.hdr[x].magic = "FREE")
  <2>1. g = Push(h, b)
    BY <1>1, <1>2 DEF JoinPrev
  <2>2. PICK q : /\ Linked(g, q) /\ ToSet(q) = ToSet(s) \cup {b}
                 /\ g \in Heaps /\ SameBlocks(g, h) /\ SameBounds(g, h)
    BY <1>0, <2>1, PushLinked
  <2>3. \A a \in ToSet(s) \cup U \cup {b} : g.hdr[a].magic = h.hdr[a].magic /\ g.hdr[a].size = h.hdr[a].size
    BY <1>0, <2>2 DEF SameBlocks
  <2>4. ToSet(q) \cup U = ToSet(s) \cup U \cup {b}
    BY <2>2
  <2>5. Tiles(g, ToSet(s) \cup U \cup {b})
    BY <1>0, <2>2, <2>3, TilesKept DEF SameBounds
  <2>6. Marked(g, ToSet(q), U)
    BY <1>0, <2>2, <2>3 DEF Marked
  <2>7. Good(g, q, U)
    BY <2>2, <2>4, <2>5, <2>6 DEF Good
  <2> QED BY <2>2, <2>3, <2>7 DEF KeepsHeld, SameBounds
<1>3. CASE x # NULL /\ h.hdr[x].magic = "FREE"
  <2>1. x \in ToSet(s) /\ End(h, x) = b
    <3>1. FreeSeq(h) = s
      BY <1>0, FreeSeqIs
    <3> QED BY <1>1, <1>3, <3>1 DEF JoinsNeighbour, End
  <2>2. /\ x \in Addr /\ x \notin U /\ x # b
        /\ h.hdr[x].size \in Nat /\ h.hdr[b].size \in Nat /\ HDR \in Nat
        /\ End(h, x) = x + HDR + h.hdr[x].size /\ End(h, b) = b + HDR + h.hdr[b].size
    BY <1>0, <2>1, EndIs DEF Marked
  <2>3. PICK e : e = free_list_remove(h, x)
    OBVIOUS
  <2>4. PICK r : /\ Linked(e, r) /\ ToSet(r) = ToSet(s) \ {x}
                 /\ e \in Heaps /\ SameBlocks(e, h) /\ SameBounds(e, h)
    BY <1>0, <2>1, <2>3, RemoveLinked
  <2>5. \A a \in Addr : e.hdr[a].magic = h.hdr[a].magic /\ e.hdr[a].size = h.hdr[a].size
    BY <2>4 DEF SameBlocks
  <2>6. PICK y \in Nat : y = e.hdr[x].size + HDR + h.hdr[b].size
    BY <2>2, <2>5
  <2>7. PICK w : w = Resized(e, x, y)
    OBVIOUS
  <2>8. g = Push(w, x)
    BY <1>1, <1>3, <2>3, <2>6, <2>7 DEF JoinPrev, Resized
  <2>9. /\ w \in Heaps /\ w.free_list = e.free_list /\ w.brk = e.brk /\ w.used_bytes = e.used_bytes
        /\ \A a \in Addr : a # x => w.hdr[a] = e.hdr[a]
        /\ w.hdr[x].size = y /\ w.hdr[x].magic = e.hdr[x].magic
    <3>1. e \in Heaps /\ x \in Addr
      BY <2>2, <2>4
    <3> QED BY <2>7, <3>1, SetResized
  <2>10. \A a \in Addr : w.hdr[a].magic = h.hdr[a].magic /\ (a # x => w.hdr[a].size = h.hdr[a].size)
    BY <2>2, <2>5, <2>9
  <2>11. Linked(w, r) /\ x \notin ToSet(r)
    <3>1. \A a \in ToSet(r) : w.hdr[a] = e.hdr[a]
      BY <1>0, <2>4, <2>9
    <3> QED BY <2>4, <2>9, <3>1, LinkedKept
  <2>12. End(w, x) = End(h, b)
    <3>1. w.hdr[x].size = h.hdr[x].size + HDR + h.hdr[b].size
      BY <2>2, <2>5, <2>6, <2>9
    <3> QED BY <1>0, <2>1, <2>2, <3>1, HeapSizes DEF End
  <2>13. Tiles(w, (ToSet(s) \cup U \cup {b}) \ {b})
    <3>1. w.brk = h.brk
      BY <2>4, <2>9 DEF SameBounds
    <3>2. \A a \in (ToSet(s) \cup U \cup {b}) \ {x} : w.hdr[a].size = h.hdr[a].size
      BY <1>0, <2>10
    <3>3. x \in ToSet(s) \cup U \cup {b} /\ b \in ToSet(s) \cup U \cup {b}
      BY <2>1
    <3> QED BY <1>0, <2>1, <2>9, <2>12, <3>1, <3>2, <3>3, TilesJoin
  <2>14. PICK q : /\ Linked(g, q) /\ ToSet(q) = ToSet(r) \cup {x}
                  /\ g \in Heaps /\ SameBlocks(g, w) /\ SameBounds(g, w)
    BY <2>2, <2>8, <2>9, <2>11, PushLinked
  <2>15. \A a \in Addr : g.hdr[a].magic = w.hdr[a].magic /\ g.hdr[a].size = w.hdr[a].size
    BY <2>14 DEF SameBlocks
  <2>16. ToSet(q) = ToSet(s) /\ (ToSet(s) \cup U \cup {b}) \ {b} = ToSet(s) \cup U
    BY <1>0, <2>1, <2>4, <2>14
  <2>17. Tiles(g, ToSet(q) \cup U)
    <3>1. Tiles(w, ToSet(s) \cup U)
      BY <2>13, <2>16
    <3>2. \A a \in ToSet(s) \cup U : g.hdr[a].size = w.hdr[a].size
      BY <1>0, <2>15
    <3>3. Tiles(g, ToSet(s) \cup U)
      BY <2>14, <3>1, <3>2, TilesKept DEF SameBounds
    <3> QED BY <2>16, <3>3
  <2>18. Marked(g, ToSet(q), U)
    BY <1>0, <2>10, <2>15, <2>16 DEF Marked
  <2>19. Good(g, q, U)
    BY <2>14, <2>17, <2>18 DEF Good
  <2>20. KeepsHeld(g, h, U)
    BY <1>0, <2>2, <2>10, <2>15 DEF KeepsHeld
  <2>21. g.used_bytes = h.used_bytes
    BY <2>4, <2>9, <2>14 DEF SameBounds
  <2> QED BY <2>19, <2>20, <2>21
<1> QED BY <1>2, <1>3

\* kfree, if coalesce joins what lies side by side.
LEMMA FreedGood ==
    ASSUME NEW h, NEW s, NEW U, Good(h, s, U), NEW b \in U, NEW V, V = U \ {b}, NEW g, g = Freed(h, b),
           FreedRight(h, b)
    PROVE  /\ \E q : Good(g, q, V)
           /\ KeepsHeld(g, h, V) /\ g.used_bytes = h.used_bytes - h.hdr[b].size
<1>0. /\ h \in Heaps /\ Marked(h, ToSet(s), U) /\ b \in Addr
  BY GoodFacts
<1>1. PICK z \in Int : z = h.used_bytes - h.hdr[b].size
  <2>1. h.used_bytes \in Int /\ h.hdr[b].size \in Nat
    BY <1>0, HeapFields, EndIs
  <2> QED BY <2>1
<1>2. PICK e : e = Remarked(h, b, "FREE", z)
  OBVIOUS
<1>3. PICK v : v = JoinNext(e, b)
  OBVIOUS
<1>4. g = JoinPrev(v, b) /\ JoinsNeighbour(v, b)
  <2>1. h.hdr[b].magic = "USED"
    BY <1>0 DEF Marked
  <2>2. MarkedFree(h, b) = e
    BY <1>1, <1>2 DEF MarkedFree, Remarked
  <2> QED BY <1>3, <2>1, <2>2 DEF Freed, FreedRight, coalesce
<1>5. /\ Out(e, s, V, b)
      /\ KeepsHeld(e, h, U) /\ e.used_bytes = z /\ e.hdr[b].magic = "FREE"
  BY <1>0, <1>1, <1>2, MarkFree
<1>6. /\ \E q : Out(v, q, V, b)
      /\ KeepsHeld(v, e, V) /\ v.used_bytes = e.used_bytes
      /\ v.hdr[b].magic = e.hdr[b].magic
  BY <1>3, <1>5, JoinOut
<1>7. PICK q : Out(v, q, V, b)
  BY <1>6
<1>8. /\ \E y : Good(g, y, V)
      /\ KeepsHeld(g, v, V) /\ g.used_bytes = v.used_bytes
  BY <1>4, <1>5, <1>6, <1>7, PrevGood
<1>9. KeepsHeld(g, h, V)
  BY <1>5, <1>6, <1>8 DEF KeepsHeld
<1> QED BY <1>1, <1>5, <1>6, <1>8, <1>9

(***************************************************************************)
(* SizeSum, and what it is for the sequences that the calls make.          *)
(***************************************************************************)
IsSum(w, L, s) == w = [k \in 0..L |-> IF k = 0 THEN 0 ELSE w[k - 1] + s[k].size]

LEMMA SumExists ==
    ASSUME NEW s, NEW L \in Nat
    PROVE  \E w : IsSum(w, L, s)
<1> DEFINE S == {x \in Nat : \E w : IsSum(w, x, s)}
<1>1. 0 \in S
  <2> DEFINE w == [k \in 0..0 |-> 0]
  <2>1. w = [k \in 0..0 |-> IF k = 0 THEN 0 ELSE w[k - 1] + s[k].size]
    OBVIOUS
  <2>2. IsSum(w, 0, s)
    BY <2>1 DEF IsSum
  <2> QED BY <2>2
<1>2. ASSUME NEW m \in Nat, m \in S PROVE m + 1 \in S
  <2>1. PICK w : IsSum(w, m, s)
    BY <1>2
  <2>2. /\ w[0] = 0
        /\ \A k \in 0..m : k # 0 => w[k] = w[k - 1] + s[k].size
    BY <2>1 DEF IsSum
  <2>3. PICK v : v = [k \in 0..(m + 1) |-> IF k = m + 1 THEN w[m] + s[m + 1].size ELSE w[k]]
    OBVIOUS
  <2>4. \A k \in 0..(m + 1) : v[k] = IF k = 0 THEN 0 ELSE v[k - 1] + s[k].size
    <3> SUFFICES ASSUME NEW k \in 0..(m + 1)
                 PROVE  v[k] = IF k = 0 THEN 0 ELSE v[k - 1] + s[k].size
      OBVIOUS
    <3>1. CASE k = 0
      BY <2>2, <2>3, <3>1
    <3>2. CASE k = m + 1
      <4>1. k - 1 = m /\ m \in 0..(m + 1) /\ m # m + 1 /\ k # 0
        BY <3>2
      <4>2. v[k] = w[m] + s[m + 1].size /\ v[m] = w[m]
        BY <2>3, <3>2, <4>1
      <4> QED BY <3>2, <4>1, <4>2
    <3>3. CASE k # 0 /\ k # m + 1
      <4>1. k \in 0..m /\ k - 1 \in 0..m /\ k - 1 \in 0..(m + 1) /\ k - 1 # m + 1
        BY <3>3
      <4>2. v[k] = w[k] /\ v[k - 1] = w[k - 1]
        BY <2>3, <3>3, <4>1
      <4> QED BY <2>2, <3>3, <4>1, <4>2
    <3> QED BY <3>1, <3>2, <3>3
  <2>5. v = [k \in 0..(m + 1) |-> v[k]]
    BY <2>3
  <2>6. v = [k \in 0..(m + 1) |-> IF k = 0 THEN 0 ELSE v[k - 1] + s[k].size]
    BY <2>4, <2>5, Zenon
  <2>7. IsSum(v, m + 1, s)
    BY <2>6 DEF IsSum
  <2> QED BY <2>7
<1> HIDE DEF S
<1>3. Nat \subseteq S
  BY <1>1, <1>2, SetInduction
<1> QED BY <1>3 DEF S

LEMMA SumSteps ==
    ASSUME NEW s, NEW L \in Nat, NEW w, IsSum(w, L, s)
    PROVE  w[0] = 0 /\ \A k \in 1..L : w[k] = w[k - 1] + s[k].size
<1>1. /\ w[0] = 0
      /\ \A k \in 0..L : k # 0 => w[k] = w[k - 1] + s[k].size
  BY DEF IsSum
<1> QED BY <1>1

\* The blocks callers hold, as they know them.
Held == [blk : Addr, size : Nat]

\* w[k] is the sum of the first k sizes.
Sums(w, L, s) ==
    /\ w[0] = 0
    /\ \A k \in 0..L : w[k] \in Nat
    /\ \A k \in 1..L : w[k] = w[k - 1] + s[k].size /\ s[k].size \in Nat

LEMMA SumIs ==
    ASSUME NEW s \in Seq(Held)
    PROVE  \E w : Sums(w, Len(s), s) /\ SizeSum(s) = w[Len(s)]
<1>0. PICK L \in Nat : L = Len(s)
  OBVIOUS
<1>1. \A k \in 1..L : s[k] \in Held
  BY <1>0
<1>2. \A k \in 1..L : s[k].size \in Nat
  BY <1>1 DEF Held
<1>3. \E w : IsSum(w, L, s)
  BY <1>0, SumExists
<1>4. PICK w : IsSum(w, L, s) /\ SizeSum(s) = w[L]
  BY <1>0, <1>3, Zenon DEF SizeSum, IsSum
<1>5. w[0] = 0 /\ \A k \in 1..L : w[k] = w[k - 1] + s[k].size
  BY <1>4, SumSteps
<1> DEFINE S == {k \in Nat : k <= L => w[k] \in Nat}
<1>6. 0 \in S
  BY <1>5
<1>7. ASSUME NEW m \in Nat, m \in S PROVE m + 1 \in S
  <2> SUFFICES ASSUME m + 1 <= L PROVE w[m + 1] \in Nat
    OBVIOUS
  <2>1. m + 1 \in 1..L /\ (m + 1) - 1 = m /\ m <= L
    BY <1>0
  <2>2. w[m] \in Nat /\ s[m + 1].size \in Nat /\ w[m + 1] = w[m] + s[m + 1].size
    BY <1>2, <1>5, <1>7, <2>1
  <2> QED BY <2>2
<1> HIDE DEF S
<1>8. Nat \subseteq S
  BY <1>6, <1>7, SetInduction
<1>9. \A k \in 0..L : w[k] \in Nat
  BY <1>8 DEF S
<1>10. Sums(w, L, s)
  BY <1>2, <1>5, <1>9 DEF Sums
<1> QED BY <1>0, <1>4, <1>10

\* A block more.
LEMMA SumAppend ==
    ASSUME NEW s \in Seq(Held), NEW x \in Held, NEW q, q = Append(s, x)
    PROVE  SizeSum(q) = SizeSum(s) + x.size /\ SizeSum(s) \in Nat
<1>0. PICK L \in Nat : L = Len(s)
  OBVIOUS
<1>1. q \in Seq(Held) /\ Len(q) = L + 1 /\ q[L + 1] = x /\ \A k \in 1..L : q[k] = s[k]
  BY <1>0
<1>2. PICK w : /\ w[0] = 0 /\ SizeSum(s) = w[L]
               /\ \A k \in 0..L : w[k] \in Nat
               /\ \A k \in 1..L : w[k] = w[k - 1] + s[k].size
  BY <1>0, SumIs DEF Sums
<1>3. PICK v : /\ v[0] = 0 /\ SizeSum(q) = v[L + 1]
               /\ \A k \in 1..(L + 1) : v[k] = v[k - 1] + q[k].size
  <2>1. PICK v : Sums(v, Len(q), q) /\ SizeSum(q) = v[Len(q)]
    BY <1>1, SumIs
  <2> QED BY <1>1, <2>1 DEF Sums
<1> DEFINE S == {k \in Nat : k <= L => v[k] = w[k]}
<1>4. 0 \in S
  BY <1>2, <1>3
<1>5. ASSUME NEW m \in Nat, m \in S PROVE m + 1 \in S
  <2> SUFFICES ASSUME m + 1 <= L PROVE v[m + 1] = w[m + 1]
    OBVIOUS
  <2>1. m + 1 \in 1..L /\ m + 1 \in 1..(L + 1) /\ (m + 1) - 1 = m /\ m <= L
    BY <1>0
  <2> QED BY <1>1, <1>2, <1>3, <1>5, <2>1
<1> HIDE DEF S
<1>6. Nat \subseteq S
  BY <1>4, <1>5, SetInduction
<1>7. v[L] = w[L] /\ w[L] \in Nat
  BY <1>2, <1>6 DEF S
<1>8. L + 1 \in 1..(L + 1) /\ (L + 1) - 1 = L
  OBVIOUS
<1>9. v[L + 1] = v[L] + x.size
  BY <1>1, <1>3, <1>8
<1> QED BY <1>2, <1>3, <1>7, <1>9

\* A block less.
LEMMA SumRemove ==
    ASSUME NEW s \in Seq(Held), NEW k \in DOMAIN s, NEW q, q = RemoveAt(s, k)
    PROVE  SizeSum(q) = SizeSum(s) - s[k].size
<1>0. PICK L \in Nat : L = Len(s) /\ k \in 1..L
  OBVIOUS
<1>1. /\ q \in Seq(Held) /\ Len(q) = L - 1
      /\ \A m \in 1..(L - 1) : q[m] = IF m < k THEN s[m] ELSE s[m + 1]
  <2>1. Without(q, s, k, Held)
    BY RemoveAtIs
  <2>2. q \in Seq(Held) /\ Len(q) = L - 1
    BY <1>0, <2>1 DEF Without
  <2>3. \A m \in 1..Len(q) : q[m] = IF m < k THEN s[m] ELSE s[m + 1]
    BY <2>1 DEF Without
  <2> QED BY <2>2, <2>3
<1>2. PICK w : /\ w[0] = 0 /\ SizeSum(s) = w[L]
               /\ \A m \in 0..L : w[m] \in Nat
               /\ \A m \in 1..L : w[m] = w[m - 1] + s[m].size /\ s[m].size \in Nat
  BY <1>0, SumIs DEF Sums
<1>3. PICK v : /\ v[0] = 0 /\ SizeSum(q) = v[L - 1]
               /\ \A m \in 0..(L - 1) : v[m] \in Nat
               /\ \A m \in 1..(L - 1) : v[m] = v[m - 1] + q[m].size
  <2>1. PICK v : Sums(v, Len(q), q) /\ SizeSum(q) = v[Len(q)]
    BY <1>1, SumIs
  <2> QED BY <1>1, <2>1 DEF Sums
<1> DEFINE S == {m \in Nat : m <= L - 1 => v[m] = IF m < k THEN w[m] ELSE w[m + 1] - s[k].size}
<1>4. 0 \in S
  BY <1>0, <1>2, <1>3
<1>5. ASSUME NEW m \in Nat, m \in S PROVE m + 1 \in S
  <2> SUFFICES ASSUME m + 1 <= L - 1
               PROVE  v[m + 1] = IF m + 1 < k THEN w[m + 1] ELSE w[(m + 1) + 1] - s[k].size
    OBVIOUS
  <2>1. /\ m + 1 \in 1..(L - 1) /\ m + 1 \in 1..L /\ (m + 1) + 1 \in 1..L
        /\ (m + 1) - 1 = m /\ ((m + 1) + 1) - 1 = m + 1 /\ m <= L - 1 /\ m \in 0..L /\ m + 1 \in 0..L
    BY <1>0
  <2>2. v[m] = IF m < k THEN w[m] ELSE w[m + 1] - s[k].size
    BY <1>5, <2>1
  <2>3. v[m + 1] = v[m] + q[m + 1].size /\ q[m + 1] = IF m + 1 < k THEN s[m + 1] ELSE s[(m + 1) + 1]
    BY <1>1, <1>3, <2>1
  <2>4. /\ w[m + 1] = w[m] + s[m + 1].size /\ w[(m + 1) + 1] = w[m + 1] + s[(m + 1) + 1].size
        /\ s[m + 1].size \in Nat /\ s[(m + 1) + 1].size \in Nat /\ w[m] \in Nat /\ w[m + 1] \in Nat
        /\ s[k].size \in Nat
    BY <1>0, <1>2, <2>1
  <2>5. CASE m + 1 < k
    <3>1. m < k
      BY <1>0, <2>5
    <3> QED BY <2>2, <2>3, <2>4, <2>5, <3>1
  <2>6. CASE m + 1 = k
    <3>1. m < k /\ ~ (m + 1 < k)
      BY <2>6
    <3>2. v[m + 1] = w[m] + s[(m + 1) + 1].size /\ s[m + 1] = s[k]
      BY <2>2, <2>3, <2>6, <3>1
    <3>3. PICK a, b, c, y, z : /\ a = w[m] /\ b = w[m + 1] /\ c = w[(m + 1) + 1]
                               /\ y = s[k].size /\ z = s[(m + 1) + 1].size
      OBVIOUS
    <3>4. b = a + y /\ c = b + z /\ a \in Nat /\ y \in Nat /\ z \in Nat
      BY <2>4, <3>2, <3>3
    <3>5. c - y = a + z
      BY <3>4
    <3> QED BY <3>1, <3>2, <3>3, <3>5
  <2>7. CASE m >= k
    <3>1. ~ (m < k) /\ ~ (m + 1 < k)
      BY <1>0, <2>7
    <3>2. v[m + 1] = (w[m + 1] - s[k].size) + s[(m + 1) + 1].size
      BY <2>2, <2>3, <3>1
    <3>3. PICK b, c, y, z : /\ b = w[m + 1] /\ c = w[(m + 1) + 1]
                            /\ y = s[k].size /\ z = s[(m + 1) + 1].size
      OBVIOUS
    <3>4. c = b + z /\ b \in Nat /\ y \in Nat /\ z \in Nat
      BY <2>4, <3>3
    <3>5. c - y = (b - y) + z
      BY <3>4
    <3> QED BY <3>1, <3>2, <3>3, <3>5
  <2> QED BY <1>0, <2>5, <2>6, <2>7
<1> HIDE DEF S
<1>6. Nat \subseteq S
  BY <1>4, <1>5, SetInduction
<1>7. L - 1 \in Nat /\ (L - 1) + 1 = L /\ L \in 0..L /\ L \in 1..L
  BY <1>0
<1>8. v[L - 1] = IF L - 1 < k THEN w[L - 1] ELSE w[L] - s[k].size
  BY <1>6, <1>7 DEF S
<1>9. L - 1 < k => w[L - 1] = w[L] - s[k].size
  <2> SUFFICES ASSUME L - 1 < k PROVE w[L - 1] = w[L] - s[k].size
    OBVIOUS
  <2>1. k = L /\ L - 1 \in 0..L
    BY <1>0, <1>7
  <2>2. w[L] = w[L - 1] + s[L].size /\ s[L].size \in Nat /\ w[L - 1] \in Nat
    BY <1>2, <1>7, <2>1
  <2> QED BY <2>1, <2>2
<1> QED BY <1>2, <1>3, <1>8, <1>9

\* To add at the end and to take out before it can be done in either order.
LEMMA RemoveThenAppend ==
    ASSUME NEW S, NEW s \in Seq(S), NEW x \in S, NEW k \in DOMAIN s
    PROVE  RemoveAt(Append(s, x), k) = Append(RemoveAt(s, k), x)
<1>0. PICK L \in Nat : L = Len(s) /\ k \in 1..L
  OBVIOUS
<1>1. PICK e : e = Append(s, x)
  OBVIOUS
<1>2. e \in Seq(S) /\ Len(e) = L + 1 /\ k \in DOMAIN e /\ e[L + 1] = x /\ \A m \in 1..L : e[m] = s[m]
  BY <1>0, <1>1
<1>3. PICK q : q = RemoveAt(s, k)
  OBVIOUS
<1>4. PICK v : v = RemoveAt(e, k)
  OBVIOUS
<1>5. /\ q \in Seq(S) /\ Len(q) = L - 1
      /\ \A m \in 1..(L - 1) : q[m] = IF m < k THEN s[m] ELSE s[m + 1]
  <2>1. Without(q, s, k, S)
    BY <1>3, RemoveAtIs
  <2>2. q \in Seq(S) /\ Len(q) = L - 1
    BY <1>0, <2>1 DEF Without
  <2>3. \A m \in 1..Len(q) : q[m] = IF m < k THEN s[m] ELSE s[m + 1]
    BY <2>1 DEF Without
  <2> QED BY <2>2, <2>3
<1>6. /\ v \in Seq(S) /\ Len(v) = L
      /\ \A m \in 1..L : v[m] = IF m < k THEN e[m] ELSE e[m + 1]
  <2>0. e \in Seq(S) /\ k \in DOMAIN e
    BY <1>2
  <2>1. Without(v, e, k, S)
    BY <1>4, <2>0, RemoveAtIs
  <2>2. v \in Seq(S) /\ Len(v) = L
    BY <1>2, <2>1 DEF Without
  <2>3. \A m \in 1..Len(v) : v[m] = IF m < k THEN e[m] ELSE e[m + 1]
    BY <2>1 DEF Without
  <2> QED BY <2>2, <2>3
<1>7. PICK z : z = Append(q, x)
  OBVIOUS
<1>8. z \in Seq(S) /\ Len(z) = L /\ z[L] = x /\ \A m \in 1..(L - 1) : z[m] = q[m]
  BY <1>0, <1>5, <1>7
<1>9. ASSUME NEW m \in 1..L PROVE v[m] = z[m]
  <2>1. CASE m = L
    <3>1. ~ (m < k) /\ m + 1 = L + 1
      BY <1>0, <2>1
    <3> QED BY <1>2, <1>6, <1>8, <2>1, <3>1
  <2>2. CASE m # L /\ m < k
    <3>1. m \in 1..(L - 1)
      BY <1>0, <2>2
    <3> QED BY <1>2, <1>5, <1>6, <1>8, <2>2, <3>1
  <2>3. CASE m # L /\ ~ (m < k)
    <3>1. m \in 1..(L - 1) /\ m + 1 \in 1..L
      BY <1>0, <2>3
    <3> QED BY <1>2, <1>5, <1>6, <1>8, <2>3, <3>1
  <2> QED BY <2>1, <2>2, <2>3
<1>10. v = z
  BY <1>6, <1>8, <1>9
<1> QED BY <1>1, <1>3, <1>4, <1>7, <1>10

(***************************************************************************)
(* The invariant.  Besides the shape of the heap: callers hold different   *)
(* blocks, of the sizes they were given.                                   *)
(***************************************************************************)
Blocks(l) == {l[k].blk : k \in DOMAIN l}

Different(l) == \A k, m \in DOMAIN l : l[k].blk = l[m].blk => k = m

Known(h, l) ==
    /\ l \in Seq(Held) /\ Different(l)
    /\ \A k \in DOMAIN l : h.hdr[l[k].blk].size = l[k].size
    /\ h.used_bytes = SizeSum(l)

Sound(h, l) == Known(h, l) /\ \E s : Good(h, s, Blocks(l))

HeapInv == intact => Sound(heap, live)

LEMMA KnownFacts ==
    ASSUME NEW h, NEW l, Known(h, l)
    PROVE  /\ l \in Seq(Held) /\ Len(l) \in Nat /\ DOMAIN l = 1..Len(l)
           /\ \A k \in 1..Len(l) : l[k] \in Held /\ l[k].blk \in Addr /\ l[k].size \in Nat
                                   /\ l[k].blk \in Blocks(l)
<1>1. l \in Seq(Held) /\ Len(l) \in Nat /\ DOMAIN l = 1..Len(l)
  BY DEF Known
<1>2. \A k \in 1..Len(l) : l[k] \in Held
  BY <1>1
<1>3. \A k \in 1..Len(l) : l[k].blk \in Addr /\ l[k].size \in Nat
  BY <1>2 DEF Held
<1> QED BY <1>1, <1>2, <1>3 DEF Blocks

\* A step that leaves the blocks callers hold alone.
LEMMA KnownKept ==
    ASSUME NEW h, NEW g, NEW l, Known(h, l), KeepsHeld(g, h, Blocks(l)), g.used_bytes = h.used_bytes
    PROVE  Known(g, l)
<1>1. \A k \in DOMAIN l : l[k].blk \in Blocks(l)
  BY DEF Blocks
<1>2. \A k \in DOMAIN l : g.hdr[l[k].blk].size = h.hdr[l[k].blk].size
  BY <1>1 DEF KeepsHeld
<1> QED BY <1>2 DEF Known

Entry(b, z) == [blk |-> b, size |-> z]
Added(l, b, g) == Append(l, Entry(b, g.hdr[b].size))

\* A heap from which block b was taken, or which expanded before that.
LEMMA AllocKnown ==
    ASSUME NEW h, NEW g, NEW l, Known(h, l), NEW U, U = Blocks(l), KeepsHeld(g, h, U),
           NEW b \in Addr, b \notin U, NEW W, W = U \cup {b}, Takes(g, h, b),
           NEW q, q = Added(l, b, g)
    PROVE  Known(g, q) /\ Blocks(q) = W
<1>0. /\ l \in Seq(Held) /\ Len(l) \in Nat /\ DOMAIN l = 1..Len(l)
      /\ \A k \in 1..Len(l) : l[k] \in Held /\ l[k].blk \in Addr /\ l[k].size \in Nat
                              /\ l[k].blk \in Blocks(l)
  BY KnownFacts
<1>1. PICK L \in Nat : L = Len(l)
  BY <1>0
<1>2. PICK z \in Nat : z = g.hdr[b].size /\ g.used_bytes = h.used_bytes + z
  BY DEF Takes
<1>3. PICK x : x = [blk |-> b, size |-> z]
  OBVIOUS
<1>4. x \in Held /\ x.blk = b /\ x.size = z
  BY <1>3 DEF Held
<1>5. q = Append(l, x)
  BY <1>2, <1>3 DEF Entry, Added
<1>6. q \in Seq(Held) /\ Len(q) = L + 1 /\ DOMAIN q = 1..(L + 1) /\ q[L + 1] = x
      /\ \A k \in 1..L : q[k] = l[k]
  BY <1>0, <1>1, <1>4, <1>5
<1>7. \A k \in 1..L : q[k].blk = l[k].blk /\ q[k].size = l[k].size /\ l[k].blk \in Blocks(l) /\ q[k].blk # b
  BY <1>0, <1>1, <1>6
<1>8. q[L + 1].blk = b /\ q[L + 1].size = z
  BY <1>4, <1>6
<1>9. \A k \in DOMAIN q : k \in 1..L \/ k = L + 1
  BY <1>6
<1>10. Different(q)
  <2>1. \A k, m \in 1..L : l[k].blk = l[m].blk => k = m
    BY <1>0, <1>1 DEF Known, Different
  <2> SUFFICES ASSUME NEW k \in DOMAIN q, NEW m \in DOMAIN q, q[k].blk = q[m].blk PROVE k = m
    BY DEF Different
  <2>2. CASE k \in 1..L /\ m \in 1..L
    BY <1>7, <2>1, <2>2
  <2>3. CASE ~ (k \in 1..L /\ m \in 1..L)
    BY <1>7, <1>8, <1>9, <2>3
  <2> QED BY <2>2, <2>3
<1>11. \A k \in 1..L : /\ g.hdr[l[k].blk].size = h.hdr[l[k].blk].size
                       /\ h.hdr[l[k].blk].size = l[k].size
  BY <1>0, <1>1, <1>7 DEF KeepsHeld, Known
<1>12. ASSUME NEW k \in DOMAIN q PROVE g.hdr[q[k].blk].size = q[k].size
  <2>1. CASE k \in 1..L
    BY <1>7, <1>11, <2>1
  <2>2. CASE k = L + 1
    BY <1>2, <1>8, <2>2
  <2> QED BY <1>9, <2>1, <2>2
<1>13. g.used_bytes = SizeSum(q)
  <2>1. SizeSum(q) = SizeSum(l) + x.size
    BY <1>0, <1>4, <1>5, SumAppend
  <2>2. h.used_bytes = SizeSum(l)
    BY DEF Known
  <2> QED BY <1>2, <1>4, <2>1, <2>2
<1>14. Blocks(q) = Blocks(l) \cup {b}
  <2>1. \A k \in DOMAIN q : q[k].blk \in Blocks(l) \cup {b}
    BY <1>7, <1>8, <1>9
  <2>2. \A k \in DOMAIN l : k \in DOMAIN q /\ l[k].blk = q[k].blk
    BY <1>0, <1>1, <1>6
  <2>3. L + 1 \in DOMAIN q
    BY <1>6
  <2>4. \A u \in Blocks(l) : u \in Blocks(q)
    BY <2>2 DEF Blocks
  <2>5. b \in Blocks(q)
    BY <1>8, <2>3 DEF Blocks
  <2>6. \A u \in Blocks(q) : u \in Blocks(l) \cup {b}
    <3> SUFFICES ASSUME NEW u \in Blocks(q) PROVE u \in Blocks(l) \cup {b}
      OBVIOUS
    <3>1. PICK k \in DOMAIN q : u = q[k].blk
      BY DEF Blocks
    <3> QED BY <2>1, <3>1
  <2> QED BY <2>4, <2>5, <2>6
<1> QED BY <1>6, <1>10, <1>12, <1>13, <1>14 DEF Known

\* A heap into which the k-th block was given back.
LEMMA FreeKnown ==
    ASSUME NEW h, NEW g, NEW l, Known(h, l), NEW k \in DOMAIN l, NEW V, V = Blocks(l) \ {l[k].blk},
           KeepsHeld(g, h, V), g.used_bytes = h.used_bytes - h.hdr[l[k].blk].size,
           NEW q, q = RemoveAt(l, k)
    PROVE  Known(g, q) /\ Blocks(q) = V
<1>0. /\ l \in Seq(Held) /\ Len(l) \in Nat /\ DOMAIN l = 1..Len(l)
      /\ \A x \in 1..Len(l) : l[x] \in Held /\ l[x].blk \in Addr /\ l[x].size \in Nat
                              /\ l[x].blk \in Blocks(l)
  BY KnownFacts
<1>1. PICK L \in Nat : L = Len(l) /\ k \in 1..L
  BY <1>0
<1>2. Without(q, l, k, Held)
  BY <1>0, RemoveAtIs
<1>3. q \in Seq(Held) /\ Len(q) = L - 1 /\ DOMAIN q = 1..(L - 1)
  BY <1>1, <1>2 DEF Without
<1>4. \A m \in 1..(L - 1) : q[m] = IF m < k THEN l[m] ELSE l[m + 1]
  BY <1>2, <1>3 DEF Without
\* at(m) is where the m-th block was.
<1> DEFINE at(m) == IF m < k THEN m ELSE m + 1
<1>5. \A m \in 1..(L - 1) : at(m) \in 1..L /\ at(m) # k /\ q[m] = l[at(m)]
  BY <1>1, <1>4
<1>6. \A x, y \in 1..(L - 1) : (at(x) = at(y) => x = y) /\ (at(x) < at(y) => x < y)
  BY <1>1
<1>7. \A x \in 1..L : x # k => \E m \in 1..(L - 1) : at(m) = x
  <2> SUFFICES ASSUME NEW x \in 1..L, x # k PROVE \E m \in 1..(L - 1) : at(m) = x
    OBVIOUS
  <2>1. CASE x < k
    <3>1. x \in 1..(L - 1) /\ at(x) = x
      BY <1>1, <2>1
    <3> QED BY <3>1
  <2>2. CASE ~ (x < k)
    <3>1. x - 1 \in 1..(L - 1) /\ at(x - 1) = x
      BY <1>1, <2>2
    <3> QED BY <3>1
  <2> QED BY <2>1, <2>2
<1> HIDE DEF at
<1>8. \A x, y \in 1..L : l[x].blk = l[y].blk => x = y
  BY <1>0, <1>1 DEF Known, Different
<1>9. \A m \in 1..(L - 1) : q[m].blk = l[at(m)].blk /\ q[m].size = l[at(m)].size /\ q[m].blk \in V
  BY <1>0, <1>1, <1>5, <1>8
<1>10. Different(q)
  <2> SUFFICES ASSUME NEW x \in 1..(L - 1), NEW y \in 1..(L - 1), q[x].blk = q[y].blk PROVE x = y
    BY <1>3 DEF Different
  <2> QED BY <1>5, <1>6, <1>8, <1>9
<1>11. \A m \in 1..(L - 1) : g.hdr[q[m].blk].size = h.hdr[q[m].blk].size
  BY <1>9 DEF KeepsHeld
<1>12. ASSUME NEW m \in DOMAIN q PROVE g.hdr[q[m].blk].size = q[m].size
  <2>1. m \in 1..(L - 1)
    BY <1>3
  <2>2. h.hdr[l[at(m)].blk].size = l[at(m)].size
    BY <1>0, <1>1, <1>5, <2>1 DEF Known
  <2> QED BY <1>9, <1>11, <2>1, <2>2
<1>13. g.used_bytes = SizeSum(q)
  <2>1. SizeSum(q) = SizeSum(l) - l[k].size
    BY <1>0, SumRemove
  <2>2. h.used_bytes = SizeSum(l) /\ h.hdr[l[k].blk].size = l[k].size
    BY DEF Known
  <2> QED BY <2>1, <2>2
<1>14. Blocks(q) = V
  <2>1. \A u \in Blocks(q) : u \in V
    <3> SUFFICES ASSUME NEW u \in Blocks(q) PROVE u \in V
      OBVIOUS
    <3>1. PICK m \in DOMAIN q : u = q[m].blk
      BY DEF Blocks
    <3> QED BY <1>3, <1>9, <3>1
  <2>2. ASSUME NEW u \in V PROVE u \in Blocks(q)
    <3>1. PICK x \in 1..L : u = l[x].blk /\ x # k
      BY <1>0, <1>1, <2>2 DEF Blocks
    <3>2. PICK m \in 1..(L - 1) : at(m) = x
      BY <1>7, <3>1
    <3>3. u = q[m].blk /\ m \in DOMAIN q
      BY <1>3, <1>9, <3>1, <3>2
    <3> QED BY <3>3 DEF Blocks
  <2> QED BY <2>1, <2>2
<1> QED BY <1>3, <1>10, <1>12, <1>13, <1>14 DEF Known

----------------------------------------------------------------------------
(***************************************************************************)
(* The steps.                                                              *)
(***************************************************************************)
LEMMA ExpandSound ==
    ASSUME NEW h, NEW l, Sound(h, l), NEW size \in Nat, NEW g, g = heap_expand(h, size)
    PROVE  Sound(g, l)
<1>1. Known(h, l)
  BY DEF Sound
<1>2. PICK s : Good(h, s, Blocks(l))
  BY DEF Sound
<1>3. /\ \E q : Good(g, q, Blocks(l))
      /\ KeepsHeld(g, h, Blocks(l)) /\ g.used_bytes = h.used_bytes
  BY <1>2, ExpandGood
<1>4. Known(g, l)
  BY <1>1, <1>3, KnownKept
<1> QED BY <1>3, <1>4 DEF Sound

\* The block is taken.
LEMMA TakenSound ==
    ASSUME NEW h, NEW l, Known(h, l), NEW s, Good(h, s, Blocks(l)), NEW size \in Nat,
           NEW b \in ToSet(s), Fits(h, b, size), NEW t, t = Taken(h, b, size),
           NEW q, q = Added(l, b, t)
    PROVE  Sound(t, q) /\ b \in Blocks(q) /\ b \notin Blocks(l) /\ Fits(t, b, size)
<1>1. PICK U : U = Blocks(l)
  OBVIOUS
<1>2. PICK W : W = U \cup {b}
  OBVIOUS
<1>3. U \subseteq Addr
  BY <1>1, GoodFacts
<1>4. /\ \E y : Good(t, y, W)
      /\ KeepsHeld(t, h, U) /\ Takes(t, h, b) /\ Fits(t, b, size)
      /\ b \notin U /\ b \in Addr
  BY <1>1, <1>2, TakenGood
<1>5. PICK y : Good(t, y, W)
  BY <1>4
<1>6. Known(t, q) /\ Blocks(q) = W
  BY <1>1, <1>2, <1>4, AllocKnown
<1> QED BY <1>1, <1>2, <1>4, <1>5, <1>6 DEF Sound

\* The first n units of a block that is held are written.
LEMMA WrittenSound ==
    ASSUME NEW h, NEW l, Sound(h, l), NEW b \in Blocks(l), NEW z \in Nat, Fits(h, b, z),
           NEW g, g = Written(h, b, z)
    PROVE  Sound(g, l)
<1>1. Known(h, l)
  BY DEF Sound
<1>2. PICK s : Good(h, s, Blocks(l))
  BY DEF Sound
<1>3. z <= h.hdr[b].size
  BY DEF Fits
<1>4. Good(g, s, Blocks(l)) /\ KeepsHeld(g, h, Blocks(l)) /\ g.used_bytes = h.used_bytes
  BY <1>2, <1>3, WrittenGood
<1>5. Known(g, l)
  BY <1>1, <1>4, KnownKept
<1> QED BY <1>4, <1>5 DEF Sound

\* The owner of a block writes to it or does not.
LEMMA OwnedSound ==
    ASSUME NEW h, NEW l, Sound(h, l), NEW b \in Blocks(l), NEW g \in WrittenOrNot(h, b)
    PROVE  Sound(g, l)
<1>1. PICK s : Good(h, s, Blocks(l))
  BY DEF Sound
<1>2. h \in Heaps /\ b \in Addr
  BY <1>1, GoodFacts
<1>3. PICK z \in Nat : z = h.hdr[b].size
  BY <1>2, EndIs
<1>4. Fits(h, b, z)
  BY <1>3 DEF Fits
<1>5. g = h \/ g = Written(h, b, z)
  BY <1>3 DEF WrittenOrNot
<1> QED BY <1>4, <1>5, WrittenSound

LEMMA AllocSound ==
    ASSUME NEW h, NEW l, Sound(h, l), NEW size \in Nat,
           NEW b, b = FirstFit(h, size), b # NULL, NEW t, t = Taken(h, b, size),
           NEW q, q = Added(l, b, t)
    PROVE  Sound(t, q) /\ b \in Blocks(q) /\ b \notin Blocks(l) /\ Fits(t, b, size)
<1>1. Known(h, l)
  BY DEF Sound
<1>2. PICK s : Good(h, s, Blocks(l))
  BY DEF Sound
<1>3. h \in Heaps /\ Linked(h, s)
  BY <1>2, GoodFacts
<1>4. b \in ToSet(s) /\ Fits(h, b, size)
  <2>1. b \in ToSet(s) /\ b \in Addr /\ h.hdr[b].size >= size
    BY <1>3, FirstFitIs
  <2>2. h.hdr[b].size \in Nat
    BY <1>3, <2>1, EndIs
  <2> QED BY <2>1, <2>2 DEF Fits
<1> QED BY <1>1, <1>2, <1>4, TakenSound

LEMMA FreeSound ==
    ASSUME NEW h, NEW l, Sound(h, l), NEW k \in DOMAIN l, NEW g, g = Freed(h, l[k].blk),
           NEW q, q = RemoveAt(l, k), FreedRight(h, l[k].blk)
    PROVE  Sound(g, q) /\ Blocks(q) = Blocks(l) \ {l[k].blk}
<1>0. PICK U, b, V : U = Blocks(l) /\ b = l[k].blk /\ V = U \ {b}
  OBVIOUS
<1>1. Known(h, l)
  BY DEF Sound
<1>2. PICK s : Good(h, s, U)
  BY <1>0 DEF Sound
<1>3. b \in U
  BY <1>0 DEF Blocks
<1>4. /\ \E y : Good(g, y, V)
      /\ KeepsHeld(g, h, V) /\ g.used_bytes = h.used_bytes - h.hdr[b].size
  BY <1>0, <1>2, <1>3, FreedGood
<1>5. Known(g, q) /\ Blocks(q) = V
  BY <1>0, <1>1, <1>4, FreeKnown
<1> QED BY <1>0, <1>4, <1>5 DEF Sound

LEMMA HeapInitSound ==
    HeapInit => HeapInv
<1> SUFFICES ASSUME HeapInit PROVE HeapInv
  OBVIOUS
<1>1. PICK f : f = [a \in Addr |-> JUNK]
  OBVIOUS
<1>2. PICK h : h = [hdr |-> f, free_list |-> NULL, brk |-> 0, used_bytes |-> 0]
  OBVIOUS
<1>3. heap = heap_expand(h, PAGE) /\ live = <<>>
  BY <1>1, <1>2 DEF HeapInit
<1>4. f \in [Addr -> Headers] /\ NULL \in Where /\ HEAP_SIZE \in Nat /\ PAGE \in Nat
  <2>1. NULL \in Where
    BY DEF Where
  <2>2. JUNK \in Headers
    BY <2>1 DEF JUNK, Headers
  <2> QED BY <1>1, <2>1, <2>2, HeapSizes
<1>5. h \in Heaps /\ h.free_list = NULL /\ h.brk = 0 /\ h.used_bytes = 0
  BY <1>2, <1>4 DEF Heaps
<1>6. PICK s : s = <<>>
  OBVIOUS
<1>7. s \in Seq(Addr) /\ s \in Seq(Held) /\ DOMAIN s = {} /\ Len(s) = 0
  BY <1>6
<1>8. ToSet(s) = {} /\ Blocks(s) = {}
  BY <1>7 DEF ToSet, Blocks
<1>9. Linked(h, s)
  BY <1>5, <1>6, <1>7 DEF Linked
<1>10. Tiles(h, {})
  BY <1>5 DEF Tiles
<1>11. Good(h, s, Blocks(s))
  <2>1. ToSet(s) \cup Blocks(s) = {}
    BY <1>8
  <2> QED BY <1>5, <1>8, <1>9, <1>10, <2>1 DEF Good, Marked
<1>12. SizeSum(s) = 0
  <2>1. PICK w : Sums(w, Len(s), s) /\ SizeSum(s) = w[Len(s)]
    BY <1>7, SumIs
  <2> QED BY <1>7, <2>1 DEF Sums
<1>13. Known(h, s)
  BY <1>5, <1>7, <1>12 DEF Known, Different
<1>14. Sound(h, s)
  BY <1>11, <1>13 DEF Sound
<1>15. Sound(heap, s)
  BY <1>3, <1>4, <1>14, ExpandSound
<1> QED BY <1>3, <1>6, <1>15 DEF HeapInv

LEMMA SearchedSound ==
    ASSUME Sound(heap, live), NEW size \in Nat
    PROVE  Sound(Searched(size), live)
<1>1. CASE FirstFit(heap, size) = NULL
  <2>1. Searched(size) = heap_expand(heap, size)
    BY <1>1 DEF Searched
  <2> QED BY <2>1, ExpandSound
<1>2. CASE FirstFit(heap, size) # NULL
  <2>1. Searched(size) = heap
    BY <1>2 DEF Searched
  <2> QED BY <2>1
<1> QED BY <1>1, <1>2

LEMMA kmallocSound ==
    ASSUME Sound(heap, live), NEW size \in Sizes, kmalloc(size)
    PROVE  Sound(heap', live')
<1>1. size \in Nat
  BY HeapAssumption
<1>2. PICK h : h = Searched(size)
  OBVIOUS
<1>3. PICK b : b = FirstFit(h, size)
  OBVIOUS
<1>4. PICK t : t = Taken(h, b, size)
  OBVIOUS
<1>5. b # NULL /\ heap' \in WrittenOrNot(t, b) /\ live' = Added(live, b, t)
  BY <1>2, <1>3, <1>4 DEF kmalloc, Added, Entry
<1>6. Sound(h, live)
  BY <1>1, <1>2, SearchedSound
<1>7. Sound(t, live') /\ b \in Blocks(live')
  BY <1>1, <1>3, <1>4, <1>5, <1>6, AllocSound
<1> QED BY <1>5, <1>7, OwnedSound

LEMMA kreallocSound ==
    ASSUME Sound(heap, live), NEW k \in DOMAIN live, NEW size \in Sizes, krealloc(k, size), intact'
    PROVE  Sound(heap', live')
<1>1. size \in Nat
  BY HeapAssumption
<1>2. PICK h : h = Searched(size)
  OBVIOUS
<1>3. PICK b : b = FirstFit(h, size)
  OBVIOUS
<1>4. PICK t : t = Taken(h, b, size)
  OBVIOUS
<1>5. PICK x : x = Entry(b, t.hdr[b].size)
  OBVIOUS
<1>6. PICK old, z : old = live[k].blk /\ z = heap.hdr[old].size
  OBVIOUS
<1>7. PICK c : c = Written(t, b, z)
  OBVIOUS
<1>8. /\ b # NULL /\ z < size
      /\ heap' \in WrittenOrNot(Freed(c, old), b)
      /\ live' = Append(RemoveAt(live, k), x)
      /\ FreedRight(c, old)
  BY <1>2, <1>3, <1>4, <1>5, <1>6, <1>7 DEF krealloc, Entry
<1>9. PICK q : q = Append(live, x)
  OBVIOUS
<1>10. q = Added(live, b, t)
  BY <1>5, <1>9 DEF Added
<1>11. Sound(h, live)
  BY <1>1, <1>2, SearchedSound
<1>12. Sound(t, q) /\ b \in Blocks(q) /\ b \notin Blocks(live) /\ Fits(t, b, size)
  BY <1>1, <1>3, <1>4, <1>8, <1>10, <1>11, AllocSound
<1>13. z \in Nat /\ old \in Blocks(live)
  <2>1. /\ DOMAIN live = 1..Len(live)
        /\ \A m \in 1..Len(live) : live[m].size \in Nat /\ live[m].blk \in Blocks(live)
    BY KnownFacts DEF Sound
  <2>2. heap.hdr[old].size = live[k].size
    BY <1>6 DEF Sound, Known
  <2> QED BY <1>6, <2>1, <2>2
<1>14. Fits(t, b, z)
  <2>1. PICK s : Good(t, s, Blocks(q))
    BY <1>12 DEF Sound
  <2>2. t.hdr[b].size \in Nat
    BY <1>12, <2>1, GoodFacts, EndIs
  <2> QED BY <1>1, <1>8, <1>12, <1>13, <2>2 DEF Fits
<1>15. Sound(c, q)
  BY <1>7, <1>12, <1>13, <1>14, WrittenSound
<1>16. live \in Seq(Held) /\ q \in Seq(Held) /\ Len(q) = Len(live) + 1
  <2>1. live \in Seq(Held) /\ q \in Seq(Held)
    BY <1>12, KnownFacts DEF Sound
  <2> QED BY <1>9, <2>1
<1>17. k \in DOMAIN q /\ q[k] = live[k]
  BY <1>9, <1>16
<1>18. x \in Held
  <2>1. Len(live) + 1 \in 1..Len(q) /\ q[Len(live) + 1] = x
    BY <1>9, <1>16
  <2> QED BY <1>16, <2>1
<1>19. live' = RemoveAt(q, k)
  BY <1>8, <1>9, <1>16, <1>18, RemoveThenAppend
<1>20. PICK f : f = Freed(c, old)
  OBVIOUS
<1>21. Sound(f, live') /\ Blocks(live') = Blocks(q) \ {old}
  BY <1>6, <1>8, <1>15, <1>17, <1>19, <1>20, FreeSound
<1>22. b \in Blocks(live') /\ heap' \in WrittenOrNot(f, b)
  BY <1>8, <1>12, <1>13, <1>20, <1>21
<1> QED BY <1>21, <1>22, OwnedSound

LEMMA HeapStep ==
    HeapInv /\ [HeapNext]_hvars => HeapInv'
<1> SUFFICES ASSUME HeapInv, [HeapNext]_hvars, intact' PROVE Sound(heap', live')
  BY DEF HeapInv
<1>1. CASE Calls
  <2>1. Sound(heap, live)
    BY <1>1 DEF HeapInv, Calls
  <2>2. ASSUME NEW size \in Sizes, kmalloc(size) PROVE Sound(heap', live')
    BY <2>1, <2>2, kmallocSound
  <2>3. ASSUME NEW k \in DOMAIN live, kfree(k) PROVE Sound(heap', live')
    <3>1. /\ heap' = Freed(heap, live[k].blk) /\ live' = RemoveAt(live, k)
          /\ FreedRight(heap, live[k].blk)
      BY <2>3 DEF kfree
    <3> QED BY <2>1, <3>1, FreeSound
  <2>4. ASSUME NEW k \in DOMAIN live, NEW size \in Sizes, krealloc(k, size) PROVE Sound(heap', live')
    BY <2>1, <2>4, kreallocSound
  <2> QED BY <1>1, <2>2, <2>3, <2>4 DEF Calls
<1>2. CASE UNCHANGED hvars
  BY <1>2 DEF hvars, HeapInv
<1> QED BY <1>1, <1>2 DEF HeapNext, Corrupted

(***************************************************************************)
(* The heap is well formed until coalesce joins blocks that do not touch.  *)
(***************************************************************************)
THEOREM HeapInvAlways == HeapSpec => []HeapInv
  BY HeapInitSound, HeapStep, PTL DEF HeapSpec

LEMMA ListedIs ==
    ASSUME HeapInv, intact
    PROVE  /\ Known(heap, live)
           /\ \E s : Good(heap, s, LiveBlocks) /\ Listed = ToSet(s)
<1>1. Blocks(live) = LiveBlocks
  BY DEF Blocks, LiveBlocks
<1>2. PICK s : Good(heap, s, LiveBlocks)
  BY <1>1 DEF HeapInv, Sound
<1>3. heap \in Heaps /\ Linked(heap, s)
  BY <1>2, GoodFacts
<1>4. FreeSeq(heap) = s
  BY <1>3, FreeSeqIs
<1> QED BY <1>2, <1>4 DEF HeapInv, Sound, Listed

\* What the extents of the blocks are.
LEMMA ExtentIs ==
    ASSUME NEW b \in Addr, heap \in Heaps
    PROVE  Extent(b) = b..(End(heap, b) - 1) /\ End(heap, b) \in Nat /\ b \in Nat
  BY EndIs DEF Extent, End

(***************************************************************************)
(* Whatever sizes are asked for and in whatever order blocks are given     *)
(* back, no caller's block overlaps another one or a free one until        *)
(* coalesce joins a block that does not end where the freed one begins.    *)
(***************************************************************************)
THEOREM BlocksDisjointAlways == HeapSpec => []BlocksDisjoint
<1>1. HeapInv => BlocksDisjoint
  <2> SUFFICES ASSUME HeapInv, intact PROVE BlocksApart
    BY DEF BlocksDisjoint
  <2>1. PICK s : Good(heap, s, LiveBlocks) /\ Listed = ToSet(s)
    BY ListedIs
  <2>2. Known(heap, live)
    BY ListedIs
  <2>3. heap \in Heaps /\ Tiles(heap, LiveBlocks \cup Listed) /\ LiveBlocks \cup Listed \subseteq Addr
    <3>1. ToSet(s) \cup LiveBlocks = LiveBlocks \cup Listed
      BY <2>1
    <3> QED BY <2>1, <3>1, GoodFacts
  <2>4. Cardinality(LiveBlocks) = Len(live)
    <3>1. PICK L \in Nat : L = Len(live) /\ DOMAIN live = 1..L
      BY <2>2, KnownFacts
    <3>2. PICK f : f = [k \in 1..L |-> live[k].blk]
      OBVIOUS
    <3>3. f \in [1..L -> LiveBlocks]
      BY <3>1, <3>2 DEF LiveBlocks
    <3>4. \A x, y \in 1..L : f[x] = f[y] => x = y
      BY <2>2, <3>1, <3>2 DEF Known, Different
    <3>5. \A u \in LiveBlocks : \E k \in 1..L : f[k] = u
      BY <3>1, <3>2 DEF LiveBlocks
    <3>6. f \in Bijection(1..L, LiveBlocks)
      BY <3>3, <3>4, <3>5 DEF Bijection, Injection, Surjection, IsInjective
    <3>7. IsFiniteSet(1..L) /\ Cardinality(1..L) = L
      <4>1. IsFiniteSet(1..L) /\ Cardinality(1..L) = IF 1 > L THEN 0 ELSE L - 1 + 1
        BY FS_Interval
      <4> QED BY <4>1
    <3>8. ExistsBijection(1..L, LiveBlocks)
      BY <3>6 DEF ExistsBijection
    <3>9. Cardinality(LiveBlocks) = Cardinality(1..L)
      BY <3>7, <3>8, FS_Bijection
    <3> QED BY <3>1, <3>7, <3>9
  <2>5. ASSUME NEW b \in LiveBlocks \cup Listed, NEW d \in LiveBlocks \cup Listed, b # d
        PROVE  Extent(b) \cap Extent(d) = {}
    <3>1. /\ Extent(b) = b..(End(heap, b) - 1) /\ End(heap, b) \in Nat /\ b \in Nat
          /\ Extent(d) = d..(End(heap, d) - 1) /\ End(heap, d) \in Nat /\ d \in Nat
      BY <2>3, ExtentIs
    <3>2. (b < d => End(heap, b) <= d) /\ (d < b => End(heap, d) <= b)
      BY <2>3 DEF Tiles
    <3> QED BY <2>5, <3>1, <3>2
  <2> QED BY <2>4, <2>5 DEF BlocksApart
<1> QED BY <1>1, HeapInvAlways, PTL

(***************************************************************************)
(* Until then the blocks fill the heap, and used_bytes is what callers     *)
(* hold.                                                                   *)
(***************************************************************************)
THEOREM NothingLeaksAlways == HeapSpec => []NothingLeaks
<1>1. HeapInv => NothingLeaks
  <2> SUFFICES ASSUME HeapInv, intact
               PROVE  /\ UNION {Extent(b) : b \in LiveBlocks \cup Listed} = 0..(heap.brk - 1)
                      /\ heap.used_bytes = SizeSum(live)
    BY DEF NothingLeaks
  <2>1. PICK s : Good(heap, s, LiveBlocks) /\ Listed = ToSet(s)
    BY ListedIs
  <2>2. heap.used_bytes = SizeSum(live)
    BY ListedIs DEF Known
  <2>3. PICK G : G = LiveBlocks \cup Listed
    OBVIOUS
  <2>4. heap \in Heaps /\ Tiles(heap, G) /\ G \subseteq Addr
    <3>1. ToSet(s) \cup LiveBlocks = G
      BY <2>1, <2>3
    <3> QED BY <2>1, <3>1, GoodFacts
  <2>5. \A b \in G : /\ Extent(b) = b..(End(heap, b) - 1) /\ End(heap, b) \in Nat /\ b \in Nat
                     /\ b < heap.brk /\ (End(heap, b) \in G \/ End(heap, b) = heap.brk)
    BY <2>4, ExtentIs DEF Tiles
  <2>6. heap.brk \in Nat
    BY <2>4, BreakIs
  <2>7. \A b \in G : End(heap, b) <= heap.brk
    <3> SUFFICES ASSUME NEW b \in G PROVE End(heap, b) <= heap.brk
      OBVIOUS
    <3>1. End(heap, b) \in Nat /\ (End(heap, b) < heap.brk \/ End(heap, b) = heap.brk)
      BY <2>5
    <3> QED BY <2>6, <3>1
  <2>8. ASSUME NEW a \in UNION {Extent(b) : b \in G} PROVE a \in 0..(heap.brk - 1)
    <3>1. PICK b \in G : a \in Extent(b)
      BY <2>8
    <3>2. b \in Nat /\ End(heap, b) \in Nat /\ End(heap, b) <= heap.brk /\ a \in b..(End(heap, b) - 1)
      BY <2>5, <2>7, <3>1
    <3> QED BY <2>6, <3>2
  <2>9. ASSUME NEW a \in 0..(heap.brk - 1) PROVE a \in UNION {Extent(b) : b \in G}
    <3>1. PICK b \in G : b <= a /\ a < End(heap, b)
      BY <2>4, <2>9 DEF Tiles
    <3>2. Extent(b) = b..(End(heap, b) - 1) /\ End(heap, b) \in Nat /\ b \in Nat
      BY <2>5
    <3>3. a \in Extent(b)
      BY <2>6, <3>1, <3>2
    <3> QED BY <3>3
  <2>10. UNION {Extent(b) : b \in G} = 0..(heap.brk - 1)
    BY <2>8, <2>9
  <2> QED BY <2>2, <2>3, <2>10
<1> QED BY <1>1, HeapInvAlways, PTL

=============================================================================
