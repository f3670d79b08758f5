----------------------------- MODULE PmmProofs -----------------------------
(***************************************************************************)
(* Proofs about the physical memory manager, for every number of frames    *)
(* and of orders, every layout of the zones, every memory map without an   *)
(* entry that starts in NORMAL, and any sequence of calls.                 *)
(***************************************************************************)
EXTENDS Pmm, FiniteSetTheorems, NaturalLemmas, TLAPS

----------------------------------------------------------------------------
(***************************************************************************)
(* Blocks: aligned runs of 2^o frames are nested or disjoint, and do not   *)
(* lie across the end of a zone.                                           *)
(***************************************************************************)

LEMMA OrdersAre ==
    /\ PMM_MAX_ORDER \in Nat /\ Orders \subseteq Nat
    /\ 0 \in Orders /\ PMM_MAX_ORDER \in Orders
    /\ \A o \in Orders : o <= PMM_MAX_ORDER /\ (o # PMM_MAX_ORDER => o + 1 \in Orders)
    /\ \A o \in Orders : o # 0 => o - 1 \in Orders
BY OrderAssumption DEF Orders

LEMMA SizePositive ==
    ASSUME NEW o \in Orders
    PROVE  Size[o] \in Nat \ {0}
<1> DEFINE S == {n \in Nat : n \in Orders => Size[n] \in Nat \ {0}}
<1>1. 0 \in S
  BY OrderAssumption
<1>2. ASSUME NEW n \in Nat, n \in S PROVE n + 1 \in S
  <2> SUFFICES ASSUME n + 1 \in Orders PROVE Size[n + 1] \in Nat \ {0}
    OBVIOUS
  <2>1. n \in Orders
    BY OrderAssumption DEF Orders
  <2>2. Size[n + 1] = 2 * Size[n]
    <3>1. n + 1 > 0 /\ (n + 1) - 1 = n
      OBVIOUS
    <3> QED BY <3>1, OrderAssumption
  <2> QED BY <1>2, <2>1, <2>2
<1> HIDE DEF S
<1>3. Nat \subseteq S
  BY <1>1, <1>2, SetInduction
<1>4. o \in S
  BY <1>3, OrdersAre
<1> QED BY <1>4 DEF S

LEMMA SizeDoubles ==
    ASSUME NEW o \in Orders, o + 1 \in Orders
    PROVE  Size[o + 1] = 2 * Size[o]
<1>1. o + 1 > 0 /\ (o + 1) - 1 = o
  BY OrdersAre
<1> QED BY <1>1, OrderAssumption

LEMMA SizeMultiple ==
    ASSUME NEW a \in Orders, NEW b \in Orders, a <= b
    PROVE  \E m \in Nat \ {0} : Size[b] = m * Size[a]
<1> DEFINE S == {n \in Nat : a + n \in Orders => \E m \in Nat \ {0} : Size[a + n] = m * Size[a]}
<1>0. a \in Nat /\ b \in Nat /\ Size[a] \in Nat
  BY OrdersAre, SizePositive
<1>1. 0 \in S
  <2>1. a + 0 = a /\ Size[a] = 1 * Size[a] /\ 1 \in Nat \ {0}
    BY <1>0
  <2> QED BY <2>1
<1>2. ASSUME NEW n \in Nat, n \in S PROVE n + 1 \in S
  <2> SUFFICES ASSUME a + (n + 1) \in Orders
               PROVE  \E m \in Nat \ {0} : Size[a + (n + 1)] = m * Size[a]
    OBVIOUS
  <2>1. a + (n + 1) = (a + n) + 1
    BY <1>0
  <2>2. a + n \in Orders
    BY <1>0, OrderAssumption DEF Orders
  <2>3. PICK m \in Nat \ {0} : Size[a + n] = m * Size[a]
    BY <1>2, <2>2
  <2>4. Size[a + (n + 1)] = 2 * Size[a + n]
    BY <2>1, <2>2, SizeDoubles
  <2>5. Size[a + (n + 1)] = (2 * m) * Size[a] /\ 2 * m \in Nat \ {0}
    BY <1>0, <2>3, <2>4
  <2> QED BY <2>5
<1> HIDE DEF S
<1>3. Nat \subseteq S
  BY <1>1, <1>2, SetInduction
<1>4. b - a \in S /\ a + (b - a) = b
  BY <1>0, <1>3
<1> QED BY <1>4 DEF S

Aligned(p, o) == p % Size[o] = 0

LEMMA AlignedIs ==
    ASSUME NEW p \in Nat, NEW o \in Orders
    PROVE  Aligned(p, o) <=> \E k \in Nat : p = k * Size[o]
<1> DEFINE n == Size[o]
<1>1. n \in Nat \ {0}
  BY SizePositive
<1>2. ASSUME Aligned(p, o) PROVE \E k \in Nat : p = k * n
  <2>1. p \div n \in Nat /\ p = (n * (p \div n)) + (p % n) /\ p % n = 0
    BY <1>1, <1>2, DivMod DEF Aligned
  <2>2. p = (p \div n) * n
    BY <1>1, <2>1
  <2> QED BY <2>1, <2>2
<1>3. ASSUME NEW k \in Nat, p = k * n PROVE Aligned(p, o)
  <2>1. (n * k + 0) % n = 0
    BY <1>1, ModUnique
  <2>2. n * k + 0 = p
    BY <1>1, <1>3
  <2> QED BY <2>1, <2>2 DEF Aligned
<1> QED BY <1>2, <1>3

LEMMA Times_Mono ==
    ASSUME NEW j \in Nat, NEW k \in Nat, NEW n \in Nat, j < k
    PROVE  j * n + n <= k * n
<1> DEFINE d == k - j - 1
<1>1. d \in Nat /\ k = j + 1 + d
  OBVIOUS
<1> HIDE DEF d
<1>2. k * n = j * n + n + d * n /\ d * n \in Nat /\ j * n \in Nat
  BY <1>1
<1> DEFINE x == k * n
           y == j * n
           z == d * n
<1>3. x = y + n + z /\ z \in Nat /\ y \in Nat
  BY <1>2
<1> HIDE DEF x, y, z
<1>4. y + n <= x
  BY <1>3
<1> QED BY <1>4 DEF x, y

\* Of an aligned block and a smaller or equal one, the one is inside the other
\* or they are apart.
LEMMA NestedOrDisjoint ==
    ASSUME NEW p \in Nat, NEW q \in Nat, NEW a \in Orders, NEW b \in Orders, a <= b,
           Aligned(p, a), Aligned(q, b)
    PROVE  \/ p + Size[a] <= q
           \/ q + Size[b] <= p
           \/ q <= p /\ p + Size[a] <= q + Size[b]
<1> DEFINE n == Size[a]
           s == Size[b]
<1>1. n \in Nat \ {0} /\ s \in Nat \ {0}
  BY SizePositive
<1>2. PICK k \in Nat : p = k * n
  BY AlignedIs
<1>3. PICK j \in Nat : q = j * s
  BY AlignedIs
<1>4. PICK m \in Nat \ {0} : s = m * n
  BY SizeMultiple
<1> HIDE DEF n, s
<1> DEFINE c == j * m
<1>5. c \in Nat /\ q = c * n /\ q + s = (c + m) * n /\ c + m \in Nat
  BY <1>1, <1>3, <1>4
<1> HIDE DEF c
<1>6. CASE k < c
  <2>1. k * n + n <= c * n
    BY <1>1, <1>5, <1>6, Times_Mono
  <2> QED BY <1>2, <1>5, <2>1 DEF n
<1>7. CASE c + m <= k
  <2>1. CASE c + m = k
    <3>1. q + s = p
      BY <1>2, <1>5, <2>1
    <3>2. q + s <= p
      BY <1>1, <3>1
    <3> QED BY <3>2 DEF s
  <2>2. CASE c + m < k
    <3>1. (c + m) * n + n <= k * n
      BY <1>1, <1>5, <2>2, Times_Mono
    <3>2. q \in Nat /\ q + s \in Nat
      BY <1>1
    <3> QED BY <1>1, <1>2, <1>5, <3>1, <3>2 DEF n, s
  <2> QED BY <1>5, <1>7, <2>1, <2>2
<1>8. CASE c <= k /\ k < c + m
  <2>1. k * n + n <= (c + m) * n
    BY <1>1, <1>5, <1>8, Times_Mono
  <2>2. c * n <= k * n
    <3>1. CASE c = k
      BY <1>1, <1>2, <3>1
    <3>2. CASE c < k
      <4>1. c * n + n <= k * n
        BY <1>1, <1>5, <3>2, Times_Mono
      <4> QED BY <1>1, <1>2, <1>5, <4>1
    <3> QED BY <1>5, <1>8, <3>1, <3>2
  <2> QED BY <1>2, <1>5, <2>1, <2>2 DEF n, s
<1> QED BY <1>5, <1>6, <1>7, <1>8, <1>1 DEF n, s

\* A block and its buddy are the halves of an aligned block twice as large.
LEMMA BuddyIs ==
    ASSUME NEW p \in Nat, NEW o \in Orders, o + 1 \in Orders, Aligned(p, o),
           NEW b, b = buddy_pfn(p, o)
    PROVE  /\ b \in Nat /\ Aligned(b, o)
           /\ \/ b = p + Size[o] /\ Aligned(p, o + 1)
              \/ p = b + Size[o] /\ Aligned(b, o + 1)
<1> DEFINE n == Size[o]
<1>1. n \in Nat \ {0} /\ Size[o + 1] = 2 * n
  BY SizePositive, SizeDoubles
<1>2. PICK k \in Nat : p = k * n
  BY AlignedIs
<1>3. p \div n = k
  <2>1. p \div n \in Nat /\ p % n \in 0..(n - 1) /\ p = (n * (p \div n)) + (p % n)
    BY <1>1, DivMod
  <2>2. p % n = 0
    BY DEF Aligned
  <2> DEFINE j == p \div n
  <2>3. k * n = j * n /\ j \in Nat
    BY <1>1, <1>2, <2>1, <2>2
  <2> HIDE DEF j, n
  <2>4. ~ (j < k) /\ ~ (k < j)
    <3>1. j < k => j * n + n <= k * n
      BY <1>1, <2>3, Times_Mono
    <3>2. k < j => k * n + n <= j * n
      BY <1>1, <2>3, Times_Mono
    <3>3. k * n \in Nat /\ j * n \in Nat
      BY <1>1, <2>3
    <3> QED BY <1>1, <2>3, <3>1, <3>2, <3>3
  <2>5. j = k
    BY <2>3, <2>4
  <2> QED BY <2>5 DEF j, n
<1>4. b = IF k % 2 = 0 THEN p + n ELSE p - n
  BY <1>3 DEF buddy_pfn
<1>5. CASE k % 2 = 0
  <2>1. PICK h \in Nat : k = 2 * h
    <3>1. k = 2 * (k \div 2) /\ k \div 2 \in Nat
      BY <1>5
    <3> QED BY <3>1
  <2>2. p = h * (2 * n) /\ b = (k + 1) * n
    BY <1>1, <1>2, <1>4, <1>5, <2>1
  <2>3. b \in Nat /\ b = p + n
    BY <1>1, <1>4, <1>5
  <2> HIDE DEF n
  <2>4. Aligned(b, o) /\ Aligned(p, o + 1)
    <3>1. p = h * Size[o + 1] /\ b = (k + 1) * Size[o] /\ k + 1 \in Nat
      BY <1>1, <2>2 DEF n
    <3> QED BY <2>3, <3>1, AlignedIs
  <2> QED BY <2>3, <2>4 DEF n
<1>6. CASE k % 2 # 0
  <2>1. PICK h \in Nat : k = 2 * h + 1
    <3>1. k = 2 * (k \div 2) + 1 /\ k \div 2 \in Nat
      BY <1>6
    <3> QED BY <3>1
  <2>2. k - 1 \in Nat /\ p = (k - 1) * n + n /\ (k - 1) * n \in Nat
    BY <1>1, <1>2, <2>1
  <2>3. b = (k - 1) * n /\ b = h * (2 * n)
    <3>1. b = p - n
      BY <1>4, <1>6
    <3> DEFINE x == (k - 1) * n
    <3>2. x = h * (2 * n)
      BY <1>1, <2>1
    <3>3. p = x + n /\ x \in Nat
      BY <2>2
    <3> HIDE DEF x
    <3>4. b = x
      BY <1>1, <3>1, <3>3
    <3> QED BY <3>2, <3>4 DEF x
  <2>4. b \in Nat /\ p = b + n
    BY <2>2, <2>3
  <2> HIDE DEF n
  <2>5. Aligned(b, o) /\ Aligned(b, o + 1)
    <3>1. b = h * Size[o + 1] /\ b = (k - 1) * Size[o]
      BY <1>1, <2>3 DEF n
    <3> QED BY <2>2, <2>4, <3>1, AlignedIs
  <2> QED BY <2>4, <2>5 DEF n
<1> QED BY <1>5, <1>6

\* A block twice as large has two aligned halves.
LEMMA HalvesAligned ==
    ASSUME NEW p \in Nat, NEW o \in Orders, o + 1 \in Orders, Aligned(p, o + 1)
    PROVE  Aligned(p, o) /\ Aligned(p + Size[o], o)
<1> DEFINE n == Size[o]
<1>1. n \in Nat \ {0} /\ Size[o + 1] = 2 * n
  BY SizePositive, SizeDoubles
<1>2. PICK k \in Nat : p = k * Size[o + 1]
  BY AlignedIs
<1>3. p = (2 * k) * n /\ p + n = (2 * k + 1) * n /\ 2 * k \in Nat /\ 2 * k + 1 \in Nat
  BY <1>1, <1>2
<1>4. p + n \in Nat
  BY <1>1
<1> QED BY <1>3, <1>4, AlignedIs

LEMMA ZonesAre ==
    /\ {NPages, LowEnd, KernelEnd, DmaEnd, NormalEnd} \subseteq Nat
    /\ 0 < LowEnd /\ LowEnd < KernelEnd /\ KernelEnd < DmaEnd
    /\ DmaEnd < NormalEnd /\ NormalEnd <= NPages
    /\ Aligned(DmaEnd, PMM_MAX_ORDER) /\ Aligned(NormalEnd, PMM_MAX_ORDER)
BY LayoutAssumption DEF Aligned

\* A block lies in one zone.
LEMMA OneZone ==
    ASSUME NEW p \in Nat, NEW o \in Orders, Aligned(p, o), NEW f \in p..(p + Size[o] - 1)
    PROVE  select_zone(f) = select_zone(p)
<1>1. Size[o] \in Nat \ {0} /\ Size[PMM_MAX_ORDER] \in Nat \ {0} /\ o <= PMM_MAX_ORDER
      /\ PMM_MAX_ORDER \in Orders
  BY SizePositive, OrdersAre
<1>2. \A E \in Nat : Aligned(E, PMM_MAX_ORDER) /\ p < E => p + Size[o] <= E
  <2> SUFFICES ASSUME NEW E \in Nat, Aligned(E, PMM_MAX_ORDER), p < E
               PROVE  p + Size[o] <= E
    OBVIOUS
  <2>1. \/ p + Size[o] <= E
        \/ E + Size[PMM_MAX_ORDER] <= p
        \/ E <= p /\ p + Size[o] <= E + Size[PMM_MAX_ORDER]
    BY <1>1, NestedOrDisjoint
  <2> QED BY <1>1, <2>1
<1>3. p < DmaEnd => p + Size[o] <= DmaEnd
  BY <1>2, ZonesAre
<1>4. p < NormalEnd => p + Size[o] <= NormalEnd
  BY <1>2, ZonesAre
<1> QED BY <1>1, <1>3, <1>4, ZonesAre DEF select_zone

\* The block buddy_free_range adds next is aligned and ends in the range.
LEMMA RangeOrderFits ==
    ASSUME NEW p \in Nat, NEW end \in Nat, p < end
    PROVE  /\ RangeOrder(p, end) \in Orders
           /\ Aligned(p, RangeOrder(p, end)) /\ p + Size[RangeOrder(p, end)] <= end
<1> DEFINE F == {o \in Orders : p % Size[o] = 0 /\ p + Size[o] <= end}
           T == {PMM_MAX_ORDER - o : o \in F}
<1>1. Size[0] = 1 /\ p % 1 = 0 /\ 0 \in Orders /\ PMM_MAX_ORDER \in Nat
  BY OrderAssumption, OrdersAre
<1>2. 0 \in F
  BY <1>1
<1>3. {0} \cup F = F
  BY <1>2
<1>4. T \in SUBSET Nat /\ T # {}
  <2>1. \A o \in F : PMM_MAX_ORDER - o \in Nat
    BY OrderAssumption DEF Orders
  <2> QED BY <1>2, <2>1
<1>5. PICK t \in T : \A x \in T : t <= x
  BY <1>4, LeastNat
<1>6. PICK o \in F : t = PMM_MAX_ORDER - o
  BY <1>5
<1>7. \A x \in F : o >= x
  <2> SUFFICES ASSUME NEW x \in F PROVE o >= x
    OBVIOUS
  <2>1. PMM_MAX_ORDER - x \in T /\ x \in Nat /\ o \in Nat
    BY OrdersAre
  <2>2. t <= PMM_MAX_ORDER - x
    BY <1>5, <2>1
  <2> HIDE DEF F, T
  <2> QED BY <1>1, <1>6, <2>1, <2>2
<1>8. Max(F) \in F
  BY <1>6, <1>7 DEF Max
<1>9. RangeOrder(p, end) \in F
  BY <1>3, <1>8 DEF RangeOrder
<1> QED BY <1>9 DEF Aligned

----------------------------------------------------------------------------
(***************************************************************************)
(* The free lists.  H is the set of frames that head a free block; a block *)
(* is on the list of its zone and order.  The rank rk falls along a list,  *)
(* so that no list runs in a circle.                                       *)
(***************************************************************************)
SameList(od, p, q) == select_zone(p) = select_zone(q) /\ od[p] = od[q]

Forward(H, od, nx, pv, rk) ==
    \A p \in H : nx[p] # NULL =>
        nx[p] \in H /\ SameList(od, p, nx[p]) /\ pv[nx[p]] = p /\ rk[nx[p]] < rk[p]

Backward(H, od, nx, pv, fl) ==
    \A p \in H : IF pv[p] = NULL
                 THEN fl[select_zone(p)][od[p]] = p
                 ELSE pv[p] \in H /\ SameList(od, p, pv[p]) /\ nx[pv[p]] = p

Heads(H, od, pv, fl) ==
    \A z \in Zones, o \in Orders : fl[z][o] # NULL =>
        LET p == fl[z][o] IN p \in H /\ select_zone(p) = z /\ od[p] = o /\ pv[p] = NULL

Links == [Pfn -> Pfn \cup {NULL}]
HeadsType == [Zones -> [Orders -> Pfn \cup {NULL}]]

Lists(H, od, nx, pv, fl, rk) ==
    /\ H \subseteq Pfn /\ rk \in [Pfn -> Nat]
    /\ Forward(H, od, nx, pv, rk)
    /\ Backward(H, od, nx, pv, fl)
    /\ Heads(H, od, pv, fl)

\* What the code does to the links: block p of order o is put in front of
\* its list's head, or taken out from between its neighbours.
Pushed(od, nx, pv, fl, p, o, od2, nx2, pv2, fl2) ==
    LET z == select_zone(p)
        head == fl[z][o]
    IN  /\ od2 = [od EXCEPT ![p] = o]
        /\ nx2 = [nx EXCEPT ![p] = head]
        /\ pv2 = [q \in Pfn |-> IF q = head THEN p ELSE IF q = p THEN NULL ELSE pv[q]]
        /\ fl2 = [fl EXCEPT ![z][o] = p]

Skipped(od, nx, pv, fl, p, nx2, pv2, fl2) ==
    /\ nx2 = IF pv[p] = NULL THEN nx ELSE [nx EXCEPT ![pv[p]] = nx[p]]
    /\ pv2 = IF nx[p] = NULL THEN pv ELSE [pv EXCEPT ![nx[p]] = pv[p]]
    /\ fl2 = IF pv[p] = NULL THEN [fl EXCEPT ![select_zone(p)][od[p]] = nx[p]] ELSE fl

LEMMA ZoneType == \A p : select_zone(p) \in Zones
BY DEF select_zone, Zones

\* A block is put at the head of its list.
LEMMA ListPush ==
    ASSUME NEW H, NEW od \in [Pfn -> Orders], NEW nx \in Links, NEW pv \in Links,
           NEW fl \in HeadsType, NEW rk, Lists(H, od, nx, pv, fl, rk),
           NEW p \in Pfn, p \notin H, NEW o \in Orders,
           NEW od2, NEW nx2, NEW pv2, NEW fl2, Pushed(od, nx, pv, fl, p, o, od2, nx2, pv2, fl2)
    PROVE  /\ \E r : Lists(H \cup {p}, od2, nx2, pv2, fl2, r)
           /\ od2 \in [Pfn -> Orders] /\ nx2 \in Links /\ pv2 \in Links /\ fl2 \in HeadsType
<1> DEFINE z == select_zone(p)
           head == fl[z][o]
           v == IF head = NULL THEN 0 ELSE rk[head] + 1
           r == [rk EXCEPT ![p] = v]
           K == H \cup {p}
<1>0. /\ H \subseteq Pfn /\ rk \in [Pfn -> Nat] /\ NULL \notin Pfn
      /\ Forward(H, od, nx, pv, rk) /\ Backward(H, od, nx, pv, fl) /\ Heads(H, od, pv, fl)
  BY NullAssumption DEF Lists
<1>1. z = select_zone(p) /\ head = fl[z][o] /\ z \in Zones /\ \A q : select_zone(q) \in Zones
  BY ZoneType
<1>2. head \in Pfn \cup {NULL}
  BY <1>1 DEF HeadsType
<1>3. head # NULL => head \in H /\ select_zone(head) = z /\ od[head] = o /\ pv[head] = NULL
                     /\ head # p
  BY <1>0, <1>1 DEF Heads
<1>4. od2 \in [Pfn -> Orders] /\ od2[p] = o /\ \A q \in Pfn : q # p => od2[q] = od[q]
  BY DEF Pushed
<1>5. nx2 \in Links /\ nx2[p] = head /\ \A q \in Pfn : q # p => nx2[q] = nx[q]
  BY <1>2 DEF Links, Pushed
<1>6. /\ pv2 \in Links /\ pv2[p] = NULL /\ (head # NULL => pv2[head] = p)
      /\ \A q \in Pfn : q # p /\ q # head => pv2[q] = pv[q]
  BY <1>0, <1>2, <1>3 DEF Links, Pushed
<1>7. /\ fl2 \in HeadsType /\ fl2[z][o] = p
      /\ \A y \in Zones, k \in Orders : ~ (y = z /\ k = o) => fl2[y][k] = fl[y][k]
  BY <1>1 DEF HeadsType, Pushed
<1> HIDE DEF z, head
<1>8. r \in [Pfn -> Nat] /\ r[p] = v /\ \A q \in Pfn : q # p => r[q] = rk[q]
  <2>1. v \in Nat
    <3>1. CASE head = NULL
      BY <3>1
    <3>2. CASE head # NULL
      <4>1. rk[head] \in Nat
        BY <1>0, <1>2, <3>2
      <4>2. v = rk[head] + 1
        BY <3>2
      <4> QED BY <4>1, <4>2
    <3> QED BY <3>1, <3>2
  <2> HIDE DEF v
  <2> QED BY <1>0, <2>1
<1> HIDE DEF r
<1>9. Forward(K, od2, nx2, pv2, r)
  <2> SUFFICES ASSUME NEW q \in K, nx2[q] # NULL
               PROVE  nx2[q] \in K /\ SameList(od2, q, nx2[q]) /\ pv2[nx2[q]] = q /\ r[nx2[q]] < r[q]
    BY DEF Forward
  <2>1. CASE q = p
    <3>1. nx2[q] = head /\ head \in H /\ head \in Pfn
      BY <1>0, <1>3, <1>5, <2>1
    <3>2. r[head] < r[p]
      <4>1. head # NULL /\ head # p
        BY <1>0, <1>3, <3>1
      <4>2. r[head] = rk[head] /\ r[p] = rk[head] + 1
        BY <1>8, <3>1, <4>1
      <4>3. rk[head] \in Nat
        BY <1>0, <3>1
      <4> QED BY <4>2, <4>3
    <3> QED BY <1>1, <1>3, <1>4, <1>6, <2>1, <3>1, <3>2 DEF SameList
  <2>2. CASE q # p
    <3>1. q \in H /\ q \in Pfn /\ nx2[q] = nx[q]
      BY <1>0, <1>5, <2>2
    <3>2. nx[q] \in H /\ SameList(od, q, nx[q]) /\ pv[nx[q]] = q /\ rk[nx[q]] < rk[q]
      BY <1>0, <3>1 DEF Forward
    <3>3. nx[q] # p /\ nx[q] \in Pfn /\ nx[q] # head
      BY <1>0, <1>3, <3>1, <3>2
    <3> QED BY <1>4, <1>6, <1>8, <2>2, <3>1, <3>2, <3>3 DEF SameList
  <2> QED BY <2>1, <2>2
<1>10. Backward(K, od2, nx2, pv2, fl2)
  <2> SUFFICES ASSUME NEW q \in K
               PROVE  IF pv2[q] = NULL
                      THEN fl2[select_zone(q)][od2[q]] = q
                      ELSE pv2[q] \in K /\ SameList(od2, q, pv2[q]) /\ nx2[pv2[q]] = q
    BY DEF Backward
  <2>1. CASE q = p
    BY <1>1, <1>4, <1>6, <1>7, <2>1
  <2>2. CASE q # p /\ q = head
    <3>1. head \in H /\ head # NULL /\ pv2[q] = p /\ p # NULL
      BY <1>0, <1>3, <1>6, <2>2
    <3> QED BY <1>0, <1>1, <1>3, <1>4, <1>5, <2>2, <3>1 DEF SameList
  <2>3. CASE q # p /\ q # head
    <3>1. q \in H /\ q \in Pfn /\ pv2[q] = pv[q] /\ od2[q] = od[q] /\ od[q] \in Orders
      BY <1>0, <1>4, <1>6, <2>3
    <3>2. CASE pv[q] = NULL
      <4>1. fl[select_zone(q)][od[q]] = q
        BY <1>0, <3>1, <3>2 DEF Backward
      <4>2. ~ (select_zone(q) = z /\ od[q] = o)
        BY <1>1, <2>3, <4>1
      <4> QED BY <1>1, <1>7, <3>1, <3>2, <4>1, <4>2
    <3>3. CASE pv[q] # NULL
      <4>1. pv[q] \in H /\ SameList(od, q, pv[q]) /\ nx[pv[q]] = q
        BY <1>0, <3>1, <3>3 DEF Backward
      <4>2. pv[q] # p /\ pv[q] \in Pfn
        BY <1>0, <4>1
      <4> QED BY <1>4, <1>5, <3>1, <3>3, <4>1, <4>2 DEF SameList
    <3> QED BY <3>2, <3>3
  <2> QED BY <2>1, <2>2, <2>3
<1>11. Heads(K, od2, pv2, fl2)
  <2> SUFFICES ASSUME NEW y \in Zones, NEW k \in Orders, fl2[y][k] # NULL
               PROVE  /\ fl2[y][k] \in K /\ select_zone(fl2[y][k]) = y
                      /\ od2[fl2[y][k]] = k /\ pv2[fl2[y][k]] = NULL
    BY DEF Heads
  <2>1. CASE y = z /\ k = o
    BY <1>1, <1>4, <1>6, <1>7, <2>1
  <2>2. CASE ~ (y = z /\ k = o)
    <3> DEFINE f == fl[y][k]
    <3>1. fl2[y][k] = f
      BY <1>7, <2>2
    <3>2. f \in H /\ select_zone(f) = y /\ od[f] = k /\ pv[f] = NULL
      BY <1>0, <3>1 DEF Heads
    <3> HIDE DEF f
    <3>3. f # p /\ f # head /\ f \in Pfn
      BY <1>0, <1>3, <2>2, <3>2
    <3> QED BY <1>4, <1>6, <3>1, <3>2, <3>3
  <2> QED BY <2>1, <2>2
<1>12. K \subseteq Pfn
  BY <1>0
<1>13. Lists(K, od2, nx2, pv2, fl2, r)
  BY <1>8, <1>9, <1>10, <1>11, <1>12 DEF Lists
<1> QED BY <1>4, <1>5, <1>6, <1>7, <1>13

\* A block is taken out of its list.
LEMMA ListUnlink ==
    ASSUME NEW H, NEW od \in [Pfn -> Orders], NEW nx \in Links, NEW pv \in Links,
           NEW fl \in HeadsType, NEW rk, Lists(H, od, nx, pv, fl, rk),
           NEW p \in H, NEW nx2, NEW pv2, NEW fl2, Skipped(od, nx, pv, fl, p, nx2, pv2, fl2)
    PROVE  /\ Lists(H \ {p}, od, nx2, pv2, fl2, rk)
           /\ nx2 \in Links /\ pv2 \in Links /\ fl2 \in HeadsType
<1> DEFINE K == H \ {p}
           n == nx[p]
           v == pv[p]
           z == select_zone(p)
           o == od[p]
<1>0. /\ H \subseteq Pfn /\ rk \in [Pfn -> Nat] /\ NULL \notin Pfn
      /\ Forward(H, od, nx, pv, rk) /\ Backward(H, od, nx, pv, fl) /\ Heads(H, od, pv, fl)
  BY NullAssumption DEF Lists
<1>1. z \in Zones /\ (\A q : select_zone(q) \in Zones) /\ p \in Pfn /\ o \in Orders
      /\ n \in Pfn \cup {NULL} /\ v \in Pfn \cup {NULL}
  BY <1>0, ZoneType DEF Links
<1>2. n # NULL => n \in H /\ SameList(od, p, n) /\ pv[n] = p /\ rk[n] < rk[p] /\ n # p
  <2> SUFFICES ASSUME n # NULL PROVE n \in H /\ SameList(od, p, n) /\ pv[n] = p /\ rk[n] < rk[p] /\ n # p
    OBVIOUS
  <2>1. n \in H /\ SameList(od, p, n) /\ pv[n] = p /\ rk[n] < rk[p]
    BY <1>0 DEF Forward
  <2>2. rk[p] \in Nat
    BY <1>0, <1>1
  <2> QED BY <2>1, <2>2
<1>3. v # NULL => v \in H /\ SameList(od, p, v) /\ nx[v] = p /\ rk[p] < rk[v] /\ v # p
  <2> SUFFICES ASSUME v # NULL PROVE v \in H /\ SameList(od, p, v) /\ nx[v] = p /\ rk[p] < rk[v] /\ v # p
    OBVIOUS
  <2>1. v \in H /\ SameList(od, p, v) /\ nx[v] = p
    BY <1>0 DEF Backward
  <2>2. rk[p] < rk[v] /\ rk[p] \in Nat
    BY <1>0, <1>1, <2>1 DEF Forward
  <2> QED BY <2>1, <2>2
<1>4. v = NULL => fl[z][o] = p
  BY <1>0 DEF Backward
<1>5. /\ nx2 \in Links /\ (v # NULL => nx2[v] = n)
      /\ \A q \in Pfn : q # v => nx2[q] = nx[q]
  BY <1>0, <1>1 DEF Links, Skipped
<1>6. /\ pv2 \in Links /\ (n # NULL => pv2[n] = v)
      /\ \A q \in Pfn : q # n => pv2[q] = pv[q]
  BY <1>0, <1>1 DEF Links, Skipped
<1>7. /\ fl2 \in HeadsType
      /\ v = NULL => fl2[z][o] = n
      /\ v # NULL => fl2 = fl
      /\ \A y \in Zones, k \in Orders : ~ (y = z /\ k = o) => fl2[y][k] = fl[y][k]
  BY <1>1 DEF HeadsType, Skipped
<1> HIDE DEF n, v
<1>9. Forward(K, od, nx2, pv2, rk)
  <2> SUFFICES ASSUME NEW q \in K, nx2[q] # NULL
               PROVE  nx2[q] \in K /\ SameList(od, q, nx2[q]) /\ pv2[nx2[q]] = q /\ rk[nx2[q]] < rk[q]
    BY DEF Forward
  <2>1. CASE q = v
    <3>1. nx2[q] = n /\ n # NULL /\ v # NULL /\ n \in Pfn /\ v \in Pfn
      BY <1>0, <1>1, <1>5, <2>1
    <3>2. rk[n] < rk[v]
      <4>1. rk[n] \in Nat /\ rk[p] \in Nat /\ rk[v] \in Nat
        BY <1>0, <1>1, <3>1
      <4> QED BY <1>2, <1>3, <3>1, <4>1
    <3>3. pv2[n] = v /\ n \in K /\ SameList(od, v, n)
      BY <1>2, <1>3, <1>6, <3>1 DEF SameList
    <3> QED BY <2>1, <3>1, <3>2, <3>3
  <2>2. CASE q # v
    <3>1. q \in H /\ q \in Pfn /\ nx2[q] = nx[q]
      BY <1>0, <1>5, <2>2
    <3>2. nx[q] \in H /\ SameList(od, q, nx[q]) /\ pv[nx[q]] = q /\ rk[nx[q]] < rk[q]
      BY <1>0, <3>1 DEF Forward
    <3>3. nx[q] # p
      BY <2>2, <3>2 DEF v
    <3>4. nx[q] # n
      BY <1>0, <1>2, <3>1, <3>2
    <3> QED BY <1>0, <1>6, <3>1, <3>2, <3>3, <3>4
  <2> QED BY <2>1, <2>2
<1>10. Backward(K, od, nx2, pv2, fl2)
  <2> SUFFICES ASSUME NEW q \in K
               PROVE  IF pv2[q] = NULL
                      THEN fl2[select_zone(q)][od[q]] = q
                      ELSE pv2[q] \in K /\ SameList(od, q, pv2[q]) /\ nx2[pv2[q]] = q
    BY DEF Backward
  <2>1. CASE q = n
    <3>1. n # NULL /\ pv2[q] = v /\ select_zone(q) = z /\ od[q] = o
      BY <1>0, <1>2, <1>6, <2>1 DEF SameList
    <3>2. CASE v = NULL
      BY <1>7, <2>1, <3>1, <3>2
    <3>3. CASE v # NULL
      BY <1>2, <1>3, <1>5, <2>1, <3>1, <3>3 DEF SameList
    <3> QED BY <3>2, <3>3
  <2>2. CASE q # n
    <3>1. q \in H /\ q \in Pfn /\ pv2[q] = pv[q] /\ od[q] \in Orders
      BY <1>0, <1>6, <2>2
    <3>2. CASE pv[q] = NULL
      <4>1. fl[select_zone(q)][od[q]] = q
        BY <1>0, <3>1, <3>2 DEF Backward
      <4>2. fl2[select_zone(q)][od[q]] = q
        <5>1. CASE v = NULL
          <6>1. ~ (select_zone(q) = z /\ od[q] = o)
            BY <1>4, <4>1, <5>1
          <6> QED BY <1>1, <1>7, <3>1, <4>1, <6>1
        <5>2. CASE v # NULL
          BY <1>7, <4>1, <5>2
        <5> QED BY <5>1, <5>2
      <4> QED BY <3>1, <3>2, <4>2
    <3>3. CASE pv[q] # NULL
      <4>1. pv[q] \in H /\ SameList(od, q, pv[q]) /\ nx[pv[q]] = q
        BY <1>0, <3>1, <3>3 DEF Backward
      <4>2. pv[q] # p /\ pv[q] # v
        BY <1>0, <1>3, <2>2, <4>1 DEF n
      <4>3. nx2[pv[q]] = q
        BY <1>0, <1>5, <4>1, <4>2
      <4> QED BY <3>1, <3>3, <4>1, <4>2, <4>3
    <3> QED BY <3>2, <3>3
  <2> QED BY <2>1, <2>2
<1>11. Heads(K, od, pv2, fl2)
  <2> SUFFICES ASSUME NEW y \in Zones, NEW k \in Orders, fl2[y][k] # NULL
               PROVE  /\ fl2[y][k] \in K /\ select_zone(fl2[y][k]) = y
                      /\ od[fl2[y][k]] = k /\ pv2[fl2[y][k]] = NULL
    BY DEF Heads
  <2>1. CASE y = z /\ k = o /\ v = NULL
    <3>1. fl2[y][k] = n /\ n # NULL
      BY <1>7, <2>1
    <3> QED BY <1>2, <1>6, <2>1, <3>1 DEF SameList
  <2>2. CASE ~ (y = z /\ k = o /\ v = NULL)
    <3> DEFINE f == fl[y][k]
    <3>1. fl2[y][k] = f
      BY <1>7, <2>2
    <3>2. f \in H /\ select_zone(f) = y /\ od[f] = k /\ pv[f] = NULL
      BY <1>0, <3>1 DEF Heads
    <3> HIDE DEF f
    <3>3. f # p
      BY <2>2, <3>2 DEF v
    <3>4. f # n
      BY <1>0, <1>1, <1>2, <3>2
    <3> QED BY <1>0, <1>6, <3>1, <3>2, <3>3, <3>4
  <2> QED BY <2>1, <2>2
<1>12. K \subseteq Pfn
  BY <1>0
<1> QED BY <1>0, <1>5, <1>6, <1>7, <1>9, <1>10, <1>11, <1>12 DEF Lists
----------------------------------------------------------------------------
(***************************************************************************)
(* The blocks.  Parted(BS, T): the blocks BS are aligned, no two of them   *)
(* overlap, and together they are the frames T.                            *)
(***************************************************************************)
In(f, b) == b[1] <= f /\ f < b[1] + Size[b[2]]
Apart(b, d) == b[1] + Size[b[2]] <= d[1] \/ d[1] + Size[d[2]] <= b[1]

Parted(BS, T) ==
    /\ BS \subseteq Pfn \X Orders /\ T \subseteq Pfn
    /\ \A b \in BS : Aligned(b[1], b[2])
    /\ \A b, d \in BS : b # d => Apart(b, d)
    /\ \A f \in Nat : f \in T <=> \E b \in BS : In(f, b)

LEMMA PfnNat == Pfn \subseteq Nat /\ \A p \in Pfn : p < NPages
BY ZonesAre DEF Pfn

\* A block's frames are among those the blocks cover.
LEMMA BlockInside ==
    ASSUME NEW BS, NEW T, Parted(BS, T), NEW b \in BS
    PROVE  /\ b[1] \in Pfn /\ b[1] \in Nat /\ b[2] \in Orders /\ b = <<b[1], b[2]>>
           /\ Size[b[2]] \in Nat \ {0} /\ Aligned(b[1], b[2])
           /\ \A f \in Nat : In(f, b) => f \in T
           /\ b[1] \in T /\ In(b[1], b)
           /\ b[1] + Size[b[2]] <= NPages
<1>1. b[1] \in Pfn /\ b[2] \in Orders /\ b = <<b[1], b[2]>> /\ Aligned(b[1], b[2])
  BY DEF Parted
<1>2. b[1] \in Nat /\ Size[b[2]] \in Nat \ {0}
  BY <1>1, PfnNat, SizePositive
<1>3. \A f \in Nat : In(f, b) => f \in T
  BY DEF Parted
<1>4. In(b[1], b) /\ In(b[1] + Size[b[2]] - 1, b) /\ b[1] + Size[b[2]] - 1 \in Nat
  BY <1>2 DEF In
<1>5. b[1] + Size[b[2]] - 1 \in Pfn
  BY <1>3, <1>4 DEF Parted
<1>6. b[1] + Size[b[2]] - 1 < NPages
  BY <1>5, PfnNat
<1>7. b[1] + Size[b[2]] <= NPages
  BY <1>2, <1>6, ZonesAre
<1> QED BY <1>1, <1>2, <1>3, <1>4, <1>7

LEMMA PartAdd ==
    ASSUME NEW BS, NEW T, Parted(BS, T), NEW p \in Pfn, NEW o \in Orders, Aligned(p, o),
           p + Size[o] <= NPages, \A f \in T : ~ In(f, <<p, o>>),
           NEW U, U \subseteq Pfn, \A f \in Nat : f \in U <=> f \in T \/ In(f, <<p, o>>)
    PROVE  Parted(BS \cup {<<p, o>>}, U) /\ <<p, o>> \notin BS
<1> DEFINE n == <<p, o>>
<1>1. n[1] = p /\ n[2] = o /\ n \in Pfn \X Orders /\ p \in Nat /\ Size[o] \in Nat \ {0} /\ In(p, n)
  BY PfnNat, SizePositive DEF In
<1>2. ASSUME NEW b \in BS PROVE Apart(b, n) /\ Apart(n, b)
  <2>1. /\ b[1] \in Nat /\ Size[b[2]] \in Nat \ {0} /\ b[1] \in T
        /\ \A f \in Nat : In(f, b) => f \in T
    BY <1>2, BlockInside
  <2>2. ~ In(b[1], n) /\ ~ In(p, b)
    BY <1>1, <2>1
  <2> QED BY <1>1, <2>1, <2>2 DEF In, Apart
<1>3. n \notin BS
  <2> SUFFICES ASSUME n \in BS PROVE FALSE
    OBVIOUS
  <2>1. Apart(n, n)
    BY <1>2
  <2> QED BY <1>1, <2>1 DEF Apart
<1>4. \A b \in BS \cup {n} : Aligned(b[1], b[2])
  BY <1>1 DEF Parted
<1>5. \A b, d \in BS \cup {n} : b # d => Apart(b, d)
  BY <1>2 DEF Parted
<1>6. \A f \in Nat : f \in U <=> \E b \in BS \cup {n} : In(f, b)
  BY DEF Parted
<1> QED BY <1>1, <1>3, <1>4, <1>5, <1>6 DEF Parted

\* A block becomes its two halves, or two halves one block.
LEMMA PartHalve ==
    ASSUME NEW BS, NEW T, NEW p \in Nat, NEW o \in Orders, o + 1 \in Orders,
           Parted(BS, T), <<p, o + 1>> \in BS,
           NEW CS, CS = (BS \ {<<p, o + 1>>}) \cup {<<p, o>>, <<p + Size[o], o>>}
    PROVE  /\ Parted(CS, T) /\ p \in Pfn /\ p + Size[o] \in Pfn
           /\ <<p, o>> \notin BS /\ <<p + Size[o], o>> \notin BS /\ p + Size[o] \in T
<1> DEFINE w == <<p, o + 1>>
           l == <<p, o>>
           r == <<p + Size[o], o>>
<1>1. /\ w[1] = p /\ w[2] = o + 1 /\ l[1] = p /\ l[2] = o /\ r[1] = p + Size[o] /\ r[2] = o
      /\ Size[o] \in Nat \ {0} /\ Size[o + 1] = 2 * Size[o] /\ p + Size[o] \in Nat
  BY SizePositive, SizeDoubles
<1> HIDE DEF w, l, r
<1>2. /\ p \in Pfn /\ Aligned(p, o + 1) /\ \A f \in Nat : In(f, w) => f \in T
  BY <1>1, BlockInside DEF w
<1>3. Aligned(p, o) /\ Aligned(p + Size[o], o)
  BY <1>2, HalvesAligned
<1>4. \A f \in Nat : In(f, w) <=> In(f, l) \/ In(f, r)
  BY <1>1 DEF In
<1>5. p + Size[o] \in T /\ p + Size[o] \in Pfn /\ In(p + Size[o], w)
  <2>1. In(p + Size[o], w)
    BY <1>1 DEF In
  <2> QED BY <1>1, <1>2, <2>1 DEF Parted
<1>6. ASSUME NEW b \in BS, b # w PROVE Apart(b, l) /\ Apart(l, b) /\ Apart(b, r) /\ Apart(r, b)
  <2>1. b[1] \in Nat /\ Size[b[2]] \in Nat \ {0}
    BY <1>6, BlockInside
  <2>2. Apart(b, w)
    BY <1>6 DEF Parted, w
  <2> QED BY <1>1, <2>1, <2>2 DEF Apart
<1>7. l # w /\ r # w /\ l # r
  <2>1. o # o + 1 /\ p # p + Size[o]
    BY <1>1, OrdersAre
  <2> QED BY <1>1, <2>1
<1>8. l \notin BS /\ r \notin BS
  <2>1. ~ Apart(l, l) /\ ~ Apart(r, r)
    BY <1>1 DEF Apart
  <2> QED BY <1>6, <1>7, <2>1
<1>9. CS \subseteq Pfn \X Orders /\ T \subseteq Pfn
  BY <1>2, <1>5 DEF Parted, l, r
<1>10. \A b \in CS : Aligned(b[1], b[2])
  BY <1>1, <1>3 DEF Parted, l, r
<1>11. \A b, d \in CS : b # d => Apart(b, d)
  <2>1. Apart(l, r) /\ Apart(r, l)
    BY <1>1 DEF Apart
  <2>2. CS = (BS \ {w}) \cup {l, r}
    BY DEF w, l, r
  <2>3. \A b, d \in BS : b # d => Apart(b, d)
    BY DEF Parted
  <2> QED BY <1>6, <2>1, <2>2, <2>3
<1>12. \A f \in Nat : f \in T <=> \E b \in CS : In(f, b)
  <2>1. CS = (BS \ {w}) \cup {l, r} /\ w \in BS
    BY DEF w, l, r
  <2>2. \A f \in Nat : f \in T <=> \E b \in BS : In(f, b)
    BY DEF Parted
  <2> QED BY <1>4, <2>1, <2>2
<1> QED BY <1>2, <1>5, <1>8, <1>9, <1>10, <1>11, <1>12 DEF Parted, l, r

LEMMA PartMerge ==
    ASSUME NEW BS, NEW T, NEW p \in Nat, NEW o \in Orders, o + 1 \in Orders,
           Parted(BS, T), <<p, o>> \in BS, <<p + Size[o], o>> \in BS, Aligned(p, o + 1),
           NEW CS, CS = (BS \ {<<p, o>>, <<p + Size[o], o>>}) \cup {<<p, o + 1>>}
    PROVE  Parted(CS, T) /\ <<p, o + 1>> \notin BS
<1> DEFINE w == <<p, o + 1>>
           l == <<p, o>>
           r == <<p + Size[o], o>>
<1>1. /\ w[1] = p /\ w[2] = o + 1 /\ l[1] = p /\ l[2] = o /\ r[1] = p + Size[o] /\ r[2] = o
      /\ Size[o] \in Nat \ {0} /\ Size[o + 1] = 2 * Size[o] /\ p + Size[o] \in Nat
  BY SizePositive, SizeDoubles
<1> HIDE DEF w, l, r
<1>2. p \in Pfn /\ l \in BS /\ r \in BS
  BY <1>1, BlockInside DEF l, r
<1>3. \A f \in Nat : In(f, w) <=> In(f, l) \/ In(f, r)
  BY <1>1 DEF In
<1>4. ASSUME NEW b \in BS, b # l, b # r PROVE Apart(b, w) /\ Apart(w, b)
  <2>1. b[1] \in Nat /\ Size[b[2]] \in Nat \ {0}
    BY <1>4, BlockInside
  <2>2. Apart(b, l) /\ Apart(b, r)
    BY <1>2, <1>4 DEF Parted
  <2> QED BY <1>1, <2>1, <2>2 DEF Apart
<1>5. w # l /\ w # r
  <2>1. o # o + 1
    BY OrdersAre
  <2> QED BY <1>1, <2>1
<1>6. w \notin BS
  <2>1. ~ Apart(w, w)
    BY <1>1 DEF Apart
  <2> QED BY <1>4, <1>5, <2>1
<1>7. CS \subseteq Pfn \X Orders /\ T \subseteq Pfn
  BY <1>2 DEF Parted, w
<1>8. CS = (BS \ {l, r}) \cup {w}
  BY DEF w, l, r
<1>9. \A b \in CS : Aligned(b[1], b[2])
  BY <1>1, <1>8 DEF Parted
<1>10. \A b, d \in CS : b # d => Apart(b, d)
  <2>1. \A b, d \in BS : b # d => Apart(b, d)
    BY DEF Parted
  <2> QED BY <1>4, <1>8, <2>1
<1>11. \A f \in Nat : f \in T <=> \E b \in CS : In(f, b)
  <2>1. \A f \in Nat : f \in T <=> \E b \in BS : In(f, b)
    BY DEF Parted
  <2> QED BY <1>2, <1>3, <1>8, <2>1
<1> QED BY <1>6, <1>7, <1>9, <1>10, <1>11 DEF Parted, w

\* Two blocks with the same first frame are the same block.
LEMMA SameHead ==
    ASSUME NEW BS, NEW T, Parted(BS, T), NEW b \in BS, NEW d \in BS, b[1] = d[1]
    PROVE  b = d
<1> SUFFICES ASSUME b # d PROVE FALSE
  OBVIOUS
<1>1. Apart(b, d)
  BY DEF Parted
<1>2. b[1] \in Nat /\ Size[b[2]] \in Nat \ {0} /\ Size[d[2]] \in Nat \ {0}
  BY BlockInside
<1> QED BY <1>1, <1>2 DEF Apart

\* If a frame f that could be the buddy of a block in hand is in one of the
\* blocks, that block starts at f and is no larger than the buddy would be.
LEMMA BuddyBlock ==
    ASSUME NEW BS, NEW T, Parted(BS, T), NEW p, NEW o \in Orders, o + 1 \in Orders,
           <<p, o>> \in BS, NEW b, b = buddy_pfn(p, o), b \in T
    PROVE  \E d \in BS : d[1] = b /\ d[2] <= o
<1>1. p \in Nat /\ Aligned(p, o) /\ Size[o] \in Nat \ {0} /\ Size[o + 1] = 2 * Size[o]
  <2>1. <<p, o>>[1] = p /\ <<p, o>>[2] = o
    OBVIOUS
  <2> QED BY <2>1, BlockInside, SizeDoubles
<1>2. /\ b \in Nat /\ Aligned(b, o)
      /\ \/ b = p + Size[o] /\ Aligned(p, o + 1)
         \/ p = b + Size[o] /\ Aligned(b, o + 1)
  BY <1>1, BuddyIs
<1>3. PICK d \in BS : In(b, d)
  BY <1>2 DEF Parted
<1>4. d[1] \in Nat /\ d[2] \in Orders /\ Size[d[2]] \in Nat \ {0} /\ Aligned(d[1], d[2])
  BY BlockInside
<1>5. PICK m \in Nat : Aligned(m, o + 1) /\ m <= p /\ m <= b /\ p < m + Size[o + 1]
                       /\ b < m + Size[o + 1]
  BY <1>1, <1>2
<1>6. ~ In(p, d)
  <2> SUFFICES ASSUME In(p, d) PROVE FALSE
    OBVIOUS
  <2>1. d = <<p, o>>
    <3> SUFFICES ASSUME d # <<p, o>> PROVE FALSE
      OBVIOUS
    <3>1. Apart(d, <<p, o>>)
      BY DEF Parted
    <3>2. <<p, o>>[1] = p /\ <<p, o>>[2] = o
      OBVIOUS
    <3>3. d[1] + Size[d[2]] <= p \/ p + Size[o] <= d[1]
      BY <3>1, <3>2 DEF Apart
    <3> QED BY <1>1, <1>4, <3>3 DEF In
  <2>2. d[1] = p /\ d[2] = o
    BY <2>1
  <2> QED BY <1>1, <1>2, <1>3, <2>2 DEF In
<1>7. d[2] <= o
  <2> SUFFICES ASSUME ~ (d[2] <= o) PROVE FALSE
    OBVIOUS
  <2>1. o + 1 <= d[2]
    <3>1. o \in Nat /\ d[2] \in Nat
      BY <1>4, OrdersAre
    <3> QED BY <3>1
  <2>2. \/ m + Size[o + 1] <= d[1]
        \/ d[1] + Size[d[2]] <= m
        \/ d[1] <= m /\ m + Size[o + 1] <= d[1] + Size[d[2]]
    BY <1>4, <1>5, <2>1, NestedOrDisjoint
  <2>3. Size[o + 1] \in Nat
    BY <1>1
  <2> QED BY <1>1, <1>2, <1>3, <1>4, <1>5, <1>6, <2>2, <2>3 DEF In
<1>8. d[1] = b
  <2>1. \/ d[1] + Size[d[2]] <= b
        \/ b + Size[o] <= d[1]
        \/ b <= d[1] /\ d[1] + Size[d[2]] <= b + Size[o]
    BY <1>2, <1>4, <1>7, NestedOrDisjoint
  <2> QED BY <1>1, <1>2, <1>3, <1>4, <2>1 DEF In
<1> QED BY <1>7, <1>8
----------------------------------------------------------------------------
(***************************************************************************)
(* The counters of the lists.                                              *)
(***************************************************************************)
ListOf(H, od, z, o) == {p \in H : select_zone(p) = z /\ od[p] = o}
FreeIn(H, od, z) ==
    {f \in Pfn : \E p \in H : select_zone(p) = z /\ p <= f /\ f < p + Size[od[p]]}

Counted(H, od, fc, fp) ==
    /\ fc \in [Zones -> [Orders -> Nat]] /\ fp \in [Zones -> Nat]
    /\ \A z \in Zones, o \in Orders : fc[z][o] = Cardinality(ListOf(H, od, z, o))
    /\ \A z \in Zones : fp[z] = Cardinality(FreeIn(H, od, z))

LEMMA PfnFinite == IsFiniteSet(Pfn) /\ \A S \in SUBSET Pfn : IsFiniteSet(S) /\ Cardinality(S) \in Nat
<1>1. IsFiniteSet(Pfn)
  <2>1. 0 \in Int /\ NPages - 1 \in Int
    BY ZonesAre
  <2> QED BY <2>1, FS_Interval DEF Pfn
<1> QED BY <1>1, FS_Subset, FS_CardinalityType

\* One more block on the lists.
LEMMA CountMore ==
    ASSUME NEW H \in SUBSET Pfn, NEW od \in [Pfn -> Orders], NEW od2 \in [Pfn -> Orders],
           NEW p \in Pfn, p \notin H, \A q \in H : od2[q] = od[q],
           NEW z, z = select_zone(p), NEW o, o = od2[p],
           p + Size[o] <= NPages,
           \A q \in H : p + Size[o] <= q \/ q + Size[od[q]] <= p,
           NEW K, K = H \cup {p}
    PROVE  /\ Cardinality(ListOf(K, od2, z, o)) = Cardinality(ListOf(H, od, z, o)) + 1
           /\ \A y \in Zones, k \in Orders : ~ (y = z /\ k = o) =>
                  ListOf(K, od2, y, k) = ListOf(H, od, y, k)
           /\ Cardinality(FreeIn(K, od2, z)) = Cardinality(FreeIn(H, od, z)) + Size[o]
           /\ \A y \in Zones : y # z => FreeIn(K, od2, y) = FreeIn(H, od, y)
<1>0. p \in Nat /\ o \in Orders /\ Size[o] \in Nat \ {0} /\ H \subseteq Nat
  BY PfnNat, SizePositive
<1>1. Cardinality(ListOf(K, od2, z, o)) = Cardinality(ListOf(H, od, z, o)) + 1
  <2>1. ListOf(K, od2, z, o) = ListOf(H, od, z, o) \cup {p} /\ p \notin ListOf(H, od, z, o)
    BY DEF ListOf
  <2>2. IsFiniteSet(ListOf(H, od, z, o))
    BY PfnFinite DEF ListOf
  <2> DEFINE L == ListOf(H, od, z, o)
  <2>3. p \notin L /\ IsFiniteSet(L) /\ ListOf(K, od2, z, o) = L \cup {p}
    BY <2>1, <2>2
  <2> HIDE DEF L
  <2>4. Cardinality(L \cup {p}) = IF p \in L THEN Cardinality(L) ELSE Cardinality(L) + 1
    BY <2>3, FS_AddElement
  <2>5. Cardinality(L \cup {p}) = Cardinality(L) + 1
    BY <2>3, <2>4
  <2> QED BY <2>3, <2>5 DEF L
<1>2. ASSUME NEW y \in Zones, NEW k \in Orders, ~ (y = z /\ k = o)
      PROVE  ListOf(K, od2, y, k) = ListOf(H, od, y, k)
  BY <1>2 DEF ListOf
<1>3. Cardinality(FreeIn(K, od2, z)) = Cardinality(FreeIn(H, od, z)) + Size[o]
  <2> DEFINE A == FreeIn(H, od, z)
             I == p..(p + Size[o] - 1)
  <2>1. I \subseteq Pfn
    BY <1>0, ZonesAre DEF Pfn
  <2>2. FreeIn(K, od2, z) = A \cup I
    <3>1. \A f \in I : f \in Nat /\ p <= f /\ f < p + Size[o]
      BY <1>0
    <3>2. \A f \in Pfn : p <= f /\ f < p + Size[o] => f \in I
      BY <1>0, PfnNat
    <3> HIDE DEF I
    <3> QED BY <2>1, <3>1, <3>2 DEF FreeIn
  <2>3. A \cap I = {}
    <3> SUFFICES ASSUME NEW f \in A, f \in I PROVE FALSE
      OBVIOUS
    <3>1. PICK q \in H : q <= f /\ f < q + Size[od[q]]
      BY DEF FreeIn
    <3>2. q \in Nat /\ f \in Nat /\ Size[od[q]] \in Nat
      BY <1>0, SizePositive
    <3>3. p + Size[o] <= q \/ q + Size[od[q]] <= p
      OBVIOUS
    <3> QED BY <1>0, <3>1, <3>2, <3>3
  <2>4. IsFiniteSet(A) /\ IsFiniteSet(I) /\ Cardinality(A) \in Nat
    BY <2>1, PfnFinite DEF FreeIn
  <2>5. Cardinality(I) = Size[o]
    <3>1. p \in Int /\ p + Size[o] - 1 \in Int /\ ~ (p > p + Size[o] - 1)
          /\ (p + Size[o] - 1) - p + 1 = Size[o]
      BY <1>0
    <3> QED BY <3>1, FS_Interval
  <2> HIDE DEF A, I
  <2>6. Cardinality(A \cup I) = Cardinality(A) + Cardinality(I) - Cardinality({})
    BY <2>3, <2>4, FS_Union
  <2>7. Cardinality({}) = 0
    BY FS_EmptySet
  <2>8. Cardinality(A \cup I) = Cardinality(A) + Size[o]
    BY <1>0, <2>4, <2>5, <2>6, <2>7
  <2> QED BY <2>2, <2>8 DEF A
<1>4. ASSUME NEW y \in Zones, y # z PROVE FreeIn(K, od2, y) = FreeIn(H, od, y)
  BY <1>4 DEF FreeIn
<1> QED BY <1>1, <1>2, <1>3, <1>4

LEMMA CountPush ==
    ASSUME NEW H \in SUBSET Pfn, NEW od \in [Pfn -> Orders], NEW od2 \in [Pfn -> Orders],
           NEW p \in Pfn, p \notin H, \A q \in H : od2[q] = od[q],
           NEW z, z = select_zone(p), NEW o, o = od2[p],
           p + Size[o] <= NPages,
           \A q \in H : p + Size[o] <= q \/ q + Size[od[q]] <= p,
           NEW fc, NEW fp, Counted(H, od, fc, fp)
    PROVE  Counted(H \cup {p}, od2, [fc EXCEPT ![z][o] = @ + 1], [fp EXCEPT ![z] = @ + Size[o]])
<1> DEFINE K == H \cup {p}
           fc2 == [fc EXCEPT ![z][o] = @ + 1]
           fp2 == [fp EXCEPT ![z] = @ + Size[o]]
<1>0. z \in Zones /\ o \in Orders /\ Size[o] \in Nat /\ fc \in [Zones -> [Orders -> Nat]]
      /\ fp \in [Zones -> Nat]
  BY ZoneType, SizePositive DEF Counted
<1>1. /\ Cardinality(ListOf(K, od2, z, o)) = Cardinality(ListOf(H, od, z, o)) + 1
      /\ \A y \in Zones, k \in Orders : ~ (y = z /\ k = o) => ListOf(K, od2, y, k) = ListOf(H, od, y, k)
      /\ Cardinality(FreeIn(K, od2, z)) = Cardinality(FreeIn(H, od, z)) + Size[o]
      /\ \A y \in Zones : y # z => FreeIn(K, od2, y) = FreeIn(H, od, y)
  BY CountMore
<1>2. /\ fc[z][o] + 1 \in Nat /\ fp[z] + Size[o] \in Nat
  BY <1>0
<1>3. /\ fc2 \in [Zones -> [Orders -> Nat]] /\ fc2[z][o] = fc[z][o] + 1
      /\ \A y \in Zones, k \in Orders : ~ (y = z /\ k = o) => fc2[y][k] = fc[y][k]
  BY <1>0, <1>2
<1>4. fp2 \in [Zones -> Nat] /\ fp2[z] = fp[z] + Size[o] /\ \A y \in Zones : y # z => fp2[y] = fp[y]
  BY <1>0, <1>2
<1> HIDE DEF K, fc2, fp2
<1>5. \A y \in Zones, k \in Orders : fc2[y][k] = Cardinality(ListOf(K, od2, y, k))
  BY <1>0, <1>1, <1>3 DEF Counted
<1>6. \A y \in Zones : fp2[y] = Cardinality(FreeIn(K, od2, y))
  BY <1>0, <1>1, <1>4 DEF Counted
<1>7. Counted(K, od2, fc2, fp2)
  BY <1>3, <1>4, <1>5, <1>6 DEF Counted
<1> QED BY <1>7 DEF K, fc2, fp2

LEMMA CountUnlink ==
    ASSUME NEW K \in SUBSET Pfn, NEW od \in [Pfn -> Orders],
           NEW p \in Pfn, p \notin K, NEW z, z = select_zone(p), NEW o, o = od[p],
           p + Size[o] <= NPages,
           \A q \in K : p + Size[o] <= q \/ q + Size[od[q]] <= p,
           NEW H, H = K \cup {p}, NEW fc, NEW fp, Counted(H, od, fc, fp)
    PROVE  Counted(K, od, [fc EXCEPT ![z][o] = @ - 1], [fp EXCEPT ![z] = @ - Size[o]])
<1> DEFINE fc2 == [fc EXCEPT ![z][o] = @ - 1]
           fp2 == [fp EXCEPT ![z] = @ - Size[o]]
<1>0. z \in Zones /\ o \in Orders /\ Size[o] \in Nat /\ fc \in [Zones -> [Orders -> Nat]]
      /\ fp \in [Zones -> Nat]
  BY ZoneType, SizePositive DEF Counted
<1>1. /\ Cardinality(ListOf(H, od, z, o)) = Cardinality(ListOf(K, od, z, o)) + 1
      /\ \A y \in Zones, k \in Orders : ~ (y = z /\ k = o) => ListOf(H, od, y, k) = ListOf(K, od, y, k)
      /\ Cardinality(FreeIn(H, od, z)) = Cardinality(FreeIn(K, od, z)) + Size[o]
      /\ \A y \in Zones : y # z => FreeIn(H, od, y) = FreeIn(K, od, y)
  BY CountMore, SMTT(30)
<1>2. Cardinality(ListOf(K, od, z, o)) \in Nat /\ Cardinality(FreeIn(K, od, z)) \in Nat
  BY <1>0, PfnFinite DEF ListOf, FreeIn
<1>3. /\ fc[z][o] - 1 = Cardinality(ListOf(K, od, z, o))
      /\ fp[z] - Size[o] = Cardinality(FreeIn(K, od, z))
  <2>1. fc[z][o] = Cardinality(ListOf(H, od, z, o)) /\ fp[z] = Cardinality(FreeIn(H, od, z))
    BY <1>0 DEF Counted
  <2> DEFINE a == Cardinality(ListOf(H, od, z, o))
             c == Cardinality(ListOf(K, od, z, o))
             d == Cardinality(FreeIn(H, od, z))
             e == Cardinality(FreeIn(K, od, z))
  <2>2. a = c + 1 /\ d = e + Size[o] /\ c \in Nat /\ e \in Nat
    BY <1>1, <1>2
  <2>3. fc[z][o] = a /\ fp[z] = d
    BY <2>1
  <2> HIDE DEF a, c, d, e
  <2>4. a - 1 = c /\ d - Size[o] = e
    <3>1. Size[o] \in Nat
      BY <1>0
    <3>2. (c + 1) - 1 = c /\ (e + Size[o]) - Size[o] = e
      BY <2>2, <3>1
    <3> QED BY <2>2, <3>2
  <2> QED BY <2>3, <2>4 DEF c, e
<1>4. /\ fc2 \in [Zones -> [Orders -> Nat]] /\ fc2[z][o] = fc[z][o] - 1
      /\ \A y \in Zones, k \in Orders : ~ (y = z /\ k = o) => fc2[y][k] = fc[y][k]
  <2>1. fc[z][o] - 1 \in Nat
    BY <1>2, <1>3
  <2> QED BY <1>0, <2>1
<1>5. fp2 \in [Zones -> Nat] /\ fp2[z] = fp[z] - Size[o] /\ \A y \in Zones : y # z => fp2[y] = fp[y]
  <2>1. fp[z] - Size[o] \in Nat
    BY <1>2, <1>3
  <2> QED BY <1>0, <2>1
<1> HIDE DEF fc2, fp2
<1>6. \A y \in Zones, k \in Orders : fc2[y][k] = Cardinality(ListOf(K, od, y, k))
  <2> SUFFICES ASSUME NEW y \in Zones, NEW k \in Orders
               PROVE  fc2[y][k] = Cardinality(ListOf(K, od, y, k))
    OBVIOUS
  <2>1. CASE y = z /\ k = o
    BY <1>3, <1>4, <2>1
  <2>2. CASE ~ (y = z /\ k = o)
    <3>1. fc[y][k] = Cardinality(ListOf(H, od, y, k))
      BY DEF Counted
    <3> QED BY <1>1, <1>4, <2>2, <3>1
  <2> QED BY <2>1, <2>2
<1>7. \A y \in Zones : fp2[y] = Cardinality(FreeIn(K, od, y))
  BY <1>0, <1>1, <1>3, <1>5 DEF Counted
<1>8. Counted(K, od, fc2, fp2)
  BY <1>4, <1>5, <1>6, <1>7 DEF Counted
<1> QED BY <1>8 DEF fc2, fp2
----------------------------------------------------------------------------
(***************************************************************************)
(* The inductive invariant.                                                *)
(***************************************************************************)
Blk(H, od) == {<<p, od[p]>> : p \in H}

\* Frame f is one that entry k of the map gives the allocator.
InEntry(map, k, f) ==
    /\ EntryTaken(map[k]) /\ EntryStart(map[k]) <= f /\ f < map[k].end
    /\ select_zone(f) \in {NORMAL, select_zone(EntryStart(map[k]))}

\* Entry k has been walked, or is being walked.
Begun(k) == k < i \/ (k = i /\ pc \in {"range", "span"})

\* The frames pmm_init has given the allocator so far.
Given ==
    {f \in Pfn : \E k \in 1..Len(Map) : /\ InEntry(Map, k, f)
                                        /\ Begun(k) /\ (k = i => f < cur)}

Usable(f) == \E k \in 1..Len(Map) :
    EntryTaken(Map[k]) /\ EntryStart(Map[k]) <= f /\ f < Map[k].end

Typed ==
    /\ flags \in [Pfn -> SUBSET {"FREE", "KERNEL", "RESERVED"}]
    /\ ref_count \in [Pfn -> {0, 1}]
    /\ order \in [Pfn -> Orders]
    /\ next \in Links /\ prev \in Links
    /\ free_list \in HeadsType
    /\ total_pages \in [Zones -> Nat]
    /\ total_page_frames \in 0..NPages /\ pmm_ready \in BOOLEAN
    /\ pc \in {"map", "range", "span", "idle", "split", "merge"}
    /\ zone \in Zones /\ cur \in 0..NPages /\ ord \in Orders
    /\ goal \in (0..NPages) \cup Orders
    /\ Map \in Maps /\ i \in 1..(Len(Map) + 1)
    /\ live \subseteq Pfn \X Orders

\* buddy_free_range is in the zone of the entry's first frame.
Ranging ==
    LET e == Map[i] IN
    /\ zone = select_zone(EntryStart(e))
    /\ EntryStart(e) <= cur /\ cur <= goal
    /\ goal = IF e.end > ZoneEnd(zone) THEN ZoneEnd(zone) ELSE e.end

\* It is in NORMAL, or there was nothing to add there.
Spanning ==
    LET e == Map[i] IN
    IF EntryStart(e) < DmaEnd /\ e.end > DmaEnd
    THEN zone = NORMAL /\ DmaEnd <= cur /\ cur <= goal /\ goal = SpanEnd(e)
    ELSE cur = goal /\ goal = e.end

Control ==
    /\ pc \in {"range", "span"} => i <= Len(Map) /\ EntryTaken(Map[i])
    /\ pc = "range" => Ranging
    /\ pc = "span" => Spanning
    /\ IF Initialised THEN i = Len(Map) + 1 ELSE live = {}
    /\ \A k \in 1..Len(Map) : Begun(k) /\ EntryTaken(Map[k]) => Map[k].end <= total_page_frames
    /\ pc = "split" => goal \in Orders /\ goal <= ord
    /\ pc \in {"split", "merge"} => zone = select_zone(cur) /\ zone # HIGHMEM

FlagsInv ==
    /\ \A b \in live : "FREE" \notin flags[b[1]] /\ select_zone(b[1]) # HIGHMEM
    /\ \A p \in Pfn : "FREE" \in flags[p] => Usable(p)

Owned(H, rk) ==
    /\ Lists(H, order, next, prev, free_list, rk)
    /\ Counted(H, order, free_count, free_pages)
    /\ Parted(Blk(H, order) \cup live \cup InHand, Given)
    /\ Blk(H, order) \cap live = {} /\ Blk(H, order) \cap InHand = {} /\ live \cap InHand = {}

PmmInv == Typed /\ Control /\ FlagsInv /\ \E H, rk : Owned(H, rk)

\* No usable entry starts in NORMAL: such an entry is added twice.
StartsOutsideNormal ==
    \A map \in Maps : \A k \in 1..Len(map) :
        EntryTaken(map[k]) => select_zone(EntryStart(map[k])) # NORMAL

LEMMA EntryType ==
    ASSUME NEW map \in Maps, NEW k \in 1..Len(map)
    PROVE  map[k].base \in Nat /\ map[k].end \in 0..NPages /\ map[k].end \in Nat /\ Len(map) \in Nat
<1> DEFINE R == [base : Pfn, end : 0..NPages, usable : BOOLEAN]
<1>1. map \in Seq(R)
  BY MapAssumption, Zenon
<1> HIDE DEF R
<1>2. map[k] \in R /\ Len(map) \in Nat
  BY <1>1
<1> USE DEF R
<1>3. map[k].base \in Pfn /\ map[k].end \in 0..NPages
  BY <1>2
<1>4. map[k].end \in Nat
  BY <1>3, ZonesAre
<1> QED BY <1>2, <1>3, <1>4, PfnNat

LEMMA EntryIs ==
    ASSUME NEW map \in Maps, NEW k \in 1..Len(map)
    PROVE  /\ map[k].end \in 0..NPages /\ EntryStart(map[k]) \in Nat
           /\ EntryTaken(map[k]) => /\ LowEnd <= EntryStart(map[k])
                                    /\ EntryStart(map[k]) < map[k].end
           /\ Len(map) \in Nat
<1>1. map[k].base \in Nat /\ map[k].end \in 0..NPages /\ Len(map) \in Nat
  BY EntryType
<1> QED BY <1>1, ZonesAre DEF EntryStart, EntryTaken

\* Frames of two entries are different frames.
LEMMA EntriesApart ==
    ASSUME NEW map \in Maps, NEW j \in 1..Len(map), NEW k \in 1..Len(map), NEW f \in Nat,
           EntryStart(map[j]) <= f, f < map[j].end, EntryStart(map[k]) <= f, f < map[k].end
    PROVE  j = k
<1>1. Len(map) \in Nat
  BY EntryType
<1>3. /\ map[j].base \in Nat /\ map[j].end \in Nat /\ map[k].base \in Nat /\ map[k].end \in Nat
  BY EntryType
<1>4. map[j].base <= f /\ map[k].base <= f
  BY <1>3, ZonesAre DEF EntryStart
<1>5. j # k => map[j].end <= map[k].base \/ map[k].end <= map[j].base
  <2>1. j < k => map[j].end <= map[k].base \/ map[k].end <= map[j].base
    BY MapAssumption
  <2>2. k < j => map[k].end <= map[j].base \/ map[j].end <= map[k].base
    BY MapAssumption
  <2> QED BY <1>1, <2>1, <2>2
<1> QED BY <1>3, <1>4, <1>5

----------------------------------------------------------------------------
\* What putting a block on its list, and taking one off, does to the lists.
LEMMA PushStep ==
    ASSUME Typed, NEW H, NEW rk, Lists(H, order, next, prev, free_list, rk),
           Counted(H, order, free_count, free_pages),
           NEW p \in Pfn, p \notin H, NEW o \in Orders, p + Size[o] <= NPages,
           \A b \in Blk(H, order) : Apart(<<p, o>>, b),
           Push(select_zone(p), p, o)
    PROVE  /\ \E r : Lists(H \cup {p}, order', next', prev', free_list', r)
           /\ Counted(H \cup {p}, order', free_count', free_pages')
           /\ Blk(H \cup {p}, order') = Blk(H, order) \cup {<<p, o>>}
           /\ order' \in [Pfn -> Orders] /\ next' \in Links /\ prev' \in Links
           /\ free_list' \in HeadsType
           /\ flags' \in [Pfn -> SUBSET {"FREE", "KERNEL", "RESERVED"}]
           /\ flags' = [flags EXCEPT ![p] = {"FREE"}]
<1> DEFINE z == select_zone(p)
<1>0. /\ order \in [Pfn -> Orders] /\ next \in Links /\ prev \in Links /\ free_list \in HeadsType
      /\ flags \in [Pfn -> SUBSET {"FREE", "KERNEL", "RESERVED"}] /\ H \in SUBSET Pfn
  BY DEF Typed, Lists
<1>1. Pushed(order, next, prev, free_list, p, o, order', next', prev', free_list')
  BY DEF Push, Pushed
<1>2. /\ free_count' = [free_count EXCEPT ![z][o] = @ + 1]
      /\ free_pages' = [free_pages EXCEPT ![z] = @ + Size[o]]
      /\ flags' = [flags EXCEPT ![p] = {"FREE"}]
  BY DEF Push
<1>3. /\ \E r : Lists(H \cup {p}, order', next', prev', free_list', r)
      /\ order' \in [Pfn -> Orders] /\ next' \in Links /\ prev' \in Links
      /\ free_list' \in HeadsType
  BY <1>0, <1>1, ListPush
<1>4. order'[p] = o /\ \A q \in H : order'[q] = order[q]
  BY <1>0, <1>1 DEF Pushed
<1>5. \A q \in H : p + Size[o] <= q \/ q + Size[order[q]] <= p
  <2> SUFFICES ASSUME NEW q \in H PROVE p + Size[o] <= q \/ q + Size[order[q]] <= p
    OBVIOUS
  <2>1. <<q, order[q]>> \in Blk(H, order)
    BY DEF Blk
  <2>2. Apart(<<p, o>>, <<q, order[q]>>)
    BY <2>1
  <2> QED BY <2>2 DEF Apart
<1>6. Counted(H \cup {p}, order', free_count', free_pages')
  <2> HIDE DEF z
  <2>1. z = select_zone(p)
    BY DEF z
  <2>2. Counted(H \cup {p}, order', [free_count EXCEPT ![z][o] = @ + 1],
                                    [free_pages EXCEPT ![z] = @ + Size[o]])
    BY <1>0, <1>3, <1>4, <1>5, <2>1, CountPush
  <2> QED BY <1>2, <2>2
<1>7. Blk(H \cup {p}, order') = Blk(H, order) \cup {<<p, o>>}
  BY <1>4 DEF Blk
<1>8. flags' \in [Pfn -> SUBSET {"FREE", "KERNEL", "RESERVED"}]
  BY <1>0, <1>2
<1> QED BY <1>2, <1>3, <1>6, <1>7, <1>8

LEMMA UnlinkStep ==
    ASSUME Typed, NEW H, NEW rk, Lists(H, order, next, prev, free_list, rk),
           Counted(H, order, free_count, free_pages),
           NEW p \in H, NEW o, o = order[p], p + Size[o] <= NPages,
           \A b \in Blk(H, order) : b # <<p, o>> => Apart(<<p, o>>, b),
           NEW z, z = select_zone(p),
           \/ Unlink(z, p, o)
           \/ prev[p] = NULL /\ PopHead(z, p, o)
    PROVE  /\ Lists(H \ {p}, order, next', prev', free_list', rk)
           /\ Counted(H \ {p}, order, free_count', free_pages')
           /\ Blk(H \ {p}, order) = Blk(H, order) \ {<<p, o>>}
           /\ <<p, o>> \in Blk(H, order)
           /\ next' \in Links /\ prev' \in Links /\ free_list' \in HeadsType
<1>0. /\ order \in [Pfn -> Orders] /\ next \in Links /\ prev \in Links /\ free_list \in HeadsType
      /\ H \in SUBSET Pfn
  BY DEF Typed, Lists
<1>1. Skipped(order, next, prev, free_list, p, next', prev', free_list')
  BY DEF Unlink, PopHead, Skipped
<1>2. /\ free_count' = [free_count EXCEPT ![z][o] = @ - 1]
      /\ free_pages' = [free_pages EXCEPT ![z] = @ - Size[o]]
  BY DEF Unlink, PopHead
<1>3. /\ Lists(H \ {p}, order, next', prev', free_list', rk)
      /\ next' \in Links /\ prev' \in Links /\ free_list' \in HeadsType
  BY <1>0, <1>1, ListUnlink
<1>4. Counted(H \ {p}, order, free_count', free_pages')
  <2> DEFINE K == H \ {p}
  <2>1. K \in SUBSET Pfn /\ p \in Pfn /\ p \notin K /\ H = K \cup {p}
    BY <1>0
  <2>2. \A q \in K : p + Size[o] <= q \/ q + Size[order[q]] <= p
    <3> SUFFICES ASSUME NEW q \in K PROVE p + Size[o] <= q \/ q + Size[order[q]] <= p
      OBVIOUS
    <3>1. <<q, order[q]>> \in Blk(H, order) /\ <<q, order[q]>> # <<p, o>>
      BY DEF Blk
    <3>2. Apart(<<p, o>>, <<q, order[q]>>)
      BY <3>1
    <3> QED BY <3>2 DEF Apart
  <2> HIDE DEF K
  <2>3. Counted(K, order, [free_count EXCEPT ![z][o] = @ - 1],
                          [free_pages EXCEPT ![z] = @ - Size[o]])
    BY <1>0, <2>1, <2>2, CountUnlink
  <2> QED BY <1>2, <2>3 DEF K
<1>5. Blk(H \ {p}, order) = Blk(H, order) \ {<<p, o>>} /\ <<p, o>> \in Blk(H, order)
  BY DEF Blk
<1> QED BY <1>3, <1>4, <1>5
----------------------------------------------------------------------------
\* The lists depend on the descriptors of the blocks' first frames only.
LEMMA ListsAgree ==
    ASSUME NEW H, NEW od, NEW nx, NEW pv, NEW fl, NEW rk, Lists(H, od, nx, pv, fl, rk),
           NEW od2, NEW nx2, NEW pv2,
           \A q \in H : od2[q] = od[q] /\ nx2[q] = nx[q] /\ pv2[q] = pv[q]
    PROVE  Lists(H, od2, nx2, pv2, fl, rk)
<1>1. H \subseteq Pfn /\ rk \in [Pfn -> Nat]
      /\ Forward(H, od, nx, pv, rk) /\ Backward(H, od, nx, pv, fl) /\ Heads(H, od, pv, fl)
  BY DEF Lists
<1>2. Forward(H, od2, nx2, pv2, rk)
  BY <1>1 DEF Forward, SameList
<1>3. Backward(H, od2, nx2, pv2, fl)
  <2> SUFFICES ASSUME NEW q \in H
               PROVE  IF pv2[q] = NULL
                      THEN fl[select_zone(q)][od2[q]] = q
                      ELSE pv2[q] \in H /\ SameList(od2, q, pv2[q]) /\ nx2[pv2[q]] = q
    BY DEF Backward
  <2>1. CASE pv[q] = NULL
    BY <1>1, <2>1 DEF Backward
  <2>2. CASE pv[q] # NULL
    BY <1>1, <2>2 DEF Backward, SameList
  <2> QED BY <2>1, <2>2
<1>4. Heads(H, od2, pv2, fl)
  BY <1>1 DEF Heads
<1> QED BY <1>1, <1>2, <1>3, <1>4 DEF Lists

LEMMA CountedAgree ==
    ASSUME NEW H, NEW od, NEW od2, NEW fc, NEW fp, Counted(H, od, fc, fp),
           \A q \in H : od2[q] = od[q]
    PROVE  Counted(H, od2, fc, fp) /\ Blk(H, od2) = Blk(H, od)
<1>1. \A z \in Zones, o \in Orders : ListOf(H, od2, z, o) = ListOf(H, od, z, o)
  BY DEF ListOf
<1>2. \A z \in Zones : FreeIn(H, od2, z) = FreeIn(H, od, z)
  BY DEF FreeIn
<1>3. Blk(H, od2) = Blk(H, od)
  BY DEF Blk
<1> QED BY <1>1, <1>2, <1>3 DEF Counted

----------------------------------------------------------------------------
\* After pmm_init the frames given are all those the map gives.
LEMMA AllGiven ==
    ASSUME Typed, Control, Initialised
    PROVE  /\ Given = Managed
           /\ \A f \in Managed : f \in Pfn /\ pfn_valid(f) /\ Usable(f)
           /\ \A f \in Pfn : Usable(f) /\ select_zone(f) # HIGHMEM => f \in Managed
<1>1. Map \in Maps /\ i = Len(Map) + 1
  BY DEF Typed, Control
<1>2. \A k \in 1..Len(Map) : k < i /\ k # i /\ Begun(k)
  <2> SUFFICES ASSUME NEW k \in 1..Len(Map) PROVE k < i /\ k # i /\ Begun(k)
    OBVIOUS
  <2>1. Len(Map) \in Nat
    BY <1>1, EntryType
  <2> QED BY <1>1, <2>1 DEF Begun
<1>3. \A k \in 1..Len(Map), f \in Pfn :
          f \in EntryStart(Map[k])..(Map[k].end - 1) <=> EntryStart(Map[k]) <= f /\ f < Map[k].end
  <2> SUFFICES ASSUME NEW k \in 1..Len(Map), NEW f \in Pfn
               PROVE  f \in EntryStart(Map[k])..(Map[k].end - 1)
                          <=> EntryStart(Map[k]) <= f /\ f < Map[k].end
    OBVIOUS
  <2>1. EntryStart(Map[k]) \in Nat /\ Map[k].end \in Nat /\ f \in Nat
    BY <1>1, EntryIs, EntryType, PfnNat
  <2> HIDE DEF EntryStart
  <2> QED BY <2>1
<1>4. Given = Managed
  BY <1>2, <1>3 DEF Given, Managed, InEntry
<1>5. ASSUME NEW f \in Managed PROVE f \in Pfn /\ pfn_valid(f) /\ Usable(f)
  <2>1. f \in Pfn /\ f \in Nat
    BY PfnNat DEF Managed
  <2>2. PICK k \in 1..Len(Map) : EntryTaken(Map[k]) /\ EntryStart(Map[k]) <= f /\ f < Map[k].end
    BY <1>3, <2>1 DEF Managed
  <2>3. Map[k].end <= total_page_frames
    BY <1>2, <2>2 DEF Control
  <2>4. total_page_frames \in Nat /\ Map[k].end \in Nat
    BY <1>1, EntryType, ZonesAre DEF Typed
  <2> QED BY <2>1, <2>2, <2>3, <2>4 DEF pfn_valid, Usable
<1>6. ASSUME NEW f \in Pfn, Usable(f), select_zone(f) # HIGHMEM PROVE f \in Managed
  <2>1. PICK k \in 1..Len(Map) : EntryTaken(Map[k]) /\ EntryStart(Map[k]) <= f /\ f < Map[k].end
    BY <1>6 DEF Usable
  <2>2. EntryStart(Map[k]) \in Nat /\ f \in Nat
    BY <1>1, EntryIs, PfnNat
  <2>3. select_zone(f) \in {NORMAL, select_zone(EntryStart(Map[k]))}
    BY <1>6, <2>1, <2>2, ZonesAre DEF select_zone, HIGHMEM, NORMAL, DMA
  <2> QED BY <1>3, <2>1, <2>3 DEF Managed
<1> QED BY <1>4, <1>5, <1>6

\* A step of pmm_alloc_pages or pmm_free_pages does not touch pmm_init's.
LEMMA KeepControl ==
    ASSUME Typed, Control, Initialised, Initialised', UNCHANGED <<Map, i, total_page_frames>>,
           pc' = "split" => goal' \in Orders /\ goal' <= ord',
           pc' \in {"split", "merge"} => zone' = select_zone(cur') /\ zone' # HIGHMEM
    PROVE  Control' /\ Given' = Given /\ Managed' = Managed /\ \A f : Usable(f)' = Usable(f)
<1>1. Map \in Maps /\ i = Len(Map) + 1
  BY DEF Typed, Control
<1>2. \A k \in 1..Len(Map) : k < i /\ Begun(k) /\ Begun(k)' /\ k # i
  <2> SUFFICES ASSUME NEW k \in 1..Len(Map) PROVE k < i /\ Begun(k) /\ Begun(k)' /\ k # i
    OBVIOUS
  <2>1. Len(Map) \in Nat
    BY <1>1, EntryType
  <2> QED BY <1>1, <2>1 DEF Begun
<1>3. pc' \notin {"range", "span"}
  BY DEF Initialised
<1>4. Control'
  BY <1>1, <1>2, <1>3 DEF Control
<1>5. Given' = Given
  BY <1>2 DEF Given
<1>6. Managed' = Managed
  BY DEF Managed
<1> QED BY <1>4, <1>5, <1>6 DEF Usable

LEMMA MinIn ==
    ASSUME NEW S \in SUBSET Orders, S # {}
    PROVE  Min(S) \in S
<1>1. S \in SUBSET Nat
  BY OrdersAre
<1>2. PICK n \in S : \A m \in S : n <= m
  BY <1>1, LeastNat
<1> QED BY <1>2 DEF Min

\* The free blocks, the blocks callers hold and the block in hand.
Blocks(H) == Blk(H, order) \cup live \cup InHand

LEMMA AllocStartStep ==
    ASSUME PmmInv, NEW o \in Orders, AllocStart(o)
    PROVE  PmmInv'
<1> DEFINE z == IF Available(NORMAL, o) # {} THEN NORMAL ELSE DMA
           f == Min(Available(z, o))
           p == free_list[z][f]
<1>0. Typed /\ Control /\ FlagsInv /\ pc = "idle" /\ Initialised
  BY DEF PmmInv, AllocStart, Initialised
<1>1. PICK H, rk : Owned(H, rk)
  BY DEF PmmInv
<1>2. z \in {NORMAL, DMA} /\ z \in Zones /\ z # HIGHMEM /\ Available(z, o) # {}
  BY DEF AllocStart, Zones, NORMAL, DMA, HIGHMEM
<1> HIDE DEF z
<1>3. f \in Orders /\ f >= o /\ p # NULL
  <2>1. Available(z, o) \in SUBSET Orders
    BY DEF Available
  <2>2. f \in Available(z, o)
    BY <1>2, <2>1, MinIn
  <2> QED BY <2>2 DEF Available
<1> HIDE DEF f
<1>4. /\ PopHead(z, p, f) /\ zone' = z /\ cur' = p /\ ord' = f /\ goal' = o /\ pc' = "split"
      /\ UNCHANGED <<flags, ref_count, order, Map, total_pages, total_page_frames, pmm_ready, i, live>>
  BY DEF AllocStart, z, f, conf
<1>5. p \in H /\ select_zone(p) = z /\ order[p] = f /\ prev[p] = NULL /\ p \in Pfn
  BY <1>1, <1>2, <1>3 DEF Owned, Lists, Heads
<1> HIDE DEF p
<1>6. /\ Lists(H, order, next, prev, free_list, rk) /\ Counted(H, order, free_count, free_pages)
      /\ Parted(Blocks(H), Given) /\ InHand = {} /\ Blk(H, order) \cap live = {}
  BY <1>0, <1>1 DEF Owned, InHand, Blocks
<1>7. <<p, f>> \in Blk(H, order) /\ <<p, f>> \in Blocks(H)
  BY <1>5 DEF Blk, Blocks
<1>8. p + Size[f] <= NPages
  <2>1. <<p, f>>[1] + Size[<<p, f>>[2]] <= NPages
    BY <1>6, <1>7, BlockInside
  <2> QED BY <2>1
<1>9. \A b \in Blk(H, order) : b # <<p, f>> => Apart(<<p, f>>, b)
  BY <1>6, <1>7 DEF Parted, Blocks
<1>10. /\ Lists(H \ {p}, order, next', prev', free_list', rk)
       /\ Counted(H \ {p}, order, free_count', free_pages')
       /\ Blk(H \ {p}, order) = Blk(H, order) \ {<<p, f>>}
       /\ next' \in Links /\ prev' \in Links /\ free_list' \in HeadsType
  BY <1>0, <1>4, <1>5, <1>6, <1>8, <1>9, UnlinkStep
<1>11. Typed'
  <2>1. p \in 0..NPages
    BY <1>5, ZonesAre DEF Pfn
  <2> QED BY <1>0, <1>2, <1>3, <1>4, <1>10, <2>1 DEF Typed
<1>12. Control' /\ Given' = Given /\ Managed' = Managed /\ \A g : Usable(g)' = Usable(g)
  <2>1. o \in Orders /\ o <= f
    BY <1>3, OrdersAre
  <2> QED BY <1>0, <1>2, <1>4, <1>5, <2>1, KeepControl DEF Initialised
<1>13. FlagsInv'
  BY <1>0, <1>4, <1>12 DEF FlagsInv
<1>14. PICK K : K = H \ {p}
  OBVIOUS
<1>15. Owned(K, rk)'
  <2>1. InHand' = {<<p, f>>}
    BY <1>4 DEF InHand
  <2>2. Blk(K, order') \cup live' \cup InHand' = Blocks(H)
    BY <1>4, <1>6, <1>7, <1>10, <1>14, <2>1 DEF Blocks
  <2>3. Parted(Blk(K, order') \cup live' \cup InHand', Given')
    BY <1>6, <1>12, <2>2
  <2>4. /\ Blk(K, order') \cap live' = {} /\ Blk(K, order') \cap InHand' = {}
        /\ live' \cap InHand' = {}
    BY <1>4, <1>6, <1>7, <1>10, <1>14, <2>1
  <2> QED BY <1>4, <1>10, <1>14, <2>3, <2>4 DEF Owned
<1> QED BY <1>11, <1>12, <1>13, <1>15 DEF PmmInv
LEMMA SplitStepStep ==
    ASSUME PmmInv, SplitStep
    PROVE  PmmInv'
<1>0. Typed /\ Control /\ FlagsInv /\ pc = "split" /\ Initialised /\ ord > goal
  BY DEF PmmInv, SplitStep, Initialised
<1>1. PICK H, rk : Owned(H, rk)
  BY DEF PmmInv
<1>2. PICK p, o, b : p = cur /\ o = ord - 1 /\ b = p + Size[o]
  OBVIOUS
<1>3. o \in Orders /\ o + 1 = ord /\ o + 1 \in Orders /\ goal \in Orders /\ goal <= o
  <2>1. ord \in Orders /\ goal \in Orders
    BY <1>0 DEF Typed, Control
  <2>2. ord \in Nat /\ goal \in Nat
    BY <2>1, OrdersAre
  <2>3. ord # 0 /\ o + 1 = ord /\ goal <= o
    BY <1>0, <1>2, <2>2
  <2> QED BY <1>2, <2>1, <2>3, OrdersAre
<1>4. /\ Lists(H, order, next, prev, free_list, rk) /\ Counted(H, order, free_count, free_pages)
      /\ Parted(Blocks(H), Given) /\ InHand = {<<p, o + 1>>} /\ <<p, o + 1>> \in Blocks(H)
      /\ Blk(H, order) \cap live = {} /\ <<p, o + 1>> \notin Blk(H, order) /\ <<p, o + 1>> \notin live
  BY <1>0, <1>1, <1>2, <1>3 DEF Owned, InHand, Blocks
<1>5. PICK CS : CS = (Blocks(H) \ {<<p, o + 1>>}) \cup {<<p, o>>, <<b, o>>}
  OBVIOUS
<1>6. p \in Nat /\ Aligned(p, o + 1)
  <2>1. <<p, o + 1>>[1] \in Nat /\ Aligned(<<p, o + 1>>[1], <<p, o + 1>>[2])
    BY <1>4, BlockInside
  <2> QED BY <2>1
<1>7. /\ Parted(CS, Given) /\ b \in Pfn /\ b \in Given
      /\ <<p, o>> \notin Blocks(H) /\ <<b, o>> \notin Blocks(H)
  BY <1>2, <1>3, <1>4, <1>5, <1>6, PartHalve
<1>8. pfn_valid(b) /\ Usable(b)
  BY <1>0, <1>7, AllGiven
<1>9. select_zone(b) = zone /\ zone = select_zone(p) /\ zone # HIGHMEM
  <2>1. b \in p..(p + Size[o + 1] - 1)
    <3>1. Size[o] \in Nat \ {0} /\ Size[o + 1] = 2 * Size[o]
      BY <1>3, SizePositive, SizeDoubles
    <3> QED BY <1>2, <1>6, <3>1
  <2>2. select_zone(b) = select_zone(p)
    BY <1>3, <1>6, <2>1, OneZone
  <2> QED BY <1>0, <1>2, <2>2 DEF Control
<1>10. /\ Push(select_zone(b), b, o) /\ ord' = o
       /\ UNCHANGED <<ref_count, Map, total_pages, total_page_frames, pmm_ready, pc, zone, cur, goal, i, live>>
  BY <1>2, <1>8, <1>9 DEF SplitStep, conf
<1>11. <<b, o>> \in CS /\ <<p, o>> \in CS /\ <<b, o>> # <<p, o>>
  <2>1. Size[o] \in Nat \ {0}
    BY <1>3, SizePositive
  <2>2. b # p
    BY <1>2, <1>6, <2>1
  <2> QED BY <1>5, <2>2
<1>12. b + Size[o] <= NPages
  <2>1. <<b, o>>[1] + Size[<<b, o>>[2]] <= NPages
    BY <1>7, <1>11, BlockInside
  <2> QED BY <2>1
<1>13. \A d \in Blk(H, order) \cup live : d \in CS /\ d # <<b, o>> /\ d # <<p, o>>
  BY <1>4, <1>5, <1>7 DEF Blocks
<1>14. b \notin H
  <2> SUFFICES ASSUME b \in H PROVE FALSE
    OBVIOUS
  <2>1. <<b, order[b]>> \in Blk(H, order) /\ <<b, order[b]>>[1] = <<b, o>>[1]
    BY DEF Blk
  <2> QED BY <1>7, <1>11, <1>13, <2>1, SameHead
<1>15. \A d \in Blk(H, order) : Apart(<<b, o>>, d)
  BY <1>7, <1>11, <1>13 DEF Parted
<1>16. PICK K : K = H \cup {b}
  OBVIOUS
<1>17. /\ \E r : Lists(K, order', next', prev', free_list', r)
       /\ Counted(K, order', free_count', free_pages')
       /\ Blk(K, order') = Blk(H, order) \cup {<<b, o>>}
       /\ order' \in [Pfn -> Orders] /\ next' \in Links /\ prev' \in Links
       /\ free_list' \in HeadsType
       /\ flags' \in [Pfn -> SUBSET {"FREE", "KERNEL", "RESERVED"}]
       /\ flags' = [flags EXCEPT ![b] = {"FREE"}]
  BY <1>0, <1>3, <1>4, <1>7, <1>10, <1>12, <1>14, <1>15, <1>16, PushStep
<1>18. Typed'
  BY <1>0, <1>3, <1>10, <1>17 DEF Typed
<1>19. Control' /\ Given' = Given /\ \A g : Usable(g)' = Usable(g)
  BY <1>0, <1>2, <1>3, <1>9, <1>10, KeepControl DEF Initialised
<1>20. FlagsInv'
  <2>1. \A d \in live : d[1] # b
    BY <1>7, <1>11, <1>13, SameHead
  <2>2. \A d \in live : d[1] \in Pfn
    BY <1>0 DEF Typed
  <2>3. flags \in [Pfn -> SUBSET {"FREE", "KERNEL", "RESERVED"}]
    BY <1>0 DEF Typed
  <2>4. \A q \in Pfn : q # b => flags'[q] = flags[q]
    BY <1>17, <2>3
  <2> QED BY <1>0, <1>8, <1>10, <1>19, <2>1, <2>2, <2>4 DEF FlagsInv
<1>21. PICK r : Lists(K, order', next', prev', free_list', r)
  BY <1>17
<1>22. Owned(K, r)'
  <2>1. InHand' = {<<p, o>>}
    BY <1>0, <1>2, <1>10 DEF InHand
  <2>2. Blk(K, order') \cup live' \cup InHand' = CS
    BY <1>4, <1>5, <1>10, <1>17, <2>1 DEF Blocks
  <2>3. Parted(Blk(K, order') \cup live' \cup InHand', Given')
    BY <1>7, <1>19, <2>2
  <2>4. /\ Blk(K, order') \cap live' = {} /\ Blk(K, order') \cap InHand' = {}
        /\ live' \cap InHand' = {}
    BY <1>4, <1>10, <1>11, <1>13, <1>17, <2>1
  <2> QED BY <1>17, <1>21, <2>3, <2>4 DEF Owned
<1> QED BY <1>18, <1>19, <1>20, <1>22 DEF PmmInv

LEMMA AllocDoneStep ==
    ASSUME PmmInv, AllocDone
    PROVE  PmmInv'
<1>0. Typed /\ Control /\ FlagsInv /\ pc = "split" /\ Initialised /\ ord = goal
  BY DEF PmmInv, AllocDone, Initialised
<1>1. PICK H, rk : Owned(H, rk)
  BY DEF PmmInv
<1>2. PICK p, o : p = cur /\ o = ord
  OBVIOUS
<1>3. /\ flags' = [flags EXCEPT ![p] = @ \ {"FREE"}] /\ order' = [order EXCEPT ![p] = o]
      /\ ref_count' = [ref_count EXCEPT ![p] = 1]
      /\ live' = live \cup {<<p, o>>}
      /\ pc' = "idle" /\ zone' = DMA /\ cur' = 0 /\ ord' = 0 /\ goal' = 0
      /\ UNCHANGED <<next, prev, free_list, free_count, free_pages, Map, total_pages,
                     total_page_frames, pmm_ready, i>>
  BY <1>0, <1>2 DEF AllocDone, Return, lists, conf
<1>4. /\ Lists(H, order, next, prev, free_list, rk) /\ Counted(H, order, free_count, free_pages)
      /\ Parted(Blocks(H), Given) /\ InHand = {<<p, o>>} /\ <<p, o>> \in Blocks(H)
      /\ Blk(H, order) \cap live = {} /\ <<p, o>> \notin Blk(H, order) /\ <<p, o>> \notin live
  BY <1>0, <1>1, <1>2 DEF Owned, InHand, Blocks
<1>5. p \in Pfn /\ o \in Orders
  <2>1. <<p, o>>[1] \in Pfn /\ <<p, o>>[2] \in Orders
    BY <1>4, BlockInside
  <2> QED BY <2>1
<1>6. p \notin H
  <2> SUFFICES ASSUME p \in H PROVE FALSE
    OBVIOUS
  <2>1. <<p, order[p]>> \in Blk(H, order) /\ <<p, order[p]>> \in Blocks(H)
        /\ <<p, order[p]>>[1] = <<p, o>>[1]
    BY DEF Blk, Blocks
  <2> QED BY <1>4, <2>1, SameHead
<1>7. order \in [Pfn -> Orders] /\ H \subseteq Pfn
  BY <1>0, <1>4 DEF Typed, Lists
<1>8. \A q \in H : order'[q] = order[q] /\ next'[q] = next[q] /\ prev'[q] = prev[q]
  BY <1>3, <1>6, <1>7
<1>9. Lists(H, order', next', prev', free_list', rk)
  BY <1>3, <1>4, <1>8, ListsAgree, ZenonT(30)
<1>10. Counted(H, order', free_count', free_pages') /\ Blk(H, order') = Blk(H, order)
  BY <1>3, <1>4, <1>8, CountedAgree
<1>11. flags \in [Pfn -> SUBSET {"FREE", "KERNEL", "RESERVED"}] /\ ref_count \in [Pfn -> {0, 1}]
  BY <1>0 DEF Typed
<1>12. /\ flags' \in [Pfn -> SUBSET {"FREE", "KERNEL", "RESERVED"}] /\ "FREE" \notin flags'[p]
       /\ \A q \in Pfn : flags'[q] \subseteq flags[q]
  BY <1>3, <1>5, <1>11
<1>13. ref_count' \in [Pfn -> {0, 1}] /\ order' \in [Pfn -> Orders]
  BY <1>3, <1>5, <1>7, <1>11
<1>14. live' \subseteq Pfn \X Orders
  BY <1>0, <1>3, <1>5 DEF Typed
<1>15. Typed'
  <2>1. 0 \in 0..NPages /\ 0 \in Orders /\ DMA \in Zones
    BY ZonesAre, OrdersAre DEF Zones
  <2> QED BY <1>0, <1>3, <1>12, <1>13, <1>14, <2>1 DEF Typed
<1>16. Control' /\ Given' = Given /\ \A g : Usable(g)' = Usable(g)
  BY <1>0, <1>3, KeepControl DEF Initialised
<1>17. FlagsInv'
  <2>1. \A d \in live : d[1] \in Pfn
    BY <1>0 DEF Typed
  <2>2. select_zone(p) # HIGHMEM
    BY <1>0, <1>2 DEF Control
  <2>3. \A d \in live' : "FREE" \notin flags'[d[1]] /\ select_zone(d[1]) # HIGHMEM
    BY <1>0, <1>3, <1>12, <2>1, <2>2 DEF FlagsInv
  <2>4. \A q \in Pfn : "FREE" \in flags'[q] => Usable(q)'
    BY <1>0, <1>12, <1>16 DEF FlagsInv
  <2> QED BY <2>3, <2>4 DEF FlagsInv
<1>18. Owned(H, rk)'
  <2>1. InHand' = {}
    BY <1>3 DEF InHand
  <2>2. Blk(H, order') \cup live' \cup InHand' = Blocks(H)
    BY <1>3, <1>4, <1>10, <2>1 DEF Blocks
  <2>3. Parted(Blk(H, order') \cup live' \cup InHand', Given')
    BY <1>4, <1>16, <2>2
  <2>4. /\ Blk(H, order') \cap live' = {} /\ Blk(H, order') \cap InHand' = {}
        /\ live' \cap InHand' = {}
    BY <1>3, <1>4, <1>10, <2>1
  <2> QED BY <1>9, <1>10, <2>3, <2>4 DEF Owned
<1> QED BY <1>15, <1>16, <1>17, <1>18 DEF PmmInv

LEMMA FreeStartStep ==
    ASSUME PmmInv, NEW p, NEW o, FreeStart(p, o)
    PROVE  PmmInv'
<1>0. Typed /\ Control /\ FlagsInv /\ pc = "idle" /\ Initialised /\ <<p, o>> \in live
  BY DEF PmmInv, FreeStart, Initialised
<1>1. PICK H, rk : Owned(H, rk)
  BY DEF PmmInv
<1>2. /\ Lists(H, order, next, prev, free_list, rk) /\ Counted(H, order, free_count, free_pages)
      /\ Parted(Blocks(H), Given) /\ InHand = {} /\ <<p, o>> \in Blocks(H)
      /\ Blk(H, order) \cap live = {}
  BY <1>0, <1>1 DEF Owned, InHand, Blocks
<1>3. p \in Pfn /\ o \in Orders /\ p \in Given
  <2>1. <<p, o>>[1] \in Pfn /\ <<p, o>>[2] \in Orders /\ <<p, o>>[1] \in Given
    BY <1>2, BlockInside
  <2> QED BY <2>1
<1>4. pfn_valid(p)
  BY <1>0, <1>3, AllGiven
<1>5. /\ live' = live \ {<<p, o>>} /\ ref_count' = [ref_count EXCEPT ![p] = 0]
      /\ pc' = "merge" /\ zone' = select_zone(p) /\ cur' = p /\ ord' = o
      /\ UNCHANGED <<flags, order, next, prev, free_list, free_count, free_pages, Map, total_pages,
                     total_page_frames, pmm_ready, goal, i>>
  BY <1>4 DEF FreeStart, lists, conf
<1>6. select_zone(p) # HIGHMEM /\ select_zone(p) \in Zones
  <2>1. select_zone(<<p, o>>[1]) # HIGHMEM
    BY <1>0 DEF FlagsInv
  <2> QED BY <2>1, ZoneType
<1>7. Typed'
  <2>1. ref_count' \in [Pfn -> {0, 1}]
    BY <1>0, <1>3, <1>5 DEF Typed
  <2>2. p \in 0..NPages
    BY <1>3, ZonesAre DEF Pfn
  <2> QED BY <1>0, <1>3, <1>5, <1>6, <2>1, <2>2 DEF Typed
<1>8. Control' /\ Given' = Given /\ \A g : Usable(g)' = Usable(g)
  BY <1>0, <1>5, <1>6, KeepControl DEF Initialised
<1>9. FlagsInv'
  BY <1>0, <1>5, <1>8 DEF FlagsInv
<1>10. Owned(H, rk)'
  <2>1. InHand' = {<<p, o>>}
    BY <1>5 DEF InHand
  <2>2. Blk(H, order') \cup live' \cup InHand' = Blocks(H)
    BY <1>0, <1>2, <1>5, <2>1 DEF Blocks
  <2>3. Parted(Blk(H, order') \cup live' \cup InHand', Given')
    BY <1>2, <1>8, <2>2
  <2>4. /\ Blk(H, order') \cap live' = {} /\ Blk(H, order') \cap InHand' = {}
        /\ live' \cap InHand' = {}
    BY <1>0, <1>2, <1>5, <2>1
  <2> QED BY <1>2, <1>5, <2>3, <2>4 DEF Owned
<1> QED BY <1>7, <1>8, <1>9, <1>10 DEF PmmInv
\* The frame Mergeable looks at is the first frame of a free block.
LEMMA MergeableIsFree ==
    ASSUME Typed, Control, FlagsInv, pc = "merge", Mergeable, NEW H, NEW rk, Owned(H, rk),
           NEW p, p = cur, NEW o, o = ord, NEW b, b = buddy_pfn(p, o)
    PROVE  /\ b \in H /\ order[b] = o /\ select_zone(b) = zone
           /\ o + 1 \in Orders /\ p \in Nat /\ Aligned(p, o)
<1>0. Initialised /\ <<p, o>> \in Blocks(H) /\ Parted(Blocks(H), Given)
  BY DEF Initialised, Owned, Blocks, InHand
<1>1. p \in Nat /\ o \in Orders /\ Aligned(p, o)
  <2>1. <<p, o>>[1] \in Nat /\ <<p, o>>[2] \in Orders /\ Aligned(<<p, o>>[1], <<p, o>>[2])
    BY <1>0, BlockInside
  <2> QED BY <2>1
<1>2. o + 1 \in Orders /\ pfn_valid(b) /\ "FREE" \in flags[b] /\ order[b] = o
  <2>1. o < PMM_MAX_ORDER /\ pfn_valid(b) /\ "FREE" \in flags[b] /\ order[b] = o
    BY DEF Mergeable
  <2>2. o # PMM_MAX_ORDER
    BY <1>1, <2>1, OrdersAre
  <2> QED BY <1>1, <2>1, <2>2, OrdersAre
<1>3. /\ b \in Nat /\ Aligned(b, o)
      /\ \/ b = p + Size[o] /\ Aligned(p, o + 1)
         \/ p = b + Size[o] /\ Aligned(b, o + 1)
  BY <1>1, <1>2, BuddyIs
<1>4. Size[o] \in Nat \ {0} /\ Size[o + 1] = 2 * Size[o]
  BY <1>1, <1>2, SizePositive, SizeDoubles
<1>5. select_zone(b) = select_zone(p)
  <2>1. CASE b = p + Size[o] /\ Aligned(p, o + 1)
    <3>1. b \in p..(p + Size[o + 1] - 1)
      BY <1>1, <1>3, <1>4, <2>1
    <3> QED BY <1>1, <1>2, <2>1, <3>1, OneZone
  <2>2. CASE p = b + Size[o] /\ Aligned(b, o + 1)
    <3>1. p \in b..(b + Size[o + 1] - 1)
      BY <1>1, <1>3, <1>4, <2>2
    <3> QED BY <1>2, <1>3, <2>2, <3>1, OneZone
  <2> QED BY <1>3, <2>1, <2>2
<1>6. zone = select_zone(p) /\ zone # HIGHMEM
  BY DEF Control
<1>7. b \in Pfn
  <2>1. b < total_page_frames /\ total_page_frames \in 0..NPages
    BY <1>2 DEF pfn_valid, Typed
  <2> QED BY <1>3, <2>1, ZonesAre DEF Pfn
<1>8. b \in Given
  <2>1. Usable(b)
    BY <1>2, <1>7 DEF FlagsInv
  <2> QED BY <1>0, <1>5, <1>6, <1>7, <2>1, AllGiven
<1>9. PICK d \in Blocks(H) : d[1] = b /\ d[2] <= o
  BY <1>0, <1>1, <1>2, <1>8, BuddyBlock
<1>10. d \notin live
  BY <1>2, <1>9 DEF FlagsInv
<1>11. d \notin InHand
  <2> SUFFICES ASSUME d \in InHand PROVE FALSE
    OBVIOUS
  <2>1. d = <<p, o>>
    BY DEF InHand
  <2>2. b = p
    BY <1>9, <2>1
  <2> QED BY <1>1, <1>3, <1>4, <2>2
<1>12. PICK q \in H : d = <<q, order[q]>>
  BY <1>9, <1>10, <1>11 DEF Blocks, Blk
<1>13. b = q
  BY <1>9, <1>12
<1> QED BY <1>1, <1>2, <1>5, <1>6, <1>12, <1>13

LEMMA MergeStepStep ==
    ASSUME PmmInv, MergeStep
    PROVE  PmmInv'
<1>0. Typed /\ Control /\ FlagsInv /\ pc = "merge" /\ Initialised /\ Mergeable
  BY DEF PmmInv, MergeStep, Initialised
<1>1. PICK H, rk : Owned(H, rk)
  BY DEF PmmInv
<1>2. PICK p, o, b, m : p = cur /\ o = ord /\ b = buddy_pfn(p, o) /\ m = IF b < p THEN b ELSE p
  OBVIOUS
<1>3. /\ b \in H /\ order[b] = o /\ select_zone(b) = zone
      /\ o + 1 \in Orders /\ p \in Nat /\ Aligned(p, o) /\ o \in Orders
  BY <1>0, <1>1, <1>2, MergeableIsFree DEF Typed
<1>4. /\ Lists(H, order, next, prev, free_list, rk) /\ Counted(H, order, free_count, free_pages)
      /\ Parted(Blocks(H), Given) /\ InHand = {<<p, o>>} /\ <<p, o>> \in Blocks(H)
      /\ Blk(H, order) \cap live = {} /\ <<p, o>> \notin Blk(H, order) /\ <<p, o>> \notin live
  BY <1>0, <1>1, <1>2 DEF Owned, InHand, Blocks
<1>5. /\ Unlink(zone, b, o) /\ flags' = [flags EXCEPT ![b] = {}] /\ cur' = m /\ ord' = o + 1
      /\ UNCHANGED <<ref_count, order, Map, total_pages, total_page_frames, pmm_ready, pc, zone,
                     goal, i, live>>
  BY <1>2 DEF MergeStep, conf
<1>6. <<b, o>> \in Blk(H, order) /\ <<b, o>> \in Blocks(H) /\ <<b, o>> \notin live
  BY <1>3, <1>4 DEF Blk, Blocks
<1>7. b + Size[o] <= NPages /\ b \in Pfn
  <2>1. <<b, o>>[1] + Size[<<b, o>>[2]] <= NPages /\ <<b, o>>[1] \in Pfn
    BY <1>4, <1>6, BlockInside
  <2> QED BY <2>1
<1>8. \A d \in Blk(H, order) : d # <<b, o>> => Apart(<<b, o>>, d)
  BY <1>4, <1>6 DEF Parted, Blocks
<1>9. PICK K : K = H \ {b}
  OBVIOUS
<1>10. /\ Lists(K, order, next', prev', free_list', rk)
       /\ Counted(K, order, free_count', free_pages')
       /\ Blk(K, order) = Blk(H, order) \ {<<b, o>>}
       /\ next' \in Links /\ prev' \in Links /\ free_list' \in HeadsType
  BY <1>0, <1>3, <1>4, <1>5, <1>7, <1>8, <1>9, UnlinkStep
<1>11. /\ m \in Nat /\ Aligned(m, o + 1)
       /\ {<<m, o>>, <<m + Size[o], o>>} = {<<p, o>>, <<b, o>>}
       /\ select_zone(m) = zone
  <2>1. /\ b \in Nat
        /\ \/ b = p + Size[o] /\ Aligned(p, o + 1)
           \/ p = b + Size[o] /\ Aligned(b, o + 1)
    BY <1>2, <1>3, BuddyIs
  <2>2. Size[o] \in Nat \ {0} /\ select_zone(p) = zone
    BY <1>0, <1>2, <1>3, SizePositive DEF Control
  <2>3. CASE b = p + Size[o] /\ Aligned(p, o + 1)
    <3>1. m = p /\ m + Size[o] = b
      BY <1>2, <1>3, <2>1, <2>2, <2>3
    <3> QED BY <1>3, <2>2, <2>3, <3>1
  <2>4. CASE p = b + Size[o] /\ Aligned(b, o + 1)
    <3>1. m = b /\ m + Size[o] = p
      BY <1>2, <1>3, <2>1, <2>2, <2>4
    <3> QED BY <1>3, <2>1, <2>4, <3>1
  <2> QED BY <2>1, <2>3, <2>4
<1>12. PICK CS : CS = (Blocks(H) \ {<<m, o>>, <<m + Size[o], o>>}) \cup {<<m, o + 1>>}
  OBVIOUS
<1>13. Parted(CS, Given) /\ <<m, o + 1>> \notin Blocks(H)
  <2>1. <<m, o>> \in Blocks(H) /\ <<m + Size[o], o>> \in Blocks(H)
    BY <1>4, <1>6, <1>11
  <2> QED BY <1>3, <1>4, <1>11, <1>12, <2>1, PartMerge
<1>14. m \in 0..NPages
  <2>1. <<m, o + 1>>[1] \in Pfn
    BY <1>12, <1>13, BlockInside
  <2>2. m \in Pfn
    BY <2>1
  <2> QED BY <2>2, ZonesAre DEF Pfn
<1>15. flags \in [Pfn -> SUBSET {"FREE", "KERNEL", "RESERVED"}]
  BY <1>0 DEF Typed
<1>16. /\ flags' \in [Pfn -> SUBSET {"FREE", "KERNEL", "RESERVED"}]
       /\ \A q \in Pfn : flags'[q] \subseteq flags[q]
  BY <1>5, <1>7, <1>15
<1>17. Typed'
  BY <1>0, <1>3, <1>5, <1>10, <1>14, <1>16 DEF Typed
<1>18. Control' /\ Given' = Given /\ \A g : Usable(g)' = Usable(g)
  <2>1. zone # HIGHMEM
    BY <1>0 DEF Control
  <2> QED BY <1>0, <1>5, <1>11, <2>1, KeepControl DEF Initialised
<1>19. FlagsInv'
  <2>1. \A d \in live : d[1] \in Pfn
    BY <1>0 DEF Typed
  <2> QED BY <1>0, <1>5, <1>16, <1>18, <2>1 DEF FlagsInv
<1>20. Owned(K, rk)'
  <2>1. InHand' = {<<m, o + 1>>}
    BY <1>0, <1>5 DEF InHand
  <2>2. Blk(K, order') \cup live' \cup InHand' = CS
    BY <1>4, <1>5, <1>6, <1>10, <1>11, <1>12, <2>1 DEF Blocks
  <2>3. Parted(Blk(K, order') \cup live' \cup InHand', Given')
    BY <1>13, <1>18, <2>2
  <2>4. /\ Blk(K, order') \cap live' = {} /\ Blk(K, order') \cap InHand' = {}
        /\ live' \cap InHand' = {}
    BY <1>4, <1>5, <1>10, <1>13, <2>1 DEF Blocks
  <2> QED BY <1>5, <1>10, <2>3, <2>4 DEF Owned
<1> QED BY <1>17, <1>18, <1>19, <1>20 DEF PmmInv

LEMMA FreeDoneStep ==
    ASSUME PmmInv, FreeDone
    PROVE  PmmInv'
<1>0. Typed /\ Control /\ FlagsInv /\ pc = "merge" /\ Initialised
  BY DEF PmmInv, FreeDone, Initialised
<1>1. PICK H, rk : Owned(H, rk)
  BY DEF PmmInv
<1>2. PICK p, o : p = cur /\ o = ord
  OBVIOUS
<1>3. /\ Lists(H, order, next, prev, free_list, rk) /\ Counted(H, order, free_count, free_pages)
      /\ Parted(Blocks(H), Given) /\ InHand = {<<p, o>>} /\ <<p, o>> \in Blocks(H)
      /\ Blk(H, order) \cap live = {} /\ <<p, o>> \notin Blk(H, order) /\ <<p, o>> \notin live
  BY <1>0, <1>1, <1>2 DEF Owned, InHand, Blocks
<1>4. p \in Pfn /\ o \in Orders /\ p \in Given /\ p + Size[o] <= NPages
  <2>1. <<p, o>>[1] \in Pfn /\ <<p, o>>[2] \in Orders /\ <<p, o>>[1] \in Given
        /\ <<p, o>>[1] + Size[<<p, o>>[2]] <= NPages
    BY <1>3, BlockInside
  <2> QED BY <2>1
<1>5. /\ Push(select_zone(p), p, o)
      /\ pc' = "idle" /\ zone' = DMA /\ cur' = 0 /\ ord' = 0 /\ goal' = 0
      /\ UNCHANGED <<ref_count, Map, total_pages, total_page_frames, pmm_ready, i, live>>
  BY <1>0, <1>2 DEF FreeDone, Return, conf, Control
<1>6. p \notin H
  <2> SUFFICES ASSUME p \in H PROVE FALSE
    OBVIOUS
  <2>1. <<p, order[p]>> \in Blk(H, order) /\ <<p, order[p]>> \in Blocks(H)
        /\ <<p, order[p]>>[1] = <<p, o>>[1]
    BY DEF Blk, Blocks
  <2> QED BY <1>3, <2>1, SameHead
<1>7. \A d \in Blk(H, order) : Apart(<<p, o>>, d)
  BY <1>3 DEF Parted, Blocks
<1>8. PICK K : K = H \cup {p}
  OBVIOUS
<1>9. /\ \E r : Lists(K, order', next', prev', free_list', r)
      /\ Counted(K, order', free_count', free_pages')
      /\ Blk(K, order') = Blk(H, order) \cup {<<p, o>>}
      /\ order' \in [Pfn -> Orders] /\ next' \in Links /\ prev' \in Links
      /\ free_list' \in HeadsType
      /\ flags' \in [Pfn -> SUBSET {"FREE", "KERNEL", "RESERVED"}]
      /\ flags' = [flags EXCEPT ![p] = {"FREE"}]
  BY <1>0, <1>3, <1>4, <1>5, <1>6, <1>7, <1>8, PushStep
<1>10. Typed'
  <2>1. 0 \in 0..NPages /\ 0 \in Orders /\ DMA \in Zones
    BY ZonesAre, OrdersAre DEF Zones
  <2> QED BY <1>0, <1>5, <1>9, <2>1 DEF Typed
<1>11. Control' /\ Given' = Given /\ \A g : Usable(g)' = Usable(g)
  BY <1>0, <1>5, KeepControl DEF Initialised
<1>12. FlagsInv'
  <2>1. \A d \in live : d[1] # p
    <3> SUFFICES ASSUME NEW d \in live, d[1] = p PROVE FALSE
      OBVIOUS
    <3>1. d \in Blocks(H) /\ d[1] = <<p, o>>[1]
      BY DEF Blocks
    <3> QED BY <1>3, <3>1, SameHead
  <2>2. \A d \in live : d[1] \in Pfn
    BY <1>0 DEF Typed
  <2>3. flags \in [Pfn -> SUBSET {"FREE", "KERNEL", "RESERVED"}]
    BY <1>0 DEF Typed
  <2>4. \A q \in Pfn : q # p => flags'[q] = flags[q]
    BY <1>9, <2>3
  <2>5. Usable(p)
    BY <1>0, <1>4, AllGiven
  <2> QED BY <1>0, <1>5, <1>11, <2>1, <2>2, <2>4, <2>5 DEF FlagsInv
<1>13. PICK r : Lists(K, order', next', prev', free_list', r)
  BY <1>9
<1>14. Owned(K, r)'
  <2>1. InHand' = {}
    BY <1>5 DEF InHand
  <2>2. Blk(K, order') \cup live' \cup InHand' = Blocks(H)
    BY <1>3, <1>5, <1>9, <2>1 DEF Blocks
  <2>3. Parted(Blk(K, order') \cup live' \cup InHand', Given')
    BY <1>3, <1>11, <2>2
  <2>4. /\ Blk(K, order') \cap live' = {} /\ Blk(K, order') \cap InHand' = {}
        /\ live' \cap InHand' = {}
    BY <1>3, <1>5, <1>9, <2>1
  <2> QED BY <1>9, <1>13, <2>3, <2>4 DEF Owned
<1> QED BY <1>10, <1>11, <1>12, <1>14 DEF PmmInv
----------------------------------------------------------------------------
\* The steps of pmm_init.
LEMMA DuringInit ==
    ASSUME PmmInv, pc \in {"map", "range", "span"}
    PROVE  /\ Typed /\ Control /\ FlagsInv /\ live = {} /\ InHand = {} /\ Map \in Maps
           /\ i \in Nat /\ Len(Map) \in Nat /\ i \in 1..(Len(Map) + 1)
           /\ \E H, rk : /\ Owned(H, rk) /\ Lists(H, order, next, prev, free_list, rk)
                         /\ Counted(H, order, free_count, free_pages)
                         /\ Parted(Blk(H, order), Given)
                         /\ H \subseteq Given
<1>1. Typed /\ Control /\ FlagsInv /\ ~ Initialised
  BY DEF PmmInv, Initialised
<1>2. live = {} /\ InHand = {} /\ Map \in Maps /\ i \in 1..(Len(Map) + 1)
  BY <1>1 DEF Control, InHand, Typed
<1>3. Len(Map) \in Nat /\ i \in Nat
  <2>1. Map \in Seq([base : Pfn, end : 0..NPages, usable : BOOLEAN])
    BY <1>2, MapAssumption, Zenon
  <2> QED BY <1>2, <2>1
<1>4. PICK H, rk : Owned(H, rk)
  BY DEF PmmInv
<1>5. Blk(H, order) \cup live \cup InHand = Blk(H, order)
  BY <1>2
<1>6. Parted(Blk(H, order), Given)
  BY <1>4, <1>5 DEF Owned
<1>7. H \subseteq Given
  <2> SUFFICES ASSUME NEW q \in H PROVE q \in Given
    OBVIOUS
  <2>1. <<q, order[q]>> \in Blk(H, order)
    BY DEF Blk
  <2>2. <<q, order[q]>>[1] \in Given
    BY <1>6, <2>1, BlockInside
  <2> QED BY <2>2
<1> QED BY <1>1, <1>2, <1>3, <1>4, <1>6, <1>7 DEF Owned

LEMMA InitEntryStep ==
    ASSUME PmmInv, InitEntry
    PROVE  PmmInv'
<1>0. /\ Typed /\ Control /\ FlagsInv /\ live = {} /\ InHand = {} /\ Map \in Maps
      /\ i \in Nat /\ Len(Map) \in Nat /\ i \in 1..Len(Map) /\ pc = "map"
  <2>1. pc = "map" /\ i <= Len(Map)
    BY DEF InitEntry
  <2>2. /\ Typed /\ Control /\ FlagsInv /\ live = {} /\ InHand = {} /\ Map \in Maps
        /\ i \in Nat /\ Len(Map) \in Nat /\ i \in 1..(Len(Map) + 1)
    BY <2>1, DuringInit
  <2> QED BY <2>1, <2>2
<1>1. PICK H, rk : /\ Lists(H, order, next, prev, free_list, rk)
                   /\ Counted(H, order, free_count, free_pages)
                   /\ Parted(Blk(H, order), Given) /\ H \subseteq Given
  BY <1>0, DuringInit
<1>2. PICK n, s, end : n = i /\ s = EntryStart(Map[n]) /\ end = Map[n].end
  OBVIOUS
<1>3. s \in Nat /\ end \in 0..NPages /\ n \in 1..Len(Map)
  BY <1>0, <1>2, EntryIs
<1>4. UNCHANGED <<order, free_list, free_count, free_pages, Map, total_pages, pmm_ready, ord, live>>
  BY DEF InitEntry, lists
<1>5. \A k \in 1..Len(Map) : Begun(k) <=> k < n
  BY <1>0, <1>2 DEF Begun
<1>6. \A f : Usable(f)' = Usable(f)
  BY <1>4 DEF Usable
<1>7. CASE EntryTaken(Map[i])
  <2>1. /\ total_page_frames' = IF end > total_page_frames THEN end ELSE total_page_frames
        /\ flags' = [p \in Pfn |-> IF p \in s..(end - 1) THEN {"FREE"} ELSE flags[p]]
        /\ ref_count' = [p \in Pfn |-> IF p \in s..(end - 1) THEN 0 ELSE ref_count[p]]
        /\ next' = [p \in Pfn |-> IF p \in s..(end - 1) THEN NULL ELSE next[p]]
        /\ prev' = [p \in Pfn |-> IF p \in s..(end - 1) THEN NULL ELSE prev[p]]
        /\ pc' = "range" /\ zone' = select_zone(s) /\ cur' = s
        /\ goal' = IF end > ZoneEnd(select_zone(s)) THEN ZoneEnd(select_zone(s)) ELSE end
        /\ i' = n
    BY <1>2, <1>7 DEF InitEntry
  <2>2. LowEnd <= s /\ s < end
    BY <1>0, <1>2, <1>3, <1>7, EntryIs
  <2>3. \A k \in 1..Len(Map) : Begun(k)' <=> k < n \/ k = n
    BY <2>1, <1>3 DEF Begun
  <2>4. Given' = Given
    <3>1. \A k \in 1..Len(Map), f \in Pfn :
              (InEntry(Map, k, f) /\ Begun(k)' /\ (k = n => f < s))
              <=> (InEntry(Map, k, f) /\ Begun(k) /\ (k = i => f < cur))
      <4> SUFFICES ASSUME NEW k \in 1..Len(Map), NEW f \in Pfn, InEntry(Map, k, f)
                   PROVE  Begun(k)' /\ (k = n => f < s) <=> Begun(k) /\ (k = i => f < cur)
        OBVIOUS
      <4>1. CASE k = n
        <5>1. f \in Nat /\ s <= f
          BY <1>2, <4>1, PfnNat DEF InEntry
        <5>2. ~ (f < s)
          BY <1>3, <5>1
        <5>3. ~ (k < n)
          BY <1>0, <1>2, <4>1
        <5> QED BY <1>5, <4>1, <5>2, <5>3
      <4>2. CASE k # n
        BY <1>2, <1>5, <2>3, <4>2
      <4> QED BY <4>1, <4>2
    <3> QED BY <1>4, <2>1, <3>1 DEF Given
  <2>5. \A q \in H : q \in Pfn /\ q \notin s..(end - 1)
    <3> SUFFICES ASSUME NEW q \in H, q \in s..(end - 1) PROVE FALSE
      BY <1>1 DEF Lists
    <3>1. q \in Nat /\ s <= q /\ q < end
      BY <1>3
    <3>2. PICK k \in 1..Len(Map) : InEntry(Map, k, q) /\ Begun(k)
      BY <1>1 DEF Given
    <3>3. EntryStart(Map[k]) <= q /\ q < Map[k].end /\ k < n
      BY <1>5, <3>2 DEF InEntry
    <3>4. k = n
      BY <1>0, <1>2, <1>3, <3>1, <3>3, EntriesApart
    <3> QED BY <1>0, <1>2, <3>3, <3>4
  <2>6. Lists(H, order', next', prev', free_list', rk)
    <3>1. \A q \in H : order'[q] = order[q] /\ next'[q] = next[q] /\ prev'[q] = prev[q]
      BY <1>4, <2>1, <2>5
    <3> QED BY <1>1, <1>4, <3>1, ListsAgree
  <2>7. ZoneEnd(select_zone(s)) \in 0..NPages /\ s < ZoneEnd(select_zone(s))
    BY <1>3, <2>2, ZonesAre DEF ZoneEnd, select_zone, DMA, NORMAL, HIGHMEM
  <2>8. /\ goal' \in 0..NPages /\ s <= goal' /\ s \in 0..NPages
        /\ total_page_frames' \in 0..NPages /\ end <= total_page_frames'
        /\ total_page_frames <= total_page_frames'
    <3>1. total_page_frames \in 0..NPages
      BY <1>0 DEF Typed
    <3> QED BY <1>3, <2>1, <2>2, <2>7, <3>1, ZonesAre
  <2>9. Typed'
    <3>1. next' \in Links /\ prev' \in Links
      BY <1>0, <2>1 DEF Typed, Links
    <3>2. flags' \in [Pfn -> SUBSET {"FREE", "KERNEL", "RESERVED"}]
      BY <1>0, <2>1 DEF Typed
    <3>3. ref_count' \in [Pfn -> {0, 1}]
      BY <1>0, <2>1 DEF Typed
    <3>4. select_zone(s) \in Zones
      BY ZoneType
    <3> QED BY <1>0, <1>2, <1>4, <2>1, <2>8, <3>1, <3>2, <3>3, <3>4 DEF Typed
  <2>10. Control'
    <3>1. Ranging'
      BY <1>2, <1>4, <2>1, <2>7, <2>8 DEF Ranging
    <3>2. \A k \in 1..Len(Map) : Begun(k)' /\ EntryTaken(Map[k]) => Map[k].end <= total_page_frames'
      <4> SUFFICES ASSUME NEW k \in 1..Len(Map), Begun(k)', EntryTaken(Map[k])
                   PROVE  Map[k].end <= total_page_frames'
        OBVIOUS
      <4>1. CASE k = n
        BY <1>2, <2>8, <4>1
      <4>2. CASE k # n
        <5>1. Map[k].end <= total_page_frames /\ Map[k].end \in Nat
          BY <1>0, <1>5, <2>3, <4>2, EntryType DEF Control
        <5>2. total_page_frames \in Nat /\ total_page_frames' \in Nat
          BY <1>0, <2>8, ZonesAre DEF Typed
        <5> QED BY <2>8, <5>1, <5>2
      <4> QED BY <4>1, <4>2
    <3>3. i' <= Len(Map) /\ EntryTaken(Map[i'])
      BY <1>0, <1>2, <1>7, <2>1
    <3> QED BY <1>0, <1>4, <2>1, <3>1, <3>2, <3>3 DEF Control, Initialised
  <2>11. FlagsInv'
    <3>1. \A p \in s..(end - 1) : Usable(p)
      <4> SUFFICES ASSUME NEW p \in s..(end - 1) PROVE Usable(p)
        OBVIOUS
      <4>1. s <= p /\ p < end
        BY <1>3
      <4> QED BY <1>2, <1>3, <1>7, <4>1 DEF Usable
    <3>2. \A p \in Pfn : "FREE" \in flags'[p] => Usable(p)
      BY <1>0, <2>1, <3>1 DEF FlagsInv
    <3> QED BY <1>0, <1>4, <1>6, <3>2 DEF FlagsInv
  <2>12. Owned(H, rk)'
    <3>1. InHand' = {} /\ live' = {}
      BY <1>0, <1>4, <2>1 DEF InHand
    <3> QED BY <1>1, <1>4, <2>4, <2>6, <3>1 DEF Owned
  <2> QED BY <2>9, <2>10, <2>11, <2>12 DEF PmmInv
<1>8. CASE ~ EntryTaken(Map[i])
  <2>1. /\ i' = n + 1
        /\ UNCHANGED <<total_page_frames, flags, ref_count, next, prev, pc, zone, cur, goal>>
    BY <1>2, <1>8 DEF InitEntry
  <2>2. \A k \in 1..Len(Map) : Begun(k)' <=> k < n \/ k = n
    BY <1>0, <1>3, <2>1 DEF Begun
  <2>3. \A k \in 1..Len(Map) : k # i' \/ ~ Begun(k)'
    BY <1>0, <1>3, <2>1, <2>2
  <2>4. Given' = Given
    <3>1. \A k \in 1..Len(Map), f \in Pfn :
              (InEntry(Map, k, f) /\ Begun(k)' /\ (k = i' => f < cur'))
              <=> (InEntry(Map, k, f) /\ Begun(k) /\ (k = i => f < cur))
      <4> SUFFICES ASSUME NEW k \in 1..Len(Map), NEW f \in Pfn, InEntry(Map, k, f)
                   PROVE  Begun(k)' /\ (k = i' => f < cur') <=> Begun(k) /\ (k = i => f < cur)
        OBVIOUS
      <4>1. k # n
        BY <1>2, <1>8 DEF InEntry
      <4> QED BY <1>2, <1>5, <2>2, <2>3, <4>1
    <3> QED BY <1>4, <3>1 DEF Given
  <2>5. Typed'
    BY <1>0, <1>2, <1>4, <2>1 DEF Typed
  <2>6. Control'
    <3>1. \A k \in 1..Len(Map) : Begun(k)' /\ EntryTaken(Map[k]) => Map[k].end <= total_page_frames
      BY <1>0, <1>2, <1>5, <1>8, <2>2 DEF Control
    <3> QED BY <1>0, <1>4, <2>1, <3>1 DEF Control, Initialised
  <2>7. FlagsInv'
    BY <1>0, <1>4, <1>6, <2>1 DEF FlagsInv
  <2>8. Owned(H, rk)'
    <3>1. InHand' = {} /\ live' = {}
      BY <1>0, <1>4, <2>1 DEF InHand
    <3> QED BY <1>1, <1>4, <2>1, <2>4, <3>1 DEF Owned
  <2> QED BY <2>5, <2>6, <2>7, <2>8 DEF PmmInv
<1> QED BY <1>7, <1>8
\* The frames buddy_free_range has still to add are frames of the entry, in
\* the zone it adds them to.
LEMMA RestOfRange ==
    ASSUME Typed, Control, pc \in {"range", "span"}, cur < goal, NEW f \in Nat, cur <= f, f < goal
    PROVE  /\ InEntry(Map, i, f) /\ select_zone(f) = zone /\ f < NPages
           /\ goal \in Nat /\ goal <= NPages
           /\ pc = "span" => EntryStart(Map[i]) < DmaEnd /\ Map[i].end > DmaEnd
<1> DEFINE s == EntryStart(Map[i])
           end == Map[i].end
<1>1. Map \in Maps /\ i \in 1..Len(Map) /\ EntryTaken(Map[i]) /\ cur \in Nat
  <2>1. Map \in Maps /\ i \in 1..(Len(Map) + 1) /\ i <= Len(Map) /\ EntryTaken(Map[i])
        /\ cur \in 0..NPages
    BY DEF Typed, Control
  <2>2. Map \in Seq([base : Pfn, end : 0..NPages, usable : BOOLEAN])
    BY <2>1, MapAssumption, Zenon
  <2> QED BY <2>1, <2>2, ZonesAre
<1>2. s \in Nat /\ end \in 0..NPages /\ s < end
  BY <1>1, EntryIs
<1> HIDE DEF s, end
<1>3. CASE pc = "range"
  <2>1. zone = select_zone(s) /\ s <= cur /\ goal = IF end > ZoneEnd(zone) THEN ZoneEnd(zone) ELSE end
    BY <1>3 DEF Control, Ranging, s, end
  <2>2. ZoneEnd(zone) \in Nat
    BY <2>1, ZonesAre DEF ZoneEnd
  <2>3. goal \in Nat /\ f < end /\ f < ZoneEnd(zone) /\ s <= f /\ goal <= NPages /\ f < NPages
    BY <1>1, <1>2, <2>1, <2>2, ZonesAre
  <2>4. select_zone(f) = zone
    BY <1>2, <2>1, <2>3, ZonesAre DEF select_zone, ZoneEnd, DMA, NORMAL, HIGHMEM
  <2> QED BY <1>1, <1>3, <2>1, <2>3, <2>4 DEF InEntry, s, end
<1>4. CASE pc = "span"
  <2>1. s < DmaEnd /\ end > DmaEnd /\ zone = NORMAL /\ DmaEnd <= cur /\ goal = SpanEnd(Map[i])
    <3>1. IF s < DmaEnd /\ end > DmaEnd
          THEN zone = NORMAL /\ DmaEnd <= cur /\ cur <= goal /\ goal = SpanEnd(Map[i])
          ELSE cur = goal /\ goal = end
      BY <1>4 DEF Control, Spanning, s, end
    <3>2. cur # goal
      BY <1>1
    <3> QED BY <3>1, <3>2
  <2>2. goal = IF end < NormalEnd THEN end ELSE NormalEnd
    BY <2>1 DEF SpanEnd, end
  <2>3. goal \in Nat /\ f < end /\ f < NormalEnd /\ s <= f /\ DmaEnd <= f /\ goal <= NPages /\ f < NPages
    BY <1>1, <1>2, <2>1, <2>2, ZonesAre
  <2>4. select_zone(f) = NORMAL
    BY <2>3, ZonesAre DEF select_zone
  <2> QED BY <1>1, <1>4, <2>1, <2>3, <2>4 DEF InEntry, s, end
<1> QED BY <1>3, <1>4

LEMMA FreeRangeStepStep ==
    ASSUME PmmInv, FreeRangeStep
    PROVE  PmmInv'
<1>0. /\ Typed /\ Control /\ FlagsInv /\ live = {} /\ InHand = {} /\ Map \in Maps
      /\ i \in Nat /\ Len(Map) \in Nat /\ i \in 1..Len(Map) /\ pc \in {"range", "span"} /\ cur < goal
      /\ cur \in Nat
  <2>1. pc \in {"range", "span"} /\ cur < goal
    BY DEF FreeRangeStep
  <2>2. /\ Typed /\ Control /\ FlagsInv /\ live = {} /\ InHand = {} /\ Map \in Maps
        /\ i \in Nat /\ Len(Map) \in Nat /\ i \in 1..(Len(Map) + 1)
    BY <2>1, DuringInit
  <2>3. i <= Len(Map) /\ cur \in 0..NPages
    BY <2>1, <2>2 DEF Control, Typed
  <2> QED BY <2>1, <2>2, <2>3, ZonesAre
<1>1. PICK H, rk : /\ Lists(H, order, next, prev, free_list, rk)
                   /\ Counted(H, order, free_count, free_pages)
                   /\ Parted(Blk(H, order), Given) /\ H \subseteq Given
  BY <1>0, DuringInit
<1>2. PICK c, o, g : c = cur /\ g = goal /\ o = RangeOrder(c, g)
  OBVIOUS
<1>3. c \in Nat /\ g \in Nat /\ c < g /\ g <= NPages /\ c \in Pfn
  <2>1. g \in Nat /\ g <= NPages /\ c \in Nat /\ c < NPages
    BY <1>0, <1>2, RestOfRange
  <2> QED BY <1>0, <1>2, <2>1, ZonesAre DEF Pfn
<1>4. o \in Orders /\ Aligned(c, o) /\ c + Size[o] <= g /\ Size[o] \in Nat \ {0} /\ c + Size[o] <= NPages
  <2>1. o \in Orders /\ Aligned(c, o) /\ c + Size[o] <= g
    BY <1>2, <1>3, RangeOrderFits
  <2>2. Size[o] \in Nat \ {0}
    BY <2>1, SizePositive
  <2> QED BY <1>3, <2>1, <2>2, ZonesAre
<1>5. /\ Push(zone, c, o) /\ cur' = c + Size[o]
      /\ UNCHANGED <<ref_count, Map, total_pages, total_page_frames, pmm_ready, pc, zone, ord, goal, i, live>>
  BY <1>2 DEF FreeRangeStep, conf
<1>6. \A f \in Nat : In(f, <<c, o>>) <=> c <= f /\ f < c + Size[o]
  BY DEF In
<1>7. \A f \in Nat : In(f, <<c, o>>) => InEntry(Map, i, f) /\ select_zone(f) = zone /\ f \in Pfn /\ Usable(f)
  <2> SUFFICES ASSUME NEW f \in Nat, In(f, <<c, o>>)
               PROVE  InEntry(Map, i, f) /\ select_zone(f) = zone /\ f \in Pfn /\ Usable(f)
    OBVIOUS
  <2>1. cur <= f /\ f < goal
    BY <1>2, <1>3, <1>4, <1>6
  <2>2. InEntry(Map, i, f) /\ select_zone(f) = zone /\ f < NPages
    BY <1>0, <2>1, RestOfRange
  <2>3. f \in Pfn
    BY <2>2, ZonesAre DEF Pfn
  <2> QED BY <1>0, <2>2, <2>3 DEF Usable, InEntry
<1>8. In(c, <<c, o>>) /\ select_zone(c) = zone /\ Usable(c)
  <2>1. In(c, <<c, o>>)
    BY <1>3, <1>4, <1>6
  <2> QED BY <1>3, <1>7, <2>1
<1>9. \A k \in 1..Len(Map) : Begun(k)' <=> Begun(k)
  BY <1>5 DEF Begun
<1>10. Begun(i)
  BY <1>0 DEF Begun
<1>11. \A f \in Given : ~ In(f, <<c, o>>)
  <2> SUFFICES ASSUME NEW f \in Given, In(f, <<c, o>>) PROVE FALSE
    OBVIOUS
  <2>1. f \in Nat
    BY PfnNat DEF Given
  <2>2. PICK k \in 1..Len(Map) : InEntry(Map, k, f) /\ (k = i => f < cur)
    BY DEF Given
  <2>3. InEntry(Map, i, f)
    BY <1>7, <2>1
  <2>4. k = i
    BY <1>0, <2>1, <2>2, <2>3, EntriesApart DEF InEntry
  <2>5. f < c /\ c <= f
    BY <1>2, <1>6, <2>1, <2>2, <2>4
  <2> QED BY <1>3, <2>1, <2>5
<1>12. \A f \in Nat : f \in Given' <=> f \in Given \/ In(f, <<c, o>>)
  <2> SUFFICES ASSUME NEW f \in Nat PROVE f \in Given' <=> f \in Given \/ In(f, <<c, o>>)
    OBVIOUS
  <2>1. ASSUME f \in Given' PROVE f \in Given \/ In(f, <<c, o>>)
    <3>1. PICK k \in 1..Len(Map) : InEntry(Map, k, f) /\ Begun(k) /\ (k = i => f < c + Size[o])
      BY <1>5, <1>9, <2>1 DEF Given
    <3>2. f \in Pfn
      BY <2>1 DEF Given
    <3>3. CASE k = i => f < c
      BY <1>2, <3>1, <3>2, <3>3 DEF Given
    <3>4. CASE k = i /\ ~ (f < c)
      <4>1. c <= f /\ f < c + Size[o]
        BY <1>3, <3>1, <3>4
      <4> QED BY <1>6, <4>1
    <3> QED BY <3>3, <3>4
  <2>2. ASSUME f \in Given PROVE f \in Given'
    <3>1. PICK k \in 1..Len(Map) : InEntry(Map, k, f) /\ Begun(k) /\ (k = i => f < c)
      BY <1>2, <2>2 DEF Given
    <3>2. k = i => f < c + Size[o]
      BY <1>3, <1>4, <3>1
    <3>3. f \in Pfn
      BY <2>2 DEF Given
    <3> QED BY <1>5, <1>9, <3>1, <3>2, <3>3 DEF Given
  <2>3. ASSUME In(f, <<c, o>>) PROVE f \in Given'
    <3>1. InEntry(Map, i, f) /\ f \in Pfn /\ f < c + Size[o]
      BY <1>6, <1>7, <2>3
    <3> QED BY <1>0, <1>5, <1>9, <1>10, <3>1 DEF Given
  <2> QED BY <2>1, <2>2, <2>3
<1>13. Given' \subseteq Pfn
  BY DEF Given
<1>14. Parted(Blk(H, order) \cup {<<c, o>>}, Given') /\ <<c, o>> \notin Blk(H, order)
  BY <1>1, <1>3, <1>4, <1>11, <1>12, <1>13, PartAdd
<1>15. c \notin H
  BY <1>1, <1>8, <1>11
<1>16. \A d \in Blk(H, order) : Apart(<<c, o>>, d)
  BY <1>14 DEF Parted
<1>17. PICK K : K = H \cup {c}
  OBVIOUS
<1>18. /\ \E r : Lists(K, order', next', prev', free_list', r)
       /\ Counted(K, order', free_count', free_pages')
       /\ Blk(K, order') = Blk(H, order) \cup {<<c, o>>}
       /\ order' \in [Pfn -> Orders] /\ next' \in Links /\ prev' \in Links
       /\ free_list' \in HeadsType
       /\ flags' \in [Pfn -> SUBSET {"FREE", "KERNEL", "RESERVED"}]
       /\ flags' = [flags EXCEPT ![c] = {"FREE"}]
  BY <1>0, <1>1, <1>3, <1>4, <1>5, <1>8, <1>15, <1>16, <1>17, PushStep, ZenonT(30)
<1>19. Typed'
  <2>1. c + Size[o] \in 0..NPages
    BY <1>3, <1>4, ZonesAre
  <2> QED BY <1>0, <1>5, <1>18, <2>1 DEF Typed
<1>20. Control'
  <2>1. pc = "range" => Ranging'
    <3> SUFFICES ASSUME pc = "range" PROVE Ranging'
      OBVIOUS
    <3>1. Ranging /\ EntryStart(Map[i]) \in Nat
      BY <1>0, EntryIs DEF Control
    <3>2. EntryStart(Map[i]) <= cur' /\ cur' <= goal'
      BY <1>2, <1>3, <1>4, <1>5, <3>1 DEF Ranging
    <3> QED BY <1>5, <3>1, <3>2 DEF Ranging
  <2>2. pc = "span" => Spanning'
    <3> SUFFICES ASSUME pc = "span" PROVE Spanning'
      OBVIOUS
    <3>1. Spanning /\ EntryStart(Map[i]) < DmaEnd /\ Map[i].end > DmaEnd
      BY <1>0, RestOfRange DEF Control
    <3>2. DmaEnd <= cur' /\ cur' <= goal'
      BY <1>2, <1>3, <1>4, <1>5, <3>1, ZonesAre DEF Spanning
    <3> QED BY <1>5, <3>1, <3>2 DEF Spanning
  <2> QED BY <1>0, <1>5, <1>9, <2>1, <2>2 DEF Control, Initialised
<1>21. FlagsInv'
  <2>1. flags \in [Pfn -> SUBSET {"FREE", "KERNEL", "RESERVED"}]
    BY <1>0 DEF Typed
  <2>2. \A q \in Pfn : q # c => flags'[q] = flags[q]
    BY <1>18, <2>1
  <2>3. \A f : Usable(f)' = Usable(f)
    BY <1>5 DEF Usable
  <2> QED BY <1>0, <1>5, <1>8, <2>2, <2>3 DEF FlagsInv
<1>22. PICK r : Lists(K, order', next', prev', free_list', r)
  BY <1>18
<1>23. Owned(K, r)'
  <2>1. InHand' = {} /\ live' = {}
    BY <1>0, <1>5 DEF InHand
  <2> QED BY <1>14, <1>18, <1>22, <2>1 DEF Owned
<1> QED BY <1>19, <1>20, <1>21, <1>23 DEF PmmInv

LEMMA SpanStepStep ==
    ASSUME StartsOutsideNormal, PmmInv, SpanStep
    PROVE  PmmInv'
<1>0. /\ Typed /\ Control /\ FlagsInv /\ live = {} /\ InHand = {} /\ Map \in Maps
      /\ i \in 1..Len(Map) /\ pc = "range" /\ cur >= goal /\ cur \in Nat
      /\ EntryTaken(Map[i]) /\ Ranging
  <2>1. pc = "range" /\ cur >= goal
    BY DEF SpanStep
  <2>2. /\ Typed /\ Control /\ FlagsInv /\ live = {} /\ InHand = {} /\ Map \in Maps
        /\ i \in Nat /\ Len(Map) \in Nat /\ i \in 1..(Len(Map) + 1)
    BY <2>1, DuringInit
  <2>3. i <= Len(Map) /\ cur \in 0..NPages /\ EntryTaken(Map[i]) /\ Ranging
    BY <2>1, <2>2 DEF Control, Typed
  <2> QED BY <2>1, <2>2, <2>3, ZonesAre
<1>1. PICK H, rk : Owned(H, rk)
  BY DEF PmmInv
<1>2. /\ pc' = "span"
      /\ IF Spans(Map[i])
         THEN zone' = NORMAL /\ cur' = SpanStart(Map[i]) /\ goal' = SpanEnd(Map[i])
         ELSE UNCHANGED <<zone, cur, goal>>
      /\ UNCHANGED <<flags, ref_count, order, next, prev, free_list, free_count, free_pages,
                     Map, total_pages, total_page_frames, pmm_ready, ord, i, live>>
  BY DEF SpanStep, pages, lists, conf
<1> DEFINE s == EntryStart(Map[i])
           end == Map[i].end
<1>3. s \in Nat /\ end \in 0..NPages /\ s < end /\ select_zone(s) # NORMAL
  BY <1>0, EntryIs DEF StartsOutsideNormal
<1>4. /\ zone = select_zone(s) /\ s <= cur /\ cur <= goal
      /\ goal = IF end > ZoneEnd(zone) THEN ZoneEnd(zone) ELSE end
  BY <1>0 DEF Ranging
<1>5. Spans(Map[i]) <=> (s < DmaEnd /\ end > DmaEnd)
  BY <1>3, ZonesAre DEF Spans, SpanStart, SpanEnd, select_zone
<1>6. cur = goal
  <2>1. goal \in Nat
    BY <1>3, <1>4, ZonesAre DEF ZoneEnd
  <2> QED BY <1>0, <1>4, <2>1
<1>7. Spanning' /\ cur' = cur /\ zone' \in Zones /\ goal' \in (0..NPages) \cup Orders
  <2>1. CASE Spans(Map[i])
    <3>1. s < DmaEnd /\ end > DmaEnd /\ zone = DMA /\ cur = DmaEnd
      BY <1>3, <1>4, <1>5, <1>6, <2>1, ZonesAre DEF select_zone, ZoneEnd
    <3>2. cur' = cur /\ zone' = NORMAL /\ goal' = SpanEnd(Map[i]) /\ DmaEnd <= goal'
          /\ goal' \in 0..NPages
      BY <1>2, <1>3, <2>1, <3>1, ZonesAre DEF SpanStart, SpanEnd
    <3>3. Spanning'
      BY <1>2, <3>1, <3>2, ZonesAre DEF Spanning
    <3> QED BY <3>2, <3>3 DEF Zones
  <2>2. CASE ~ Spans(Map[i])
    <3>1. UNCHANGED <<zone, cur, goal>>
      BY <1>2, <2>2
    <3>2. goal = end
      BY <1>3, <1>4, <1>5, <2>2, ZonesAre DEF select_zone, ZoneEnd, DMA, NORMAL, HIGHMEM
    <3>3. Spanning'
      BY <1>2, <1>5, <1>6, <2>2, <3>1, <3>2 DEF Spanning
    <3> QED BY <1>0, <3>1, <3>3 DEF Typed
  <2> QED BY <2>1, <2>2
<1>8. \A k \in 1..Len(Map) : Begun(k)' <=> Begun(k)
  BY <1>0, <1>2 DEF Begun
<1>9. Given' = Given
  BY <1>2, <1>7, <1>8 DEF Given
<1>10. Typed'
  BY <1>0, <1>2, <1>7 DEF Typed
<1>11. Control'
  BY <1>0, <1>2, <1>7, <1>8 DEF Control, Initialised
<1>12. FlagsInv'
  BY <1>0, <1>2 DEF FlagsInv, Usable
<1>13. Owned(H, rk)'
  <2>1. InHand' = InHand
    BY <1>0, <1>2 DEF InHand
  <2> QED BY <1>1, <1>2, <1>9, <2>1 DEF Owned
<1> QED BY <1>10, <1>11, <1>12, <1>13 DEF PmmInv

LEMMA EntryDoneStep ==
    ASSUME StartsOutsideNormal, PmmInv, EntryDone
    PROVE  PmmInv'
<1>0. /\ Typed /\ Control /\ FlagsInv /\ live = {} /\ InHand = {} /\ Map \in Maps
      /\ i \in Nat /\ Len(Map) \in Nat /\ i \in 1..Len(Map)
      /\ pc = "span" /\ cur >= goal /\ cur \in Nat /\ EntryTaken(Map[i]) /\ Spanning
  <2>1. pc = "span" /\ cur >= goal
    BY DEF EntryDone
  <2>2. /\ Typed /\ Control /\ FlagsInv /\ live = {} /\ InHand = {} /\ Map \in Maps
        /\ i \in Nat /\ Len(Map) \in Nat /\ i \in 1..(Len(Map) + 1)
    BY <2>1, DuringInit
  <2>3. i <= Len(Map) /\ cur \in 0..NPages /\ EntryTaken(Map[i]) /\ Spanning
    BY <2>1, <2>2 DEF Control, Typed
  <2> QED BY <2>1, <2>2, <2>3, ZonesAre
<1>1. PICK H, rk : Owned(H, rk)
  BY DEF PmmInv
<1>2. PICK n, s, end : n = i /\ s = EntryStart(Map[n]) /\ end = Map[n].end
  OBVIOUS
<1>3. s \in Nat /\ end \in 0..NPages /\ s < end /\ select_zone(s) # NORMAL /\ end \in Nat
  BY <1>0, <1>2, EntryIs, EntryType DEF StartsOutsideNormal
<1>4. /\ total_pages' = [total_pages EXCEPT ![select_zone(s)] = @ + end - s]
      /\ i' = n + 1 /\ pc' = "map"
      /\ UNCHANGED <<flags, ref_count, order, next, prev, free_list, free_count, free_pages, Map,
                     total_page_frames, pmm_ready, zone, cur, ord, goal, live>>
  BY <1>2 DEF EntryDone, pages, lists
<1>5. \A k \in 1..Len(Map) : Begun(k)' <=> k < n \/ k = n
  BY <1>0, <1>2, <1>4 DEF Begun
<1>6. \A k \in 1..Len(Map) : Begun(k) <=> k < n \/ k = n
  BY <1>0, <1>2 DEF Begun
\* All the frames of the entry that the zones take have been added.
<1>7. \A f \in Pfn : InEntry(Map, n, f) => f < cur
  <2> SUFFICES ASSUME NEW f \in Pfn, InEntry(Map, n, f) PROVE f < cur
    OBVIOUS
  <2>1. f \in Nat /\ s <= f /\ f < end /\ select_zone(f) \in {NORMAL, select_zone(s)}
    BY <1>2, PfnNat DEF InEntry
  <2>2. IF s < DmaEnd /\ end > DmaEnd
        THEN cur <= goal /\ goal = IF end < NormalEnd THEN end ELSE NormalEnd
        ELSE cur = goal /\ goal = end
    BY <1>0, <1>2 DEF Spanning, SpanEnd
  <2>3. CASE s < DmaEnd /\ end > DmaEnd
    <3>1. f < NormalEnd
      BY <1>3, <2>1, <2>3, ZonesAre DEF select_zone, DMA, NORMAL, HIGHMEM
    <3> QED BY <1>0, <1>3, <2>1, <2>2, <2>3, <3>1, ZonesAre
  <2>4. CASE ~ (s < DmaEnd /\ end > DmaEnd)
    BY <1>0, <1>3, <2>1, <2>2, <2>4
  <2> QED BY <2>3, <2>4
<1>8. Given' = Given
  <2>1. \A k \in 1..Len(Map) : k = i' => ~ Begun(k)'
    BY <1>0, <1>2, <1>4, <1>5
  <2>2. \A k \in 1..Len(Map), f \in Pfn :
            (InEntry(Map, k, f) /\ Begun(k)' /\ (k = i' => f < cur'))
            <=> (InEntry(Map, k, f) /\ Begun(k) /\ (k = i => f < cur))
    BY <1>2, <1>5, <1>6, <1>7, <2>1
  <2> QED BY <1>4, <2>2 DEF Given
<1>9. Typed'
  <2>1. total_pages \in [Zones -> Nat] /\ select_zone(s) \in Zones
    BY <1>0, ZoneType DEF Typed
  <2>2. total_pages[select_zone(s)] + end - s \in Nat
    BY <1>3, <2>1
  <2>3. total_pages' \in [Zones -> Nat]
    BY <1>4, <2>1, <2>2
  <2>4. i' \in 1..(Len(Map) + 1)
    BY <1>0, <1>2, <1>4
  <2> QED BY <1>0, <1>4, <2>3, <2>4 DEF Typed
<1>10. Control'
  <2>1. \A k \in 1..Len(Map) : Begun(k)' /\ EntryTaken(Map[k]) => Map[k].end <= total_page_frames
    BY <1>0, <1>5, <1>6 DEF Control
  <2> QED BY <1>0, <1>4, <2>1 DEF Control, Initialised
<1>11. FlagsInv'
  BY <1>0, <1>4 DEF FlagsInv, Usable
<1>12. Owned(H, rk)'
  <2>1. InHand' = InHand
    BY <1>0, <1>4 DEF InHand
  <2> QED BY <1>1, <1>4, <1>8, <2>1 DEF Owned
<1> QED BY <1>9, <1>10, <1>11, <1>12 DEF PmmInv

LEMMA ReserveKernelStep ==
    ASSUME PmmInv, ReserveKernel
    PROVE  PmmInv'
<1>0. /\ Typed /\ Control /\ FlagsInv /\ live = {} /\ InHand = {} /\ Map \in Maps
      /\ i \in Nat /\ Len(Map) \in Nat /\ pc = "map" /\ i = Len(Map) + 1
  <2>1. pc = "map" /\ i > Len(Map)
    BY DEF ReserveKernel
  <2>2. /\ Typed /\ Control /\ FlagsInv /\ live = {} /\ InHand = {} /\ Map \in Maps
        /\ i \in Nat /\ Len(Map) \in Nat /\ i \in 1..(Len(Map) + 1)
    BY <2>1, DuringInit
  <2> QED BY <2>1, <2>2
<1>1. PICK H, rk : Owned(H, rk)
  BY DEF PmmInv
<1>2. /\ flags' = [p \in Pfn |-> IF p \in LowEnd..(KernelEnd - 1) THEN {"KERNEL", "RESERVED"}
                                                                ELSE flags[p]]
      /\ ref_count' = [p \in Pfn |-> IF p \in LowEnd..(KernelEnd - 1) THEN 1 ELSE ref_count[p]]
      /\ pmm_ready' = TRUE
      /\ pc' = "idle" /\ zone' = DMA /\ cur' = 0 /\ ord' = 0 /\ goal' = 0
      /\ UNCHANGED <<order, next, prev, free_list, free_count, free_pages, Map, total_pages,
                     total_page_frames, i, live>>
  BY DEF ReserveKernel, Return, lists
<1>3. \A k \in 1..Len(Map) : k < i /\ k # i /\ Begun(k) /\ Begun(k)'
  BY <1>0, <1>2 DEF Begun
<1>4. Given' = Given
  BY <1>2, <1>3 DEF Given
<1>5. Typed'
  <2>1. flags' \in [Pfn -> SUBSET {"FREE", "KERNEL", "RESERVED"}]
    BY <1>0, <1>2 DEF Typed
  <2>2. ref_count' \in [Pfn -> {0, 1}]
    BY <1>0, <1>2 DEF Typed
  <2>3. 0 \in 0..NPages /\ 0 \in Orders /\ DMA \in Zones
    BY ZonesAre, OrdersAre DEF Zones
  <2> QED BY <1>0, <1>2, <2>1, <2>2, <2>3 DEF Typed
<1>6. Control'
  BY <1>0, <1>2, <1>3 DEF Control, Initialised
<1>7. FlagsInv'
  <2>1. \A p \in Pfn : "FREE" \in flags'[p] => "FREE" \in flags[p]
    BY <1>2
  <2> QED BY <1>0, <1>2, <2>1 DEF FlagsInv, Usable
<1>8. Owned(H, rk)'
  <2>1. InHand' = InHand
    BY <1>0, <1>2 DEF InHand
  <2> QED BY <1>1, <1>2, <1>4, <2>1 DEF Owned
<1> QED BY <1>5, <1>6, <1>7, <1>8 DEF PmmInv

LEMMA InitHolds ==
    ASSUME Init
    PROVE  PmmInv
<1>1. Map \in Maps /\ Len(Map) \in Nat /\ i = 1 /\ pc = "map" /\ live = {} /\ cur = 0
  <2>1. Map \in Maps
    BY DEF Init
  <2>2. Map \in Seq([base : Pfn, end : 0..NPages, usable : BOOLEAN])
    BY <2>1, MapAssumption, Zenon
  <2> QED BY <2>1, <2>2 DEF Init
<1>2. Typed
  <2>1. 0 \in 0..NPages /\ 0 \in Orders /\ DMA \in Zones
    BY ZonesAre, OrdersAre DEF Zones
  <2>2. next \in Links /\ prev \in Links /\ free_list \in HeadsType
    BY DEF Init, Links, HeadsType
  <2>3. flags \in [Pfn -> SUBSET {"FREE", "KERNEL", "RESERVED"}] /\ order \in [Pfn -> Orders]
    BY <2>1 DEF Init
  <2>4. ref_count \in [Pfn -> {0, 1}] /\ total_pages \in [Zones -> Nat]
    BY DEF Init
  <2>5. i \in 1..(Len(Map) + 1)
    BY <1>1
  <2> QED BY <1>1, <2>1, <2>2, <2>3, <2>4, <2>5 DEF Init, Typed
<1>3. \A k \in 1..Len(Map) : ~ Begun(k)
  BY <1>1 DEF Begun
<1>4. Control
  BY <1>1, <1>3 DEF Control, Initialised
<1>5. FlagsInv
  BY <1>1 DEF Init, FlagsInv
<1>6. PICK H, rk : H = {} /\ rk = [p \in Pfn |-> 0]
  OBVIOUS
<1>7. Lists(H, order, next, prev, free_list, rk)
  <2>1. rk \in [Pfn -> Nat]
    BY <1>6
  <2>2. \A z \in Zones, o \in Orders : free_list[z][o] = NULL
    BY DEF Init
  <2> QED BY <1>6, <2>1, <2>2 DEF Lists, Forward, Backward, Heads
<1>8. Counted(H, order, free_count, free_pages)
  <2>1. \A z \in Zones, o \in Orders : ListOf(H, order, z, o) = {} /\ FreeIn(H, order, z) = {}
    BY <1>6 DEF ListOf, FreeIn
  <2>2. Cardinality({}) = 0
    BY FS_EmptySet
  <2>3. /\ free_count \in [Zones -> [Orders -> Nat]] /\ free_pages \in [Zones -> Nat]
        /\ \A z \in Zones, o \in Orders : free_count[z][o] = 0 /\ free_pages[z] = 0
    BY DEF Init
  <2>4. 0 \in Orders
    BY OrdersAre
  <2> QED BY <2>1, <2>2, <2>3, <2>4 DEF Counted
<1>9. Given = {}
  BY <1>3 DEF Given
<1>10. Blk(H, order) = {} /\ InHand = {}
  BY <1>1, <1>6 DEF Blk, InHand
<1>11. Parted({}, {})
  BY DEF Parted
<1>12. Owned(H, rk)
  BY <1>1, <1>7, <1>8, <1>9, <1>10, <1>11 DEF Owned
<1> QED BY <1>2, <1>4, <1>5, <1>12 DEF PmmInv

LEMMA NextHolds ==
    ASSUME StartsOutsideNormal, PmmInv, [Next]_vars
    PROVE  PmmInv'
<1>1. CASE pmm_init
  BY <1>1, InitEntryStep, FreeRangeStepStep, SpanStepStep, EntryDoneStep, ReserveKernelStep DEF pmm_init
<1>2. CASE pmm_alloc_pages
  BY <1>2, AllocStartStep, SplitStepStep, AllocDoneStep DEF pmm_alloc_pages
<1>3. CASE pmm_free_pages
  BY <1>3, FreeStartStep, MergeStepStep, FreeDoneStep DEF pmm_free_pages
<1>4. CASE UNCHANGED vars
  <2>1. UNCHANGED <<flags, ref_count, order, next, prev, free_list, free_count, free_pages, Map,
                    total_pages, total_page_frames, pmm_ready, pc, zone, cur, ord, goal, i, live>>
    BY <1>4 DEF vars, pages, lists, conf, regs
  <2>2. PICK H, rk : Owned(H, rk)
    BY DEF PmmInv
  <2>3. Given' = Given /\ InHand' = InHand
    BY <2>1 DEF Given, Begun, InHand
  <2>4. Owned(H, rk)'
    BY <2>1, <2>2, <2>3 DEF Owned
  <2>5. Typed' /\ FlagsInv'
    BY <2>1 DEF PmmInv, Typed, FlagsInv, Usable
  <2>6. Control'
    BY <2>1 DEF PmmInv, Control, Ranging, Spanning, Initialised, Begun
  <2> QED BY <2>4, <2>5, <2>6 DEF PmmInv
<1> QED BY <1>1, <1>2, <1>3, <1>4 DEF Next
----------------------------------------------------------------------------
(***************************************************************************)
(* Reading the lists.  The walk from a list's head visits exactly the      *)
(* blocks of that zone and order, and ends.                                *)
(***************************************************************************)
IsChain(c, N, h) == c = [n \in 0..N |-> IF n = 0 THEN <<h>> ELSE Follow(c[n - 1])]

LEMMA ChainExists ==
    ASSUME NEW h, NEW N \in Nat
    PROVE  \E c : IsChain(c, N, h)
<1> DEFINE S == {n \in Nat : \E c : IsChain(c, n, h)}
<1>1. 0 \in S
  <2> DEFINE c == [n \in 0..0 |-> <<h>>]
  <2>1. c = [n \in 0..0 |-> IF n = 0 THEN <<h>> ELSE Follow(c[n - 1])]
    OBVIOUS
  <2>2. IsChain(c, 0, h)
    BY <2>1 DEF IsChain
  <2> QED BY <2>2
<1>2. ASSUME NEW m \in Nat, m \in S PROVE m + 1 \in S
  <2>1. PICK c : IsChain(c, m, h)
    BY <1>2
  <2>2. /\ c[0] = <<h>>
        /\ \A n \in 0..m : n # 0 => c[n] = Follow(c[n - 1])
    BY <2>1 DEF IsChain
  <2>3. PICK d : d = [n \in 0..(m + 1) |-> IF n = m + 1 THEN Follow(c[m]) ELSE c[n]]
    OBVIOUS
  <2>4. \A n \in 0..(m + 1) : d[n] = IF n = 0 THEN <<h>> ELSE Follow(d[n - 1])
    <3> SUFFICES ASSUME NEW n \in 0..(m + 1)
                 PROVE  d[n] = IF n = 0 THEN <<h>> ELSE Follow(d[n - 1])
      OBVIOUS
    <3>1. CASE n = 0
      BY <2>2, <2>3, <3>1
    <3>2. CASE n = m + 1
      <4>1. n - 1 = m /\ m \in 0..(m + 1) /\ m # m + 1 /\ n # 0
        BY <3>2
      <4>2. d[n] = Follow(c[m]) /\ d[m] = c[m]
        BY <2>3, <3>2, <4>1
      <4> QED BY <4>1, <4>2
    <3>3. CASE n # 0 /\ n # m + 1
      <4>1. n \in 0..m /\ n - 1 \in 0..m /\ n - 1 \in 0..(m + 1) /\ n - 1 # m + 1
        BY <3>3
      <4>2. d[n] = c[n] /\ d[n - 1] = c[n - 1]
        BY <2>3, <3>3, <4>1
      <4> QED BY <2>2, <3>3, <4>1, <4>2
    <3> QED BY <3>1, <3>2, <3>3
  <2>5. d = [n \in 0..(m + 1) |-> d[n]]
    BY <2>3
  <2>6. d = [n \in 0..(m + 1) |-> IF n = 0 THEN <<h>> ELSE Follow(d[n - 1])]
    BY <2>4, <2>5, Zenon
  <2>7. IsChain(d, m + 1, h)
    BY <2>6 DEF IsChain
  <2> QED BY <2>7
<1> HIDE DEF S
<1>3. Nat \subseteq S
  BY <1>1, <1>2, SetInduction
<1> QED BY <1>3 DEF S

\* A walk along next: all but its last element are blocks of the list L, with
\* falling ranks.
Walk(L, rk, s) ==
    /\ s \in Seq(Pfn \cup {NULL}) /\ Len(s) \in Nat \ {0}
    /\ \A j \in 1..Len(s) : s[j] \in L \/ (j = Len(s) /\ s[j] = NULL)
    /\ \A j \in 1..Len(s) : j + 1 \in 1..Len(s) => s[j + 1] = next[s[j]]
    /\ \A j, k \in 1..Len(s) : j < k /\ s[k] # NULL => rk[s[k]] < rk[s[j]]

LEMMA FollowWalks ==
    ASSUME Typed, NEW H, NEW rk, Lists(H, order, next, prev, free_list, rk), NEW z, NEW o,
           NEW L, L = ListOf(H, order, z, o), NEW s, Walk(L, rk, s)
    PROVE  /\ Walk(L, rk, Follow(s)) /\ Follow(s)[1] = s[1]
           /\ \/ Follow(s)[Len(Follow(s))] = NULL
              \/ s[Len(s)] # NULL /\ Len(Follow(s)) = Len(s) + 1
<1> DEFINE p == s[Len(s)]
<1>0. /\ s \in Seq(Pfn \cup {NULL}) /\ Len(s) \in Nat \ {0} /\ NULL \notin Pfn
      /\ next \in Links /\ H \subseteq Pfn /\ rk \in [Pfn -> Nat] /\ Forward(H, order, next, prev, rk)
      /\ L \subseteq H
  BY NullAssumption DEF Walk, Typed, Lists, ListOf
<1>1. CASE p = NULL
  <2>1. Follow(s) = s
    BY <1>1 DEF Follow
  <2> QED BY <1>1, <2>1
<1>2. CASE p # NULL
  <2>1. p \in L /\ p \in H /\ p \in Pfn
    BY <1>0, <1>2 DEF Walk
  <2>2. PICK x : x = next[p]
    OBVIOUS
  <2>3. x \in Pfn \cup {NULL}
    BY <1>0, <2>1, <2>2 DEF Links
  <2>4. x # NULL => x \in L /\ rk[x] < rk[p]
    BY <1>0, <2>1, <2>2 DEF Forward, ListOf, SameList
  <2>5. PICK t : t = Append(s, x)
    OBVIOUS
  <2>6. Follow(s) = t
    BY <1>2, <2>2, <2>5 DEF Follow
  <2>7. /\ t \in Seq(Pfn \cup {NULL}) /\ Len(t) = Len(s) + 1 /\ t[Len(s) + 1] = x
        /\ \A j \in 1..Len(s) : t[j] = s[j]
    BY <1>0, <2>3, <2>5
  <2>8. \A j \in 1..Len(s) : s[j] \in L /\ s[j] \in Pfn
    BY <1>0, <1>2 DEF Walk
  <2>9. \A j \in 1..Len(t) : t[j] \in L \/ (j = Len(t) /\ t[j] = NULL)
    <3> SUFFICES ASSUME NEW j \in 1..Len(t) PROVE t[j] \in L \/ (j = Len(t) /\ t[j] = NULL)
      OBVIOUS
    <3>1. CASE j = Len(s) + 1
      BY <2>4, <2>7, <3>1
    <3>2. CASE j # Len(s) + 1
      <4>1. j \in 1..Len(s)
        BY <1>0, <2>7, <3>2
      <4> QED BY <2>7, <2>8, <4>1
    <3> QED BY <3>1, <3>2
  <2>10. \A j \in 1..Len(t) : j + 1 \in 1..Len(t) => t[j + 1] = next[t[j]]
    <3> SUFFICES ASSUME NEW j \in 1..Len(t), j + 1 \in 1..Len(t) PROVE t[j + 1] = next[t[j]]
      OBVIOUS
    <3>1. CASE j = Len(s)
      BY <1>0, <2>2, <2>7, <3>1
    <3>2. CASE j # Len(s)
      <4>1. j \in 1..Len(s) /\ j + 1 \in 1..Len(s)
        BY <1>0, <2>7, <3>2
      <4> QED BY <2>7, <4>1 DEF Walk
    <3> QED BY <3>1, <3>2
  <2>11. \A j, k \in 1..Len(t) : j < k /\ t[k] # NULL => rk[t[k]] < rk[t[j]]
    <3> SUFFICES ASSUME NEW j \in 1..Len(t), NEW k \in 1..Len(t), j < k, t[k] # NULL
                 PROVE  rk[t[k]] < rk[t[j]]
      OBVIOUS
    <3>1. j \in 1..Len(s) /\ t[j] = s[j] /\ s[j] \in Pfn
      BY <1>0, <2>7, <2>8
    <3>2. CASE k = Len(s) + 1
      <4>1. t[k] = x /\ x # NULL /\ rk[x] < rk[p] /\ x \in Pfn
        BY <2>3, <2>4, <2>7, <3>2
      <4>2. CASE j = Len(s)
        BY <3>1, <4>1, <4>2
      <4>3. CASE j # Len(s)
        <5>1. rk[p] < rk[s[j]]
          <6>1. Len(s) \in 1..Len(s) /\ j < Len(s)
            BY <1>0, <3>1, <4>3
          <6> QED BY <1>2, <3>1, <6>1 DEF Walk
        <5>2. rk[p] \in Nat /\ rk[s[j]] \in Nat /\ rk[x] \in Nat
          BY <1>0, <2>1, <3>1, <4>1
        <5> QED BY <3>1, <4>1, <5>1, <5>2
      <4> QED BY <4>2, <4>3
    <3>3. CASE k # Len(s) + 1
      <4>1. k \in 1..Len(s)
        BY <1>0, <2>7, <3>3
      <4> QED BY <2>7, <3>1, <4>1 DEF Walk
    <3> QED BY <3>2, <3>3
  <2>12. Walk(L, rk, t)
    <3>1. Len(t) \in Nat \ {0}
      BY <1>0, <2>7
    <3> QED BY <2>7, <2>9, <2>10, <2>11, <3>1 DEF Walk
  <2>13. t[1] = s[1]
    BY <1>0, <2>7
  <2> QED BY <1>2, <2>6, <2>7, <2>12, <2>13
<1> QED BY <1>1, <1>2
LEMMA ChainWalks ==
    ASSUME Typed, NEW H, NEW rk, Lists(H, order, next, prev, free_list, rk),
           NEW z \in Zones, NEW o \in Orders,
           NEW L, L = ListOf(H, order, z, o), NEW N, N = Longest(o), N \in Nat
    PROVE  LET s == Chain(z, o) IN
           /\ Walk(L, rk, s) /\ s[1] = free_list[z][o]
           /\ s[Len(s)] # NULL => Len(s) = N + 1
<1> DEFINE h == free_list[z][o]
<1>1. \E g : IsChain(g, N, h)
  BY ChainExists
<1>2. PICK c : IsChain(c, Longest(o), h) /\ Chain(z, o) = c[Longest(o)]
  BY <1>1, Zenon DEF Chain, IsChain
<1>3. /\ c[0] = <<h>>
      /\ \A n \in 0..N : n # 0 => c[n] = Follow(c[n - 1])
  BY <1>2 DEF IsChain
<1> DEFINE S == {n \in Nat : n <= N => /\ Walk(L, rk, c[n]) /\ c[n][1] = h
                                       /\ c[n][Len(c[n])] # NULL => Len(c[n]) = n + 1}
<1>4. 0 \in S
  <2>1. h \in Pfn \cup {NULL} /\ (h # NULL => h \in L)
    <3>1. free_list \in HeadsType /\ Heads(H, order, prev, free_list)
      BY DEF Typed, Lists
    <3> QED BY <3>1 DEF HeadsType, Heads, ListOf
  <2>2. PICK s : s = <<h>>
    OBVIOUS
  <2> HIDE DEF h
  <2>3. s \in Seq(Pfn \cup {NULL}) /\ Len(s) = 1 /\ s[1] = h
    BY <2>1, <2>2
  <2>4. Walk(L, rk, s)
    BY <2>1, <2>3 DEF Walk
  <2>5. c[0] = s /\ Len(s) = 0 + 1
    BY <1>3, <2>2, <2>3
  <2> QED BY <2>3, <2>4, <2>5
<1>5. ASSUME NEW m \in Nat, m \in S PROVE m + 1 \in S
  <2> SUFFICES ASSUME m + 1 <= N
               PROVE  /\ Walk(L, rk, c[m + 1]) /\ c[m + 1][1] = h
                      /\ c[m + 1][Len(c[m + 1])] # NULL => Len(c[m + 1]) = (m + 1) + 1
    OBVIOUS
  <2>1. PICK s : s = c[m]
    OBVIOUS
  <2>2. Walk(L, rk, s) /\ s[1] = h /\ (s[Len(s)] # NULL => Len(s) = m + 1)
    BY <1>5, <2>1
  <2>3. c[m + 1] = Follow(s)
    <3>1. m + 1 \in 0..N /\ m + 1 # 0 /\ (m + 1) - 1 = m
      OBVIOUS
    <3> QED BY <1>3, <2>1, <3>1
  <2>4. /\ Walk(L, rk, Follow(s)) /\ Follow(s)[1] = s[1]
        /\ \/ Follow(s)[Len(Follow(s))] = NULL
           \/ s[Len(s)] # NULL /\ Len(Follow(s)) = Len(s) + 1
    BY <2>2, FollowWalks
  <2> QED BY <2>2, <2>3, <2>4
<1> HIDE DEF S
<1>6. Nat \subseteq S
  BY <1>4, <1>5, SetInduction
<1>7. N \in S
  BY <1>6
<1> QED BY <1>2, <1>7 DEF S

\* Blocks of one order in NPages frames: at most Longest(o).
LEMMA TooMany ==
    ASSUME NEW o \in Orders, NEW N, N = Longest(o), NEW s,
           \A j \in 1..(N + 1) : s[j] \in Nat /\ Aligned(s[j], o) /\ s[j] + Size[o] <= NPages
    PROVE  N \in Nat /\ \E j, k \in 1..(N + 1) : j < k /\ s[j] = s[k]
<1> DEFINE n == Size[o]
<1>1. n \in Nat \ {0} /\ NPages \in Nat
  BY SizePositive, ZonesAre
<1>2. N \in Nat /\ NPages % n \in 0..(n - 1) /\ NPages = (n * N) + (NPages % n)
  BY <1>1, DivMod DEF Longest
<1> DEFINE A == 1..(N + 1)
           B == 0..(N - 1)
           f == [j \in A |-> CHOOSE k \in Nat : s[j] = k * n]
<1>3. \A j \in A : f[j] \in Nat /\ s[j] = f[j] * n
  <2> SUFFICES ASSUME NEW j \in A PROVE f[j] \in Nat /\ s[j] = f[j] * n
    OBVIOUS
  <2>1. \E k \in Nat : s[j] = k * n
    BY AlignedIs
  <2> QED BY <2>1
<1> HIDE DEF n
<1>4. \A j \in A : f[j] \in B
  <2> SUFFICES ASSUME NEW j \in A PROVE f[j] \in B
    OBVIOUS
  <2>1. PICK k \in Nat : k = f[j]
    BY <1>3
  <2>2. s[j] = k * n /\ s[j] + n <= NPages /\ s[j] \in Nat
    BY <1>3, <2>1 DEF n
  <2>3. k < N
    <3> SUFFICES ASSUME ~ (k < N) PROVE FALSE
      OBVIOUS
    <3>1. CASE k = N
      <4>1. n * N = k * n
        BY <1>1, <1>2, <3>1
      <4> DEFINE y == k * n
                 x == NPages % n
      <4>2. y \in Nat /\ y + n <= NPages /\ NPages = y + x /\ x < n /\ x \in Nat
        BY <1>1, <1>2, <2>2, <4>1
      <4> HIDE DEF x, y
      <4> QED BY <1>1, <4>2
    <3>2. CASE N < k
      <4>1. N * n + n <= k * n
        BY <1>1, <1>2, <3>2, Times_Mono
      <4>2. n * N = N * n
        BY <1>1, <1>2
      <4> DEFINE w == N * n
                 y == k * n
                 x == NPages % n
      <4>3. w + n <= y /\ y \in Nat /\ w \in Nat /\ y + n <= NPages /\ NPages = w + x /\ x < n /\ x \in Nat
        BY <1>1, <1>2, <2>2, <4>1, <4>2
      <4> HIDE DEF w, x, y
      <4> QED BY <1>1, <4>3
    <3> QED BY <1>2, <3>1, <3>2
  <2> QED BY <1>2, <2>1, <2>3
<1>5. f \in [A -> B]
  BY <1>4
<1>6. IsFiniteSet(A) /\ IsFiniteSet(B) /\ Cardinality(B) < Cardinality(A)
  <2>1. IsFiniteSet(A) /\ Cardinality(A) = N + 1
    <3>1. 1 \in Int /\ N + 1 \in Int /\ ~ (1 > N + 1) /\ (N + 1) - 1 + 1 = N + 1
      BY <1>2
    <3> QED BY <3>1, FS_Interval
  <2>2. IsFiniteSet(B) /\ Cardinality(B) = N
    <3>1. 0 \in Int /\ N - 1 \in Int /\ (0 > N - 1 => N = 0) /\ (N - 1) - 0 + 1 = N
      BY <1>2
    <3> QED BY <3>1, FS_Interval
  <2> QED BY <1>2, <2>1, <2>2
<1> HIDE DEF f, B
<1>7. PICK j, k \in A : j # k /\ f[j] = f[k]
  <2> HIDE DEF A
  <2> QED BY <1>5, <1>6, FS_PigeonHole
<1>8. s[j] = s[k]
  BY <1>3, <1>7
<1>9. j < k \/ k < j
  BY <1>2, <1>7
<1> QED BY <1>2, <1>7, <1>8, <1>9

\* A function of the frames has a largest value.
LEMMA Bounded ==
    ASSUME NEW r \in [Pfn -> Nat]
    PROVE  \E m \in Nat : \A p \in Pfn : r[p] <= m
<1> DEFINE S == {n \in Nat : \E m \in Nat : \A p \in Pfn : p < n => r[p] <= m}
<1>1. 0 \in S
  BY PfnNat
<1>2. ASSUME NEW n \in Nat, n \in S PROVE n + 1 \in S
  <2>1. PICK m \in Nat : \A p \in Pfn : p < n => r[p] <= m
    BY <1>2
  <2>2. CASE n \in Pfn
    <3>1. r[n] \in Nat
      BY <2>2
    <3>2. PICK k \in Nat : m <= k /\ r[n] <= k
      <4>1. m <= r[n] \/ r[n] <= m
        BY <3>1
      <4> QED BY <3>1, <4>1
    <3>3. \A p \in Pfn : p < n + 1 => r[p] <= k
      <4> SUFFICES ASSUME NEW p \in Pfn, p < n + 1 PROVE r[p] <= k
        OBVIOUS
      <4>1. p \in Nat /\ r[p] \in Nat
        BY PfnNat
      <4>2. p = n \/ p < n
        BY <4>1
      <4> QED BY <2>1, <3>2, <4>1, <4>2
    <3> QED BY <3>3
  <2>3. CASE n \notin Pfn
    <3>1. \A p \in Pfn : p < n + 1 => p < n
      BY <2>3, PfnNat
    <3> QED BY <2>1, <3>1
  <2> QED BY <2>2, <2>3
<1> HIDE DEF S
<1>3. Nat \subseteq S
  BY <1>1, <1>2, SetInduction
<1>4. NPages \in S
  BY <1>3, ZonesAre
<1> QED BY <1>4, PfnNat DEF S

\* The walk ends, and finds the blocks of its list and no others.
LEMMA ListedIs ==
    ASSUME Typed, NEW H, NEW rk, Owned(H, rk), NEW z \in Zones, NEW o \in Orders
    PROVE  Ends(z, o) /\ Listed(z, o) = ListOf(H, order, z, o)
<1>0. PICK s, L, N : s = Chain(z, o) /\ L = ListOf(H, order, z, o) /\ N = Longest(o)
  OBVIOUS
<1>1. /\ Lists(H, order, next, prev, free_list, rk) /\ Parted(Blocks(H), Given)
      /\ L \subseteq H /\ H \subseteq Pfn /\ rk \in [Pfn -> Nat] /\ NULL \notin Pfn
      /\ Backward(H, order, next, prev, free_list)
  BY <1>0, NullAssumption DEF Owned, Blocks, ListOf, Lists
<1>2. N \in Nat
  BY <1>0, SizePositive, ZonesAre, DivMod DEF Longest
<1>3. Walk(L, rk, s) /\ s[1] = free_list[z][o] /\ (s[Len(s)] # NULL => Len(s) = N + 1)
  BY <1>0, <1>1, <1>2, ChainWalks
<1>4. /\ s \in Seq(Pfn \cup {NULL}) /\ Len(s) \in Nat \ {0}
      /\ \A j \in 1..Len(s) : s[j] \in L \/ (j = Len(s) /\ s[j] = NULL)
      /\ \A j \in 1..Len(s) : j + 1 \in 1..Len(s) => s[j + 1] = next[s[j]]
      /\ \A j, k \in 1..Len(s) : j < k /\ s[k] # NULL => rk[s[k]] < rk[s[j]]
  BY <1>3 DEF Walk
<1>5. s[Len(s)] = NULL
  <2> SUFFICES ASSUME s[Len(s)] # NULL PROVE FALSE
    OBVIOUS
  <2>1. Len(s) = N + 1 /\ \A j \in 1..(N + 1) : s[j] \in L
    BY <1>3, <1>4
  <2>2. \A p \in L : p \in Nat /\ Aligned(p, o) /\ p + Size[o] <= NPages
    <3> SUFFICES ASSUME NEW p \in L PROVE p \in Nat /\ Aligned(p, o) /\ p + Size[o] <= NPages
      OBVIOUS
    <3>1. <<p, o>> \in Blocks(H)
      BY <1>0 DEF ListOf, Blocks, Blk
    <3>2. /\ <<p, o>>[1] \in Nat /\ Aligned(<<p, o>>[1], <<p, o>>[2])
          /\ <<p, o>>[1] + Size[<<p, o>>[2]] <= NPages
      BY <1>1, <3>1, BlockInside
    <3> QED BY <3>2
  <2>3. \A j \in 1..(N + 1) : s[j] \in Nat /\ Aligned(s[j], o) /\ s[j] + Size[o] <= NPages
    BY <2>1, <2>2
  <2>4. PICK j, k \in 1..(N + 1) : j < k /\ s[j] = s[k]
    BY <1>0, <2>3, TooMany
  <2>5. s[k] \in Pfn /\ s[k] # NULL
    BY <1>1, <2>1
  <2>6. rk[s[k]] < rk[s[j]] /\ rk[s[k]] \in Nat
    BY <1>1, <1>4, <2>1, <2>4, <2>5
  <2> QED BY <2>4, <2>6
<1>6. PICK X : X = {s[j] : j \in 1..Len(s)}
  OBVIOUS
<1>7. X \ {NULL} = L
  <2>1. X \ {NULL} \subseteq L
    BY <1>4, <1>6
  <2>2. L \subseteq X
    <3> SUFFICES ASSUME ~ (L \subseteq X) PROVE FALSE
      OBVIOUS
    <3> DEFINE D == L \ X
    <3>1. PICK m \in Nat : \A p \in Pfn : rk[p] <= m
      BY <1>1, Bounded
    <3> DEFINE T == {m - rk[p] : p \in D}
    <3>2. \A p \in D : p \in Pfn /\ rk[p] \in Nat /\ m - rk[p] \in Nat
      <4> SUFFICES ASSUME NEW p \in D PROVE p \in Pfn /\ rk[p] \in Nat /\ m - rk[p] \in Nat
        OBVIOUS
      <4>1. p \in Pfn /\ rk[p] \in Nat /\ rk[p] <= m
        BY <1>1, <3>1
      <4> QED BY <4>1
    <3>3. T \in SUBSET Nat /\ T # {}
      BY <3>2
    <3>4. PICK t \in T : \A y \in T : t <= y
      BY <3>3, LeastNat
    <3>5. PICK p \in D : t = m - rk[p]
      BY <3>4
    <3>6. CASE prev[p] = NULL
      <4>1. free_list[z][o] = p
        BY <1>0, <1>1, <3>5, <3>6 DEF Backward, ListOf
      <4>2. 1 \in 1..Len(s)
        BY <1>4
      <4> QED BY <1>3, <1>6, <3>5, <4>1, <4>2
    <3>7. CASE prev[p] # NULL
      <4> DEFINE q == prev[p]
      <4>1. q \in L /\ next[q] = p /\ q \in Pfn
        BY <1>0, <1>1, <3>5, <3>7 DEF Backward, ListOf, SameList
      <4>2. rk[p] < rk[q]
        <5>1. p # NULL
          BY <1>1, <3>2
        <5> QED BY <1>0, <1>1, <4>1, <5>1 DEF Lists, Forward
      <4>3. q \notin X
        <5> SUFFICES ASSUME q \in X PROVE FALSE
          OBVIOUS
        <5>1. PICK j \in 1..Len(s) : s[j] = q
          BY <1>6
        <5>2. j # Len(s)
          BY <1>1, <1>5, <4>1, <5>1
        <5>3. j + 1 \in 1..Len(s)
          BY <1>4, <5>2
        <5>4. s[j + 1] = p
          BY <1>4, <4>1, <5>1, <5>3
        <5> QED BY <1>6, <3>5, <5>3, <5>4
      <4>4. m - rk[q] \in T /\ rk[q] \in Nat /\ rk[p] \in Nat
        BY <3>2, <3>5, <4>1, <4>3
      <4>5. t <= m - rk[q]
        BY <3>4, <4>4
      <4> HIDE DEF q, T, D
      <4> QED BY <3>5, <4>2, <4>4, <4>5
    <3> QED BY <3>6, <3>7
  <2>3. NULL \notin L
    BY <1>1
  <2> QED BY <2>1, <2>2, <2>3
<1>8. Listed(z, o) = X \ {NULL}
  <2>1. DOMAIN s = 1..Len(s)
    BY <1>4
  <2>2. ToSet(s) = X
    BY <1>6, <2>1 DEF ToSet
  <2> QED BY <1>0, <2>2 DEF Listed
<1> QED BY <1>0, <1>5, <1>7, <1>8 DEF Ends
\* What FreeBlocks reads are the free blocks of the invariant.
LEMMA FreeBlocksAre ==
    ASSUME Typed, NEW H, NEW rk, Owned(H, rk)
    PROVE  /\ \A z \in Zones : FreeBlocks(z) = {b \in Blk(H, order) : select_zone(b[1]) = z}
           /\ UNION {FreeBlocks(z) : z \in Zones} = Blk(H, order)
<1>1. order \in [Pfn -> Orders] /\ H \subseteq Pfn
  BY DEF Typed, Owned, Lists
<1>2. ASSUME NEW z \in Zones
      PROVE  FreeBlocks(z) = {b \in Blk(H, order) : select_zone(b[1]) = z}
  <2>1. \A o \in Orders : Listed(z, o) = {p \in H : select_zone(p) = z /\ order[p] = o}
    BY <1>2, ListedIs DEF ListOf
  <2>2. FreeBlocks(z) = UNION {{<<p, o>> : p \in {q \in H : select_zone(q) = z /\ order[q] = o}} : o \in Orders}
    BY <2>1 DEF FreeBlocks
  <2>3. ASSUME NEW b, b \in FreeBlocks(z) PROVE b \in Blk(H, order) /\ select_zone(b[1]) = z
    <3>1. PICK o \in Orders : b \in {<<p, o>> : p \in {q \in H : select_zone(q) = z /\ order[q] = o}}
      BY <2>2, <2>3
    <3>2. PICK p \in H : select_zone(p) = z /\ order[p] = o /\ b = <<p, o>>
      BY <3>1
    <3> QED BY <3>2 DEF Blk
  <2>4. ASSUME NEW b \in Blk(H, order), select_zone(b[1]) = z PROVE b \in FreeBlocks(z)
    <3>1. PICK p \in H : b = <<p, order[p]>>
      BY <2>4 DEF Blk
    <3>2. order[p] \in Orders /\ select_zone(p) = z
      BY <1>1, <2>4, <3>1
    <3>3. b \in {<<q, order[p]>> : q \in {q \in H : select_zone(q) = z /\ order[q] = order[p]}}
      BY <3>1, <3>2
    <3> QED BY <2>2, <3>2, <3>3
  <2> QED BY <2>3, <2>4
<1>3. \A b \in Blk(H, order) : select_zone(b[1]) \in Zones
  BY ZoneType
<1> QED BY <1>2, <1>3

LEMMA InFrames ==
    ASSUME NEW b, b[1] \in Nat, Size[b[2]] \in Nat \ {0}
    PROVE  Frames(b) \subseteq Nat /\ \A f \in Nat : f \in Frames(b) <=> In(f, b)
BY DEF Frames, In

----------------------------------------------------------------------------
\* pmm.c, all operations: the inductive invariant holds in every state.
THEOREM PmmInvariant ==
    ASSUME StartsOutsideNormal
    PROVE  Spec => []PmmInv
<1>1. Init => PmmInv
  BY InitHolds
<1>2. PmmInv /\ [Next]_vars => PmmInv'
  BY NextHolds
<1> QED BY <1>1, <1>2, PTL DEF Spec

\* The page descriptors, the zones' lists and counters and the locals of the
\* running call always have their types; no counter falls below zero.
THEOREM PmmTypeOK ==
    ASSUME StartsOutsideNormal
    PROVE  Spec => []TypeOK
<1>1. PmmInv => TypeOK
  <2> SUFFICES ASSUME PmmInv PROVE TypeOK
    OBVIOUS
  <2>1. free_count \in [Zones -> [Orders -> Nat]] /\ free_pages \in [Zones -> Nat]
    BY DEF PmmInv, Owned, Counted
  <2> QED BY <2>1 DEF PmmInv, Typed, TypeOK, Links, HeadsType
<1> QED BY <1>1, PmmInvariant, PTL

\* Whatever sequence of pmm_alloc_pages and pmm_free_pages the callers make,
\* no frame is ever in two blocks, and after pmm_init the blocks on the lists,
\* with the callers and in hand are together the frames pmm_init put into the
\* lists, the kernel image's included.
THEOREM BlocksPartitionMemoryAlways ==
    ASSUME StartsOutsideNormal
    PROVE  Spec => []BlocksPartitionMemory
<1>1. PmmInv => BlocksPartitionMemory
  <2> SUFFICES ASSUME PmmInv PROVE BlocksPartitionMemory
    OBVIOUS
  <2>1. PICK H, rk : Owned(H, rk)
    BY DEF PmmInv
  <2>2. Typed /\ Control
    BY DEF PmmInv
  <2> DEFINE B == (UNION {FreeBlocks(z) : z \in Zones}) \cup live \cup InHand
  <2>3. B = Blocks(H)
    BY <2>1, <2>2, FreeBlocksAre DEF Blocks
  <2>4. Parted(Blocks(H), Given)
    BY <2>1 DEF Owned, Blocks
  <2>5. \A b \in Blocks(H) : /\ b[1] \in Nat /\ Size[b[2]] \in Nat \ {0}
                             /\ Frames(b) \subseteq Nat
                             /\ \A f \in Nat : f \in Frames(b) <=> In(f, b)
    BY <2>4, BlockInside, InFrames
  <2>6. ASSUME NEW b \in Blocks(H), NEW d \in Blocks(H), b # d PROVE Frames(b) \cap Frames(d) = {}
    <3> SUFFICES ASSUME NEW f \in Frames(b), f \in Frames(d) PROVE FALSE
      OBVIOUS
    <3>1. f \in Nat /\ In(f, b) /\ In(f, d)
      BY <2>5
    <3>2. Apart(b, d)
      BY <2>4, <2>6 DEF Parted
    <3>3. b[1] \in Nat /\ Size[b[2]] \in Nat /\ d[1] \in Nat /\ Size[d[2]] \in Nat
      BY <2>5
    <3> QED BY <3>1, <3>2, <3>3 DEF In, Apart
  <2>7. ASSUME Initialised PROVE UNION {Frames(b) : b \in Blocks(H)} = Managed
    <3>1. Given = Managed /\ Given \subseteq Nat
      BY <2>2, <2>7, AllGiven, PfnNat DEF Given
    <3>2. \A f \in Nat : f \in Given <=> \E b \in Blocks(H) : In(f, b)
      BY <2>4 DEF Parted
    <3> QED BY <2>5, <3>1, <3>2
  <2> HIDE DEF B
  <2>8. /\ \A b, d \in B : b # d => Frames(b) \cap Frames(d) = {}
        /\ Initialised => UNION {Frames(b) : b \in B} = Managed
    BY <2>3, <2>6, <2>7
  <2> QED BY <2>8 DEF B, BlocksPartitionMemory
<1> QED BY <1>1, PmmInvariant, PTL

\* Every free list stays a proper doubly linked list through any sequence of
\* calls, and the zones' counters agree with it.
THEOREM ListsWellFormedAlways ==
    ASSUME StartsOutsideNormal
    PROVE  Spec => []ListsWellFormed
<1>1. PmmInv => ListsWellFormed
  <2> SUFFICES ASSUME PmmInv PROVE ListsWellFormed
    OBVIOUS
  <2>1. PICK H, rk : Owned(H, rk)
    BY DEF PmmInv
  <2>2. /\ Typed /\ Lists(H, order, next, prev, free_list, rk)
        /\ Counted(H, order, free_count, free_pages) /\ Parted(Blocks(H), Given)
        /\ H \subseteq Pfn
    BY <2>1 DEF PmmInv, Owned, Blocks, Lists
  <2>3. ASSUME NEW z \in Zones
        PROVE  free_pages[z] = Cardinality(UNION {Frames(b) : b \in FreeBlocks(z)})
    <3>1. FreeBlocks(z) = {b \in Blk(H, order) : select_zone(b[1]) = z}
      BY <2>1, <2>2, FreeBlocksAre
    <3>2. \A b \in Blk(H, order) : /\ Frames(b) \subseteq Pfn
                                   /\ \A f \in Pfn : f \in Frames(b) <=> In(f, b)
      <4> SUFFICES ASSUME NEW b \in Blk(H, order)
                   PROVE  Frames(b) \subseteq Pfn /\ \A f \in Pfn : f \in Frames(b) <=> In(f, b)
        OBVIOUS
      <4>1. b[1] \in Nat /\ Size[b[2]] \in Nat \ {0} /\ \A f \in Nat : In(f, b) => f \in Given
        BY <2>2, BlockInside DEF Blocks
      <4>2. Frames(b) \subseteq Nat /\ \A f \in Nat : f \in Frames(b) <=> In(f, b)
        BY <4>1, InFrames
      <4>3. Given \subseteq Pfn
        BY DEF Given
      <4> QED BY <4>1, <4>2, <4>3, PfnNat
    <3>3. ASSUME NEW f \in UNION {Frames(b) : b \in FreeBlocks(z)} PROVE f \in FreeIn(H, order, z)
      <4>1. PICK b \in Blk(H, order) : select_zone(b[1]) = z /\ f \in Frames(b)
        BY <3>1
      <4>2. PICK p \in H : b = <<p, order[p]>>
        BY DEF Blk
      <4>3. f \in Pfn /\ p <= f /\ f < p + Size[order[p]] /\ select_zone(p) = z
        BY <3>2, <4>1, <4>2 DEF In
      <4> QED BY <4>3 DEF FreeIn
    <3>4. ASSUME NEW f \in FreeIn(H, order, z) PROVE f \in UNION {Frames(b) : b \in FreeBlocks(z)}
      <4>1. PICK p \in H : f \in Pfn /\ select_zone(p) = z /\ p <= f /\ f < p + Size[order[p]]
        BY DEF FreeIn
      <4>2. PICK b : b = <<p, order[p]>>
        OBVIOUS
      <4>3. b[1] = p /\ b[2] = order[p] /\ b \in Blk(H, order)
        BY <4>2 DEF Blk
      <4>4. f \in Frames(b)
        BY <3>2, <4>1, <4>3 DEF In
      <4> QED BY <3>1, <4>1, <4>3, <4>4
    <3>5. UNION {Frames(b) : b \in FreeBlocks(z)} = FreeIn(H, order, z)
      BY <3>3, <3>4
    <3> QED BY <2>2, <3>5 DEF Counted
  <2>4. ASSUME NEW z \in Zones, NEW o \in Orders
        PROVE  /\ Ends(z, o)
               /\ Cardinality(Listed(z, o)) = free_count[z][o]
               /\ free_list[z][o] # NULL => prev[free_list[z][o]] = NULL
               /\ \A p \in Listed(z, o) : /\ order[p] = o
                                          /\ select_zone(p) = z
                                          /\ next[p] # NULL => prev[next[p]] = p
    <3>1. Ends(z, o) /\ Listed(z, o) = ListOf(H, order, z, o)
      BY <2>1, <2>2, ListedIs
    <3>2. Cardinality(Listed(z, o)) = free_count[z][o]
      BY <2>2, <3>1 DEF Counted
    <3>3. free_list[z][o] # NULL => prev[free_list[z][o]] = NULL
      BY <2>2 DEF Lists, Heads
    <3>4. \A p \in Listed(z, o) : p \in H /\ order[p] = o /\ select_zone(p) = z
      BY <3>1 DEF ListOf
    <3>5. \A p \in H : next[p] # NULL => prev[next[p]] = p
      BY <2>2 DEF Lists, Forward
    <3> QED BY <3>1, <3>2, <3>3, <3>4, <3>5
  <2> QED BY <2>3, <2>4 DEF ListsWellFormed
<1> QED BY <1>1, PmmInvariant, PTL

\* The allocator implements FrameAllocator: AllocDone is an Allocate of an
\* aligned block of frames that pmm_init put into the lists (the kernel image's
\* are among them) and no caller holds, FreeStart a Release, and every other
\* step a stutter.
THEOREM PmmImplementsFrameAllocator ==
    ASSUME StartsOutsideNormal
    PROVE  Spec => ImplementsFrameAllocator
<1>1. Init => Abstract!FInit
  BY DEF Init, Abstract!FInit
<1>2. PmmInv /\ PmmInv' /\ [Next]_vars => [Abstract!FNext]_<<Managed, live>>
  <2> SUFFICES ASSUME PmmInv, PmmInv', [Next]_vars PROVE [Abstract!FNext]_<<Managed, live>>
    OBVIOUS
  <2>1. Managed' = Managed
    <3>1. Map' = Map
      BY DEF Next, pmm_init, pmm_alloc_pages, pmm_free_pages, InitEntry, FreeRangeStep, SpanStep,
             EntryDone, ReserveKernel, AllocStart, SplitStep, AllocDone, FreeStart, MergeStep,
             FreeDone, conf, vars
    <3> QED BY <3>1 DEF Managed
  <2>2. CASE AllocDone
    <3>1. PICK H, rk : Owned(H, rk)
      BY DEF PmmInv
    <3>2. PICK b : b = <<cur, ord>>
      OBVIOUS
    <3>3. /\ Typed /\ Control /\ Initialised /\ b \in Blocks(H) /\ Parted(Blocks(H), Given)
          /\ b \notin live /\ live \subseteq Blocks(H) /\ ord = goal /\ live' = live \cup {<<cur, ord>>}
      BY <2>2, <3>1, <3>2 DEF AllocDone, PmmInv, Initialised, Owned, Blocks, InHand
    <3>4. b[1] = cur /\ b[2] = ord
      BY <3>2
    <3>5. /\ cur \in Nat /\ ord \in Orders /\ Size[ord] \in Nat \ {0} /\ cur % Size[ord] = 0
          /\ cur \in Managed /\ \A f \in Nat : In(f, b) => f \in Managed
      BY <3>3, <3>4, AllGiven, BlockInside DEF Aligned
    <3>6. Abstract!Frames(b) = Frames(b) /\ \A d \in live : Abstract!Frames(d) = Frames(d)
      BY DEF Abstract!Frames, Frames
    <3>7. Frames(b) \subseteq Managed
      BY <3>4, <3>5, InFrames
    <3>8. ASSUME NEW d \in live PROVE Frames(d) \cap Frames(b) = {}
      <4>1. Apart(d, b) /\ d[1] \in Nat /\ Size[d[2]] \in Nat \ {0}
        <5>1. d \in Blocks(H) /\ d # b
          BY <3>3
        <5>2. Apart(d, b)
          BY <3>3, <5>1 DEF Parted
        <5>3. d[1] \in Nat /\ Size[d[2]] \in Nat \ {0}
          BY <3>3, <5>1, BlockInside
        <5> QED BY <5>2, <5>3
      <4>2. \A f \in Nat : ~ (In(f, d) /\ In(f, b))
        BY <3>4, <3>5, <4>1 DEF In, Apart
      <4> QED BY <3>4, <3>5, <4>1, <4>2, InFrames
    <3>9. Abstract!Allocate(cur, ord)
      BY <3>2, <3>3, <3>5, <3>6, <3>7, <3>8 DEF Abstract!Allocate
    <3> QED BY <2>1, <3>5, <3>9 DEF Abstract!FNext
  <2>3. ASSUME NEW b \in live, FreeStart(b[1], b[2]) PROVE Abstract!FNext
    <3>1. b = <<b[1], b[2]>>
      BY DEF PmmInv, Typed
    <3>2. live' = live \ {b}
      BY <2>3, <3>1 DEF FreeStart
    <3> QED BY <2>1, <3>2 DEF Abstract!FNext, Abstract!Release
  <2>4. CASE ~ AllocDone /\ ~ (\E b \in live : FreeStart(b[1], b[2]))
    <3>1. live' = live
      BY <2>4 DEF Next, pmm_init, pmm_alloc_pages, pmm_free_pages, InitEntry, FreeRangeStep, SpanStep,
             EntryDone, ReserveKernel, AllocStart, SplitStep, MergeStep, FreeDone, vars
    <3> QED BY <2>1, <3>1
  <2> QED BY <2>2, <2>3, <2>4
<1>3. Spec => []PmmInv
  BY PmmInvariant
<1> QED BY <1>1, <1>2, <1>3, PTL DEF Spec, ImplementsFrameAllocator, Abstract!FSpec
=============================================================================
