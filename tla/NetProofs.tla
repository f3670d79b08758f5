----------------------------- MODULE NetProofs -----------------------------
(***************************************************************************)
(* Proofs about the network path, for every ring size, number of transmit  *)
(* descriptors and set of packets, and any number of packets and pings.    *)
(***************************************************************************)
EXTENDS Net, SequenceTheorems, FiniteSetTheorems, NaturalLemmas, TLAPS

PCs == {"ping", "iphdr", "ippay", "ethhdr", "ethpay", "alloc", "txhdr", "txpay",
        "txstart", "txnext"}

\* The types of what sending a frame touches.
SendTypes ==
    /\ mem \in [Desc \cup {NULLBUF} -> FrameType]
    /\ ip_buf \in FrameType /\ eth_buf \in FrameType
    /\ tx_bufs \subseteq Desc /\ tx_desc \in Desc /\ desc \in Desc
    /\ pc \in PCs /\ seq \in Nat
    /\ submitted \in Seq(FrameType)
    /\ disturbed \in BOOLEAN

----------------------------------------------------------------------------
\* An address has four octets, loading one reverses them, and storing it
\* reverses them back.
LEMMA OctetReversed ==
    ASSUME NEW a \in Octet4
    PROVE  Reverse(a) = [i \in 1..4 |-> a[(4 - i) + 1]]
<1> DEFINE Byte == 0..255
<1>1. a \in [1..4 -> Byte]
  BY DEF Octet4
<1> HIDE DEF Byte
<1>2. a \in Seq(Byte)
  <2>1. [1..4 -> Byte] \in {[1..n -> Byte] : n \in Nat}
    OBVIOUS
  <2> QED BY <1>1, <2>1, SeqDef, Zenon
<1>3. DOMAIN a = 1..4
  BY <1>1
<1>4. Len(a) = 4
  <2>1. Len(a) \in Nat /\ DOMAIN a = 1..Len(a)
    BY <1>2, LenProperties
  <2>2. 1..Len(a) = 1..4
    BY <2>1, <1>3
  <2>3. \A k \in Int : k \in 1..Len(a) <=> k \in 1..4
    BY <2>2, Zenon
  <2>4. /\ 4 <= Len(a) /\ ~ (5 <= Len(a))
    BY <2>1, <2>3
  <2> QED BY <2>1, <2>4
<1> QED BY <1>4 DEF Reverse

LEMMA ReverseOctets ==
    ASSUME NEW a \in Octet4
    PROVE  Reverse(a) \in Octet4 /\ Reverse(Reverse(a)) = a
<1>1. Reverse(a) = [i \in 1..4 |-> a[(4 - i) + 1]]
  BY OctetReversed
<1>2. Reverse(a) \in Octet4
  BY <1>1 DEF Octet4
<1>3. Reverse(Reverse(a)) = [i \in 1..4 |-> Reverse(a)[(4 - i) + 1]]
  BY <1>2, OctetReversed
<1>4. \A i \in 1..4 : Reverse(a)[(4 - i) + 1] = a[i]
  BY <1>1
<1>5. Reverse(Reverse(a)) = a
  BY <1>3, <1>4 DEF Octet4
<1> QED BY <1>2, <1>5

LEMMA FrameTyped ==
    ASSUME NEW proto \in {"none", "ARP", "ICMP"}, NEW dst \in Octet4,
           NEW kind \in {"none", "request", "reply"}, NEW n \in Nat
    PROVE  Frame(proto, dst, kind, n) \in FrameType
BY DEF Frame, FrameType

\* Whatever comes up the stack, the answer is a frame or none.
LEMMA ReplyTyped ==
    ASSUME NEW p \in Packets
    PROVE  netif_recv(p) \in FrameType \cup {NONE}
<1>1. /\ p.src \in Octet4 /\ p.seq \in Nat
      /\ StoreIp(LoadIp(p.src)) \in Octet4
  BY NetAssumption, ReverseOctets DEF LoadIp, StoreIp
<1>2. /\ Frame("ARP", StoreIp(LoadIp(p.src)), "reply", 0) \in FrameType
      /\ Frame("ICMP", StoreIp(LoadIp(p.src)), "reply", p.seq) \in FrameType
  BY <1>1, FrameTyped
<1>3. arp_recv(p) \in FrameType \cup {NONE}
  BY <1>2 DEF arp_recv
<1>4. ip4_recv(p) \in FrameType \cup {NONE}
  BY <1>2 DEF ip4_recv, icmp_recv
<1> QED BY <1>3, <1>4 DEF netif_recv, eth_recv

\* The answer to a broadcast echo request.
Asks(p) == p.mac = "bcast" /\ p.type = "IP" /\ p.dst = Broadcast /\ p.proto = "ICMP"
             /\ p.op = "request"
Answer(p) == Frame("ICMP", p.src, "reply", p.seq)

LEMMA EchoReply ==
    ASSUME NEW p \in Packets, Asks(p)
    PROVE  netif_recv(p) = Answer(p) /\ netif_recv(p) # NONE
<1>1. StoreIp(LoadIp(p.src)) = p.src /\ p.src \in Octet4 /\ p.seq \in Nat
  BY NetAssumption, ReverseOctets DEF LoadIp, StoreIp
<1>2. LoadIp(p.dst) = Broadcast
  <2>1. Broadcast \in Octet4
    BY DEF Broadcast, Octet4
  <2>2. Reverse(Broadcast) = [i \in 1..4 |-> Broadcast[(4 - i) + 1]]
    <3>1. Len(Broadcast) = 4
      BY DEF Broadcast
    <3> QED BY <3>1 DEF Reverse
  <2>3. \A i \in 1..4 : Broadcast[i] = 255
    BY DEF Broadcast
  <2>4. Reverse(Broadcast) = Broadcast
    BY <2>1, <2>2, <2>3 DEF Octet4
  <2> QED BY <2>4 DEF LoadIp, Asks
<1>3. netif_recv(p) = ip4_recv(p)
  BY DEF netif_recv, eth_recv, Asks
<1>4. ip4_recv(p) = icmp_recv(p)
  BY <1>2 DEF ip4_recv, Asks
<1>5. icmp_recv(p) = Answer(p)
  BY <1>1 DEF icmp_recv, Asks, Answer
<1>6. Answer(p) \in FrameType
  BY <1>1, FrameTyped DEF Answer
<1> QED BY <1>3, <1>4, <1>5, <1>6, NetAssumption

\* Counting occurrences in a sequence that grows.
LEMMA TimesAppend ==
    ASSUME NEW S, NEW s \in Seq(S), NEW x \in S, NEW e
    PROVE  /\ Times(e, s) \in Nat
           /\ Times(e, Append(s, x)) = IF x = e THEN Times(e, s) + 1 ELSE Times(e, s)
<1> DEFINE D == {k \in DOMAIN s : s[k] = e}
           D2 == {k \in DOMAIN Append(s, x) : Append(s, x)[k] = e}
<1>1. /\ Len(s) \in Nat /\ DOMAIN s = 1..Len(s)
      /\ DOMAIN Append(s, x) = 1..(Len(s) + 1)
      /\ \A k \in 1..Len(s) : Append(s, x)[k] = s[k]
      /\ Append(s, x)[Len(s) + 1] = x
  BY AppendProperties, LenProperties
<1>2. IsFiniteSet(D) /\ Cardinality(D) \in Nat
  <2>1. IsFiniteSet(1..Len(s)) /\ D \in SUBSET (1..Len(s))
    BY <1>1, FS_Interval
  <2> QED BY <2>1, FS_Subset, FS_CardinalityType
<1>3. D2 = IF x = e THEN D \cup {Len(s) + 1} ELSE D
  BY <1>1
<1>4. Len(s) + 1 \notin D
  BY <1>1
<1>5. Cardinality(D2) = IF x = e THEN Cardinality(D) + 1 ELSE Cardinality(D)
  <2>1. Cardinality(D \cup {Len(s) + 1}) = Cardinality(D) + 1
    BY <1>2, <1>4, FS_AddElement
  <2> HIDE DEF D, D2
  <2> QED BY <1>3, <2>1
<1> QED BY <1>2, <1>5 DEF Times

----------------------------------------------------------------------------
(***************************************************************************)
(* What the receive path and the transmit path keep, and where the ping    *)
(* that is being sent lies.  As long as the handler has sent nothing in    *)
(* between, what the thread has written so far is there: in ip4_send's     *)
(* buffer, then in eth_send's, then in the descriptor's, and at last with  *)
(* the NIC.                                                                *)
(***************************************************************************)
Q == RX_BUF_SIZE

RxTypes ==
    /\ ring \in [0..(Q - 1) -> Packets \cup {NONE}]
    /\ wr \in 0..(Q - 1) /\ rd \in 0..(Q - 1) /\ rx_offset \in 0..(Q - 1)
    /\ accepted \in Seq(Packets) /\ handled \in Seq(Packets)

Ping == Frame("ICMP", StoreIp(Target), "request", seq)

PingPlace ==
    ~disturbed =>
        /\ pc = "ippay" => ip_buf.hdr = Ping.hdr
        /\ pc \in {"ethhdr", "ethpay"} => ip_buf = Ping
        /\ pc = "ethpay" => eth_buf.hdr = Ping.hdr
        /\ pc \in {"alloc", "txhdr", "txpay", "txstart"} => eth_buf = Ping /\ desc = tx_desc
        /\ pc = "txpay" => mem[BufferOf(tx_desc)].hdr = Ping.hdr
        /\ pc = "txstart" => mem[BufferOf(tx_desc)] = Ping
        /\ pc = "txnext" => submitted # <<>> /\ Last(submitted) = Ping

SendInv == SendTypes /\ PingPlace

LEMMA PingTyped == SendTypes => Ping \in FrameType
<1>1. StoreIp(Target) \in Octet4
  BY NetAssumption, ReverseOctets DEF StoreIp
<1> QED BY <1>1, FrameTyped DEF Ping, SendTypes

\* The descriptors stay within the driver's array.
LEMMA DescNext ==
    ASSUME NEW d \in Desc
    PROVE  (d + 1) % TxDescs \in Desc
BY NetAssumption DEF Desc

\* Replacing the two parts of a frame.
LEMMA FrameParts ==
    ASSUME NEW f \in FrameType, NEW g \in FrameType
    PROVE  /\ [f EXCEPT !.hdr = g.hdr] \in FrameType
           /\ [f EXCEPT !.hdr = g.hdr].hdr = g.hdr
           /\ [f EXCEPT !.pay = g.pay] \in FrameType
           /\ f.hdr = g.hdr => [f EXCEPT !.pay = g.pay] = g
BY DEF FrameType

\* A step of the handler or of the NIC, which sends nothing or sends a frame
\* in one go.
LEMMA HandlerSends ==
    ASSUME SendInv, NEW f \in FrameType, SendFromIrq(f), UNCHANGED thread
    PROVE  SendInv'
<1> USE DEF SendFromIrq, netif_send, rtl8139_transmit, thread
<1> DEFINE have == IF 0 \in tx_bufs THEN tx_bufs ELSE Desc
           b == IF tx_desc \in have THEN tx_desc ELSE NULLBUF
<1>1. SendTypes
  BY DEF SendInv
<1>2. tx_desc' \in Desc /\ tx_bufs' \subseteq Desc
  BY <1>1, DescNext DEF SendTypes
<1>3. mem' \in [Desc \cup {NULLBUF} -> FrameType]
  <2>1. mem' = [mem EXCEPT ![b] = f]
    OBVIOUS
  <2> HIDE DEF b
  <2> QED BY <2>1, <1>1 DEF SendTypes
<1>4. submitted' \in Seq(FrameType)
  BY <1>1, AppendProperties DEF SendTypes
<1>5. ip_buf' \in FrameType /\ eth_buf' \in FrameType
  BY <1>1 DEF SendTypes
<1>6. disturbed' = (disturbed \/ pc # "ping") /\ disturbed' \in BOOLEAN
  BY <1>1 DEF SendTypes
<1>7. SendTypes'
  BY <1>1, <1>2, <1>3, <1>4, <1>5, <1>6 DEF SendTypes
<1>8. PingPlace'
  BY <1>6 DEF PingPlace
<1> QED BY <1>7, <1>8 DEF SendInv

LEMMA SendInvKept ==
    ASSUME SendInv, UNCHANGED <<bufs, thread, submitted, disturbed>>
    PROVE  SendInv'
BY DEF SendInv, SendTypes, PingPlace, Ping, BufferOf, bufs, thread

LEMMA ThreadStep ==
    ASSUME SendInv, Thread
    PROVE  SendInv'
<1> USE DEF Step, Others, bufs, hist
<1> DEFINE T == SendTypes
<1>1. SendTypes /\ PingPlace /\ Ping \in FrameType
  BY PingTyped DEF SendInv
<1>2. PingFrame = Ping
  BY DEF PingFrame, Ping
<1>3. CASE icmp_ping
  <2>1. pc' = "iphdr" /\ seq' \in Nat /\ disturbed' \in BOOLEAN
    <3>1. pc' = "iphdr" /\ seq' \in Nat
      BY <1>1, <1>3 DEF icmp_ping, SendTypes
    <3>2. disturbed' \in BOOLEAN
      BY <1>3, Zenon DEF icmp_ping
    <3> QED BY <3>1, <3>2
  <2>2. SendTypes'
    BY <1>1, <1>3, <2>1 DEF icmp_ping, SendTypes, PCs
  <2> QED BY <1>3, <2>2 DEF icmp_ping, SendInv, PingPlace
<1>4. CASE IpHeader
  <2>1. ip_buf' \in FrameType /\ ip_buf'.hdr = Ping.hdr
    BY <1>1, <1>2, <1>4, FrameParts DEF IpHeader, SendTypes
  <2>2. Ping' = Ping
    BY <1>4 DEF IpHeader, Ping
  <2>3. SendTypes'
    BY <1>1, <1>4, <2>1 DEF IpHeader, SendTypes, PCs
  <2> QED BY <1>4, <2>1, <2>2, <2>3 DEF IpHeader, SendInv, PingPlace
<1>5. CASE IpPayload
  <2>1. ip_buf' \in FrameType /\ (~disturbed => ip_buf' = Ping)
    BY <1>1, <1>2, <1>5, FrameParts DEF IpPayload, SendTypes, PingPlace
  <2>2. Ping' = Ping
    BY <1>5 DEF IpPayload, Ping
  <2>3. SendTypes'
    BY <1>1, <1>5, <2>1 DEF IpPayload, SendTypes, PCs
  <2> QED BY <1>5, <2>1, <2>2, <2>3 DEF IpPayload, SendInv, PingPlace
<1>6. CASE EthHeader
  <2>1. eth_buf' \in FrameType /\ (~disturbed => eth_buf'.hdr = Ping.hdr)
    BY <1>1, <1>6, FrameParts DEF EthHeader, SendTypes, PingPlace
  <2>2. Ping' = Ping
    BY <1>6 DEF EthHeader, Ping
  <2>3. SendTypes'
    BY <1>1, <1>6, <2>1 DEF EthHeader, SendTypes, PCs
  <2>4. ~disturbed => ip_buf = Ping
    BY <1>1, <1>6 DEF EthHeader, PingPlace
  <2> QED BY <1>6, <2>1, <2>2, <2>3, <2>4 DEF EthHeader, SendInv, PingPlace
<1>7. CASE EthPayload
  <2>1. eth_buf' \in FrameType /\ (~disturbed => eth_buf' = Ping)
    BY <1>1, <1>7, FrameParts, ZenonT(30) DEF EthPayload, SendTypes, PingPlace
  <2>2. Ping' = Ping
    BY <1>7 DEF EthPayload, Ping
  <2>3. pc' \in {"txhdr", "alloc"}
    BY <1>7 DEF EthPayload
  <2>4. SendTypes'
    BY <1>1, <1>7, <2>1, <2>3 DEF EthPayload, SendTypes, PCs
  <2> QED BY <1>7, <2>1, <2>2, <2>3, <2>4 DEF EthPayload, SendInv, PingPlace
<1>8. CASE TxAlloc
  <2>1. Ping' = Ping
    BY <1>8 DEF TxAlloc, Ping
  <2>2. pc' \in {"txhdr", "alloc"} /\ pc = "alloc"
    BY <1>8 DEF TxAlloc
  <2>3. tx_bufs' \subseteq Desc
    <3> DEFINE missing == Desc \ tx_bufs
    <3>1. CASE missing = {}
      BY <1>1, <1>8, <3>1 DEF TxAlloc, SendTypes
    <3>2. CASE missing # {}
      <4>1. missing \in SUBSET Nat
        BY NetAssumption DEF Desc
      <4>2. PICK m \in missing : \A n \in missing : m <= n
        BY <3>2, <4>1, LeastNat
      <4>3. (CHOOSE i \in missing : \A j \in missing : i <= j) \in missing
        BY <4>2
      <4> QED BY <1>1, <1>8, <3>2, <4>3 DEF TxAlloc, SendTypes
    <3> QED BY <3>1, <3>2
  <2>4. SendTypes'
    BY <1>1, <1>8, <2>2, <2>3 DEF TxAlloc, SendTypes, PCs
  <2> QED BY <1>1, <1>8, <2>1, <2>2, <2>4 DEF TxAlloc, SendInv, PingPlace
<1>9. CASE TxHeader
  <2>1. Ping' = Ping /\ tx_bufs' = tx_bufs /\ tx_desc' = tx_desc
    BY <1>9 DEF TxHeader, Ping
  <2>2. PICK d \in DescInUse : mem' = [mem EXCEPT ![BufferOf(d)].hdr = eth_buf.hdr]
    BY <1>9 DEF TxHeader
  <2>3. BufferOf(d) \in Desc \cup {NULLBUF}
    BY <1>1 DEF BufferOf, SendTypes
  <2>4. mem' = [mem EXCEPT ![BufferOf(d)] = [mem[BufferOf(d)] EXCEPT !.hdr = eth_buf.hdr]]
    BY <2>2
  <2>5. /\ mem' \in [Desc \cup {NULLBUF} -> FrameType]
        /\ mem'[BufferOf(d)].hdr = eth_buf.hdr
    BY <1>1, <2>3, <2>4, FrameParts DEF SendTypes
  <2>6. SendTypes'
    BY <1>1, <1>9, <2>5 DEF TxHeader, SendTypes, PCs
  <2>7. ~disturbed => eth_buf = Ping /\ desc = tx_desc /\ d = tx_desc
    BY <1>1, <1>9 DEF TxHeader, PingPlace, DescInUse
  <2> QED BY <1>9, <2>1, <2>5, <2>6, <2>7 DEF TxHeader, SendInv, PingPlace, BufferOf
<1>10. CASE TxPayload
  <2>1. Ping' = Ping /\ tx_bufs' = tx_bufs /\ tx_desc' = tx_desc
    BY <1>10 DEF TxPayload, Ping
  <2>2. PICK d \in DescInUse : mem' = [mem EXCEPT ![BufferOf(d)].pay = eth_buf.pay]
    BY <1>10 DEF TxPayload
  <2>3. BufferOf(d) \in Desc \cup {NULLBUF}
    BY <1>1 DEF BufferOf, SendTypes
  <2>4. mem' = [mem EXCEPT ![BufferOf(d)] = [mem[BufferOf(d)] EXCEPT !.pay = eth_buf.pay]]
    BY <2>2
  <2>5. /\ mem' \in [Desc \cup {NULLBUF} -> FrameType]
        /\ mem[BufferOf(d)].hdr = eth_buf.hdr => mem'[BufferOf(d)] = eth_buf
    BY <1>1, <2>3, <2>4, FrameParts DEF SendTypes
  <2>6. SendTypes'
    BY <1>1, <1>10, <2>5 DEF TxPayload, SendTypes, PCs
  <2>7. ~disturbed => /\ eth_buf = Ping /\ desc = tx_desc /\ d = tx_desc
                      /\ mem[BufferOf(d)].hdr = eth_buf.hdr
    BY <1>1, <1>10 DEF TxPayload, PingPlace, DescInUse
  <2> QED BY <1>10, <2>1, <2>5, <2>6, <2>7 DEF TxPayload, SendInv, PingPlace, BufferOf
<1>11. CASE TxStart
  <2>1. Ping' = Ping
    BY <1>11 DEF TxStart, Ping
  <2>2. PICK d \in DescInUse : submitted' = Append(submitted, mem[BufferOf(d)])
    BY <1>11 DEF TxStart
  <2>3. mem[BufferOf(d)] \in FrameType
    BY <1>1 DEF BufferOf, SendTypes
  <2> DEFINE m == mem[BufferOf(d)]
  <2>4. /\ submitted' \in Seq(FrameType) /\ submitted' # <<>>
        /\ Last(submitted') = m
    <3> HIDE DEF m
    <3>1. submitted' = Append(submitted, m) /\ m \in FrameType
      BY <2>2, <2>3 DEF m
    <3>2. submitted \in Seq(FrameType)
      BY <1>1 DEF SendTypes
    <3> QED BY <3>1, <3>2, AppendProperties, LenProperties DEF Last
  <2>5. SendTypes'
    BY <1>1, <1>11, <2>4 DEF TxStart, SendTypes, PCs
  <2>6. ~disturbed => d = tx_desc /\ m = Ping
    BY <1>1, <1>11 DEF TxStart, PingPlace, DescInUse
  <2> QED BY <1>11, <2>1, <2>4, <2>5, <2>6 DEF TxStart, SendInv, PingPlace
<1>12. CASE TxNext
  <2>1. tx_desc' \in Desc
    BY <1>1, <1>12, DescNext DEF TxNext, DescInUse, SendTypes
  <2>2. SendTypes'
    BY <1>1, <1>12, <2>1 DEF TxNext, SendTypes, PCs
  <2> QED BY <1>12, <2>2 DEF TxNext, SendInv, PingPlace
<1> QED BY <1>3, <1>4, <1>5, <1>6, <1>7, <1>8, <1>9, <1>10, <1>11, <1>12 DEF Thread

----------------------------------------------------------------------------
(***************************************************************************)
(* The receive ring.  W holds the u packets that are in it.  The first     *)
(* one's header is at r, where the driver reads next, and a packet's       *)
(* header lies as far behind the one before as that one is long with its   *)
(* header, rounded up, through the end of the ring: d[k] is how far the    *)
(* k-th header is from the first one, and d[u], always less than the       *)
(* ring's length, how far the NIC's write pointer is.                      *)
(***************************************************************************)
Place(r, x) == IF r + x < Q THEN r + x ELSE r + x - Q

Size(p) == Align4(p.len + 4)

Chain(d, u, W, r, w, rg) ==
    /\ d \in [0..u -> Nat] /\ d[0] = 0
    /\ \A k \in 0..(u - 1) : d[k + 1] = d[k] + Size(W[k])
    /\ \A j, k \in 0..u : j < k => d[j] < d[k]
    /\ d[u] < Q /\ w = Place(r, d[u])
    /\ \A k \in 0..(u - 1) : rg[Place(r, d[k])] = W[k]

LEMMA RingLength == Q \in Nat \ {0} /\ Q % 4 = 0 /\ 65536 % Q = 0
BY NetAssumption DEF Q

LEMMA AlignUp ==
    ASSUME NEW n \in Nat
    PROVE  /\ Align4(n) \in Nat /\ n <= Align4(n) /\ Align4(n) <= n + 3
           /\ Align4(n) % 4 = 0
           /\ \A w \in Nat : w % 4 = 0 => Align4(w + n) = w + Align4(n)
BY DEF Align4

\* What the driver writes to CAPR is what the NIC takes it for, also when 16
\* bytes less than the offset is below zero.
LEMMA CaprReadBack ==
    ASSUME NEW x \in 0..(Q - 1)
    PROVE  ReadPointer((x + 65536 - 16) % 65536) = x
<1> DEFINE q == 65536 \div Q
<1>0. Q \in Nat \ {0} /\ 65536 % Q = 0
  BY RingLength
<1>1. q \in Nat /\ 65536 = Q * q
  BY <1>0, DivMod
<1>2. q # 0
  BY <1>0, <1>1
<1> HIDE DEF q
<1>3. Q <= 65536
  <2>1. PICK k \in Nat : q = k + 1
    BY <1>1, <1>2
  <2>2. Q * q = Q * k + Q /\ Q * k >= 0
    BY <1>0, <2>1
  <2> QED BY <1>0, <1>1, <2>2
<1>4. (x + 65536 - 16) % 65536 = IF x < 16 THEN x + 65520 ELSE x - 16
  BY <1>0, <1>3
<1>5. ((x + 65536 - 16) % 65536) + 16 \in {x, Q * q + x}
  BY <1>0, <1>1, <1>4
<1>6. (Q * q + x) % Q = x
  <2>1. q \in Nat /\ Q \in Nat \ {0}
    BY <1>0, <1>1
  <2> QED BY ONLY <2>1, x \in 0..(Q - 1), ModUnique
<1>7. x % Q = x
  BY <1>0, ModOnce
<1> QED BY <1>5, <1>6, <1>7 DEF ReadPointer, Q

LEMMA AlignedLength ==
    ASSUME NEW l \in Nat, l + 8 <= Q, NEW z, z = Align4(l + 4)
    PROVE  /\ z \in Nat /\ z % 4 = 0 /\ l + 4 <= z /\ z < Q
           /\ \A w \in 0..(Q - 1) : w % 4 = 0 => Align4(w + l + 4) % Q = Place(w, z)
<1>0. Q \in Nat \ {0}
  BY RingLength
<1>1. /\ z \in Nat /\ z % 4 = 0 /\ l + 4 <= z /\ z <= l + 7
      /\ \A w \in Nat : w % 4 = 0 => Align4(w + (l + 4)) = w + z
  <2>1. l + 4 \in Nat
    OBVIOUS
  <2> HIDE DEF Align4
  <2>2. /\ z \in Nat /\ z % 4 = 0 /\ l + 4 <= z /\ z <= (l + 4) + 3
        /\ \A w \in Nat : w % 4 = 0 => Align4(w + (l + 4)) = w + z
    BY <2>1, AlignUp
  <2> QED BY <2>2
<1>2. z < Q
  BY <1>0, <1>1
<1>3. ASSUME NEW w \in 0..(Q - 1), w % 4 = 0
      PROVE  Align4(w + l + 4) % Q = Place(w, z)
  <2>1. w + l + 4 = w + (l + 4) /\ w \in Nat
    BY <1>0
  <2>2. Align4(w + l + 4) = w + z
    BY <1>1, <1>3, <2>1
  <2>3. w + z \in 0..(2 * Q - 1)
    <3>1. z \in Nat
      BY <1>1
    <3> QED BY <1>0, <1>2, <3>1
  <2>4. (w + z) % Q = IF w + z < Q THEN w + z ELSE (w + z) - Q
    BY <1>0, <2>3, ModOnce
  <2>5. (w + z) - Q = w + z - Q
    BY <1>0, <1>1
  <2> QED BY <2>2, <2>4, <2>5 DEF Place
<1> QED BY <1>1, <1>2, <1>3

LEMMA PacketSize ==
    ASSUME NEW p \in Packets
    PROVE  /\ p.len \in Nat /\ Size(p) \in Nat /\ Size(p) % 4 = 0
           /\ p.len + 4 <= Size(p) /\ Size(p) < Q
           /\ \A w \in 0..(Q - 1) : w % 4 = 0 =>
                Align4(w + p.len + 4) % Q = Place(w, Size(p))
<1>1. p.len \in Nat /\ p.len + 8 <= Q
  BY NetAssumption DEF Q
<1>2. Size(p) = Align4(p.len + 4)
  BY DEF Size
<1> QED BY <1>1, <1>2, AlignedLength

\* Places in the ring: a packet is stored where there is room for it, without
\* reaching a header between the read and the write pointer, and counting on
\* from another header gives the same places.
LEMMA PlaceInRing ==
    ASSUME NEW r \in 0..(Q - 1), NEW x \in 0..(Q - 1)
    PROVE  Place(r, x) \in 0..(Q - 1)
BY RingLength DEF Place

LEMMA PlaceRoom ==
    ASSUME NEW r \in 0..(Q - 1), NEW x \in 0..(Q - 1), NEW n \in 0..(Q - 1),
           \/ (Q + r - Place(r, x)) % Q = 0
           \/ n < (Q + r - Place(r, x)) % Q
    PROVE  x + n < Q
<1> DEFINE w == Place(r, x)
           b == Q + r - w
<1>1. Q \in Nat \ {0} /\ w \in 0..(Q - 1)
  BY RingLength, PlaceInRing
<1>2. b \in 0..(2 * Q - 1)
  BY <1>1
<1> HIDE DEF b
<1>3. b % Q = IF b < Q THEN b ELSE b - Q
  BY <1>1, <1>2, ModOnce
<1>4. b % Q = IF x = 0 THEN 0 ELSE Q - x
  BY <1>1, <1>3 DEF b, Place
<1> QED BY <1>1, <1>4 DEF b

LEMMA PlaceNext ==
    ASSUME NEW r \in 0..(Q - 1), NEW x \in Nat, NEW n \in Nat, x + n < Q
    PROVE  Place(Place(r, x), n) = Place(r, x + n)
BY RingLength DEF Place

LEMMA PlaceClear ==
    ASSUME NEW r \in 0..(Q - 1), NEW x \in Nat, NEW y \in Nat, NEW n \in Nat,
           NEW l \in Nat, y < x, x + n < Q, l + 4 <= n
    PROVE  Place(r, y) \notin Place(r, x)..(Place(r, x) + l + 3)
BY RingLength DEF Place

LEMMA PlaceAligned ==
    ASSUME NEW r \in 0..(Q - 1), NEW x \in 0..(Q - 1), r % 4 = 0, x % 4 = 0
    PROVE  Place(r, x) % 4 = 0
BY RingLength DEF Place

\* The NIC stores a packet behind the last one.
LEMMA ChainGrows ==
    ASSUME NEW u \in Nat, NEW W \in [0..(u - 1) -> Packets], NEW r \in 0..(Q - 1), NEW w,
           NEW rg \in [0..(Q - 1) -> Packets \cup {NONE}],
           NEW d, Chain(d, u, W, r, w, rg), NEW p \in Packets,
           \/ (Q + r - w) % Q = 0
           \/ Size(p) < (Q + r - w) % Q,
           NEW rg2 \in [0..(Q - 1) -> Packets \cup {NONE}],
           rg2[w] = p,
           \A o \in 0..(Q - 1) : o \notin w..(w + p.len + 3) => rg2[o] = rg[o],
           NEW W2, W2[u] = p, \A k \in 0..(u - 1) : W2[k] = W[k]
    PROVE  \E e : Chain(e, u + 1, W2, r, Place(w, Size(p)), rg2)
<1> DEFINE e == [k \in 0..(u + 1) |-> IF k = u + 1 THEN d[u] + Size(p) ELSE d[k]]
<1>1. Q \in Nat \ {0}
  BY RingLength
<1>2. p.len \in Nat /\ Size(p) \in Nat /\ p.len + 4 <= Size(p) /\ Size(p) < Q
  BY PacketSize
<1>3. d \in [0..u -> Nat] /\ d[0] = 0
  BY DEF Chain
<1>4. \A k \in 0..(u - 1) : d[k + 1] = d[k] + Size(W[k])
  BY DEF Chain
<1>5. \A j, k \in 0..u : j < k => d[j] < d[k]
  BY DEF Chain
<1>6. d[u] < Q /\ d[u] \in Nat /\ w = Place(r, d[u])
  BY <1>3 DEF Chain
<1>7. \A k \in 0..(u - 1) : rg[Place(r, d[k])] = W[k]
  BY DEF Chain
<1>8. d[u] + Size(p) < Q
  <2>1. d[u] \in 0..(Q - 1) /\ Size(p) \in 0..(Q - 1)
    BY <1>1, <1>2, <1>6
  <2> QED BY <1>6, <2>1, PlaceRoom
<1>9. W2[u] = p /\ \A k \in 0..(u - 1) : W2[k] = W[k]
  OBVIOUS
<1>10. e \in [0..(u + 1) -> Nat] /\ e[u + 1] = d[u] + Size(p)
  BY <1>2, <1>3, <1>6
<1>11. ASSUME NEW k \in 0..u PROVE e[k] = d[k] /\ d[k] \in Nat
  <2>1. k \in 0..(u + 1) /\ k # u + 1
    OBVIOUS
  <2>2. e[k] = d[k]
    BY <2>1
  <2> QED BY <1>3, <2>2
<1> HIDE DEF e
<1>12. e[0] = 0
  BY <1>3, <1>11
<1>13. ASSUME NEW k \in 0..u PROVE e[k + 1] = e[k] + Size(W2[k])
  <2>1. CASE k = u
    BY <1>9, <1>10, <1>11, <2>1
  <2>2. CASE k # u
    <3>1. k \in 0..(u - 1) /\ k + 1 \in 0..u
      BY <2>2
    <3> QED BY <1>4, <1>9, <1>11, <3>1
  <2> QED BY <2>1, <2>2
<1>14. ASSUME NEW j \in 0..(u + 1), NEW k \in 0..(u + 1), j < k
       PROVE  e[j] < e[k]
  <2>0. j \in 0..u
    BY <1>14
  <2>1. CASE k = u + 1
    <3>1. d[j] <= d[u]
      <4>1. CASE j = u
        BY <4>1, <1>6
      <4>2. CASE j # u
        BY <2>0, <4>2, <1>5, <1>11
      <4> QED BY <4>1, <4>2
    <3> QED BY <1>2, <1>6, <1>10, <1>11, <2>0, <2>1, <3>1, SMTT(30)
  <2>2. CASE k # u + 1
    BY <1>5, <1>11, <1>14, <2>0, <2>2
  <2> QED BY <2>1, <2>2
<1>15. e[u + 1] < Q /\ Place(w, Size(p)) = Place(r, e[u + 1])
  BY <1>2, <1>6, <1>8, <1>10, PlaceNext
<1>16. ASSUME NEW k \in 0..u PROVE rg2[Place(r, e[k])] = W2[k]
  <2>1. CASE k = u
    BY <1>6, <1>9, <1>11, <2>1
  <2>2. CASE k # u
    <3>1. k \in 0..(u - 1) /\ k < u
      BY <2>2
    <3>2. d[k] < d[u] /\ d[k] \in Nat
      BY <1>5, <1>11, <3>1
    <3>3. d[k] \in 0..(Q - 1)
      BY <1>1, <1>6, <3>2
    <3>4. Place(r, d[k]) \in 0..(Q - 1) \ (w..(w + p.len + 3))
      BY <1>2, <1>6, <1>8, <3>2, <3>3, PlaceInRing, PlaceClear
    <3>5. rg2[Place(r, d[k])] = rg[Place(r, d[k])]
      BY <3>4
    <3> QED BY <1>7, <1>9, <1>11, <3>1, <3>5
  <2> QED BY <2>1, <2>2
<1>17. (u + 1) - 1 = u
  OBVIOUS
<1>18. Chain(e, u + 1, W2, r, Place(w, Size(p)), rg2)
  BY <1>10, <1>12, <1>13, <1>14, <1>15, <1>16, <1>17 DEF Chain
<1> QED BY <1>18

WithoutFirst(W2, u, W) == \A k \in 0..(u - 1) : W2[k] = W[k + 1]

\* The driver goes on behind the first packet.
LEMMA ChainShrinks ==
    ASSUME NEW u \in Nat, NEW W \in [0..u -> Packets], NEW r \in 0..(Q - 1), NEW w,
           NEW rg, NEW d, NEW v, v = u + 1, Chain(d, v, W, r, w, rg),
           NEW W2, WithoutFirst(W2, u, W)
    PROVE  /\ rg[r] = W[0] /\ w # r
           /\ Place(r, Size(W[0])) \in 0..(Q - 1)
           /\ \E e : Chain(e, u, W2, Place(r, Size(W[0])), w, rg)
<1> DEFINE e == [k \in 0..u |-> d[k + 1] - d[1]]
           r2 == Place(r, Size(W[0]))
<1>1. Q \in Nat \ {0} /\ (u + 1) - 1 = u
  BY RingLength
<1>3. d \in [0..(u + 1) -> Nat] /\ d[0] = 0
  BY DEF Chain
<1>4. \A k \in 0..u : d[k + 1] = d[k] + Size(W[k])
  BY <1>1 DEF Chain
<1>5. \A j, k \in 0..(u + 1) : j < k => d[j] < d[k]
  BY DEF Chain
<1>6. d[u + 1] < Q /\ w = Place(r, d[u + 1])
  BY DEF Chain
<1>7. \A k \in 0..u : rg[Place(r, d[k])] = W[k]
  BY <1>1 DEF Chain
<1>8. \A k \in 0..(u + 1) : d[k] \in Nat
  BY <1>3
<1>9. /\ 0 \in 0..(u + 1) /\ 1 \in 0..(u + 1) /\ u + 1 \in 0..(u + 1) /\ 0 \in 0..u
      /\ 0 < u + 1
  OBVIOUS
<1>10. \A k \in 1..(u + 1) : d[k] >= d[1] /\ d[k] < Q /\ d[k] \in Nat
  <2> SUFFICES ASSUME NEW k \in 1..(u + 1)
               PROVE  d[k] >= d[1] /\ d[k] < Q /\ d[k] \in Nat
    OBVIOUS
  <2>1. k \in 0..(u + 1)
    OBVIOUS
  <2>2. d[k] \in Nat /\ d[1] \in Nat /\ d[u + 1] \in Nat
    BY <1>8, <1>9, <2>1
  <2>3. k = 1 \/ d[1] < d[k]
    BY <1>5, <1>9, <2>1
  <2>4. k = u + 1 \/ d[k] < d[u + 1]
    BY <1>5, <1>9, <2>1
  <2> QED BY <1>1, <1>6, <2>2, <2>3, <2>4
<1>11. d[1] = Size(W[0]) /\ d[1] \in Nat /\ d[1] < Q
  <2>1. W[0] \in Packets
    BY <1>9
  <2>2. d[0 + 1] = d[0] + Size(W[0])
    BY <1>4, <1>9
  <2>3. Size(W[0]) \in Nat
    BY <2>1, PacketSize
  <2>4. 0 + 1 = 1 /\ 1 \in 1..(u + 1)
    OBVIOUS
  <2> QED BY <1>3, <1>10, <2>2, <2>3, <2>4
<1>12. r2 = Place(r, d[1]) /\ r2 \in 0..(Q - 1)
  BY <1>1, <1>11, PlaceInRing
<1>13. Place(r, 0) = r
  BY <1>1 DEF Place
<1>14. rg[r] = W[0]
  BY <1>3, <1>7, <1>9, <1>13
<1>15. w # r
  <2>1. d[u + 1] \in Nat /\ d[u + 1] > 0
    BY <1>3, <1>5, <1>8, <1>9
  <2> QED BY <1>1, <1>6, <2>1 DEF Place
<1>16. /\ \A k \in 0..u : e[k] = d[k + 1] - d[1] /\ e[k] \in Nat /\ e[k] < Q /\ d[1] + e[k] = d[k + 1]
       /\ \A k \in 0..u : Place(r2, e[k]) = Place(r, d[k + 1])
  <2> SUFFICES ASSUME NEW k \in 0..u
               PROVE  /\ e[k] = d[k + 1] - d[1] /\ e[k] \in Nat /\ e[k] < Q /\ d[1] + e[k] = d[k + 1]
                      /\ Place(r2, e[k]) = Place(r, d[k + 1])
    OBVIOUS
  <2>1. k + 1 \in 1..(u + 1)
    OBVIOUS
  <2>2. d[k + 1] >= d[1] /\ d[k + 1] < Q /\ d[k + 1] \in Nat
    BY <1>10, <2>1
  <2>3. e[k] = d[k + 1] - d[1]
    OBVIOUS
  <2>4. e[k] \in Nat /\ e[k] < Q /\ d[1] + e[k] = d[k + 1]
    BY <1>1, <1>11, <2>2, <2>3
  <2> QED BY <1>11, <1>12, <2>2, <2>3, <2>4, PlaceNext
<1>17. e \in [0..u -> Nat]
  BY <1>16
<1>18. \A k \in 0..(u - 1) : W2[k] = W[k + 1]
  BY DEF WithoutFirst
<1> HIDE DEF e, r2
<1>19. e[0] = 0
  <2>1. e[0] = d[0 + 1] - d[1] /\ 0 + 1 = 1
    BY <1>9, <1>16
  <2> QED BY <1>11, <2>1
<1>20. ASSUME NEW k \in 0..(u - 1)
       PROVE  e[k + 1] = e[k] + Size(W2[k]) /\ rg[Place(r2, e[k])] = W2[k]
  <2>1. k \in 0..u /\ k + 1 \in 0..u
    OBVIOUS
  <2>2. d[(k + 1) + 1] = d[k + 1] + Size(W[k + 1])
    BY <1>4, <2>1
  <2>3. Size(W[k + 1]) \in Nat
    BY <2>1, PacketSize
  <2>4. e[k + 1] = d[(k + 1) + 1] - d[1] /\ e[k] = d[k + 1] - d[1] /\ d[k + 1] \in Nat
    <3>1. k + 1 \in 1..(u + 1)
      OBVIOUS
    <3> QED BY <1>10, <1>16, <2>1, <3>1
  <2>5. e[k + 1] = e[k] + Size(W2[k])
    BY <1>11, <1>18, <2>2, <2>3, <2>4
  <2>6. rg[Place(r2, e[k])] = W2[k]
    BY <1>7, <1>16, <1>18, <2>1
  <2> QED BY <2>5, <2>6
<1>21. ASSUME NEW j \in 0..u, NEW k \in 0..u, j < k
       PROVE  e[j] < e[k]
  <2>1. j + 1 \in 0..(u + 1) /\ k + 1 \in 0..(u + 1) /\ j + 1 < k + 1
    BY <1>21
  <2>2. d[j + 1] < d[k + 1] /\ d[j + 1] \in Nat /\ d[k + 1] \in Nat
    BY <1>5, <1>8, <2>1
  <2> QED BY <1>11, <1>16, <2>2
<1>22. e[u] < Q /\ w = Place(r2, e[u])
  <2>1. u \in 0..u
    OBVIOUS
  <2> QED BY <1>6, <1>16, <2>1
<1>23. Chain(e, u, W2, r2, w, rg)
  BY <1>17, <1>19, <1>20, <1>21, <1>22 DEF Chain
<1> QED BY <1>12, <1>14, <1>15, <1>23 DEF r2

----------------------------------------------------------------------------
(***************************************************************************)
(* The inductive invariant: the driver has handled a prefix of what the    *)
(* NIC has stored, and what is left lies in the ring behind one another;   *)
(* every broadcast echo request among what was handled has its answer; and *)
(* the ping that is being sent is where it should be.                      *)
(***************************************************************************)
Unread == Len(accepted) - Len(handled)
Waiting == [k \in 0..(Unread - 1) |-> accepted[Len(handled) + k + 1]]

RxInv ==
    /\ RxTypes
    /\ rx_offset = rd /\ rd % 4 = 0 /\ wr % 4 = 0
    /\ Len(handled) <= Len(accepted)
    /\ \A k \in 1..Len(handled) : handled[k] = accepted[k]
    /\ \E d : Chain(d, Unread, Waiting, rd, wr, ring)

EchoInv == \A p \in Packets : Asks(p) => Times(p, handled) <= Times(Answer(p), submitted)

NetInv == RxInv /\ EchoInv /\ SendInv

LEMMA NetInvInit == Init => NetInv
<1> SUFFICES ASSUME Init PROVE NetInv
  OBVIOUS
<1> USE DEF Init
<1>1. Q \in Nat \ {0}
  BY RingLength
<1>2. RxTypes
  BY <1>1 DEF RxTypes, Q
<1>3. Len(handled) = 0 /\ Len(accepted) = 0 /\ Unread = 0
  BY DEF Unread
<1> DEFINE d == [k \in 0..0 |-> 0]
<1>4. Chain(d, Unread, Waiting, rd, wr, ring)
  BY <1>1, <1>3 DEF Chain, Place
<1>5. RxInv
  <2>1. \E e : Chain(e, Unread, Waiting, rd, wr, ring)
    BY <1>4
  <2> QED BY <1>2, <1>3, <2>1 DEF RxInv
<1>6. EchoInv
  <2>1. \A e : Times(e, <<>>) = 0
    BY FS_EmptySet DEF Times
  <2> QED BY <2>1 DEF EchoInv
<1>7. SendTypes
  <2>1. NoFrame \in FrameType
    <3>1. Broadcast \in Octet4
      BY DEF Broadcast, Octet4
    <3> QED BY <3>1, FrameTyped DEF NoFrame
  <2>2. 0 \in Desc
    BY NetAssumption DEF Desc
  <2>3. disturbed \in BOOLEAN
    BY Zenon
  <2> QED BY <2>1, <2>2, <2>3 DEF SendTypes, PCs
<1> QED BY <1>5, <1>6, <1>7 DEF NetInv, SendInv, PingPlace

LEMMA RxFacts ==
    ASSUME RxInv
    PROVE  /\ Len(accepted) \in Nat /\ Len(handled) \in Nat /\ Unread \in Nat
           /\ Waiting \in [0..(Unread - 1) -> Packets]
<1>1. Len(accepted) \in Nat /\ Len(handled) \in Nat /\ Unread \in Nat
  BY LenProperties DEF RxInv, RxTypes, Unread
<1>2. ASSUME NEW k \in 0..(Unread - 1)
      PROVE  accepted[Len(handled) + k + 1] \in Packets
  <2>1. Len(handled) + k + 1 \in 1..Len(accepted)
    BY <1>1 DEF Unread
  <2> QED BY <2>1, ElementOfSeq DEF RxInv, RxTypes
<1> QED BY <1>1, <1>2 DEF Waiting

LEMMA RxInvKept ==
    ASSUME RxInv, UNCHANGED <<ring, wr, rd, rx_offset, accepted, handled>>
    PROVE  RxInv'
<1>1. Unread' = Unread /\ Waiting' = Waiting
  BY DEF Unread, Waiting
<1>2. PICK d : Chain(d, Unread, Waiting, rd, wr, ring)
  BY DEF RxInv
<1>3. Chain(d, Unread', Waiting', rd', wr', ring')
  BY <1>1, <1>2
<1>4. \E e : Chain(e, Unread', Waiting', rd', wr', ring')
  BY <1>3
<1>5. (\E e : Chain(e, Unread, Waiting, rd, wr, ring))'
  BY <1>4 DEF Chain, Place, Q, Size, Align4
<1> QED BY <1>5 DEF RxInv, RxTypes, Q

\* A packet arrives.
LEMMA ReceiveStep ==
    ASSUME RxInv, NEW p \in Packets, NicReceive(p)
    PROVE  RxInv'
<1> DEFINE u == Unread
           W2 == [k \in 0..u |-> IF k = u THEN p ELSE Waiting[k]]
<1>1. /\ Len(accepted) \in Nat /\ Len(handled) \in Nat /\ u \in Nat
      /\ Waiting \in [0..(u - 1) -> Packets]
  BY RxFacts
<1>2. /\ ring \in [0..(Q - 1) -> Packets \cup {NONE}]
      /\ wr \in 0..(Q - 1) /\ rd \in 0..(Q - 1) /\ wr % 4 = 0
  BY DEF RxInv, RxTypes
<1>3. /\ p.len \in Nat /\ Size(p) \in Nat /\ Size(p) % 4 = 0 /\ Size(p) < Q
      /\ Align4(wr + p.len + 4) % Q = Place(wr, Size(p))
  BY <1>2, PacketSize
<1>4. /\ handled' = handled /\ rd' = rd /\ rx_offset' = rx_offset
      /\ accepted' = Append(accepted, p)
      /\ wr' = Align4(wr + 4 + p.len) % Q
  BY DEF NicReceive, Q
<1>5. wr' = Place(wr, Size(p))
  <2>1. wr + 4 + p.len = wr + p.len + 4
    <3>1. wr \in Int /\ p.len \in Int
      BY <1>2, <1>3, RingLength
    <3> QED BY <3>1
  <2> QED BY <1>3, <1>4, <2>1
<1>6. /\ ring' \in [0..(Q - 1) -> Packets \cup {NONE}] /\ ring'[wr] = p
      /\ \A o \in 0..(Q - 1) : o \notin wr..(wr + p.len + 3) => ring'[o] = ring[o]
  <2>1. ring' = [o \in 0..(Q - 1) |-> IF o = wr THEN p
                       ELSE IF o \in wr..(wr + p.len + 3) THEN NONE ELSE ring[o]]
    BY <1>2 DEF NicReceive
  <2>2. wr \in wr..(wr + p.len + 3)
    <3>1. wr \in Int /\ p.len \in Nat
      BY <1>2, <1>3, RingLength
    <3> QED BY <3>1
  <2> QED BY <1>2, <2>1, <2>2
<1>7. \/ (Q + rd - wr) % Q = 0
      \/ Size(p) < (Q + rd - wr) % Q
  BY DEF NicReceive, Room, Size, Q
<1>8. /\ accepted' \in Seq(Packets) /\ Len(accepted') = Len(accepted) + 1
      /\ \A k \in 1..Len(accepted) : accepted'[k] = accepted[k]
      /\ accepted'[Len(accepted) + 1] = p
  BY <1>4, AppendProperties DEF RxInv, RxTypes
<1>9. Len(accepted) = Len(handled) + u
  BY <1>1 DEF Unread
<1>10. Unread' = u + 1
  BY <1>1, <1>4, <1>8 DEF Unread
<1>11. \A k \in 0..(u - 1) : Waiting[k] = accepted[Len(handled) + k + 1]
  BY DEF Waiting
<1> HIDE DEF u
<1>12. Waiting' = W2
  <2>1. Waiting' = [k \in 0..u |-> accepted'[Len(handled) + k + 1]]
    <3>1. Unread' - 1 = u
      BY <1>1, <1>10
    <3> QED BY <1>4, <3>1 DEF Waiting
  <2>2. ASSUME NEW k \in 0..u
        PROVE  accepted'[Len(handled) + k + 1] = IF k = u THEN p ELSE Waiting[k]
    <3>1. CASE k = u
      BY <1>8, <1>9, <3>1
    <3>2. CASE k # u
      <4>1. k \in 0..(u - 1) /\ Len(handled) + k + 1 \in 1..Len(accepted)
        BY <1>1, <1>9, <3>2
      <4> QED BY <1>8, <1>11, <3>2, <4>1
    <3> QED BY <3>1, <3>2
  <2> QED BY <2>1, <2>2
<1>13. \E e : Chain(e, u + 1, W2, rd, Place(wr, Size(p)), ring')
  <2>1. PICK d : Chain(d, u, Waiting, rd, wr, ring)
    BY DEF RxInv, u
  <2>2. W2[u] = p /\ \A k \in 0..(u - 1) : W2[k] = Waiting[k]
    BY <1>1
  <2> HIDE DEF W2
  <2> QED BY <1>1, <1>2, <1>6, <1>7, <2>1, <2>2, ChainGrows
<1>14. \E e : Chain(e, Unread', Waiting', rd', wr', ring')
  BY <1>4, <1>5, <1>10, <1>12, <1>13
<1>15. (\E e : Chain(e, Unread, Waiting, rd, wr, ring))'
  BY <1>14 DEF Chain, Place, Q, Size, Align4
<1>16. wr' \in 0..(Q - 1) /\ wr' % 4 = 0
  <2>1. Size(p) \in 0..(Q - 1)
    BY <1>3, RingLength
  <2> QED BY <1>2, <1>3, <1>5, <2>1, PlaceInRing, PlaceAligned
<1>17. RxTypes'
  BY <1>4, <1>6, <1>8, <1>16 DEF RxInv, RxTypes, Q
<1>18. /\ Len(handled') <= Len(accepted')
       /\ \A k \in 1..Len(handled') : handled'[k] = accepted'[k]
  BY <1>1, <1>4, <1>8 DEF RxInv
<1> QED BY <1>4, <1>15, <1>16, <1>17, <1>18 DEF RxInv

\* The handler takes the oldest packet, and there is one.
LEMMA PacketStep ==
    ASSUME RxInv, IrqPacket
    PROVE  /\ RxInv'
           /\ ring[rx_offset] \in Packets
           /\ handled' = Append(handled, ring[rx_offset])
<1> DEFINE u == Unread - 1
           p == ring[rx_offset]
           W2 == [k \in 0..(u - 1) |-> Waiting[k + 1]]
<1>1. /\ Len(accepted) \in Nat /\ Len(handled) \in Nat /\ Unread \in Nat
      /\ Waiting \in [0..(Unread - 1) -> Packets]
  BY RxFacts
<1>2. /\ ring \in [0..(Q - 1) -> Packets \cup {NONE}] /\ rx_offset = rd
      /\ wr \in 0..(Q - 1) /\ rd \in 0..(Q - 1) /\ rd % 4 = 0 /\ wr # rd
      /\ handled \in Seq(Packets) /\ accepted \in Seq(Packets)
  BY DEF RxInv, RxTypes, IrqPacket, RxEmpty
<1>3. PICK d : Chain(d, Unread, Waiting, rd, wr, ring)
  BY DEF RxInv
<1>4. Unread # 0
  <2> SUFFICES ASSUME Unread = 0 PROVE FALSE
    OBVIOUS
  <2>1. d[0] = 0 /\ wr = Place(rd, d[0])
    BY <1>3 DEF Chain
  <2> QED BY <1>2, <2>1, RingLength DEF Place
<1>5. u \in Nat /\ Unread = u + 1
  BY <1>1, <1>4
<1>6. Waiting[0] = accepted[Len(handled) + 1]
  BY <1>1, <1>5 DEF Waiting
<1>7. \A k \in 0..(Unread - 1) : Waiting[k] = accepted[Len(handled) + k + 1]
  BY DEF Waiting
<1> HIDE DEF u
<1>8. Waiting \in [0..u -> Packets]
  BY <1>1, <1>5
<1>9. /\ ring[rd] = Waiting[0]
      /\ Place(rd, Size(Waiting[0])) \in 0..(Q - 1)
      /\ \E e : Chain(e, u, W2, Place(rd, Size(Waiting[0])), wr, ring)
  <2>1. WithoutFirst(W2, u, Waiting)
    BY DEF WithoutFirst
  <2>2. rd \in 0..(Q - 1)
    BY <1>2
  <2> HIDE DEF W2
  <2> QED BY <1>3, <1>5, <1>8, <2>1, <2>2, ChainShrinks
<1>10. p = Waiting[0] /\ p \in Packets
  <2>1. 0 \in 0..u
    BY <1>5
  <2> QED BY <1>2, <1>8, <1>9, <2>1
<1>11. /\ handled' = Append(handled, p) /\ accepted' = accepted
       /\ ring' = ring /\ wr' = wr
       /\ rx_offset' = RxNext(rx_offset, p.len)
       /\ rd' = ReadPointer((rx_offset' + 65536 - 16) % 65536)
  BY DEF IrqPacket
<1>12. rx_offset' = Place(rd, Size(Waiting[0]))
  <2>1. Align4(rd + p.len + 4) % Q = Place(rd, Size(p))
    BY <1>2, <1>10, PacketSize
  <2> QED BY <1>2, <1>10, <1>11, <2>1 DEF RxNext, Q
<1>13. rd' = rx_offset' /\ rd' \in 0..(Q - 1)
  BY <1>9, <1>11, <1>12, CaprReadBack
<1>14. rd' % 4 = 0
  <2>1. Size(p) \in 0..(Q - 1) /\ Size(p) % 4 = 0
    BY <1>10, PacketSize, RingLength
  <2> QED BY <1>2, <1>10, <1>12, <1>13, <2>1, PlaceAligned
<1>15. /\ handled' \in Seq(Packets) /\ Len(handled') = Len(handled) + 1
       /\ \A k \in 1..Len(handled) : handled'[k] = handled[k]
       /\ handled'[Len(handled) + 1] = p
  BY <1>2, <1>10, <1>11, AppendProperties
<1>16. Unread' = u /\ Len(handled) + u + 1 = Len(accepted)
  BY <1>1, <1>5, <1>11, <1>15 DEF Unread
<1>17. Waiting' = W2
  <2>1. Waiting' = [k \in 0..(u - 1) |-> accepted[(Len(handled) + 1) + k + 1]]
    BY <1>11, <1>15, <1>16 DEF Waiting
  <2>2. ASSUME NEW k \in 0..(u - 1)
        PROVE  accepted[(Len(handled) + 1) + k + 1] = Waiting[k + 1]
    <3>1. k + 1 \in 0..(Unread - 1) /\ (Len(handled) + 1) + k + 1 = Len(handled) + (k + 1) + 1
      BY <1>1, <1>5
    <3> QED BY <1>7, <3>1
  <2> QED BY <2>1, <2>2
<1>18. \E e : Chain(e, Unread', Waiting', rd', wr', ring')
  <2>1. ring' = ring /\ wr' = wr
    BY DEF IrqPacket
  <2> QED BY <1>9, <1>12, <1>13, <1>16, <1>17, <2>1
<1>19. (\E e : Chain(e, Unread, Waiting, rd, wr, ring))'
  BY <1>18 DEF Chain, Place, Q, Size, Align4
<1>20. RxTypes'
  BY <1>2, <1>11, <1>13, <1>15 DEF RxTypes, Q
<1>21. /\ Len(handled') <= Len(accepted')
       /\ \A k \in 1..Len(handled') : handled'[k] = accepted'[k]
  <2>1. Len(handled') <= Len(accepted')
    BY <1>1, <1>5, <1>11, <1>15, <1>16
  <2>2. ASSUME NEW k \in 1..Len(handled') PROVE handled'[k] = accepted'[k]
    <3>1. CASE k = Len(handled) + 1
      BY <1>6, <1>10, <1>11, <1>15, <3>1
    <3>2. CASE k # Len(handled) + 1
      <4>1. k \in 1..Len(handled)
        BY <1>1, <1>15, <3>2
      <4> QED BY <1>11, <1>15, <4>1 DEF RxInv
    <3> QED BY <3>1, <3>2
  <2> QED BY <2>1, <2>2
<1>22. wr' % 4 = 0
  BY <1>11 DEF RxInv
<1>23. RxInv'
  BY <1>13, <1>14, <1>19, <1>20, <1>21, <1>22 DEF RxInv
<1> QED BY <1>10, <1>11, <1>23

\* The handler answers what asks for it.
LEMMA EchoStep ==
    ASSUME EchoInv, SendTypes, handled \in Seq(Packets), IrqPacket,
           NEW p \in Packets, p = ring[rx_offset], handled' = Append(handled, p)
    PROVE  EchoInv'
<1>1. submitted \in Seq(FrameType)
  BY DEF SendTypes
<1>2. netif_recv(p) \in FrameType \cup {NONE}
  BY ReplyTyped
<1>3. IF netif_recv(p) = NONE THEN submitted' = submitted
                              ELSE submitted' = Append(submitted, netif_recv(p))
  BY DEF IrqPacket, SendFromIrq, netif_send, rtl8139_transmit
<1>4. ASSUME NEW q \in Packets, Asks(q)
      PROVE  Times(q, handled') <= Times(Answer(q), submitted')
  <2>1. Times(q, handled) <= Times(Answer(q), submitted)
    BY <1>4 DEF EchoInv
  <2>2. /\ Times(q, handled) \in Nat
        /\ Times(q, handled') = IF p = q THEN Times(q, handled) + 1 ELSE Times(q, handled)
    BY TimesAppend
  <2>3. /\ Times(Answer(q), submitted) \in Nat
        /\ \A f \in FrameType : Times(Answer(q), Append(submitted, f)) =
             IF f = Answer(q) THEN Times(Answer(q), submitted) + 1
                              ELSE Times(Answer(q), submitted)
    <3>1. \E f : f \in FrameType
      BY DEF SendTypes
    <3> QED BY <1>1, <3>1, TimesAppend
  <2>4. CASE p = q
    <3>1. netif_recv(p) = Answer(q) /\ netif_recv(p) # NONE
      BY <1>4, <2>4, EchoReply
    <3>2. submitted' = Append(submitted, Answer(q)) /\ Answer(q) \in FrameType
      BY <1>2, <1>3, <3>1
    <3>3. Times(Answer(q), submitted') = Times(Answer(q), submitted) + 1
      BY <2>3, <3>2
    <3> QED BY <2>1, <2>2, <2>3, <2>4, <3>3
  <2>5. CASE p # q
    <3>1. Times(Answer(q), submitted') \in {Times(Answer(q), submitted),
                                            Times(Answer(q), submitted) + 1}
      BY <1>2, <1>3, <2>3
    <3> QED BY <2>1, <2>2, <2>3, <2>5, <3>1
  <2> QED BY <2>4, <2>5
<1> QED BY <1>4 DEF EchoInv, Asks, Answer, Frame, Times

LEMMA EchoKept ==
    ASSUME EchoInv, UNCHANGED <<handled, submitted>>
    PROVE  EchoInv'
BY DEF EchoInv, Asks, Answer, Frame, Times

\* The thread hands frames to the NIC too: that answers nothing, and takes no
\* answer back.
LEMMA EchoThread ==
    ASSUME EchoInv, SendTypes, handled \in Seq(Packets), TxStart
    PROVE  EchoInv'
<1>1. PICK d \in DescInUse : submitted' = Append(submitted, mem[BufferOf(d)])
  BY DEF TxStart
<1> DEFINE f == mem[BufferOf(d)]
<1>2. f \in FrameType /\ submitted \in Seq(FrameType)
  BY DEF BufferOf, SendTypes
<1>3. submitted' = Append(submitted, f) /\ handled' = handled
  BY <1>1 DEF TxStart
<1> HIDE DEF f
<1>4. ASSUME NEW q \in Packets, Asks(q)
      PROVE  Times(q, handled') <= Times(Answer(q), submitted')
  <2>1. /\ Times(Answer(q), submitted) \in Nat
        /\ Times(Answer(q), submitted') \in {Times(Answer(q), submitted),
                                             Times(Answer(q), submitted) + 1}
    BY <1>2, <1>3, TimesAppend
  <2>2. Times(q, handled) <= Times(Answer(q), submitted)
    BY <1>4 DEF EchoInv
  <2>3. Times(q, handled) \in Nat
    BY TimesAppend
  <2> QED BY <1>3, <2>1, <2>2, <2>3
<1> QED BY <1>4 DEF EchoInv, Asks, Answer, Frame, Times

LEMMA NetInvNext == NetInv /\ [Next]_vars => NetInv'
<1> SUFFICES ASSUME NetInv, [Next]_vars PROVE NetInv'
  OBVIOUS
<1>0. RxInv /\ EchoInv /\ SendInv /\ SendTypes /\ handled \in Seq(Packets)
  BY DEF NetInv, SendInv, RxInv, RxTypes
<1> USE DEF nic, bufs, hist
<1>1. CASE IrqEnter \/ IrqAck \/ IrqExit \/ UNCHANGED vars
  <2>1. UNCHANGED <<ring, wr, rd, rx_offset, bufs, thread, hist>>
    BY <1>1 DEF IrqEnter, IrqAck, IrqExit, vars
  <2> QED BY <1>0, <2>1, RxInvKept, EchoKept, SendInvKept DEF NetInv
<1>2. CASE IrqPacket
  <2>1. /\ RxInv' /\ ring[rx_offset] \in Packets
        /\ handled' = Append(handled, ring[rx_offset])
    BY <1>0, <1>2, PacketStep
  <2>2. EchoInv'
    BY <1>0, <1>2, <2>1, EchoStep
  <2>3. SendInv'
    <3> DEFINE reply == netif_recv(ring[rx_offset])
    <3>1. reply \in FrameType \cup {NONE} /\ UNCHANGED thread
      BY <1>2, <2>1, ReplyTyped DEF IrqPacket
    <3>2. CASE reply = NONE
      <4>1. UNCHANGED <<bufs, submitted, disturbed>>
        BY <1>2, <3>2 DEF IrqPacket
      <4> QED BY <1>0, <3>1, <4>1, SendInvKept
    <3>3. CASE reply # NONE
      <4>1. SendFromIrq(reply) /\ reply \in FrameType
        BY <1>2, <3>1, <3>3 DEF IrqPacket
      <4> HIDE DEF reply
      <4> QED BY <1>0, <3>1, <4>1, HandlerSends
    <3> QED BY <3>2, <3>3
  <2> QED BY <2>1, <2>2, <2>3 DEF NetInv
<1>3. ASSUME NEW p \in Packets, NicReceive(p) PROVE NetInv'
  <2>1. UNCHANGED <<handled, submitted, bufs, thread, disturbed>>
    BY <1>3 DEF NicReceive
  <2> QED BY <1>0, <1>3, <2>1, ReceiveStep, EchoKept, SendInvKept DEF NetInv
<1>4. ASSUME NEW d \in Desc, NicSent(d) PROVE NetInv'
  <2>1. UNCHANGED <<ring, wr, rd, rx_offset, bufs, thread, hist>>
    BY <1>4 DEF NicSent
  <2> QED BY <1>0, <2>1, RxInvKept, EchoKept, SendInvKept DEF NetInv
<1>5. CASE Thread
  <2>1. SendInv'
    BY <1>0, <1>5, ThreadStep
  <2>2. UNCHANGED <<ring, wr, rd, rx_offset, accepted, handled>>
    BY <1>5 DEF Thread, icmp_ping, IpHeader, IpPayload, EthHeader, EthPayload, TxAlloc,
                TxHeader, TxPayload, TxStart, TxNext, Others
  <2>3. EchoInv'
    <3>1. CASE TxStart
      BY <1>0, <3>1, EchoThread
    <3>2. CASE ~TxStart
      <4>1. submitted' = submitted
        BY <1>5, <3>2 DEF Thread, icmp_ping, IpHeader, IpPayload, EthHeader, EthPayload,
                          TxAlloc, TxHeader, TxPayload, TxNext
      <4> QED BY <1>0, <2>2, <4>1, EchoKept
    <3> QED BY <3>1, <3>2
  <2> QED BY <1>0, <2>1, <2>2, <2>3, RxInvKept DEF NetInv
<1> QED BY <1>1, <1>2, <1>3, <1>4, <1>5 DEF Next, Handler, Nic

\* The invariant holds in every state.
THEOREM NetInvariant == Spec => []NetInv
<1>1. Init => NetInv
  BY NetInvInit
<1>2. NetInv /\ [Next]_vars => NetInv'
  BY NetInvNext
<1> QED BY <1>1, <1>2, PTL DEF Spec

\* The driver stays in step with the NIC, through every wrap of the ring and
\* with packets of every length: what it has handled is a prefix of what was
\* stored, and the next header it reads is the oldest packet's.
THEOREM RxInStepAlways == Spec => []RxInStep
<1>1. NetInv => RxInStep
  <2> SUFFICES ASSUME NetInv PROVE RxInStep
    OBVIOUS
  <2>0. RxInv
    BY DEF NetInv
  <2>1. /\ Len(accepted) \in Nat /\ Len(handled) \in Nat /\ Unread \in Nat
        /\ Waiting \in [0..(Unread - 1) -> Packets]
    BY <2>0, RxFacts
  <2>2. /\ handled \in Seq(Packets) /\ accepted \in Seq(Packets)
        /\ Len(handled) <= Len(accepted) /\ rd \in 0..(Q - 1) /\ rx_offset = rd
        /\ \A k \in 1..Len(handled) : handled[k] = accepted[k]
    BY <2>0 DEF RxInv, RxTypes
  <2>3. IsPrefix(handled, accepted)
    <3> DEFINE h == SubSeq(handled, 1, Len(handled))
               a == SubSeq(accepted, 1, Len(handled))
    <3>1. /\ \A i \in 1..Len(handled) : handled[i] \in Packets
          /\ \A i \in 1..Len(handled) : accepted[i] \in Packets
      BY <2>1, <2>2, ElementOfSeq
    <3>2. /\ h \in Seq(Packets)
          /\ Len(h) = IF 1 <= Len(handled) THEN Len(handled) - 1 + 1 ELSE 0
          /\ \A i \in 1..(Len(handled) - 1 + 1) : h[i] = handled[1 + i - 1]
      BY <2>1, <3>1, SubSeqProperties
    <3>3. /\ a \in Seq(Packets)
          /\ Len(a) = IF 1 <= Len(handled) THEN Len(handled) - 1 + 1 ELSE 0
          /\ \A i \in 1..(Len(handled) - 1 + 1) : a[i] = accepted[1 + i - 1]
      BY <2>1, <3>1, SubSeqProperties
    <3> HIDE DEF h, a
    <3>4. /\ Len(h) = Len(handled) /\ Len(a) = Len(handled)
          /\ \A i \in 1..Len(handled) : h[i] = handled[i] /\ a[i] = accepted[i]
      <4>1. Len(handled) - 1 + 1 = Len(handled)
        BY <2>1
      <4>2. \A i \in 1..Len(handled) : 1 + i - 1 = i
        BY <2>1
      <4> QED BY <2>1, <3>2, <3>3, <4>1, <4>2
    <3>5. h = a
      BY <2>2, <3>2, <3>3, <3>4, SeqEqual
    <3> QED BY <2>2, <3>5 DEF IsPrefix, h, a
  <2>4. ASSUME Len(handled) < Len(accepted)
        PROVE  ring[rx_offset] = accepted[Len(handled) + 1]
    <3>1. PICK d : Chain(d, Unread, Waiting, rd, wr, ring)
      BY <2>0 DEF RxInv
    <3>2. 0 \in 0..(Unread - 1)
      BY <2>1, <2>4 DEF Unread
    <3>3. ring[Place(rd, d[0])] = Waiting[0] /\ d[0] = 0
      BY <3>1, <3>2 DEF Chain
    <3>4. Place(rd, 0) = rd
      BY <2>2, RingLength DEF Place
    <3>5. Waiting[0] = accepted[Len(handled) + 1]
      BY <2>1, <3>2 DEF Waiting
    <3> QED BY <2>2, <3>3, <3>4, <3>5
  <2> QED BY <2>3, <2>4 DEF RxInStep
<1> QED BY <1>1, NetInvariant, PTL

\* For every broadcast echo request that was handled an answer to its sender
\* with its number was submitted, as often as it came, whatever the thread was
\* sending.
THEOREM EchoAnsweredAlways == Spec => []EchoAnswered
<1>1. NetInv => EchoAnswered
  <2> SUFFICES ASSUME NetInv PROVE EchoAnswered
    OBVIOUS
  <2>1. ToSet(handled) \subseteq Packets
    <3>1. handled \in Seq(Packets)
      BY DEF NetInv, RxInv, RxTypes
    <3> QED BY <3>1, LenProperties, ElementOfSeq DEF ToSet
  <2> QED BY <2>1 DEF NetInv, EchoInv, EchoAnswered, Asks, Answer
<1> QED BY <1>1, NetInvariant, PTL

\* A ping reaches the NIC whole unless the handler sent a frame in the middle
\* of it, whichever value of tx_desc the compiled code works with.
THEOREM PingWholeAlways == Spec => []PingWhole
<1>1. NetInv => PingWhole
  BY DEF NetInv, SendInv, PingPlace, PingWhole, PingFrame, Ping
<1> QED BY <1>1, NetInvariant, PTL
=============================================================================
