-------------------------------- MODULE Net ---------------------------------
(***************************************************************************)
(* The network path: the RTL8139 driver (kernel/drivers/rtl8139.c) and the *)
(* stack above it (netif.c, eth.c, arp.c, ip.c and icmp.c in kernel/net).  *)
(*                                                                         *)
(* Three actors: the shell's thread, which sends pings; the NIC, which     *)
(* stores packets in the receive ring at any time; and the NIC's interrupt *)
(* handler, which empties the ring and answers.  The handler runs with     *)
(* interrupts off, so the thread sees all of it or nothing, but the NIC    *)
(* works on between its steps.  The thread and the handler build frames in *)
(* the same static buffers; a copy is two steps of the thread, header and  *)
(* payload.                                                                *)
(*                                                                         *)
(* A frame is what ip4_send puts together: a header and a payload.  The    *)
(* interface's counters, which nothing reads back but net_dump_stats, and  *)
(* log messages are left out.                                              *)
(***************************************************************************)
EXTENDS Integers, FiniteSets, SequencesExt

CONSTANTS
    RX_BUF_SIZE,   \* bytes of the receive ring (8192 in the code)
    TxDescs,       \* transmit descriptors (4 in the code)
    Packets,       \* the packets that may arrive
    OurIp,         \* ip_cfg.addr, as the four octets given to IP4()
    Target,        \* the address that is pinged, likewise
    Pings,         \* how many echo requests cmd_ping sends (4 in the code)
    MaxPackets,    \* bound: packets that arrive
    NONE

Octet4 == [1..4 -> 0..255]
Broadcast == <<255, 255, 255, 255>>
Desc == 0..(TxDescs - 1)
NULLBUF == TxDescs    \* the memory at address 0

\* What ip4_send and arp_recv put together: a header and a payload.
FrameType == [hdr : [proto : {"none", "ARP", "ICMP"}, dst : Octet4],
              pay : [kind : {"none", "request", "reply"}, seq : Nat]]

\* The ring is a multiple of the 4 bytes packets are aligned to, divides the
\* 16 bits of CAPR, and is longer than the longest packet with its header.
ASSUME NetAssumption ==
    /\ RX_BUF_SIZE \in Nat \ {0} /\ RX_BUF_SIZE % 4 = 0 /\ 65536 % RX_BUF_SIZE = 0
    /\ TxDescs \in Nat \ {0} /\ {Pings, MaxPackets} \subseteq Nat
    /\ OurIp \in Octet4 /\ Target \in Octet4
    /\ NONE \notin Packets /\ NONE \notin FrameType
    /\ \A p \in Packets : /\ p.len \in Nat /\ p.len + 8 <= RX_BUF_SIZE
                          /\ p.src \in Octet4 /\ p.dst \in Octet4 /\ p.seq \in Nat

VARIABLES
    ring,        \* NIC: offset -> the packet whose header is there, or NONE
    wr, rd,      \* NIC: where it writes next, and up to where the driver has read
    isr,         \* NIC: the interrupt status register
    busy,        \* NIC: the descriptors it has to send
    irq,         \* the handler: "off", or where it is
    status,      \* the handler's copy of isr
    rx_offset,   \* driver: where it reads next
    tx_desc,     \* driver: the next transmit descriptor
    tx_bufs,     \* driver: the descriptors that have a buffer
    mem,         \* the transmit buffers' contents
    ip_buf, eth_buf,   \* the static buffers of ip4_send and eth_send
    pc,          \* where the thread is
    seq,         \* the thread's ping
    desc,        \* the value of tx_desc the compiled code may still hold
    accepted,    \* history: packets the NIC stored
    handled,     \* history: packets given to netif_recv
    submitted,   \* history: frames handed to the NIC
    disturbed    \* history: the handler sent a frame while the thread was sending

nic    == <<ring, wr, rd, isr, busy>>
bufs   == <<tx_desc, tx_bufs, mem, ip_buf, eth_buf>>
thread == <<pc, seq, desc>>
hist   == <<accepted, handled, submitted, disturbed>>
vars   == <<nic, irq, status, rx_offset, bufs, thread, hist>>

Frame(proto, dst, kind, n) == [hdr |-> [proto |-> proto, dst |-> dst],
                               pay |-> [kind |-> kind, seq |-> n]]
NoFrame == Frame("none", Broadcast, "none", 0)

Init ==
    /\ ring = [o \in 0..(RX_BUF_SIZE - 1) |-> NONE] /\ wr = 0 /\ rd = 0
    /\ isr = {} /\ busy = {}
    /\ irq = "off" /\ status = {} /\ rx_offset = 0
    /\ tx_desc = 0 /\ tx_bufs = {} /\ mem = [b \in Desc \cup {NULLBUF} |-> NoFrame]
    /\ ip_buf = NoFrame /\ eth_buf = NoFrame
    /\ pc = "ping" /\ seq = 0 /\ desc = 0
    /\ accepted = <<>> /\ handled = <<>> /\ submitted = <<>> /\ disturbed = FALSE

----------------------------------------------------------------------------
\* The NIC (external), set up by rtl8139_init: good packets only, no wrapping
\* of a packet at the end of the ring, interrupts for ROK and TOK.

Align4(n) == ((n + 3) \div 4) * 4

Room(len) == LET avail == (RX_BUF_SIZE + rd - wr) % RX_BUF_SIZE
             IN  avail = 0 \/ Align4(len + 4) < avail

NicReceive(p) ==
    /\ Len(accepted) < MaxPackets /\ Room(p.len)
    /\ ring' = [o \in DOMAIN ring |-> IF o = wr THEN p
                                      ELSE IF o \in wr..(wr + p.len + 3) THEN NONE ELSE ring[o]]
    /\ wr' = Align4(wr + 4 + p.len) % RX_BUF_SIZE
    /\ isr' = isr \cup {"ROK"}
    /\ accepted' = Append(accepted, p)
    /\ UNCHANGED <<rd, busy, irq, status, rx_offset, bufs, thread, handled, submitted, disturbed>>

NicSent(d) ==
    /\ d \in busy
    /\ busy' = busy \ {d} /\ isr' = isr \cup {"TOK"}
    /\ UNCHANGED <<ring, wr, rd, irq, status, rx_offset, bufs, thread, hist>>

RxEmpty == wr = rd

\* A write of CAPR tells the NIC what has been read; it keeps 16 bytes less.
ReadPointer(capr) == (capr + 16) % RX_BUF_SIZE

----------------------------------------------------------------------------
\* The stack.  Each operator gives the frame it answers with, or NONE.

\* A 32-bit field of a packet, loaded by a little-endian CPU: as the octets
\* of the IP4() constant with that value.
LoadIp(octets) == Reverse(octets)
StoreIp(addr) == Reverse(addr)

arp_recv(p) ==
    IF p.op = "request" /\ LoadIp(p.dst) = OurIp
    THEN Frame("ARP", StoreIp(LoadIp(p.src)), "reply", 0) ELSE NONE

\* Mutant: the reply takes its sequence number from the buffer it is built in.
icmp_recv_StaleSeq(p) ==
    IF p.op = "request"
    THEN Frame("ICMP", StoreIp(LoadIp(p.src)), "reply", ip_buf.pay.seq) ELSE NONE

icmp_recv(p) ==
    IF p.op = "request"
    THEN Frame("ICMP", StoreIp(LoadIp(p.src)), "reply", p.seq) ELSE NONE

ip4_recv(p) ==
    IF LoadIp(p.dst) \in {OurIp, Broadcast} /\ p.proto = "ICMP" THEN icmp_recv(p) ELSE NONE

eth_recv(p) ==
    CASE p.mac \in {"us", "bcast"} /\ p.type = "ARP" -> arp_recv(p)
      [] p.mac \in {"us", "bcast"} /\ p.type = "IP" -> ip4_recv(p)
      [] OTHER -> NONE

netif_recv(p) == eth_recv(p)

----------------------------------------------------------------------------
\* rtl8139_handler.

IrqEnter ==
    /\ irq = "off" /\ isr # {}
    /\ irq' = "ack" /\ status' = isr
    /\ UNCHANGED <<nic, rx_offset, bufs, thread, hist>>

\* Mutant: the acknowledgement clears more than was read.
IrqAck_ClearsAll ==
    /\ irq = "ack"
    /\ isr' = {}
    /\ irq' = IF "ROK" \in status THEN "loop" ELSE "off"
    /\ UNCHANGED <<ring, wr, rd, busy, status, rx_offset, bufs, thread, hist>>

IrqAck ==
    /\ irq = "ack"
    /\ isr' = isr \ status
    /\ irq' = IF "ROK" \in status THEN "loop" ELSE "off"
    /\ UNCHANGED <<ring, wr, rd, busy, status, rx_offset, bufs, thread, hist>>

\* rtl8139_transmit in the handler, where nothing comes in between.
rtl8139_transmit(f) ==
    LET have == IF 0 \in tx_bufs THEN tx_bufs ELSE Desc
        b == IF tx_desc \in have THEN tx_desc ELSE NULLBUF
    IN  /\ tx_bufs' = have
        /\ mem' = [mem EXCEPT ![b] = f]
        /\ submitted' = Append(submitted, f)
        /\ busy' = busy \cup {tx_desc}
        /\ tx_desc' = (tx_desc + 1) % TxDescs

\* The interface is up and has a transmit function; its counters are left out.
netif_send(f) == rtl8139_transmit(f)

\* The handler's frame passes through the same buffers as the thread's.  An
\* ARP reply has a buffer of its own.
SendFromIrq(f) ==
    /\ ip_buf' = IF f.hdr.proto = "ICMP" THEN f ELSE ip_buf
    /\ eth_buf' = IF f.hdr.proto = "ICMP" THEN f ELSE eth_buf
    /\ netif_send(f)
    /\ disturbed' = (disturbed \/ pc # "ping")

\* Mutant: the length of a packet is not rounded up.
RxNext_Unaligned(off, len) == (off + len + 4) % RX_BUF_SIZE

RxNext(off, len) == Align4(off + len + 4) % RX_BUF_SIZE

\* One turn of the loop: pass the packet up, go on behind it, tell the NIC.
IrqPacket ==
    /\ irq = "loop" /\ ~RxEmpty /\ ring[rx_offset] # NONE
    /\ LET p == ring[rx_offset]
           reply == netif_recv(p)
       IN  /\ IF reply = NONE THEN UNCHANGED <<busy, bufs, submitted, disturbed>>
                              ELSE SendFromIrq(reply)
           /\ handled' = Append(handled, p)
           /\ rx_offset' = RxNext(rx_offset, p.len)
           /\ rd' = ReadPointer((rx_offset' + 65536 - 16) % 65536)
    /\ UNCHANGED <<ring, wr, isr, irq, status, thread, accepted>>

\* The ring is empty, or the header is not a good packet's.
IrqExit ==
    /\ irq = "loop" /\ (RxEmpty \/ ring[rx_offset] = NONE)
    /\ irq' = "off"
    /\ UNCHANGED <<nic, status, rx_offset, bufs, thread, hist>>

----------------------------------------------------------------------------
\* The thread: cmd_ping, icmp_ping, ip4_send, eth_send, rtl8139_transmit.

PingFrame == Frame("ICMP", StoreIp(Target), "request", seq)

\* A step of the thread, from pc a to pc b, while no handler runs.
Step(a, b) == irq = "off" /\ pc = a /\ pc' = b
Others == <<nic, irq, status, rx_offset>>

icmp_ping ==
    /\ Step("ping", "iphdr") /\ seq < Pings
    /\ seq' = seq + 1 /\ disturbed' = FALSE
    /\ UNCHANGED <<Others, bufs, desc, accepted, handled, submitted>>

IpHeader ==
    /\ Step("iphdr", "ippay")
    /\ ip_buf' = [ip_buf EXCEPT !.hdr = PingFrame.hdr]
    /\ UNCHANGED <<Others, tx_desc, tx_bufs, mem, eth_buf, seq, desc, hist>>

IpPayload ==
    /\ Step("ippay", "ethhdr")
    /\ ip_buf' = [ip_buf EXCEPT !.pay = PingFrame.pay]
    /\ UNCHANGED <<Others, tx_desc, tx_bufs, mem, eth_buf, seq, desc, hist>>

EthHeader ==
    /\ Step("ethhdr", "ethpay")
    /\ eth_buf' = [eth_buf EXCEPT !.hdr = ip_buf.hdr]
    /\ UNCHANGED <<Others, tx_desc, tx_bufs, mem, ip_buf, seq, desc, hist>>

\* ... and the test of tx_bufs[0].
EthPayload ==
    /\ Step("ethpay", IF 0 \in tx_bufs THEN "txhdr" ELSE "alloc")
    /\ eth_buf' = [eth_buf EXCEPT !.pay = ip_buf.pay]
    /\ desc' = tx_desc
    /\ UNCHANGED <<Others, tx_desc, tx_bufs, mem, ip_buf, seq, hist>>

\* One turn of the loop that allocates the buffers.
TxAlloc ==
    LET missing == Desc \ tx_bufs IN
    /\ irq = "off" /\ pc = "alloc"
    /\ tx_bufs' = IF missing = {} THEN tx_bufs
                  ELSE tx_bufs \cup {CHOOSE i \in missing : \A j \in missing : i <= j}
    /\ pc' = IF Cardinality(missing) <= 1 THEN "txhdr" ELSE "alloc"
    /\ UNCHANGED <<Others, tx_desc, mem, ip_buf, eth_buf, seq, desc, hist>>

\* tx_desc is a plain variable: the compiled code reads it again or not.
DescInUse == {desc, tx_desc}
BufferOf(d) == IF d \in tx_bufs THEN d ELSE NULLBUF

TxHeader ==
    /\ Step("txhdr", "txpay")
    /\ \E d \in DescInUse : mem' = [mem EXCEPT ![BufferOf(d)].hdr = eth_buf.hdr]
    /\ UNCHANGED <<Others, tx_desc, tx_bufs, ip_buf, eth_buf, seq, desc, hist>>

TxPayload ==
    /\ Step("txpay", "txstart")
    /\ \E d \in DescInUse : mem' = [mem EXCEPT ![BufferOf(d)].pay = eth_buf.pay]
    /\ UNCHANGED <<Others, tx_desc, tx_bufs, ip_buf, eth_buf, seq, desc, hist>>

\* Mutant: tx_desc is advanced before the NIC is told of the buffer.
TxStart_AfterAdvance ==
    /\ Step("txstart", "txnext")
    /\ \E d \in DescInUse : LET n == (d + 1) % TxDescs IN
        submitted' = Append(submitted, mem[BufferOf(n)]) /\ busy' = busy \cup {n}
    /\ UNCHANGED <<ring, wr, rd, isr, irq, status, rx_offset, bufs, seq, desc,
                   accepted, handled, disturbed>>

TxStart ==
    /\ Step("txstart", "txnext")
    /\ \E d \in DescInUse : /\ submitted' = Append(submitted, mem[BufferOf(d)])
                            /\ busy' = busy \cup {d}
    /\ UNCHANGED <<ring, wr, rd, isr, irq, status, rx_offset, bufs, seq, desc,
                   accepted, handled, disturbed>>

TxNext ==
    /\ Step("txnext", "ping")
    /\ \E d \in DescInUse : tx_desc' = (d + 1) % TxDescs
    /\ UNCHANGED <<Others, tx_bufs, mem, ip_buf, eth_buf, seq, desc, hist>>

----------------------------------------------------------------------------
Handler == IrqEnter \/ IrqAck \/ IrqPacket \/ IrqExit

Thread == \/ icmp_ping \/ IpHeader \/ IpPayload \/ EthHeader \/ EthPayload
          \/ TxAlloc \/ TxHeader \/ TxPayload \/ TxStart \/ TxNext

Nic == (\E p \in Packets : NicReceive(p)) \/ (\E d \in Desc : NicSent(d))

Next == Handler \/ Thread \/ Nic

Spec == Init /\ [][Next]_vars

(***************************************************************************)
(* Fairness.  The interrupt line is level-triggered, as PCI's are, and the *)
(* thread never turns interrupts off after boot: a pending interrupt is    *)
(* taken, and the handler runs to its end.                                 *)
(***************************************************************************)
FairSpec == Spec /\ WF_vars(Handler)

----------------------------------------------------------------------------
\* Through wrap-around and packets of every length the driver stays in step
\* with the NIC: it has handled the packets that were stored, in order, and
\* where it reads next is the header of the oldest one that is left, which
\* the NIC has not overwritten.
RxInStep ==
    /\ IsPrefix(handled, accepted)
    /\ Len(handled) < Len(accepted) => ring[rx_offset] = accepted[Len(handled) + 1]

\* A packet is never left in the ring: also not one that arrives while the
\* handler acknowledges an earlier interrupt or is about to leave its loop.
EveryPacketHandled ==
    \A n \in 1..MaxPackets : (Len(accepted) >= n) ~> (Len(handled) >= n)

Times(e, s) == Cardinality({k \in DOMAIN s : s[k] = e})

\* For every broadcast echo request that was handled the handler has submitted
\* an answer to its sender with its number, once for each time it came, also if
\* it interrupted the thread in the middle of building a frame in the same
\* buffers.  It is about the frame as it was submitted: what the thread writes
\* later into the transmit buffer is not followed.
EchoAnswered ==
    \A p \in ToSet(handled) :
        p.mac = "bcast" /\ p.type = "IP" /\ p.dst = Broadcast /\ p.proto = "ICMP"
            /\ p.op = "request" =>
        Times(p, handled) <= Times(Frame("ICMP", p.src, "reply", p.seq), submitted)

\* Only an answer sent from the handler in the middle of it can spoil a ping.
PingWhole ==
    pc = "txnext" /\ ~disturbed => Last(submitted) = PingFrame
=============================================================================
