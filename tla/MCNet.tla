------------------------------- MODULE MCNet --------------------------------
(***************************************************************************)
(* An instance of Net for TLC: QEMU's addresses, two transmit descriptors, *)
(* a ring of 32 bytes that two packets fill.                               *)
(***************************************************************************)
EXTENDS Net

MCOurIp == <<10, 0, 2, 15>>
MCTarget == <<10, 0, 2, 2>>

\* A broadcast ping and an ARP request for our address.  The interface is
\* promiscuous (RCR 0x8F): a packet for somebody else arrives too.
BroadcastPing == [len |-> 5, mac |-> "bcast", type |-> "IP", proto |-> "ICMP",
                  op |-> "request", src |-> MCTarget, dst |-> Broadcast, seq |-> 7]
ArpRequest == [len |-> 8, mac |-> "bcast", type |-> "ARP", proto |-> "none",
               op |-> "request", src |-> MCTarget, dst |-> MCOurIp, seq |-> 0]
ForeignPing == [BroadcastPing EXCEPT !.mac = "other", !.dst = MCTarget, !.len = 9]

MCPackets == {BroadcastPing, ArpRequest, ForeignPing}
=============================================================================
