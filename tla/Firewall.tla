------------------------------ MODULE Firewall ------------------------------
(***************************************************************************)
(* The stateful packet filter of the TUN adapter                           *)
(* (ygglib/tun/firewall.go).                                               *)
(*                                                                         *)
(* A packet is abstracted to the chain of headers after the fixed IPv6     *)
(* header, its two endpoints (address and port), its size and whether its  *)
(* TCP flags hold FIN or RST.  Every header says what it is and whether it *)
(* fits in what is left of the payload; a fragment header also says        *)
(* whether the packet is only a part of a datagram.                        *)
(***************************************************************************)
EXTENDS Integers, Sequences

CONSTANTS
    Packets,      \* the packets of the instance
    Endpoints,    \* address and port pairs, local and remote
    Configs,      \* firewall configurations of the instance
    TcpTTL,       \* tcpFlowTTL and udpFlowTTL, in ticks
    UdpTTL,
    MaxTime       \* bound on the clock

Transports == {"tcp", "udp"}
Extensions == {"hop", "routing", "dstopts", "ah", "fragment"}
Flows == Transports \X Endpoints \X Endpoints

FirewallConfigs == [enabled : BOOLEAN, allowed : SUBSET (Transports \X Endpoints)]
Headers == [kind : STRING, fits : BOOLEAN, part : BOOLEAN]

ASSUME FirewallAssumption ==
    /\ TcpTTL \in Nat \ {0} /\ UdpTTL \in Nat \ {0} /\ MaxTime \in Nat \ {0}
    /\ Configs \subseteq FirewallConfigs
    /\ \A p \in Packets : /\ p.src \in Endpoints /\ p.dst \in Endpoints
                          /\ p.size \in Nat /\ p.fin \in BOOLEAN

(* Only an extension header has another header behind it, and only a       *)
(* fragment header says that the packet is a part.                         *)
ASSUME ChainAssumption ==
    \A p \in Packets :
        /\ p.chain \in Seq(Headers) /\ p.chain # <<>>
        /\ \A i \in 1 .. Len(p.chain) - 1 : p.chain[i].kind \in Extensions
        /\ \A i \in 1 .. Len(p.chain) : p.chain[i].part => p.chain[i].kind = "fragment"

VARIABLES
    now,          \* the clock, from 1
    fw,           \* enabled, allowedTCPPorts and allowedUDPPorts
    flows,        \* flows: key -> time at which it expires, 0 when absent
    used          \* history: time of the last packet of a flow since the
                  \* local side opened it, 0 when closed or never opened

fwVars == <<fw, flows, used>>

(***************************************************************************)
(* parseIPv6Packet walks over extension headers that fit until it meets a  *)
(* header it cannot skip.                                                  *)
(***************************************************************************)
Skipped(h) ==
    /\ h.kind \in Extensions
    /\ h.fits
    /\ h.kind = "fragment" => ~h.part

LastHeader(chain) ==
    LET n == CHOOSE i \in DOMAIN chain :
                /\ ~Skipped(chain[i]) \/ i = Len(chain)
                /\ \A j \in 1 .. i - 1 : Skipped(chain[j])
    IN chain[n]

parseIPv6Packet(p) ==
    LET h == LastHeader(p.chain)
    IN IF h.kind = "icmp" \/ (h.kind \in Transports /\ h.fits) THEN h.kind
       ELSE IF h.kind \in Transports \cup Extensions THEN "bad"
       ELSE "other"      \* ESP, no next header, anything else

reverseFlow(p) == <<parseIPv6Packet(p), p.dst, p.src>>
packetFlow(p) == <<parseIPv6Packet(p), p.src, p.dst>>
flowTTL(f) == IF f[1] = "udp" THEN UdpTTL ELSE TcpTTL

pruneLocked(fl) == [f \in Flows |-> IF now < fl[f] THEN fl[f] ELSE 0]

(***************************************************************************)
(* What AllowOutgoing and AllowIncoming do to the flows, and whether they  *)
(* let the packet through.                                                 *)
(***************************************************************************)
AllowOutgoing(p) ==
    IF ~fw.enabled \/ parseIPv6Packet(p) = "icmp"
    THEN [ok |-> TRUE, flows |-> flows]
    ELSE IF parseIPv6Packet(p) \notin Transports
    THEN [ok |-> FALSE, flows |-> flows]
    ELSE [ok |-> TRUE,
          flows |-> [pruneLocked(flows) EXCEPT
                       ![reverseFlow(p)] = now + flowTTL(reverseFlow(p))]]

AllowIncoming(p) ==
    LET f == packetFlow(p) IN
    IF ~fw.enabled \/ parseIPv6Packet(p) = "icmp"
    THEN [ok |-> TRUE, flows |-> flows]
    ELSE IF parseIPv6Packet(p) \notin Transports
    THEN [ok |-> FALSE, flows |-> flows]
    ELSE IF now < flows[f]
    THEN [ok |-> TRUE,
          flows |-> [pruneLocked(flows) EXCEPT
                       ![f] = IF f[1] = "tcp" /\ p.fin THEN 0 ELSE now + flowTTL(f)]]
    ELSE [ok |-> <<f[1], p.dst>> \in fw.allowed, flows |-> pruneLocked(flows)]

(* SetConfig replaces the configuration and forgets every flow. *)
SetConfig_KeepsFlows(c) == fw' = c /\ used' = [f \in Flows |-> 0] /\ UNCHANGED flows

SetConfig(c) ==
    /\ fw' = c
    /\ flows' = [f \in Flows |-> 0]
    /\ used' = [f \in Flows |-> 0]

(* The local side sent p on its flow, the remote side answered with p. *)
UsedByOut(p) ==
    IF parseIPv6Packet(p) \in Transports /\ fw.enabled
    THEN [used EXCEPT ![<<p.chain[Len(p.chain)].kind, p.dst, p.src>>] = now]
    ELSE used

UsedByIn(p) ==
    LET f == <<p.chain[Len(p.chain)].kind, p.src, p.dst>> IN
    IF fw.enabled /\ f \in Flows
    THEN [used EXCEPT ![f] = IF p.fin /\ f[1] = "tcp" THEN 0
                             ELSE IF @ > 0 /\ now < @ + flowTTL(f) THEN now ELSE @]
    ELSE used

FwInit ==
    /\ now = 1
    /\ flows = [f \in Flows |-> 0]
    /\ used = [f \in Flows |-> 0]

Tick == now < MaxTime /\ now' = now + 1

(***************************************************************************)
(* What the firewall promises: a packet for the local side is an answer on *)
(* a flow that the local side opened, has not been closed and is not older *)
(* than the lifetime of its transport, or it goes to an allowed port, or   *)
(* it is ICMPv6.  A part of a fragmented datagram is none of these.        *)
(***************************************************************************)
Solicited(p) ==
    LET f == <<p.chain[Len(p.chain)].kind, p.src, p.dst>> IN
    /\ \A i \in DOMAIN p.chain : (f[1] # "icmp" => p.chain[i].fits) /\ ~p.chain[i].part
    /\ \/ f[1] = "icmp"
       \/ /\ f[1] \in Transports
          /\ \/ <<f[1], p.dst>> \in fw.allowed
             \/ used[f] > 0 /\ now < used[f] + flowTTL(f)
=============================================================================
