------------------------ MODULE TunControllerProofs -------------------------
(***************************************************************************)
(* Proofs about TunController, the adapter and its firewall, for every set *)
(* of clients, devices, packets and configurations and all capacities.     *)
(***************************************************************************)
EXTENDS TunController, WellFoundedInduction, TLAPS

(***************************************************************************)
(* The firewall: what its table keeps is in use, seen by the history.      *)
(***************************************************************************)
FlowsInUse ==
    \A f \in Flows : flows[f] > 0 => used[f] > 0 /\ flows[f] <= used[f] + flowTTL(f)

FilterInv == FirewallTypeOK /\ FlowsInUse

LEMMA LeastElement ==
    ASSUME NEW S \in SUBSET Nat, S # {}
    PROVE  \E i \in S : \A j \in S : i <= j
<1> DEFINE R == OpToRel(<, Nat)
<1>1. IsWellFoundedOn(R, Nat)
    BY NatLessThanWellFounded
<1>2. PICK x \in S : \A y \in S : ~(<<y, x>> \in R)
    <2> HIDE DEF R
    <2> QED
        BY <1>1, WFMin
<1>3. \A y \in S : ~(y < x)
    BY <1>2 DEF OpToRel
<1> QED
    BY <1>3

(* parseIPv6Packet stops at a header: all before it are skipped.           *)
LEMMA WalkEnds ==
    ASSUME NEW p \in Packets
    PROVE  \E n \in 1 .. Len(p.chain) :
              /\ LastHeader(p.chain) = p.chain[n]
              /\ ~Skipped(p.chain[n]) \/ n = Len(p.chain)
              /\ \A j \in 1 .. n - 1 : Skipped(p.chain[j])
<1> DEFINE c == p.chain
           End(i) == ~Skipped(c[i]) \/ i = Len(c)
           S == {i \in 1 .. Len(c) : End(i)}
           Last(i) == End(i) /\ \A j \in 1 .. i - 1 : Skipped(c[j])
<1>1. c \in Seq(Headers) /\ c # <<>>
    BY ChainAssumption
<1>2. Len(c) \in Nat /\ Len(c) > 0 /\ DOMAIN c = 1 .. Len(c)
    BY <1>1
<1>3. S \in SUBSET Nat /\ Len(c) \in S
    BY <1>2
<1>4. PICK m \in S : \A j \in S : m <= j
    <2> HIDE DEF S
    <2> QED
        BY <1>3, LeastElement
<1>5. \A j \in 1 .. m - 1 : Skipped(c[j])
    BY <1>2, <1>4
<1>6. m \in DOMAIN c /\ Last(m)
    BY <1>2, <1>4, <1>5
<1> DEFINE n == CHOOSE i \in DOMAIN c : Last(i)
<1>7. n \in DOMAIN c /\ Last(n)
    <2> HIDE DEF Last
    <2> QED
        BY <1>6
<1>8. LastHeader(c) = c[n]
    BY DEF LastHeader
<1> HIDE DEF n
<1> QED
    BY <1>2, <1>7, <1>8

(* A packet whose transport is found is whole, and its transport is what its *)
(* last header says.                                                         *)
LEMMA Parsed ==
    ASSUME NEW p \in Packets, parseIPv6Packet(p) \in Transports \cup {"icmp"}
    PROVE  /\ p.chain[Len(p.chain)].kind = parseIPv6Packet(p)
           /\ \A i \in DOMAIN p.chain : /\ ~p.chain[i].part
                                        /\ parseIPv6Packet(p) # "icmp" => p.chain[i].fits
<1> DEFINE c == p.chain
           t == parseIPv6Packet(p)
<1>1. PICK n \in 1 .. Len(c) : /\ LastHeader(c) = c[n]
                               /\ ~Skipped(c[n]) \/ n = Len(c)
                               /\ \A j \in 1 .. n - 1 : Skipped(c[j])
    BY WalkEnds
<1>2. /\ Len(c) \in Nat /\ DOMAIN c = 1 .. Len(c)
      /\ \A i \in 1 .. Len(c) : c[i] \in Headers
    BY ChainAssumption
<1>3. c[n].kind = t /\ (t # "icmp" => c[n].fits)
    BY <1>1 DEF parseIPv6Packet, Transports, Extensions
<1>4. t \notin Extensions
    BY DEF Transports, Extensions
<1>5. n = Len(c)
    BY <1>2, <1>3, <1>4, ChainAssumption
<1>6. \A j \in 1 .. n - 1 : ~c[j].part /\ c[j].fits
    BY <1>1, <1>2, <1>5, ChainAssumption DEF Skipped, Extensions
<1>7. ~c[n].part
    BY <1>3, <1>4, <1>5, <1>2, ChainAssumption DEF Extensions
<1> HIDE DEF c, t
<1>8. \A i \in DOMAIN c : ~c[i].part /\ (t # "icmp" => c[i].fits)
    BY <1>2, <1>3, <1>5, <1>6, <1>7
<1> QED
    BY <1>3, <1>5, <1>8 DEF c, t

LEMMA FlowFacts ==
    ASSUME NEW p \in Packets, parseIPv6Packet(p) \in Transports
    PROVE  /\ packetFlow(p) \in Flows /\ packetFlow(p)[1] = parseIPv6Packet(p)
           /\ reverseFlow(p) \in Flows /\ reverseFlow(p)[1] = parseIPv6Packet(p)
           /\ packetFlow(p) = <<p.chain[Len(p.chain)].kind, p.src, p.dst>>
           /\ reverseFlow(p) = <<p.chain[Len(p.chain)].kind, p.dst, p.src>>
BY Parsed, FirewallAssumption DEF packetFlow, reverseFlow, Flows

LEMMA TTLType == \A f : flowTTL(f) \in Nat \ {0}
BY FirewallAssumption DEF flowTTL

(* A decision changes the entry of one flow at most, and prunes the others. *)
LEMMA EntryKeeps ==
    ASSUME FilterInv, UNCHANGED <<now, fw>>, NEW f \in Flows, NEW t \in Nat, NEW u \in 0 .. MaxTime,
           flows' = [pruneLocked(flows) EXCEPT ![f] = t], used' = [used EXCEPT ![f] = u],
           t > 0 => u > 0 /\ t <= u + flowTTL(f)
    PROVE  FilterInv'
<1> USE TTLType
<1>1. \A g \in Flows : pruneLocked(flows)[g] \in {0, flows[g]}
    BY DEF pruneLocked
<1>2. pruneLocked(flows) \in [Flows -> Nat]
    BY DEF pruneLocked, FilterInv, FirewallTypeOK
<1>3. flows' \in [Flows -> Nat] /\ used' \in [Flows -> 0 .. MaxTime]
    BY <1>2 DEF FilterInv, FirewallTypeOK
<1>4. FirewallTypeOK'
    BY <1>3 DEF FilterInv, FirewallTypeOK
<1>5. ASSUME NEW g \in Flows, flows'[g] > 0
      PROVE  used'[g] > 0 /\ flows'[g] <= used'[g] + flowTTL(g)
    <2>1. CASE g = f
        BY <1>2, <1>5, <2>1 DEF FilterInv, FirewallTypeOK
    <2>2. CASE g # f
        BY <1>1, <1>2, <1>5, <2>2 DEF FilterInv, FirewallTypeOK, FlowsInUse
    <2> QED
        BY <2>1, <2>2
<1>6. FlowsInUse'
    BY <1>5 DEF FlowsInUse, flowTTL
<1> QED
    BY <1>4, <1>6 DEF FilterInv

LEMMA FilterFrame ==
    ASSUME FilterInv, UNCHANGED <<now, fwVars>>
    PROVE  FilterInv'
BY DEF FilterInv, FirewallTypeOK, FlowsInUse, fwVars, flowTTL

LEMMA TickKeeps ==
    ASSUME FilterInv, Tick, UNCHANGED fwVars
    PROVE  FilterInv'
BY FirewallAssumption DEF FilterInv, FirewallTypeOK, FlowsInUse, fwVars, flowTTL, Tick

LEMMA SetConfigKeeps ==
    ASSUME FilterInv, NEW c \in FirewallConfigs, SetConfig(c), UNCHANGED now
    PROVE  FilterInv'
<1>1. FirewallTypeOK'
    BY FirewallAssumption DEF FilterInv, FirewallTypeOK, SetConfig
<1>2. FlowsInUse'
    BY DEF FlowsInUse, SetConfig
<1> QED
    BY <1>1, <1>2 DEF FilterInv

LEMMA OutgoingKeeps ==
    ASSUME FilterInv, NEW p \in Packets, UNCHANGED <<now, fw>>,
           flows' = AllowOutgoing(p).flows, used' = UsedByOut(p)
    PROVE  FilterInv'
<1>1. CASE fw.enabled /\ parseIPv6Packet(p) \in Transports
    <2> DEFINE f == reverseFlow(p)
               t == now + flowTTL(f)
    <2>1. f \in Flows /\ f = <<p.chain[Len(p.chain)].kind, p.dst, p.src>>
        BY <1>1, FlowFacts
    <2>2. parseIPv6Packet(p) # "icmp"
        BY <1>1 DEF Transports
    <2>3. flows' = [pruneLocked(flows) EXCEPT ![f] = t]
        BY <1>1, <2>2 DEF AllowOutgoing
    <2>4. used' = [used EXCEPT ![f] = now]
        BY <1>1, <2>1 DEF UsedByOut
    <2> HIDE DEF f
    <2>5. now > 0 /\ now \in 0 .. MaxTime /\ t \in Nat /\ t <= now + flowTTL(f)
        BY TTLType, FirewallAssumption DEF FilterInv, FirewallTypeOK
    <2> HIDE DEF t
    <2> QED
        BY <2>1, <2>3, <2>4, <2>5, EntryKeeps
<1>2. CASE ~(fw.enabled /\ parseIPv6Packet(p) \in Transports)
    <2>1. UNCHANGED <<flows, used>>
        BY <1>2 DEF AllowOutgoing, UsedByOut
    <2> QED
        BY <2>1, FilterFrame DEF fwVars
<1> QED
    BY <1>1, <1>2

LEMMA IncomingKeeps ==
    ASSUME FilterInv, NEW p \in Packets, UNCHANGED <<now, fw>>,
           flows' = AllowIncoming(p).flows,
           used' = IF AllowIncoming(p).ok THEN UsedByIn(p) ELSE used
    PROVE  FilterInv'
<1> DEFINE f == packetFlow(p)
           g == <<p.chain[Len(p.chain)].kind, p.src, p.dst>>
<1> USE TTLType
<1>1. CASE fw.enabled /\ parseIPv6Packet(p) \in Transports
    <2>1. f \in Flows /\ f = g
        BY <1>1, FlowFacts
    <2>2. parseIPv6Packet(p) # "icmp"
        BY <1>1 DEF Transports
    <2>3. UsedByIn(p) = [used EXCEPT ![f] = IF p.fin /\ f[1] = "tcp" THEN 0
                           ELSE IF used[f] > 0 /\ now < used[f] + flowTTL(f) THEN now ELSE used[f]]
        BY <1>1, <2>1 DEF UsedByIn, FilterInv, FirewallTypeOK
    <2>4. /\ now > 0 /\ 0 \in 0 .. MaxTime /\ now \in 0 .. MaxTime /\ flows[f] \in Nat /\ used[f] \in 0 .. MaxTime
          /\ used \in [Flows -> 0 .. MaxTime] /\ flows \in [Flows -> Nat]
        BY <2>1, FirewallAssumption DEF FilterInv, FirewallTypeOK
    <2>5. CASE now < flows[f]
        <3> DEFINE t == IF f[1] = "tcp" /\ p.fin THEN 0 ELSE now + flowTTL(f)
                   u == IF f[1] = "tcp" /\ p.fin THEN 0 ELSE now
        <3>1. AllowIncoming(p) = [ok |-> TRUE, flows |-> [pruneLocked(flows) EXCEPT ![f] = t]]
            BY <1>1, <2>2, <2>5 DEF AllowIncoming
        <3>2. used[f] > 0 /\ now < used[f] + flowTTL(f)
            BY <2>1, <2>4, <2>5 DEF FilterInv, FlowsInUse
        <3> HIDE DEF f
        <3>3. flows' = [pruneLocked(flows) EXCEPT ![f] = t] /\ used' = [used EXCEPT ![f] = u]
            <4>1. flows' = [pruneLocked(flows) EXCEPT ![f] = t] /\ used' = UsedByIn(p)
                BY <3>1
            <4>2. UsedByIn(p) = [used EXCEPT ![f] = IF p.fin /\ f[1] = "tcp" THEN 0 ELSE now]
                BY <2>3, <3>2
            <4>3. (IF p.fin /\ f[1] = "tcp" THEN 0 ELSE now) = u
                OBVIOUS
            <4> HIDE DEF u, t
            <4> QED
                BY <4>1, <4>2, <4>3
        <3>4. t \in Nat /\ u \in 0 .. MaxTime /\ (t > 0 => u > 0 /\ t <= u + flowTTL(f))
            <4>1. flowTTL(f) \in Nat \ {0}
                OBVIOUS
            <4>2. CASE f[1] = "tcp" /\ p.fin
                BY <2>4, <4>2, <4>1
            <4>3. CASE ~(f[1] = "tcp" /\ p.fin)
                BY <2>4, <4>3, <4>1
            <4> QED
                BY <4>2, <4>3
        <3> HIDE DEF t, u
        <3> QED
            BY <2>1, <3>3, <3>4, EntryKeeps
    <2>6. CASE ~(now < flows[f])
        <3>1. flows' = pruneLocked(flows)
            BY <1>1, <2>2, <2>6 DEF AllowIncoming
        <3>2. pruneLocked(flows) = [pruneLocked(flows) EXCEPT ![f] = 0]
            BY <2>1, <2>6 DEF pruneLocked
        <3> HIDE DEF f
        <3>3. used = [used EXCEPT ![f] = used[f]]
            BY <2>1, <2>4
        <3>4. \E u \in 0 .. MaxTime : UsedByIn(p) = [used EXCEPT ![f] = u]
            BY <2>3, <2>4
        <3>5. PICK u \in 0 .. MaxTime : used' = [used EXCEPT ![f] = u]
            BY <2>4, <3>3, <3>4
        <3>6. PICK t \in Nat : t = 0 /\ flows' = [pruneLocked(flows) EXCEPT ![f] = t]
            BY <3>1, <3>2
        <3>7. t > 0 => u > 0 /\ t <= u + flowTTL(f)
            BY <3>6
        <3> QED
            BY <2>1, <3>5, <3>6, <3>7, EntryKeeps
    <2> QED
        BY <2>5, <2>6
<1>2. CASE ~(fw.enabled /\ parseIPv6Packet(p) \in Transports)
    <2>1. flows' = flows
        BY <1>2 DEF AllowIncoming
    <2>2. used' = used
        <3>1. CASE ~fw.enabled
            BY <3>1 DEF UsedByIn
        <3>2. CASE fw.enabled /\ parseIPv6Packet(p) = "icmp"
            <4>1. g[1] = "icmp"
                BY <3>2, Parsed
            <4>2. g \notin Flows
                BY <4>1 DEF Flows, Transports
            <4> QED
                BY <4>2 DEF UsedByIn
        <3>3. CASE fw.enabled /\ parseIPv6Packet(p) # "icmp"
            BY <1>2, <3>3 DEF AllowIncoming
        <3> QED
            BY <3>1, <3>2, <3>3
    <2> QED
        BY <2>1, <2>2, FilterFrame DEF fwVars
<1> QED
    BY <1>1, <1>2

(* What the firewall lets through is solicited. *)
LEMMA AllowedIsSolicited ==
    ASSUME FilterInv, NEW p \in Packets, fw.enabled, AllowIncoming(p).ok
    PROVE  Solicited(p)
<1> DEFINE f == packetFlow(p)
           g == <<p.chain[Len(p.chain)].kind, p.src, p.dst>>
           Whole == \A i \in DOMAIN p.chain : (g[1] # "icmp" => p.chain[i].fits) /\ ~p.chain[i].part
<1>1. parseIPv6Packet(p) \in Transports \cup {"icmp"}
    BY DEF AllowIncoming
<1>2. g[1] = parseIPv6Packet(p) /\ Whole
    BY <1>1, Parsed
<1>3. CASE parseIPv6Packet(p) = "icmp"
    BY <1>2, <1>3 DEF Solicited
<1>4. CASE parseIPv6Packet(p) \in Transports
    <2>1. f \in Flows /\ f = g /\ parseIPv6Packet(p) # "icmp"
        BY <1>4, FlowFacts DEF Transports
    <2>2. now < flows[f] \/ <<f[1], p.dst>> \in fw.allowed
        BY <1>4, <2>1 DEF AllowIncoming
    <2>3. now < flows[f] => used[f] > 0 /\ now < used[f] + flowTTL(f)
        BY <2>1, TTLType DEF FilterInv, FirewallTypeOK, FlowsInUse
    <2>4. <<g[1], p.dst>> \in fw.allowed \/ (used[g] > 0 /\ now < used[g] + flowTTL(g))
        <3> HIDE DEF f, g
        <3> QED
            BY <2>1, <2>2, <2>3
    <2>5. g[1] \in Transports
        BY <1>2, <1>4
    <2> QED
        BY <1>2, <2>4, <2>5 DEF Solicited
<1> QED
    BY <1>1, <1>3, <1>4

-----------------------------------------------------------------------------
(***************************************************************************)
(* The supervisor: its MTU follows the attached session.                   *)
(***************************************************************************)
SupervisorInv == SupervisorTypeOK /\ MTUInStep

LEMMA MTUTypes ==
    /\ DesiredMTU \in Nat /\ SessionMTUs \subseteq Nat
    /\ \A m \in Nat : SetMTU(m) \in Nat
    /\ \A m \in {0} \cup SessionMTUs : m \in Nat
    /\ \A d \in Devices : getSupportedMTU(DeviceMTU[d]) \in SessionMTUs
<1>1. \A m \in Nat : getSupportedMTU(m) \in Nat
    BY DEF getSupportedMTU, MinMTU
<1>2. DesiredMTU \in Nat
    BY <1>1, TunAssumption DEF DesiredMTU
<1>3. SessionMTUs \subseteq Nat
    BY <1>1, TunAssumption DEF SessionMTUs
<1>4. \A m \in Nat : SetMTU(m) \in Nat
    BY <1>1, TunAssumption DEF SetMTU
<1>5. \A d \in Devices : getSupportedMTU(DeviceMTU[d]) \in SessionMTUs
    <2> SUFFICES ASSUME NEW d \in Devices PROVE getSupportedMTU(DeviceMTU[d]) \in SessionMTUs
        OBVIOUS
    <2>1. DeviceMTU[d] \in MTUs
        BY TunAssumption
    <2> QED
        BY <2>1 DEF SessionMTUs
<1>6. \A m \in {0} \cup SessionMTUs : m \in Nat
    BY <1>3
<1> QED
    BY <1>2, <1>3, <1>4, <1>5, <1>6

LEMMA SupervisorFrame ==
    ASSUME SupervisorInv, UNCHANGED <<supVars, mtu>>
    PROVE  SupervisorInv'
BY DEF SupervisorInv, SupervisorTypeOK, MTUInStep, supVars

LEMMA DetachToKeeps ==
    ASSUME SupervisorInv, NEW next \in {"detached", "stopped"}, DetachTo(next), UNCHANGED mtu,
           hand = NoPacket
    PROVE  SupervisorInv'
BY MTUTypes DEF SupervisorInv, SupervisorTypeOK, MTUInStep, DetachTo

LEMMA AttachedKeeps ==
    ASSUME SupervisorInv, NEW d \in Devices, NEW m \in SessionMTUs, mtu' = [mtu EXCEPT ![d] = m],
           current' = d, enabled' = TRUE, mode' = "attached", rwcMTU' = SetMTU(m), UNCHANGED hand
    PROVE  SupervisorInv'
<1>1. mtu' \in [Devices -> {0} \cup SessionMTUs] /\ mtu'[d] = m /\ rwcMTU' \in Nat
    BY MTUTypes DEF SupervisorInv, SupervisorTypeOK
<1>2. SupervisorTypeOK'
    BY <1>1, TunAssumption DEF SupervisorInv, SupervisorTypeOK
<1>3. MTUInStep'
    BY <1>1, TunAssumption DEF MTUInStep
<1> QED
    BY <1>2, <1>3 DEF SupervisorInv

(* A packet is taken in hand only while a session is attached. *)
LEMMA HandKeeps ==
    ASSUME SupervisorInv, UNCHANGED <<mode, enabled, current, rwcMTU, mtu>>,
           hand' \in Packets \cup {NoPacket}, hand' # NoPacket => current # NoDevice
    PROVE  SupervisorInv'
BY DEF SupervisorInv, SupervisorTypeOK, MTUInStep

LEMMA ReportKeeps ==
    ASSUME SupervisorInv, reportCh \in Seq(Report), handleReport
    PROVE  SupervisorInv'
<1> DEFINE r == Head(reportCh)
<1>1. r \in Report
    BY DEF handleReport
<1>2. CASE r.dev # current /\ UNCHANGED <<supVars, stopping, mtu>>
    BY <1>2, SupervisorFrame
<1>3. CASE DetachTo("detached") /\ UNCHANGED mtu
    BY <1>3, DetachToKeeps DEF handleReport, Supervising
<1>4. CASE enabled' = (r.kind = "up") /\ UNCHANGED <<mode, current, rwcMTU, hand, stopping, mtu>>
    <2>1. enabled' \in BOOLEAN
        BY <1>4
    <2> QED
        BY <1>4, <2>1 DEF SupervisorInv, SupervisorTypeOK, MTUInStep
<1>5. CASE /\ r.dev = current /\ mtu' = [mtu EXCEPT ![current] = r.mtu]
           /\ rwcMTU' = SetMTU(r.mtu) /\ UNCHANGED <<mode, enabled, current, hand, stopping>>
    <2>1. current \in Devices /\ r.mtu \in {0} \cup SessionMTUs
        BY <1>1, <1>5 DEF Report
    <2>2. SetMTU(r.mtu) \in Nat
        BY <2>1, MTUTypes
    <2>3. mtu'[current] = r.mtu
        BY <1>5, <2>1 DEF SupervisorInv, SupervisorTypeOK
    <2>4. MTUInStep'
        BY <1>5, <2>1, <2>3, TunAssumption DEF MTUInStep
    <2>5. SupervisorTypeOK'
        BY <1>5, <2>1, <2>2 DEF SupervisorInv, SupervisorTypeOK
    <2> QED
        BY <2>4, <2>5 DEF SupervisorInv
<1> HIDE DEF r
<1> QED
    BY <1>2, <1>3, <1>4, <1>5 DEF handleReport, r

-----------------------------------------------------------------------------
(***************************************************************************)
(* Packets on their way.                                                   *)
(***************************************************************************)
LEMMA QueueFrame ==
    ASSUME QueueTypeOK, UNCHANGED <<inbox, outbox>>
    PROVE  QueueTypeOK'
BY DEF QueueTypeOK

LEMMA enqueuePacketQueues ==
    ASSUME QueueTypeOK, SupervisorTypeOK, enqueuePacket
    PROVE  QueueTypeOK'
<1>1. current \in Devices /\ hand \in Packets /\ UNCHANGED outbox
    BY DEF enqueuePacket, SupervisorTypeOK
<1>2. inbox[current] \in Seq(Packets)
    BY <1>1 DEF QueueTypeOK
<1>3. CASE Len(inbox[current]) < QueueCap
    <2>1. inbox' = [inbox EXCEPT ![current] = Append(inbox[current], hand)]
        BY <1>3 DEF enqueuePacket
    <2>2. /\ Append(inbox[current], hand) \in Seq(Packets)
          /\ Len(Append(inbox[current], hand)) <= QueueCap
        BY <1>1, <1>2, <1>3, TunAssumption
    <2> QED
        BY <1>1, <2>1, <2>2 DEF QueueTypeOK
<1>4. CASE ~(Len(inbox[current]) < QueueCap)
    <2>1. inbox' = inbox
        BY <1>4 DEF enqueuePacket
    <2> QED
        BY <1>1, <2>1, QueueFrame
<1> QED
    BY <1>3, <1>4

LEMMA writePacketQueues ==
    ASSUME QueueTypeOK, NEW d \in Devices, writePacket(d)
    PROVE  QueueTypeOK'
<1>1. inbox[d] \in Seq(Packets) /\ inbox[d] # <<>> /\ Len(inbox[d]) <= QueueCap
    BY DEF QueueTypeOK, writePacket
<1>2. Tail(inbox[d]) \in Seq(Packets) /\ Len(Tail(inbox[d])) <= QueueCap
    BY <1>1, TunAssumption
<1>3. inbox' = [inbox EXCEPT ![d] = Tail(inbox[d])] /\ UNCHANGED outbox
    BY DEF writePacket
<1> QED
    BY <1>2, <1>3 DEF QueueTypeOK

LEMMA stopSessionQueues ==
    ASSUME QueueTypeOK, NEW d \in Devices, stopSession(d)
    PROVE  QueueTypeOK'
<1>1. <<>> \in Seq(Packets) /\ Len(<<>>) <= QueueCap
    BY TunAssumption
<1>2. inbox' = [inbox EXCEPT ![d] = <<>>] /\ UNCHANGED outbox
    BY DEF stopSession
<1> QED
    BY <1>1, <1>2 DEF QueueTypeOK

LEMMA outboxQueues ==
    ASSUME QueueTypeOK, NEW d \in Devices, NEW p \in Packets \cup {NoPacket},
           outbox' = [outbox EXCEPT ![d] = p], UNCHANGED inbox
    PROVE  QueueTypeOK'
BY DEF QueueTypeOK

-----------------------------------------------------------------------------
(***************************************************************************)
(* Who owns a device.  A client that has created one offers it to the      *)
(* adapter until its request is taken; the adapter has it as its current   *)
(* session, then a goroutine that stops the session.                       *)
(***************************************************************************)
Offers(c) ==
    \/ pc[c] = "created"
    \/ pc[c] = "attaching" /\ (call[c] # NoCall \/ reply[c] = "err")

NotRunning(d) == \A l \in Loops : loop[d][l] = "off"

DeviceOK(d) ==
    /\ device[d] = "none" => /\ d # current /\ stopping[d] = "no" /\ NotRunning(d)
                             /\ \A c \in Clients : local[c].dev # d
    /\ d = current => stopping[d] = "no" /\ device[d] \in {"open", "broken", "eof"}
    /\ stopping[d] = "stopped" => device[d] = "closed"
    /\ \A l \in Loops : loop[d][l] = "error" => device[d] \in {"broken", "closed"}

CallOf(c) ==
    IF pc[c] = "attaching" THEN [op |-> local[c].op, dev |-> local[c].dev]
    ELSE [op |-> pc[c], dev |-> NoDevice]

Fresh(d) ==
    d \in Devices /\ d # current /\ stopping[d] = "no" /\ device[d] = "open" /\ NotRunning(d)

ClientOK(c) ==
    /\ IF pc[c] \in {"created", "attaching"} THEN local[c].dev # NoDevice /\ local[c].op # "none"
       ELSE local[c].dev = NoDevice
    /\ pc[c] \in {"idle", "created", "firewall"} => call[c] = NoCall
    /\ call[c] # NoCall => call[c] = CallOf(c)
    /\ Offers(c) => Fresh(local[c].dev)
    /\ pc[c] = "attaching" /\ ~Offers(c) => local[c].dev = current \/ stopping[local[c].dev] # "no"

DevicesApart ==
    \A c, e \in Clients : c # e => local[c].dev = NoDevice \/ local[c].dev # local[e].dev

(* A report of an error is about a device that has failed. *)
ErrorsReal ==
    \A i \in 1 .. Len(reportCh) :
        reportCh[i].kind = "error" => device[reportCh[i].dev] \in {"broken", "closed"}

DevicesOK == \A d \in Devices : DeviceOK(d)
ClientsOK == \A c \in Clients : ClientOK(c)

OwnerInv ==
    /\ SessionTypeOK /\ ClientTypeOK /\ current \in Devices \cup {NoDevice}
    /\ DevicesOK /\ ClientsOK /\ DevicesApart /\ ErrorsReal /\ NoLeakedDevice

sessionOwner == <<current, device, loop, stopping>>
clientOwner == <<call, reply, pc, local, cfgFirewall, kind, activeSocks>>

LEMMA OwnerFrame ==
    ASSUME OwnerInv, UNCHANGED <<sessionOwner, reportCh, clientOwner>>
    PROVE  OwnerInv'
BY DEF OwnerInv, sessionOwner, clientOwner, SessionTypeOK, ClientTypeOK, DevicesOK, DeviceOK, NotRunning,
       ClientsOK, ClientOK, Offers, CallOf, Fresh, DevicesApart, ErrorsReal, NoLeakedDevice

(* What changes only the loops of a running session keeps the rest. *)
LEMMA LoopStep ==
    ASSUME OwnerInv, UNCHANGED <<current, device, stopping, clientOwner>>,
           NEW d \in Devices, NEW l \in Loops, NEW s \in {"run", "done"} \cup Reports,
           LoopTo(d, l, s), loop[d][l] # "off",
           s = "error" => device[d] \in {"broken", "closed"},
           reportCh' \in Seq(Report), Len(reportCh') <= ReportCap, ErrorsReal'
    PROVE  OwnerInv'
<1>1. /\ loop' \in [Devices -> [Loops -> {"off", "run", "done"} \cup Reports]]
      /\ loop'[d][l] = s
      /\ \A e \in Devices, k \in Loops : <<e, k>> # <<d, l>> => loop'[e][k] = loop[e][k]
    BY DEF OwnerInv, SessionTypeOK, LoopTo
<1>2. SessionTypeOK' /\ ClientTypeOK' /\ DevicesApart' /\ NoLeakedDevice' /\ current' \in Devices \cup {NoDevice}
    BY <1>1 DEF OwnerInv, SessionTypeOK, ClientTypeOK, DevicesApart, NoLeakedDevice, clientOwner
<1>3. ~NotRunning(d)
    BY DEF NotRunning
<1>4. \A e \in Devices : NotRunning(e) => NotRunning(e)'
    BY <1>1, <1>3 DEF NotRunning
<1>5. DevicesOK'
    BY <1>1, <1>4 DEF OwnerInv, DevicesOK, DeviceOK, clientOwner
<1>6. ClientsOK'
    BY <1>4 DEF OwnerInv, ClientsOK, ClientOK, Offers, CallOf, Fresh, clientOwner
<1> QED
    BY <1>2, <1>5, <1>6 DEF OwnerInv

LEMMA loopFailsOwner ==
    ASSUME OwnerInv, NEW d \in Devices, NEW l \in Loops, loopFails(d, l), UNCHANGED ctlVars
    PROVE  OwnerInv'
<1> DEFINE s == IF device[d] = "broken" THEN "error" ELSE "done"
<1>1. s \in {"run", "done"} \cup Reports /\ (s = "error" => device[d] \in {"broken", "closed"})
    BY DEF Reports
<1>2. /\ LoopTo(d, l, s) /\ loop[d][l] # "off"
      /\ UNCHANGED <<current, device, stopping, reportCh, clientOwner>>
    BY DEF loopFails, SessionStep, supVars, clientOwner, ctlVars
<1>3. reportCh' \in Seq(Report) /\ Len(reportCh') <= ReportCap /\ ErrorsReal'
    BY <1>2 DEF OwnerInv, SessionTypeOK, ErrorsReal
<1> HIDE DEF s
<1> QED
    BY <1>1, <1>2, <1>3, LoopStep

LEMMA deviceEventOwner ==
    ASSUME OwnerInv, NEW d \in Devices, NEW e \in Events, deviceEvent(d, e), UNCHANGED ctlVars
    PROVE  OwnerInv'
<1>1. "event" \in Loops /\ e \in {"run", "done"} \cup Reports /\ e # "error"
    BY DEF Reports, Events, Loops
<1>2. /\ LoopTo(d, "event", e) /\ loop[d]["event"] # "off"
      /\ UNCHANGED <<current, device, stopping, reportCh, clientOwner>>
    BY DEF deviceEvent, SessionStep, supVars, clientOwner, ctlVars
<1>3. reportCh' \in Seq(Report) /\ Len(reportCh') <= ReportCap /\ ErrorsReal'
    BY <1>2 DEF OwnerInv, SessionTypeOK, ErrorsReal
<1> QED
    BY <1>1, <1>2, <1>3, LoopStep

LEMMA sendReportOwner ==
    ASSUME OwnerInv, NEW d \in Devices, NEW l \in Loops, sendReport(d, l), UNCHANGED ctlVars
    PROVE  OwnerInv'
<1>0. PICK m \in {0} \cup SessionMTUs :
          reportCh' = Append(reportCh, [dev |-> d, kind |-> loop[d][l], mtu |-> m])
    BY DEF sendReport
<1> DEFINE r == [dev |-> d, kind |-> loop[d][l], mtu |-> m]
           s == IF loop[d][l] = "error" \/ stopping[d] = "stopped" THEN "done" ELSE "run"
<1>1. r \in Report /\ r.dev = d /\ r.kind = loop[d][l]
    BY DEF sendReport, Report
<1>2. s \in {"run", "done"} /\ s # "error"
    OBVIOUS
<1>3. /\ LoopTo(d, l, s) /\ loop[d][l] \in Reports /\ reportCh' = Append(reportCh, r)
      /\ Len(reportCh) < ReportCap /\ UNCHANGED <<current, device, stopping, clientOwner>>
    BY <1>0 DEF sendReport, SessionStep, supVars, clientOwner, ctlVars
<1>4. loop[d][l] # "off"
    BY <1>3 DEF Reports, Events
<1>5. reportCh \in Seq(Report)
    BY DEF OwnerInv, SessionTypeOK
<1> HIDE DEF r, s
<1>6. reportCh' \in Seq(Report) /\ Len(reportCh') <= ReportCap
    <2>1. Append(reportCh, r) \in Seq(Report) /\ Len(Append(reportCh, r)) = Len(reportCh) + 1
        BY <1>1, <1>5
    <2>2. Len(reportCh) \in Nat /\ ReportCap \in Nat
        BY <1>5, TunAssumption
    <2> QED
        BY <1>3, <2>1, <2>2
<1>7. ErrorsReal'
    <2>1. r.kind = "error" => device[d] \in {"broken", "closed"}
        BY <1>1, ZenonT(30) DEF OwnerInv, DevicesOK, DeviceOK
    <2>2. \A i \in 1 .. Len(reportCh') :
              reportCh'[i] = IF i <= Len(reportCh) THEN reportCh[i] ELSE r
        BY <1>1, <1>3, <1>5
    <2> QED
        BY <1>1, <1>3, <1>5, <2>1, <2>2 DEF OwnerInv, ErrorsReal
<1> QED
    BY <1>2, <1>3, <1>4, <1>6, <1>7, LoopStep

(* A step of one client leaves the others as they were, provided that it   *)
(* disturbs no device they offer and unhands none they handed over.        *)
Others(c) ==
    \A e \in Clients \ {c} :
        pc'[e] = pc[e] /\ local'[e] = local[e] /\ call'[e] = call[e] /\ reply'[e] = reply[e]

LEMMA OthersKeep ==
    ASSUME OwnerInv, NEW c \in Clients, Others(c), ClientOK(c)',
           \A d \in Devices : Fresh(d) /\ (\E e \in Clients \ {c} : local[e].dev = d) => Fresh(d)',
           \A d \in Devices : d = current \/ stopping[d] # "no" => d = current' \/ stopping'[d] # "no"
    PROVE  ClientsOK'
<1> SUFFICES ASSUME NEW e \in Clients, e # c
             PROVE  ClientOK(e)'
    BY DEF ClientsOK
<1>1. ClientOK(e) /\ pc'[e] = pc[e] /\ local'[e] = local[e] /\ call'[e] = call[e] /\ reply'[e] = reply[e]
    BY DEF OwnerInv, ClientsOK, Others
<1>2. (Offers(e) <=> Offers(e)') /\ CallOf(e)' = CallOf(e)
    BY <1>1 DEF Offers, CallOf
<1>3. Offers(e) => Fresh(local[e].dev)'
    <2>1. Offers(e) => Fresh(local[e].dev) /\ local[e].dev \in Devices
        BY <1>1 DEF ClientOK, Fresh
    <2> DEFINE x == local[e].dev
    <2>2. ASSUME NEW d \in Devices, d = x, Fresh(d) PROVE Fresh(d)'
        BY <2>2
    <2> QED
        BY <1>1, <2>1, <2>2 DEF Fresh, NotRunning
<1>4. local[e].dev \in Devices \cup {NoDevice}
    BY DEF OwnerInv, ClientTypeOK
<1>5. pc[e] = "attaching" /\ ~Offers(e) => local[e].dev = current' \/ stopping'[local[e].dev] # "no"
    BY <1>1, <1>4 DEF ClientOK
<1> QED
    BY <1>1, <1>2, <1>3, <1>5 DEF ClientOK

(* A device that has failed or is closed is never open again. *)
LEMMA ErrorsKeep ==
    ASSUME OwnerInv, UNCHANGED reportCh,
           \A d \in Devices : device[d] \in {"broken", "closed"} => device'[d] \in {"broken", "closed"}
    PROVE  ErrorsReal'
<1> SUFFICES ASSUME NEW i \in 1 .. Len(reportCh), reportCh[i].kind = "error"
             PROVE  device'[reportCh[i].dev] \in {"broken", "closed"}
    BY DEF ErrorsReal
<1>1. reportCh[i] \in Report /\ device[reportCh[i].dev] \in {"broken", "closed"}
    BY DEF OwnerInv, SessionTypeOK, ErrorsReal
<1>2. reportCh[i].dev \in Devices
    BY <1>1 DEF Report
<1> QED
    BY <1>1, <1>2

LEMMA ConfigForAttach ==
    ASSUME ClientTypeOK, NEW typ \in Types, NEW named \in Named, NEW req \in Configs
    PROVE  firewallConfigForAttach(typ, named, req) \in FirewallConfigs
<1>1. req \in FirewallConfigs
    BY FirewallAssumption
<1>2. req.enabled \in BOOLEAN /\ cfgFirewall.enabled \in BOOLEAN
    BY <1>1 DEF ClientTypeOK, FirewallConfigs
<1>3. (IF "enabled" \in named THEN req.enabled
       ELSE IF cfgFirewall.set THEN cfgFirewall.enabled ELSE typ = "native") \in BOOLEAN
    BY <1>2
<1>4. {a \in req.allowed : a[1] \in named} \cup {a \in cfgFirewall.allowed : a[1] \notin named}
        \in SUBSET (Transports \X Endpoints)
    BY <1>1 DEF ClientTypeOK, FirewallConfigs
<1> QED
    BY <1>3, <1>4 DEF firewallConfigForAttach, FirewallConfigs

LEMMA AttachCreateOwner ==
    ASSUME OwnerInv, FirewallTypeOK, NEW c \in Clients, NEW typ \in Types,
           NEW op \in {"attach", "replace"}, NEW named \in Named, NEW req \in Configs,
           AttachCreate(c, typ, op, named, req)
    PROVE  OwnerInv'
<1> DEFINE cfg == firewallConfigForAttach(typ, named, req)
<1>0. PICK d \in Devices :
        /\ Creates(d, typ) /\ device' = [device EXCEPT ![d] = "open"]
        /\ local' = [local EXCEPT ![c] = [dev |-> d, op |-> op, cfg |-> cfg, prev |-> fw]]
    BY DEF AttachCreate
<1> DEFINE new == [dev |-> d, op |-> op, cfg |-> cfg, prev |-> fw]
<1>1. d \in Devices /\ device[d] = "none"
    BY <1>0 DEF Creates
<1>2. /\ device' = [device EXCEPT ![d] = "open"] /\ kind' = [kind EXCEPT ![d] = typ]
      /\ local' = [local EXCEPT ![c] = new] /\ pc' = [pc EXCEPT ![c] = "created"] /\ pc[c] = "idle"
      /\ UNCHANGED <<current, loop, stopping, reportCh, call, reply, cfgFirewall, activeSocks>>
    BY <1>0 DEF AttachCreate, Creates, Goto, supVars
<1>3. new \in [dev : Devices, op : {"attach", "replace"}, cfg : FirewallConfigs, prev : FirewallConfigs]
    <2>1. cfg \in FirewallConfigs
        BY ConfigForAttach DEF OwnerInv
    <2> QED
        BY <1>1, <2>1 DEF FirewallTypeOK
<1>4. new.dev = d /\ new.op = op
    OBVIOUS
<1> HIDE DEF new
<1>5. SessionTypeOK' /\ ClientTypeOK' /\ current' \in Devices \cup {NoDevice}
    BY <1>1, <1>2, <1>3 DEF OwnerInv, SessionTypeOK, ClientTypeOK
<1>6. /\ local'[c] = new /\ pc'[c] = "created" /\ device'[d] = "open"
      /\ \A e \in Clients : e # c => local'[e] = local[e] /\ pc'[e] = pc[e]
      /\ \A e \in Devices : e # d => device'[e] = device[e]
    BY <1>1, <1>2 DEF OwnerInv, SessionTypeOK, ClientTypeOK
<1>7. d # current /\ stopping[d] = "no" /\ NotRunning(d) /\ \A e \in Clients : local[e].dev # d
    BY <1>1 DEF OwnerInv, DevicesOK, DeviceOK
<1>8. \A e \in Devices : NotRunning(e)' <=> NotRunning(e)
    BY <1>2 DEF NotRunning
<1>9. DevicesOK'
    <2> SUFFICES ASSUME NEW e \in Devices PROVE DeviceOK(e)'
        BY DEF DevicesOK
    <2>1. DeviceOK(e)
        BY DEF OwnerInv, DevicesOK
    <2>2. CASE e = d
        BY <1>1, <1>2, <1>6, <1>7, <2>1, <2>2 DEF DeviceOK
    <2>3. CASE e # d
        BY <1>2, <1>4, <1>6, <1>8, <2>1, <2>3 DEF DeviceOK
    <2> QED
        BY <2>2, <2>3
<1>10. ClientOK(c)'
    <2>1. Fresh(d)'
        BY <1>1, <1>2, <1>6, <1>7, <1>8 DEF Fresh
    <2>2. call'[c] = NoCall
        BY <1>2 DEF OwnerInv, ClientsOK, ClientOK
    <2> QED
        BY <1>1, <1>4, <1>6, <2>1, <2>2, TunAssumption DEF ClientOK, Offers
<1>11. ClientsOK'
    <2>1. \A e \in Devices : Fresh(e) => Fresh(e)'
        BY <1>2, <1>6, <1>8 DEF Fresh
    <2> QED
        BY <1>2, <1>6, <1>10, <2>1, OthersKeep DEF Others
<1>12. DevicesApart' /\ ErrorsReal'
    <2>1. DevicesApart'
        BY <1>4, <1>6, <1>7 DEF OwnerInv, DevicesApart
    <2>2. ErrorsReal'
        BY <1>1, <1>2, <1>6, ErrorsKeep
    <2> QED
        BY <2>1, <2>2
<1>13. NoLeakedDevice'
    BY <1>2, <1>4, <1>6 DEF OwnerInv, NoLeakedDevice
<1> QED
    BY <1>5, <1>9, <1>11, <1>12, <1>13 DEF OwnerInv

(* The device that is created and closed at once was nobody's. *)
LEMMA AttachRejectedOwner ==
    ASSUME OwnerInv, NEW c \in Clients, NEW typ \in Types, AttachRejected(c, typ)
    PROVE  OwnerInv'
<1>1. PICK d \in Devices : Creates(d, typ) /\ device' = [device EXCEPT ![d] = "closed"]
    BY DEF AttachRejected
<1>2. device[d] = "none" /\ kind' = [kind EXCEPT ![d] = typ]
    BY <1>1 DEF Creates
<1>3. UNCHANGED <<current, loop, stopping, reportCh, call, reply, pc, local, cfgFirewall, activeSocks>>
    BY DEF AttachRejected, supVars
<1>4. device'[d] = "closed" /\ \A e \in Devices : e # d => device'[e] = device[e]
    BY <1>1 DEF OwnerInv, SessionTypeOK
<1>5. SessionTypeOK' /\ ClientTypeOK' /\ current' \in Devices \cup {NoDevice} /\ DevicesApart'
    BY <1>1, <1>2, <1>3 DEF OwnerInv, SessionTypeOK, ClientTypeOK, DevicesApart
<1>6. d # current /\ stopping[d] = "no" /\ NotRunning(d) /\ \A e \in Clients : local[e].dev # d
    BY <1>2 DEF OwnerInv, DevicesOK, DeviceOK
<1>7. DevicesOK'
    <2> SUFFICES ASSUME NEW e \in Devices PROVE DeviceOK(e)'
        BY DEF DevicesOK
    <2>1. DeviceOK(e)
        BY DEF OwnerInv, DevicesOK
    <2>2. CASE e = d
        BY <1>3, <1>4, <1>6, <2>2 DEF DeviceOK
    <2>3. CASE e # d
        BY <1>3, <1>4, <2>1, <2>3 DEF DeviceOK, NotRunning
    <2> QED
        BY <2>2, <2>3
<1>8. ClientsOK'
    <2> SUFFICES ASSUME NEW e \in Clients PROVE ClientOK(e)'
        BY DEF ClientsOK
    <2>1. ClientOK(e)
        BY DEF OwnerInv, ClientsOK
    <2>2. Offers(e) => Fresh(local[e].dev)'
        BY <1>3, <1>4, <1>6, <2>1 DEF ClientOK, Fresh, NotRunning
    <2> QED
        BY <1>3, <2>1, <2>2 DEF ClientOK, Offers, CallOf
<1>9. ErrorsReal'
    BY <1>2, <1>3, <1>4, ErrorsKeep
<1>10. NoLeakedDevice'
    BY <1>3, <1>4 DEF OwnerInv, NoLeakedDevice
<1> QED
    BY <1>5, <1>7, <1>8, <1>9, <1>10 DEF OwnerInv

(* A step of a client that leaves the sessions alone: it keeps its device, *)
(* or forgets one that has been handed over.                               *)
LEMMA ClientStep ==
    ASSUME OwnerInv, NEW c \in Clients, UNCHANGED <<sessionOwner, reportCh>>,
           Others(c), ClientOK(c)', ClientTypeOK',
           \/ local'[c].dev = local[c].dev
           \/ local'[c].dev = NoDevice /\ (local[c].dev = current \/ stopping[local[c].dev] # "no")
    PROVE  OwnerInv'
<1>1. UNCHANGED <<current, device, loop, stopping, reportCh>>
    BY DEF sessionOwner
<1>2. SessionTypeOK' /\ ErrorsReal' /\ current' \in Devices \cup {NoDevice}
    BY <1>1 DEF OwnerInv, SessionTypeOK, ErrorsReal
<1>3. \A e \in Clients : e # c => local'[e] = local[e] /\ pc'[e] = pc[e]
    BY DEF Others
<1>4. DevicesApart'
    BY <1>3 DEF OwnerInv, DevicesApart
<1>5. \A d \in Devices : \A e \in Clients : local[e].dev # d => local'[e].dev # d
    BY <1>3, TunAssumption
<1>6. DevicesOK'
    BY <1>1, <1>5 DEF OwnerInv, DevicesOK, DeviceOK, NotRunning
<1>7. ClientsOK'
    <2>1. \A d \in Devices : Fresh(d) => Fresh(d)'
        BY <1>1 DEF Fresh, NotRunning
    <2> QED
        BY <1>1, <2>1, OthersKeep
<1>8. NoLeakedDevice'
    <2> SUFFICES ASSUME NEW d \in Devices, device[d] \in {"open", "broken", "eof"}, d # current,
                        stopping[d] # "asked"
                 PROVE  \E e \in Clients : local'[e].dev = d /\ pc'[e] \in {"created", "attaching"}
        BY <1>1 DEF NoLeakedDevice
    <2>1. PICK e \in Clients : local[e].dev = d /\ pc[e] \in {"created", "attaching"}
        BY DEF OwnerInv, NoLeakedDevice
    <2>2. stopping[d] = "no"
        BY DEF OwnerInv, SessionTypeOK, DevicesOK, DeviceOK
    <2>3. local'[e].dev = d
        BY <1>3, <2>1, <2>2
    <2>4. pc'[e] \in {"created", "attaching"}
        BY <1>3, <2>1, <2>3, TunAssumption DEF ClientOK
    <2> QED
        BY <2>3, <2>4
<1> QED
    BY <1>2, <1>4, <1>6, <1>7, <1>8 DEF OwnerInv

(* The call ends: the client is idle and holds nothing. *)
LEMMA ReturnOwner ==
    ASSUME OwnerInv, NEW c \in Clients, UNCHANGED <<sessionOwner, reportCh, call, reply>>,
           Return(c), call[c] = NoCall,
           local[c].dev \in {NoDevice, current} \/ stopping[local[c].dev] # "no",
           cfgFirewall' \in [set : BOOLEAN, enabled : BOOLEAN, allowed : SUBSET (Transports \X Endpoints)],
           UNCHANGED kind, activeSocks' \in Devices \cup {NoDevice}
    PROVE  OwnerInv'
<1>1. NoLocal \in [dev : Devices \cup {NoDevice}, op : {"none", "attach", "replace"},
                   cfg : FirewallConfigs, prev : FirewallConfigs]
    BY DEF NoLocal, NoConfig, FirewallConfigs
<1>2. ClientTypeOK'
    BY <1>1 DEF OwnerInv, ClientTypeOK, Return, Goto
<1>3. Others(c) /\ pc'[c] = "idle" /\ local'[c].dev = NoDevice
    BY DEF OwnerInv, ClientTypeOK, Return, Goto, Others, NoLocal
<1>4. ClientOK(c)'
    BY <1>3 DEF ClientOK, Offers
<1> QED
    BY <1>2, <1>3, <1>4, ClientStep

LEMMA AttachSubmitOwner ==
    ASSUME OwnerInv, NEW c \in Clients, AttachSubmit(c)
    PROVE  OwnerInv'
<1> DEFINE k == [op |-> local[c].op, dev |-> local[c].dev]
<1>1. /\ pc[c] = "created" /\ pc' = [pc EXCEPT ![c] = "attaching"]
      /\ UNCHANGED <<current, device, loop, stopping, reportCh, local, cfgFirewall, kind, activeSocks>>
      /\ \/ call' = [call EXCEPT ![c] = k] /\ UNCHANGED reply
         \/ reply' = [reply EXCEPT ![c] = "err"] /\ UNCHANGED call
    BY DEF AttachSubmit, Goto, supVars, sessVars
<1>2. ClientOK(c) /\ Fresh(local[c].dev) /\ call[c] = NoCall
      /\ local[c].dev \in Devices /\ local[c].op \in {"attach", "replace"}
    BY <1>1 DEF OwnerInv, ClientTypeOK, ClientsOK, ClientOK, Offers, Fresh
<1>3. k \in Request /\ k # NoCall
    BY <1>2, TunAssumption DEF Request
<1>4. CallOf(c)' = k
    BY <1>1 DEF CallOf, OwnerInv, ClientTypeOK
<1> HIDE DEF k
<1>5. ClientTypeOK'
    BY <1>1, <1>3, SMTT(30) DEF OwnerInv, ClientTypeOK
<1>6. Others(c) /\ pc'[c] = "attaching" /\ (call'[c] = k \/ (call'[c] = NoCall /\ reply'[c] = "err"))
    <2>1. call \in [Clients -> Request \cup {NoCall}] /\ reply \in [Clients -> {"ok", "err"}]
          /\ pc \in [Clients -> {"idle", "created", "attaching", "detach", "stop", "firewall"}]
        BY DEF OwnerInv, ClientTypeOK
    <2>2. CASE call' = [call EXCEPT ![c] = k] /\ UNCHANGED reply
        BY <1>1, <2>1, <2>2 DEF Others
    <2>3. CASE reply' = [reply EXCEPT ![c] = "err"] /\ UNCHANGED call
        BY <1>1, <1>2, <2>1, <2>3 DEF Others
    <2> QED
        BY <1>1, <2>2, <2>3
<1>7. Fresh(local[c].dev)'
    BY <1>1, <1>2 DEF Fresh, NotRunning
<1>8. ClientOK(c)'
    BY <1>1, <1>2, <1>3, <1>4, <1>6, <1>7, TunAssumption DEF ClientOK, Offers
<1> QED
    BY <1>1, <1>5, <1>6, <1>8, ClientStep DEF sessionOwner

LEMMA AttachDoneOwner ==
    ASSUME OwnerInv, NEW c \in Clients, AttachDone(c)
    PROVE  OwnerInv'
<1>1. /\ pc[c] = "attaching" /\ call[c] = NoCall /\ reply[c] = "ok" /\ Return(c)
      /\ UNCHANGED <<sessionOwner, reportCh, call, reply, cfgFirewall, kind>>
    BY DEF AttachDone, tunVars, supVars, sessVars, sessionOwner
<1>2. local[c].dev \in {NoDevice, current} \/ stopping[local[c].dev] # "no"
    BY <1>1 DEF OwnerInv, ClientsOK, ClientOK, Offers
<1>3. activeSocks' \in Devices \cup {NoDevice}
    BY DEF AttachDone, OwnerInv, ClientTypeOK
<1> QED
    BY <1>1, <1>2, <1>3, ReturnOwner DEF OwnerInv, ClientTypeOK

LEMMA BeginDetachOwner ==
    ASSUME OwnerInv, NEW c \in Clients, NEW op \in {"detach", "stop"}, BeginDetach(c, op)
    PROVE  OwnerInv'
<1> DEFINE k == [op |-> op, dev |-> NoDevice]
<1>1. /\ pc[c] = "idle" /\ pc' = [pc EXCEPT ![c] = op] /\ call' = [call EXCEPT ![c] = k]
      /\ UNCHANGED <<sessionOwner, reportCh, reply, local, cfgFirewall, kind, activeSocks>>
    BY DEF BeginDetach, Goto, supVars, sessVars, sessionOwner
<1>2. k \in Request
    BY DEF Request
<1>3. k.op = op /\ k.dev = NoDevice
    OBVIOUS
<1>4. Others(c) /\ pc'[c] = op /\ call'[c] = k /\ local'[c].dev = NoDevice
    BY <1>1 DEF Others, OwnerInv, ClientTypeOK, ClientsOK, ClientOK
<1>5. CallOf(c)' = k
    BY <1>4 DEF CallOf
<1> HIDE DEF k
<1>6. ClientTypeOK'
    BY <1>1, <1>2 DEF OwnerInv, ClientTypeOK
<1>7. ClientOK(c)'
    BY <1>4, <1>5 DEF ClientOK, Offers
<1> QED
    BY <1>1, <1>4, <1>6, <1>7, ClientStep

LEMMA DetachDoneOwner ==
    ASSUME OwnerInv, NEW c \in Clients, DetachDone(c)
    PROVE  OwnerInv'
<1>1. /\ pc[c] \in {"detach", "stop"} /\ call[c] = NoCall /\ Return(c)
      /\ UNCHANGED <<sessionOwner, reportCh, call, reply, cfgFirewall, kind>>
    BY DEF DetachDone, tunVars, supVars, sessVars, sessionOwner
<1>2. local[c].dev = NoDevice
    BY <1>1 DEF OwnerInv, ClientsOK, ClientOK
<1>3. activeSocks' \in Devices \cup {NoDevice}
    BY DEF DetachDone, OwnerInv, ClientTypeOK
<1> QED
    BY <1>1, <1>2, <1>3, ReturnOwner DEF OwnerInv, ClientTypeOK

LEMMA FirewallReadOwner ==
    ASSUME OwnerInv, FirewallTypeOK, NEW c \in Clients, NEW new \in Configs, NEW whole \in BOOLEAN,
           FirewallRead(c, new, whole)
    PROVE  OwnerInv'
<1> DEFINE cfg == IF whole THEN new ELSE [fw EXCEPT !.enabled = new.enabled]
<1>1. cfg \in FirewallConfigs
    BY FirewallAssumption DEF FirewallTypeOK, FirewallConfigs
<1>2. /\ pc[c] = "idle" /\ pc' = [pc EXCEPT ![c] = "firewall"] /\ local' = [local EXCEPT ![c].cfg = cfg]
      /\ UNCHANGED <<sessionOwner, reportCh, call, reply, cfgFirewall, kind, activeSocks>>
    BY DEF FirewallRead, Goto, supVars, sessVars, sessionOwner
<1> HIDE DEF cfg
<1>3. ClientTypeOK'
    BY <1>1, <1>2, SMTT(30) DEF OwnerInv, ClientTypeOK
<1>4. Others(c) /\ pc'[c] = "firewall" /\ local'[c].dev = NoDevice /\ local[c].dev = NoDevice /\ call[c] = NoCall
    BY <1>2 DEF Others, OwnerInv, ClientTypeOK, ClientsOK, ClientOK
<1>5. ClientOK(c)'
    BY <1>2, <1>4 DEF ClientOK, Offers
<1> QED
    BY <1>2, <1>3, <1>4, <1>5, ClientStep

LEMMA SetFirewallOwner ==
    ASSUME OwnerInv, NEW c \in Clients, SetFirewall(c)
    PROVE  OwnerInv'
<1>1. /\ pc[c] = "firewall" /\ Return(c)
      /\ UNCHANGED <<sessionOwner, reportCh, call, reply, kind, activeSocks>>
    BY DEF SetFirewall, tunVars, supVars, sessVars, sessionOwner
<1>2. local[c].dev = NoDevice /\ call[c] = NoCall
    BY <1>1 DEF OwnerInv, ClientsOK, ClientOK
<1>3. cfgFirewall' \in [set : BOOLEAN, enabled : BOOLEAN, allowed : SUBSET (Transports \X Endpoints)]
    <2>1. local[c].cfg \in FirewallConfigs
        BY DEF OwnerInv, ClientTypeOK
    <2> QED
        BY <2>1 DEF SetFirewall, FirewallConfigs
<1> QED
    BY <1>1, <1>2, <1>3, ReturnOwner DEF OwnerInv, ClientTypeOK

LEMMA deviceFailsOwner ==
    ASSUME OwnerInv, NEW d \in Devices, NEW how \in {"broken", "eof"}, deviceFails(d, how), UNCHANGED ctlVars
    PROVE  OwnerInv'
<1>1. /\ device' = [device EXCEPT ![d] = how] /\ device[d] = "open" /\ loop[d]["read"] # "off"
      /\ UNCHANGED <<current, loop, stopping, reportCh, clientOwner>>
    BY DEF deviceFails, SessionStep, supVars, clientOwner, ctlVars
<1>2. device'[d] = how /\ \A e \in Devices : e # d => device'[e] = device[e]
    BY <1>1 DEF OwnerInv, SessionTypeOK
<1>3. ~Fresh(d)
    BY <1>1 DEF Fresh, NotRunning, Loops
<1>4. SessionTypeOK'
    BY <1>1 DEF OwnerInv, SessionTypeOK
<1>5. ErrorsReal'
    BY <1>1, <1>2, ErrorsKeep
<1>6. DevicesOK'
    <2> SUFFICES ASSUME NEW e \in Devices PROVE DeviceOK(e)'
        BY DEF DevicesOK
    <2>1. DeviceOK(e) /\ UNCHANGED <<local, pc>>
        BY <1>1 DEF OwnerInv, DevicesOK, clientOwner
    <2>2. CASE e = d
        <3>1. stopping[d] # "stopped" /\ \A l \in Loops : loop[d][l] # "error"
            BY <1>1, <2>1, <2>2 DEF DeviceOK
        <3> QED
            BY <1>1, <1>2, <2>1, <2>2, <3>1 DEF DeviceOK
    <2>3. CASE e # d
        BY <1>1, <1>2, <2>1, <2>3 DEF DeviceOK, NotRunning
    <2> QED
        BY <2>2, <2>3
<1>7. ClientsOK'
    <2> SUFFICES ASSUME NEW e \in Clients PROVE ClientOK(e)'
        BY DEF ClientsOK
    <2>1. ClientOK(e)
        BY DEF OwnerInv, ClientsOK
    <2>2. Offers(e) => Fresh(local[e].dev)'
        BY <1>1, <1>2, <1>3, <2>1 DEF ClientOK, Fresh, NotRunning, clientOwner
    <2> QED
        BY <1>1, <2>1, <2>2 DEF ClientOK, Offers, CallOf, clientOwner
<1>8. ClientTypeOK' /\ DevicesApart' /\ current' \in Devices \cup {NoDevice}
    BY <1>1 DEF OwnerInv, ClientTypeOK, DevicesApart, clientOwner
<1>9. NoLeakedDevice'
    BY <1>1, <1>2 DEF OwnerInv, NoLeakedDevice, clientOwner
<1> QED
    BY <1>4, <1>5, <1>6, <1>7, <1>8, <1>9 DEF OwnerInv

LEMMA AttachFailedOwner ==
    ASSUME OwnerInv, NEW c \in Clients, AttachFailed(c)
    PROVE  OwnerInv'
<1>1. PICK d \in Devices : d = local[c].dev /\ Fresh(d)
    BY DEF AttachFailed, OwnerInv, ClientsOK, ClientOK, Offers, Fresh, NotRunning
<1>2. /\ device' = [device EXCEPT ![d] = "closed"] /\ call[c] = NoCall
      /\ local' = [local EXCEPT ![c] = NoLocal] /\ pc' = [pc EXCEPT ![c] = "idle"]
      /\ UNCHANGED <<current, loop, stopping, reportCh, call, reply, cfgFirewall, kind, activeSocks>>
    BY <1>1 DEF AttachFailed, Return, Goto, supVars
<1>3. NoLocal \in [dev : Devices \cup {NoDevice}, op : {"none", "attach", "replace"},
                   cfg : FirewallConfigs, prev : FirewallConfigs] /\ NoLocal.dev = NoDevice
    BY DEF NoLocal, NoConfig, FirewallConfigs
<1>4. SessionTypeOK' /\ ClientTypeOK' /\ current' \in Devices \cup {NoDevice}
    BY <1>2, <1>3 DEF OwnerInv, SessionTypeOK, ClientTypeOK
<1>5. /\ device'[d] = "closed" /\ \A e \in Devices : e # d => device'[e] = device[e]
      /\ local'[c].dev = NoDevice /\ pc'[c] = "idle"
      /\ \A e \in Clients : e # c => local'[e] = local[e] /\ pc'[e] = pc[e]
    BY <1>2, <1>3 DEF OwnerInv, SessionTypeOK, ClientTypeOK
<1>6. \A e \in Clients : local'[e].dev # d
    BY <1>1, <1>5, TunAssumption DEF OwnerInv, DevicesApart
<1>7. DevicesOK'
    <2> SUFFICES ASSUME NEW e \in Devices PROVE DeviceOK(e)'
        BY DEF DevicesOK
    <2>1. DeviceOK(e)
        BY DEF OwnerInv, DevicesOK
    <2>2. CASE e = d
        BY <1>1, <1>2, <1>5, <2>2 DEF DeviceOK, Fresh
    <2>3. CASE e # d
        BY <1>2, <1>5, <2>1, <2>3, TunAssumption DEF DeviceOK, NotRunning
    <2> QED
        BY <2>2, <2>3
<1>8. ClientsOK'
    <2>1. ClientOK(c)'
        BY <1>2, <1>5 DEF ClientOK, Offers
    <2>2. \A e \in Devices : Fresh(e) /\ (\E x \in Clients \ {c} : local[x].dev = e) => Fresh(e)'
        BY <1>2, <1>5, <1>6 DEF Fresh, NotRunning
    <2> QED
        BY <1>2, <1>5, <2>1, <2>2, OthersKeep DEF Others
<1>9. ErrorsReal' /\ DevicesApart'
    BY <1>2, <1>5, ErrorsKeep DEF OwnerInv, DevicesApart
<1>10. NoLeakedDevice'
    BY <1>1, <1>2, <1>5 DEF OwnerInv, NoLeakedDevice
<1> QED
    BY <1>4, <1>7, <1>8, <1>9, <1>10 DEF OwnerInv

LEMMA stopSessionOwner ==
    ASSUME OwnerInv, NEW d \in Devices, stopSession(d), UNCHANGED ctlVars
    PROVE  OwnerInv'
<1> DEFINE ended == [l \in Loops |-> IF loop[d][l] = "run" THEN "done" ELSE loop[d][l]]
<1>1. /\ stopping[d] = "asked" /\ stopping' = [stopping EXCEPT ![d] = "stopped"]
      /\ device' = [device EXCEPT ![d] = "closed"] /\ loop' = [loop EXCEPT ![d] = ended]
      /\ UNCHANGED <<current, reportCh, clientOwner>>
    BY DEF stopSession, SessionStep, supVars, clientOwner, ctlVars
<1>2. ended \in [Loops -> {"off", "run", "done"} \cup Reports]
    BY DEF OwnerInv, SessionTypeOK
<1> HIDE DEF ended
<1>3. SessionTypeOK'
    BY <1>1, <1>2 DEF OwnerInv, SessionTypeOK
<1>4. /\ device'[d] = "closed" /\ stopping'[d] = "stopped" /\ d # current
      /\ \A e \in Devices : e # d => /\ device'[e] = device[e] /\ loop'[e] = loop[e]
                                     /\ stopping'[e] = stopping[e]
    BY <1>1, <1>2 DEF OwnerInv, SessionTypeOK, DevicesOK, DeviceOK
<1>5. DevicesOK'
    <2> SUFFICES ASSUME NEW e \in Devices PROVE DeviceOK(e)'
        BY DEF DevicesOK
    <2>1. DeviceOK(e)
        BY DEF OwnerInv, DevicesOK
    <2>2. CASE e = d
        BY <1>1, <1>4, <2>2 DEF DeviceOK
    <2>3. CASE e # d
        BY <1>1, <1>4, <2>1, <2>3 DEF DeviceOK, NotRunning, clientOwner
    <2> QED
        BY <2>2, <2>3
<1>6. ClientsOK'
    <2> SUFFICES ASSUME NEW e \in Clients PROVE ClientOK(e)'
        BY DEF ClientsOK
    <2>1. ClientOK(e) /\ local[e].dev \in Devices \cup {NoDevice}
        BY DEF OwnerInv, ClientsOK, ClientTypeOK
    <2>2. Offers(e) => Fresh(local[e].dev)'
        BY <1>1, <1>4, <2>1 DEF ClientOK, Fresh, NotRunning, clientOwner
    <2>3. pc[e] = "attaching" /\ ~Offers(e) => local[e].dev = current \/ stopping'[local[e].dev] # "no"
        BY <1>4, <2>1, TunAssumption DEF ClientOK
    <2> QED
        BY <1>1, <2>1, <2>2, <2>3 DEF ClientOK, Offers, CallOf, clientOwner
<1>7. ErrorsReal' /\ ClientTypeOK' /\ DevicesApart' /\ current' \in Devices \cup {NoDevice}
    BY <1>1, <1>4, ErrorsKeep DEF OwnerInv, ClientTypeOK, DevicesApart, clientOwner
<1>8. NoLeakedDevice'
    BY <1>1, <1>4 DEF OwnerInv, NoLeakedDevice, clientOwner
<1> QED
    BY <1>3, <1>5, <1>6, <1>7, <1>8 DEF OwnerInv

LEMMA AskToStopFacts ==
    ASSUME OwnerInv, stopping' = AskToStop
    PROVE  /\ stopping' \in [Devices -> {"no", "asked", "stopped"}]
           /\ \A d \in Devices : stopping'[d] = IF d = current THEN "asked" ELSE stopping[d]
BY TunAssumption DEF OwnerInv, SessionTypeOK, AskToStop

(* The supervisor answers a request: what the client gets. *)
LEMMA AnswerFacts ==
    ASSUME OwnerInv, NEW c \in Clients, NEW r \in {"ok", "err"}, Answer(c, r)
    PROVE  /\ call' \in [Clients -> Request \cup {NoCall}] /\ reply' \in [Clients -> {"ok", "err"}]
           /\ call'[c] = NoCall /\ reply'[c] = r
           /\ \A e \in Clients : e # c => call'[e] = call[e] /\ reply'[e] = reply[e]
BY DEF OwnerInv, ClientTypeOK, Answer

LEMMA CalledFacts ==
    ASSUME OwnerInv, NEW c \in Clients, call[c] # NoCall
    PROVE  /\ call[c].op \in {"detach", "stop"} =>
                 pc[c] \in {"detach", "stop"} /\ ~Offers(c) /\ call[c].dev = NoDevice
           /\ call[c].op \in {"attach", "replace"} =>
                 /\ pc[c] = "attaching" /\ Offers(c) /\ Fresh(call[c].dev)
                 /\ call[c].dev = local[c].dev
<1>1. ClientOK(c) /\ local[c].op \in {"none", "attach", "replace"}
      /\ pc[c] \in {"idle", "created", "attaching", "detach", "stop", "firewall"}
    BY DEF OwnerInv, ClientsOK, ClientTypeOK
<1>2. call[c] = CallOf(c) /\ pc[c] \in {"attaching", "detach", "stop"}
    BY <1>1 DEF ClientOK
<1>3. CASE pc[c] = "attaching"
    BY <1>1, <1>2, <1>3 DEF CallOf, ClientOK, Offers
<1>4. CASE pc[c] \in {"detach", "stop"}
    BY <1>2, <1>4 DEF CallOf, Offers
<1> QED
    BY <1>2, <1>3, <1>4

(* Detaching: the session is asked to stop before the answer is sent. *)
LEMMA DetachedOwner ==
    ASSUME OwnerInv, current' = NoDevice, stopping' = AskToStop,
           UNCHANGED <<device, loop, pc, local, cfgFirewall, kind, activeSocks>>,
           reportCh' \in Seq(Report), Len(reportCh') <= ReportCap, ErrorsReal',
           call' \in [Clients -> Request \cup {NoCall}], reply' \in [Clients -> {"ok", "err"}],
           \A e \in Clients : \/ call'[e] = call[e] /\ reply'[e] = reply[e]
                              \/ pc[e] \in {"detach", "stop"} /\ call'[e] = NoCall
    PROVE  OwnerInv'
<1>1. /\ stopping' \in [Devices -> {"no", "asked", "stopped"}]
      /\ \A d \in Devices : stopping'[d] = IF d = current THEN "asked" ELSE stopping[d]
    BY AskToStopFacts
<1>2. SessionTypeOK' /\ ClientTypeOK' /\ current' \in Devices \cup {NoDevice} /\ DevicesApart'
    BY <1>1 DEF OwnerInv, SessionTypeOK, ClientTypeOK, DevicesApart
<1>3. DevicesOK'
    <2> SUFFICES ASSUME NEW e \in Devices PROVE DeviceOK(e)'
        BY DEF DevicesOK
    <2>1. DeviceOK(e)
        BY DEF OwnerInv, DevicesOK
    <2> QED
        BY <1>1, <2>1, TunAssumption DEF DeviceOK, NotRunning
<1>4. ClientsOK'
    <2> SUFFICES ASSUME NEW e \in Clients PROVE ClientOK(e)'
        BY DEF ClientsOK
    <2>1. ClientOK(e) /\ local[e].dev \in Devices \cup {NoDevice}
        BY DEF OwnerInv, ClientsOK, ClientTypeOK
    <2>2. CASE call'[e] = call[e] /\ reply'[e] = reply[e]
        <3>1. Offers(e) => Fresh(local[e].dev)'
            BY <1>1, <2>1, TunAssumption DEF ClientOK, Fresh, NotRunning
        <3>2. pc[e] = "attaching" /\ ~Offers(e) => stopping'[local[e].dev] # "no"
            BY <1>1, <2>1 DEF ClientOK
        <3> QED
            BY <2>1, <2>2, <3>1, <3>2 DEF ClientOK, Offers, CallOf
    <2>3. CASE pc[e] \in {"detach", "stop"} /\ call'[e] = NoCall
        BY <2>1, <2>3 DEF ClientOK, Offers
    <2> QED
        BY <2>2, <2>3
<1>5. NoLeakedDevice'
    BY <1>1 DEF OwnerInv, NoLeakedDevice
<1> QED
    BY <1>2, <1>3, <1>4, <1>5 DEF OwnerInv

LEMMA DetachOwner ==
    ASSUME OwnerInv, NEW c \in Clients, NEW next \in {"detached", "stopped"},
           call[c] # NoCall, call[c].op \in {"detach", "stop"},
           detachCurrent(next), Answer(c, "ok"), UNCHANGED ctlVars
    PROVE  OwnerInv'
<1>1. /\ current' = NoDevice /\ stopping' = AskToStop
      /\ UNCHANGED <<device, loop, reportCh, pc, local, cfgFirewall, kind, activeSocks>>
    BY DEF detachCurrent, DetachTo, ctlVars
<1>2. reportCh' \in Seq(Report) /\ Len(reportCh') <= ReportCap /\ ErrorsReal'
    BY <1>1 DEF OwnerInv, SessionTypeOK, ErrorsReal
<1>3. pc[c] \in {"detach", "stop"}
    BY CalledFacts
<1> QED
    BY <1>1, <1>2, <1>3, AnswerFacts, DetachedOwner

LEMMA AlreadyStoppedOwner ==
    ASSUME OwnerInv, NEW c \in Clients, AlreadyStopped(c), UNCHANGED ctlVars
    PROVE  OwnerInv'
<1>1. /\ call[c] # NoCall /\ call[c].op \in {"detach", "stop"} /\ Answer(c, "ok")
      /\ UNCHANGED <<sessionOwner, reportCh, pc, local, cfgFirewall, kind, activeSocks>>
    BY DEF AlreadyStopped, supVars, sessVars, sessionOwner, ctlVars
<1>2. /\ call' \in [Clients -> Request \cup {NoCall}] /\ reply' \in [Clients -> {"ok", "err"}]
      /\ call'[c] = NoCall /\ \A e \in Clients : e # c => call'[e] = call[e] /\ reply'[e] = reply[e]
    BY <1>1, AnswerFacts
<1>3. pc[c] \in {"detach", "stop"} /\ ClientOK(c)
    BY <1>1, CalledFacts DEF OwnerInv, ClientsOK
<1>4. Others(c) /\ ClientTypeOK' /\ ClientOK(c)'
    BY <1>1, <1>2, <1>3 DEF Others, OwnerInv, ClientTypeOK, ClientOK, Offers
<1> QED
    BY <1>1, <1>4, ClientStep

LEMMA refuseAttachOwner ==
    ASSUME OwnerInv, NEW c \in Clients, refuseAttach(c), UNCHANGED ctlVars
    PROVE  OwnerInv'
<1>1. /\ call[c] # NoCall /\ call[c].op \in {"attach", "replace"} /\ Answer(c, "err")
      /\ UNCHANGED <<sessionOwner, reportCh, pc, local, cfgFirewall, kind, activeSocks>>
    BY DEF refuseAttach, supVars, sessVars, sessionOwner, ctlVars
<1>2. /\ call' \in [Clients -> Request \cup {NoCall}] /\ reply' \in [Clients -> {"ok", "err"}]
      /\ call'[c] = NoCall /\ reply'[c] = "err"
      /\ \A e \in Clients : e # c => call'[e] = call[e] /\ reply'[e] = reply[e]
    BY <1>1, AnswerFacts
<1>3. pc[c] = "attaching" /\ ClientOK(c) /\ Fresh(local[c].dev)
    BY <1>1, CalledFacts DEF OwnerInv, ClientsOK, ClientOK
<1>4. Others(c) /\ ClientTypeOK'
    BY <1>1, <1>2 DEF Others, OwnerInv, ClientTypeOK
<1>5. Fresh(local[c].dev)'
    BY <1>1, <1>3 DEF Fresh, NotRunning, sessionOwner
<1>6. ClientOK(c)'
    BY <1>1, <1>2, <1>3, <1>5 DEF ClientOK, Offers
<1> QED
    BY <1>1, <1>4, <1>6, ClientStep

LEMMA handleReportOwner ==
    ASSUME OwnerInv, handleReport, UNCHANGED ctlVars
    PROVE  OwnerInv'
<1>1. /\ reportCh # <<>> /\ reportCh' = Tail(reportCh)
      /\ UNCHANGED <<device, loop, clientOwner>>
      /\ UNCHANGED <<current, stopping>> \/ (current' = NoDevice /\ stopping' = AskToStop)
    BY DEF handleReport, DetachTo, supVars, clientOwner, ctlVars
<1>2. reportCh \in Seq(Report) /\ Len(reportCh) <= ReportCap
    BY DEF OwnerInv, SessionTypeOK
<1>3. /\ reportCh' \in Seq(Report) /\ Len(reportCh') = Len(reportCh) - 1
      /\ \A i \in 1 .. Len(reportCh') : reportCh'[i] = reportCh[i + 1]
    BY <1>1, <1>2
<1>4. Len(reportCh') <= ReportCap
    BY <1>2, <1>3, TunAssumption
<1>5. ErrorsReal'
    <2>1. \A i \in 1 .. Len(reportCh') : i + 1 \in 1 .. Len(reportCh)
        BY <1>2, <1>3
    <2> QED
        BY <1>1, <1>3, <2>1 DEF OwnerInv, ErrorsReal
<1>6. CASE UNCHANGED <<current, stopping>>
    BY <1>1, <1>3, <1>4, <1>5, <1>6
    DEF OwnerInv, SessionTypeOK, ClientTypeOK, DevicesOK, DeviceOK, NotRunning, ClientsOK, ClientOK,
        Offers, CallOf, Fresh, DevicesApart, NoLeakedDevice, clientOwner
<1>7. CASE current' = NoDevice /\ stopping' = AskToStop
    BY <1>1, <1>3, <1>4, <1>5, <1>7, DetachedOwner DEF OwnerInv, ClientTypeOK, clientOwner
<1> QED
    BY <1>1, <1>6, <1>7

(* Attaching: the new session is current before the old one is stopped. *)
LEMMA handleAttachOwner ==
    ASSUME OwnerInv, NEW c \in Clients, handleAttach(c), UNCHANGED ctlVars
    PROVE  OwnerInv'
<1>1. call[c] # NoCall /\ call[c].op \in {"attach", "replace"} /\ Answer(c, "ok")
      /\ UNCHANGED <<device, reportCh, pc, local, cfgFirewall, kind, activeSocks>>
    BY DEF handleAttach, Attached, Accepted, ctlVars
<1>2. pc[c] = "attaching" /\ Fresh(call[c].dev) /\ call[c].dev = local[c].dev
    BY <1>1, CalledFacts
<1>3. PICK d \in Devices : d = call[c].dev
    BY <1>2 DEF Fresh
<1>4. d # current /\ stopping[d] = "no" /\ device[d] = "open" /\ d = local[c].dev /\ NotRunning(d)
    BY <1>2, <1>3 DEF Fresh, NotRunning
<1>5. loop' = [loop EXCEPT ![d] = [l \in Loops |-> "run"]] /\ current' = d /\ stopping' = AskToStop
    BY <1>3 DEF handleAttach, Attached
<1>6. /\ call' \in [Clients -> Request \cup {NoCall}] /\ reply' \in [Clients -> {"ok", "err"}]
      /\ call'[c] = NoCall /\ reply'[c] = "ok"
      /\ \A e \in Clients : e # c => call'[e] = call[e] /\ reply'[e] = reply[e]
    BY <1>1, AnswerFacts
<1>7. /\ stopping' \in [Devices -> {"no", "asked", "stopped"}]
      /\ \A e \in Devices : stopping'[e] = IF e = current THEN "asked" ELSE stopping[e]
    BY <1>5, AskToStopFacts
<1>8. /\ loop' \in [Devices -> [Loops -> {"off", "run", "done"} \cup Reports]]
      /\ \A l \in Loops : loop'[d][l] = "run"
      /\ \A e \in Devices : e # d => loop'[e] = loop[e]
    BY <1>5 DEF OwnerInv, SessionTypeOK
<1>9. SessionTypeOK' /\ ClientTypeOK' /\ current' \in Devices \cup {NoDevice} /\ DevicesApart' /\ ErrorsReal'
    BY <1>1, <1>5, <1>6, <1>7, <1>8 DEF OwnerInv, SessionTypeOK, ClientTypeOK, DevicesApart, ErrorsReal
<1>10. DevicesOK'
    <2> SUFFICES ASSUME NEW e \in Devices PROVE DeviceOK(e)'
        BY DEF DevicesOK
    <2>1. DeviceOK(e)
        BY DEF OwnerInv, DevicesOK
    <2>2. CASE e = d
        BY <1>1, <1>4, <1>5, <1>7, <1>8, <2>2 DEF DeviceOK
    <2>3. CASE e # d
        BY <1>1, <1>5, <1>7, <1>8, <2>1, <2>3 DEF DeviceOK, NotRunning
    <2> QED
        BY <2>2, <2>3
<1>11. ClientsOK'
    <2>1. ClientOK(c)'
        BY <1>1, <1>2, <1>4, <1>5, <1>6 DEF ClientOK, Offers, OwnerInv, ClientsOK
    <2>2. \A e \in Devices : Fresh(e) /\ (\E x \in Clients \ {c} : local[x].dev = e) => Fresh(e)'
        <3> SUFFICES ASSUME NEW e \in Devices, Fresh(e), NEW x \in Clients \ {c}, local[x].dev = e
                     PROVE  Fresh(e)'
            OBVIOUS
        <3>1. e # d
            BY <1>4, TunAssumption DEF OwnerInv, DevicesApart
        <3> QED
            BY <1>1, <1>5, <1>7, <1>8, <3>1 DEF Fresh, NotRunning
    <2>3. \A e \in Devices : e = current \/ stopping[e] # "no" => e = current' \/ stopping'[e] # "no"
        BY <1>7
    <2> QED
        BY <1>1, <1>6, <2>1, <2>2, <2>3, OthersKeep DEF Others
<1>12. NoLeakedDevice'
    BY <1>1, <1>5, <1>7 DEF OwnerInv, NoLeakedDevice
<1> QED
    BY <1>9, <1>10, <1>11, <1>12 DEF OwnerInv

-----------------------------------------------------------------------------
(***************************************************************************)
(* The inductive invariant, and the proof that every step keeps it.        *)
(***************************************************************************)
IInv == FilterInv /\ SupervisorInv /\ QueueTypeOK /\ OwnerInv

LEMMA InitIInv == Init => IInv
<1> SUFFICES ASSUME Init PROVE IInv
    OBVIOUS
<1>1. current \in Devices \cup {NoDevice}
    BY TunAssumption DEF Init, TunInit
<1>2. FilterInv
    BY FirewallAssumption DEF Init, TunInit, FwInit, FilterInv, FirewallTypeOK, FlowsInUse, FirewallConfigs
<1>3. SupervisorInv
    <2>1. SupervisorTypeOK
        <3>1. mtu \in [Devices -> {0} \cup SessionMTUs] /\ rwcMTU \in Nat
            <4>1. mtu \in [Devices -> {0} \cup SessionMTUs]
                BY MTUTypes DEF Init, TunInit
            <4>2. (IF current = NoDevice THEN DesiredMTU ELSE mtu[current]) \in Nat
                <5>1. CASE current = NoDevice
                    BY <5>1, MTUTypes
                <5>2. CASE current # NoDevice
                    <6>1. mtu[current] \in {0} \cup SessionMTUs
                        BY <1>1, <4>1, <5>2
                    <6>2. mtu[current] \in Nat
                        BY <6>1, MTUTypes, Zenon
                    <6> QED
                        BY <5>2, <6>2
                <5> QED
                    BY <5>1, <5>2
            <4> QED
                BY <4>1, <4>2, MTUTypes DEF Init, TunInit
        <3> QED
            BY <1>1, <3>1 DEF Init, TunInit, SupervisorTypeOK
    <2>2. MTUInStep
        BY DEF Init, TunInit, MTUInStep
    <2> QED
        BY <2>1, <2>2 DEF SupervisorInv
<1>4. QueueTypeOK
    BY TunAssumption DEF Init, TunInit, QueueTypeOK
<1>5. OwnerInv
    <2>1. SessionTypeOK
        BY TunAssumption DEF Init, TunInit, SessionTypeOK
    <2>2. NoLocal \in [dev : Devices \cup {NoDevice}, op : {"none", "attach", "replace"},
                       cfg : FirewallConfigs, prev : FirewallConfigs] /\ NoLocal.dev = NoDevice
        BY DEF NoLocal, NoConfig, FirewallConfigs
    <2>3. ClientTypeOK
        BY <1>1, <2>2 DEF Init, TunInit, ClientTypeOK
    <2>4. \A d \in Devices : stopping[d] = "no" /\ device[d] = (IF d = current THEN "open" ELSE "none")
                             /\ \A l \in Loops : loop[d][l] = IF d = current THEN "run" ELSE "off"
        BY DEF Init, TunInit
    <2>5. \A c \in Clients : pc[c] = "idle" /\ local[c].dev = NoDevice /\ call[c] = NoCall
        BY <2>2 DEF Init, TunInit
    <2>6. DevicesOK
        BY <2>4, <2>5, TunAssumption DEF DevicesOK, DeviceOK, NotRunning
    <2>7. ClientsOK /\ DevicesApart
        BY <2>5 DEF ClientsOK, ClientOK, Offers, DevicesApart
    <2>8. ErrorsReal
        BY DEF Init, TunInit, ErrorsReal
    <2>9. NoLeakedDevice
        BY <2>4 DEF NoLeakedDevice
    <2> QED
        BY <1>1, <2>1, <2>3, <2>6, <2>7, <2>8, <2>9 DEF OwnerInv
<1> QED
    BY <1>2, <1>3, <1>4, <1>5 DEF IInv

(* A step of the controller. *)
LEMMA ClientKeeps ==
    ASSUME IInv, NEW c \in Clients, Client(c)
    PROVE  IInv'
<1>1. FilterInv /\ SupervisorInv /\ QueueTypeOK /\ OwnerInv /\ FirewallTypeOK
    BY DEF IInv, FilterInv
<1>2. local[c].cfg \in FirewallConfigs /\ local[c].prev \in FirewallConfigs
    BY <1>1 DEF OwnerInv, ClientTypeOK
<1>3. ASSUME NEW typ \in Types, NEW op \in {"attach", "replace"}, NEW named \in Named, NEW req \in Configs,
             AttachCreate(c, typ, op, named, req)
      PROVE  IInv'
    <2>1. UNCHANGED <<now, fwVars, supVars, mtu, inbox, outbox>>
        BY <1>3 DEF AttachCreate
    <2> QED
        BY <1>1, <1>3, <2>1, FilterFrame, SupervisorFrame, QueueFrame, AttachCreateOwner DEF IInv
<1>11. ASSUME NEW typ \in Types, AttachRejected(c, typ)
       PROVE  IInv'
    <2>1. UNCHANGED <<now, fwVars, supVars, mtu, inbox, outbox>>
        BY <1>11 DEF AttachRejected
    <2> QED
        BY <1>1, <1>11, <2>1, FilterFrame, SupervisorFrame, QueueFrame, AttachRejectedOwner DEF IInv
<1>4. CASE AttachSubmit(c)
    <2>1. SetConfig(local[c].cfg) /\ UNCHANGED <<now, supVars, mtu, inbox, outbox>>
        BY <1>4 DEF AttachSubmit, sessVars
    <2> QED
        BY <1>1, <1>2, <1>4, <2>1, SetConfigKeeps, SupervisorFrame, QueueFrame, AttachSubmitOwner DEF IInv
<1>5. CASE AttachDone(c)
    <2>1. UNCHANGED <<now, fwVars, supVars, mtu, inbox, outbox>>
        BY <1>5 DEF AttachDone, tunVars, sessVars
    <2> QED
        BY <1>1, <1>5, <2>1, FilterFrame, SupervisorFrame, QueueFrame, AttachDoneOwner DEF IInv
<1>6. CASE AttachFailed(c)
    <2>1. SetConfig(local[c].prev) /\ UNCHANGED <<now, supVars, mtu, inbox, outbox>>
        BY <1>6 DEF AttachFailed
    <2> QED
        BY <1>1, <1>2, <1>6, <2>1, SetConfigKeeps, SupervisorFrame, QueueFrame, AttachFailedOwner DEF IInv
<1>7. ASSUME NEW op \in {"detach", "stop"}, BeginDetach(c, op)
      PROVE  IInv'
    <2>1. UNCHANGED <<now, fwVars, supVars, mtu, inbox, outbox>>
        BY <1>7 DEF BeginDetach, sessVars
    <2> QED
        BY <1>1, <1>7, <2>1, FilterFrame, SupervisorFrame, QueueFrame, BeginDetachOwner DEF IInv
<1>8. CASE DetachDone(c)
    <2>1. UNCHANGED <<now, fwVars, supVars, mtu, inbox, outbox>>
        BY <1>8 DEF DetachDone, tunVars, sessVars
    <2> QED
        BY <1>1, <1>8, <2>1, FilterFrame, SupervisorFrame, QueueFrame, DetachDoneOwner DEF IInv
<1>9. ASSUME NEW new \in Configs, NEW whole \in BOOLEAN, FirewallRead(c, new, whole)
      PROVE  IInv'
    <2>1. UNCHANGED <<now, fwVars, supVars, mtu, inbox, outbox>>
        BY <1>9 DEF FirewallRead, sessVars
    <2> QED
        BY <1>1, <1>9, <2>1, FilterFrame, SupervisorFrame, QueueFrame, FirewallReadOwner DEF IInv
<1>10. CASE SetFirewall(c)
    <2>1. SetConfig(local[c].cfg) /\ UNCHANGED <<now, supVars, mtu, inbox, outbox>>
        BY <1>10 DEF SetFirewall, tunVars, sessVars
    <2> QED
        BY <1>1, <1>2, <1>10, <2>1, SetConfigKeeps, SupervisorFrame, QueueFrame, SetFirewallOwner DEF IInv
<1> QED
    BY <1>3, <1>4, <1>5, <1>6, <1>7, <1>8, <1>9, <1>10, <1>11 DEF Client

(* A step of the supervisor for a request. *)
LEMMA ServeKeeps ==
    ASSUME IInv, NEW c \in Clients, Serve(c), UNCHANGED ctlVars
    PROVE  IInv'
<1>1. FilterInv /\ SupervisorInv /\ QueueTypeOK /\ OwnerInv
    BY DEF IInv
<1>2. CASE handleAttach(c)
    <2>1. PICK d \in Devices : d = call[c].dev
        BY <1>1, <1>2, CalledFacts DEF handleAttach, Attached, Accepted, Fresh
    <2>2. PICK m \in SessionMTUs : m = getSupportedMTU(DeviceMTU[d])
        BY MTUTypes
    <2>3. /\ mtu' = [mtu EXCEPT ![d] = m] /\ UNCHANGED <<now, fwVars, hand, inbox, outbox>>
          /\ current' = d /\ enabled' = TRUE /\ mode' = "attached" /\ rwcMTU' = SetMTU(m)
        BY <1>2, <2>1, <2>2 DEF handleAttach, Attached
    <2> QED
        BY <1>1, <1>2, <2>3, FilterFrame, AttachedKeeps, QueueFrame, handleAttachOwner DEF IInv
<1>3. CASE refuseAttach(c)
    <2>1. UNCHANGED <<now, fwVars, supVars, mtu, inbox, outbox>>
        BY <1>3 DEF refuseAttach, sessVars
    <2> QED
        BY <1>1, <1>3, <2>1, FilterFrame, SupervisorFrame, QueueFrame, refuseAttachOwner DEF IInv
<1>4. CASE Detach(c) \/ Stop(c)
    <2>1. PICK next \in {"detached", "stopped"} : detachCurrent(next)
        BY <1>4 DEF Detach, Stop
    <2>2. /\ DetachTo(next) /\ UNCHANGED <<now, fwVars, mtu, inbox, outbox>>
          /\ call[c] # NoCall /\ call[c].op \in {"detach", "stop"} /\ Answer(c, "ok") /\ hand = NoPacket
        BY <1>4, <2>1 DEF Detach, Stop, detachCurrent, Accepted, Supervising
    <2> QED
        BY <1>1, <2>1, <2>2, FilterFrame, DetachToKeeps, QueueFrame, DetachOwner DEF IInv
<1>5. CASE AlreadyStopped(c)
    <2>1. UNCHANGED <<now, fwVars, supVars, mtu, inbox, outbox>>
        BY <1>5 DEF AlreadyStopped, sessVars
    <2> QED
        BY <1>1, <1>5, <2>1, FilterFrame, SupervisorFrame, QueueFrame, AlreadyStoppedOwner DEF IInv
<1> QED
    BY <1>2, <1>3, <1>4, <1>5 DEF Serve

(* A step of a session. *)
LEMMA SessionKeeps ==
    ASSUME IInv, NEW d \in Devices, Session(d), UNCHANGED ctlVars
    PROVE  IInv'
<1>1. FilterInv /\ SupervisorInv /\ QueueTypeOK /\ OwnerInv
    BY DEF IInv
<1>2. ASSUME NEW p \in Packets, readPacket(d, p)
      PROVE  IInv'
    <2>1. /\ UNCHANGED <<now, fwVars, supVars, mtu, sessionOwner, reportCh, clientOwner, inbox>>
          /\ outbox' = [outbox EXCEPT ![d] = p]
        BY <1>2 DEF readPacket, SessionStep, supVars, sessionOwner, clientOwner, ctlVars
    <2> QED
        BY <1>1, <2>1, FilterFrame, SupervisorFrame, outboxQueues, OwnerFrame DEF IInv
<1>3. CASE forwardPacket(d)
    <2>1. PICK p \in Packets : p = outbox[d]
        BY <1>1, <1>3 DEF forwardPacket, QueueTypeOK
    <2>2. /\ UNCHANGED <<now, fw, supVars, mtu, sessionOwner, reportCh, clientOwner, inbox>>
          /\ flows' = AllowOutgoing(p).flows /\ used' = UsedByOut(p)
          /\ outbox' = [outbox EXCEPT ![d] = NoPacket]
        BY <1>3, <2>1 DEF forwardPacket, SessionStep, supVars, sessionOwner, clientOwner, ctlVars
    <2> QED
        BY <1>1, <2>2, OutgoingKeeps, SupervisorFrame, outboxQueues, OwnerFrame DEF IInv
<1>4. CASE writePacket(d)
    <2>1. UNCHANGED <<now, fwVars, supVars, mtu, sessionOwner, reportCh, clientOwner>>
        BY <1>4 DEF writePacket, SessionStep, supVars, sessionOwner, clientOwner, ctlVars
    <2> QED
        BY <1>1, <1>4, <2>1, FilterFrame, SupervisorFrame, writePacketQueues, OwnerFrame DEF IInv
<1>5. CASE stopSession(d)
    <2>1. UNCHANGED <<now, fwVars, supVars, mtu>>
        BY <1>5 DEF stopSession, SessionStep
    <2> QED
        BY <1>1, <1>5, <2>1, FilterFrame, SupervisorFrame, stopSessionQueues, stopSessionOwner DEF IInv
<1>6. ASSUME NEW l \in Loops, loopFails(d, l)
      PROVE  IInv'
    <2>1. UNCHANGED <<now, fwVars, supVars, mtu, inbox, outbox>>
        BY <1>6 DEF loopFails, SessionStep
    <2> QED
        BY <1>1, <1>6, <2>1, FilterFrame, SupervisorFrame, QueueFrame, loopFailsOwner DEF IInv
<1>7. ASSUME NEW l \in Loops, sendReport(d, l)
      PROVE  IInv'
    <2>1. UNCHANGED <<now, fwVars, supVars, mtu, inbox, outbox>>
        BY <1>7 DEF sendReport, SessionStep
    <2> QED
        BY <1>1, <1>7, <2>1, FilterFrame, SupervisorFrame, QueueFrame, sendReportOwner DEF IInv
<1>8. ASSUME NEW e \in Events, deviceEvent(d, e)
      PROVE  IInv'
    <2>1. UNCHANGED <<now, fwVars, supVars, mtu, inbox, outbox>>
        BY <1>8 DEF deviceEvent, SessionStep
    <2> QED
        BY <1>1, <1>8, <2>1, FilterFrame, SupervisorFrame, QueueFrame, deviceEventOwner DEF IInv
<1>9. ASSUME NEW how \in {"broken", "eof"}, deviceFails(d, how)
      PROVE  IInv'
    <2>1. UNCHANGED <<now, fwVars, supVars, mtu, inbox, outbox>>
        BY <1>9 DEF deviceFails, SessionStep
    <2> QED
        BY <1>1, <1>9, <2>1, FilterFrame, SupervisorFrame, QueueFrame, deviceFailsOwner DEF IInv
<1> QED
    BY <1>2, <1>3, <1>4, <1>5, <1>6, <1>7, <1>8, <1>9 DEF Session

LEMMA AdapterKeeps ==
    ASSUME IInv, Adapter, UNCHANGED ctlVars
    PROVE  IInv'
<1>1. FilterInv /\ SupervisorInv /\ QueueTypeOK /\ OwnerInv
    BY DEF IInv
<1>2. CASE handleReport
    <2>1. UNCHANGED <<now, fwVars, inbox, outbox>> /\ reportCh \in Seq(Report)
        BY <1>1, <1>2 DEF handleReport, OwnerInv, SessionTypeOK
    <2> QED
        BY <1>1, <1>2, <2>1, FilterFrame, ReportKeeps, QueueFrame, handleReportOwner DEF IInv
<1>3. ASSUME NEW p \in Packets, routePacket(p)
      PROVE  IInv'
    <2>1. /\ UNCHANGED <<now, fw, mode, enabled, current, rwcMTU, mtu, inbox, outbox>>
          /\ UNCHANGED <<sessionOwner, reportCh, clientOwner>>
          /\ flows' = AllowIncoming(p).flows
          /\ used' = IF AllowIncoming(p).ok THEN UsedByIn(p) ELSE used
        BY <1>3 DEF routePacket, sessVars, sessionOwner, clientOwner, ctlVars
    <2>2. hand' \in Packets \cup {NoPacket} /\ current # NoDevice
        BY <1>3 DEF routePacket, Deliverable
    <2> QED
        BY <1>1, <2>1, <2>2, IncomingKeeps, HandKeeps, QueueFrame, OwnerFrame DEF IInv
<1>5. CASE enqueuePacket
    <2>1. UNCHANGED <<now, fwVars, mode, enabled, current, rwcMTU, mtu, sessionOwner, reportCh, clientOwner>>
          /\ hand' = NoPacket
        BY <1>5 DEF enqueuePacket, sessionOwner, clientOwner, ctlVars
    <2> QED
        BY <1>1, <1>5, <2>1, FilterFrame, HandKeeps, enqueuePacketQueues, OwnerFrame DEF IInv, SupervisorInv
<1>4. CASE Clock
    <2>1. Tick /\ UNCHANGED <<fwVars, supVars, mtu, inbox, outbox, sessionOwner, reportCh, clientOwner>>
        BY <1>4 DEF Clock, sessVars, supVars, sessionOwner, clientOwner, ctlVars
    <2> QED
        BY <1>1, <2>1, TickKeeps, SupervisorFrame, QueueFrame, OwnerFrame DEF IInv
<1> QED
    BY <1>2, <1>3, <1>4, <1>5, SessionKeeps DEF Adapter

LEMMA NextIInv == IInv /\ [Next]_vars => IInv'
<1> SUFFICES ASSUME IInv, [Next]_vars PROVE IInv'
    OBVIOUS
<1>1. CASE UNCHANGED vars
    <2>1. UNCHANGED <<now, fwVars, supVars, mtu, inbox, outbox, sessionOwner, reportCh, clientOwner>>
        BY <1>1 DEF vars, tunVars, sessVars, supVars, ctlVars, sessionOwner, clientOwner
    <2> QED
        BY <2>1, FilterFrame, SupervisorFrame, QueueFrame, OwnerFrame DEF IInv
<1>2. CASE Next
    BY <1>2, ClientKeeps, ServeKeeps, AdapterKeeps DEF Next
<1> QED
    BY <1>1, <1>2

LEMMA Invariance == Spec => []IInv
BY InitIInv, NextIInv, PTL DEF Spec

-----------------------------------------------------------------------------
(***************************************************************************)
(* Theorem.  Every variable has its type: the flow table holds expiry      *)
(* times, the queues of a session hold at most QueueCap packets, reportCh  *)
(* at most ReportCap reports, and the mode is "attached" exactly when a    *)
(* session is.                                                             *)
(***************************************************************************)
THEOREM TypeCorrect == Spec => []TypeOK
<1>1. IInv => TypeOK
    BY DEF IInv, TypeOK, FilterInv, SupervisorInv, OwnerInv
<1> QED
    BY <1>1, Invariance, PTL

(***************************************************************************)
(* Theorem.  No device is left open with nobody to close it, whichever way *)
(* attaches, replacements, failures and Stop interleave (attachDevice and  *)
(* stopSession).                                                           *)
(***************************************************************************)
THEOREM NoDeviceLeaks == Spec => []NoLeakedDevice
<1>1. IInv => NoLeakedDevice
    BY DEF IInv, OwnerInv
<1> QED
    BY <1>1, Invariance, PTL

(***************************************************************************)
(* Theorem.  The MTU that handleReport, handleAttach and detachCurrent     *)
(* give to the node is that of the attached session.                       *)
(***************************************************************************)
THEOREM MTUFollowsSession == Spec => []MTUInStep
<1>1. IInv => MTUInStep
    BY DEF IInv, SupervisorInv
<1> QED
    BY <1>1, Invariance, PTL

(* Only routePacket takes a packet, and only enqueuePacket lays it down.   *)
LEMMA HandSteps ==
    ASSUME IInv, Next
    PROVE  \/ UNCHANGED hand /\ (hand # NoPacket => UNCHANGED current)
           \/ \E p \in Packets : routePacket(p)
           \/ enqueuePacket
<1>1. ASSUME NEW c \in Clients, Client(c) PROVE UNCHANGED <<hand, current>>
    BY <1>1 DEF Client, AttachCreate, AttachRejected, AttachSubmit, AttachDone, AttachFailed, BeginDetach,
                DetachDone, FirewallRead, SetFirewall, tunVars, supVars
<1>2. ASSUME NEW c \in Clients, Serve(c) PROVE UNCHANGED hand /\ (hand # NoPacket => UNCHANGED current)
    BY <1>2 DEF Serve, handleAttach, Attached, refuseAttach, Detach, Stop, AlreadyStopped, Accepted, Supervising,
                detachCurrent, DetachTo, supVars
<1>3. ASSUME NEW d \in Devices, Session(d) PROVE UNCHANGED <<hand, current>>
    BY <1>3 DEF Session, readPacket, forwardPacket, writePacket, stopSession, loopFails, sendReport,
                deviceEvent, deviceFails, SessionStep, supVars
<1>4. CASE handleReport
    BY <1>4 DEF handleReport, DetachTo, Supervising, supVars
<1>5. CASE Clock
    BY <1>5 DEF Clock, supVars
<1> QED
    BY <1>1, <1>2, <1>3, <1>4, <1>5 DEF Next, Adapter

(* A queue grows only by enqueuePacket. *)
LEMMA QueueSteps ==
    ASSUME IInv, Next, NEW d \in Devices, NEW p \in Packets, inbox'[d] = Append(inbox[d], p)
    PROVE  enqueuePacket
<1>1. inbox \in [Devices -> Seq(Packets)]
    BY DEF IInv, QueueTypeOK
<1>2. inbox[d] \in Seq(Packets)
    BY <1>1
<1>3. Len(inbox'[d]) = Len(inbox[d]) + 1
    BY <1>2
<1>4. inbox' # inbox
    BY <1>2, <1>3
<1>5. ASSUME NEW c \in Clients, Client(c) PROVE FALSE
    BY <1>4, <1>5 DEF Client, AttachCreate, AttachRejected, AttachSubmit, AttachDone, AttachFailed, BeginDetach,
                      DetachDone, FirewallRead, SetFirewall, tunVars, sessVars
<1>6. ASSUME NEW c \in Clients, Serve(c) PROVE FALSE
    BY <1>4, <1>6 DEF Serve, handleAttach, Attached, refuseAttach, Detach, Stop, AlreadyStopped,
                      detachCurrent, sessVars
<1>7. ASSUME NEW e \in Devices, Session(e) PROVE FALSE
    <2>1. CASE writePacket(e)
        <3>1. inbox[e] # <<>> /\ inbox' = [inbox EXCEPT ![e] = Tail(inbox[e])]
            BY <2>1 DEF writePacket
        <3>2. inbox[e] \in Seq(Packets)
            BY <1>1
        <3>3. Len(Tail(inbox[e])) < Len(inbox[e])
            BY <3>1, <3>2
        <3>4. e = d /\ inbox'[d] = Tail(inbox[e])
            BY <1>1, <1>2, <1>3, <3>1
        <3> QED
            BY <1>2, <1>3, <3>3, <3>4
    <2>2. CASE stopSession(e)
        <3>1. inbox' = [inbox EXCEPT ![e] = <<>>]
            BY <2>2 DEF stopSession
        <3>2. e = d /\ inbox'[d] = <<>>
            BY <1>1, <1>2, <1>3, <3>1
        <3> QED
            BY <1>2, <1>3, <3>2
    <2>3. CASE ~writePacket(e) /\ ~stopSession(e)
        BY <1>4, <1>7, <2>3 DEF Session, readPacket, forwardPacket, loopFails, sendReport,
                                deviceEvent, deviceFails
    <2> QED
        BY <2>1, <2>2, <2>3
<1>8. ~handleReport /\ ~Clock /\ \A q \in Packets : ~routePacket(q)
    BY <1>4 DEF handleReport, Clock, routePacket, sessVars
<1> QED
    BY <1>5, <1>6, <1>7, <1>8 DEF Next, Adapter

(***************************************************************************)
(* Theorem.  With the firewall on, routePacket takes only a packet that is *)
(* solicited when the firewall decides, and the queue gets that packet for *)
(* the session attached then, whatever admin handlers do in between.       *)
(***************************************************************************)
THEOREM OnlySolicited == Spec => NoUnsolicited
<1> DEFINE Taken == hand' \notin {hand, NoPacket} /\ fw.enabled => Solicited(hand')
           Held == hand # NoPacket => current' = current /\ hand' \in {hand, NoPacket}
           Queued == \A d \in Devices, p \in Packets :
                       inbox'[d] = Append(inbox[d], p) => d = current /\ p = hand
<1>1. ASSUME IInv, Next PROVE Taken /\ Held
    <2>1. CASE UNCHANGED hand /\ (hand # NoPacket => UNCHANGED current)
        BY <2>1
    <2>2. CASE enqueuePacket
        BY <2>2 DEF enqueuePacket
    <2>3. ASSUME NEW p \in Packets, routePacket(p) PROVE Taken /\ Held
        <3>1. hand = NoPacket /\ UNCHANGED fw /\ hand' = IF AllowIncoming(p).ok THEN p ELSE NoPacket
            BY <2>3 DEF routePacket, Supervising
        <3>2. ASSUME hand' # NoPacket, fw.enabled PROVE hand' = p /\ Solicited(p)
            BY <1>1, <3>1, <3>2, AllowedIsSolicited DEF IInv
        <3>3. ASSUME hand' # NoPacket, fw.enabled PROVE Solicited(hand')
            BY <3>2, <3>3
        <3> QED
            BY <3>1, <3>3
    <2> HIDE DEF Taken, Held
    <2> QED
        BY <1>1, <2>1, <2>2, <2>3, HandSteps
<1>2. ASSUME IInv, Next PROVE Queued
    <2> SUFFICES ASSUME NEW d \in Devices, NEW p \in Packets, inbox'[d] = Append(inbox[d], p)
                 PROVE  d = current /\ p = hand
        OBVIOUS
    <2>1. enqueuePacket
        BY <1>2, QueueSteps
    <2>2. inbox \in [Devices -> Seq(Packets)] /\ inbox[d] \in Seq(Packets)
        BY <1>2 DEF IInv, QueueTypeOK
    <2>3. current \in Devices /\ hand \in Packets
        BY <1>2, <2>1 DEF IInv, SupervisorInv, SupervisorTypeOK, enqueuePacket
    <2>4. Len(inbox'[d]) = Len(inbox[d]) + 1 /\ inbox'[d][Len(inbox[d]) + 1] = p
        BY <2>2
    <2>5. inbox' = [inbox EXCEPT ![current] = Append(inbox[current], hand)]
        BY <2>1, <2>2, <2>4 DEF enqueuePacket
    <2>6. d = current /\ inbox'[d] = Append(inbox[d], hand)
        BY <2>2, <2>3, <2>4, <2>5
    <2> QED
        BY <2>2, <2>3, <2>4, <2>6
<1>3. IInv /\ [Next]_vars => [Taken /\ Held /\ Queued]_vars
    BY <1>1, <1>2
<1> QED
    BY <1>3, Invariance, PTL DEF Spec, NoUnsolicited

-----------------------------------------------------------------------------
(***************************************************************************)
(* The adapter keeps its promise: each step is a step of TunPromise, or    *)
(* changes nothing that its callers see.                                   *)
(***************************************************************************)
Failed == current # NoDevice /\ device[current] = "broken"
PromiseVars == <<current, mode, Failed, call>>

LEMMA InitPromise == Init => Promise!Init
<1> SUFFICES ASSUME Init PROVE Promise!Init
    OBVIOUS
<1>1. current \in Devices \cup {NoDevice} /\ mode = IF current = NoDevice THEN "detached" ELSE "attached"
    BY TunAssumption DEF Init, TunInit
<1>2. Failed = FALSE
    BY <1>1 DEF Init, TunInit, Failed
<1> QED
    BY <1>1, <1>2 DEF Init, TunInit, Failed, Promise!Init

LEMMA ClientPromise ==
    ASSUME IInv, NEW c \in Clients, Client(c)
    PROVE  (\E k \in Promise!Calls : Promise!Invoke(c, k)) \/ UNCHANGED PromiseVars
<1>1. OwnerInv
    BY DEF IInv
<1>2. ASSUME NEW typ \in Types, NEW op \in {"attach", "replace"}, NEW named \in Named, NEW req \in Configs,
             AttachCreate(c, typ, op, named, req)
      PROVE  UNCHANGED PromiseVars
    <2>1. PICK d \in Devices : device[d] = "none" /\ device' = [device EXCEPT ![d] = "open"]
        BY <1>2 DEF AttachCreate, Creates
    <2>2. d # current /\ UNCHANGED <<current, mode, call>>
        BY <1>1, <1>2, <2>1 DEF OwnerInv, DevicesOK, DeviceOK, AttachCreate, supVars
    <2> QED
        BY <1>1, <2>1, <2>2 DEF PromiseVars, Failed, OwnerInv, SessionTypeOK
<1>8. ASSUME NEW typ \in Types, AttachRejected(c, typ)
      PROVE  UNCHANGED PromiseVars
    <2>1. PICK d \in Devices : device[d] = "none" /\ device' = [device EXCEPT ![d] = "closed"]
        BY <1>8 DEF AttachRejected, Creates
    <2>2. d # current /\ UNCHANGED <<current, mode, call>>
        BY <1>1, <1>8, <2>1 DEF OwnerInv, DevicesOK, DeviceOK, AttachRejected, supVars
    <2> QED
        BY <1>1, <2>1, <2>2 DEF PromiseVars, Failed, OwnerInv, SessionTypeOK
<1>3. CASE AttachSubmit(c)
    <2> DEFINE k == [op |-> local[c].op, dev |-> local[c].dev]
    <2>1. UNCHANGED <<current, mode, device>> /\ pc[c] = "created"
        BY <1>3 DEF AttachSubmit, supVars, sessVars
    <2>2. call[c] = NoCall /\ k \in Promise!Calls
        BY <1>1, <2>1 DEF OwnerInv, ClientsOK, ClientOK, ClientTypeOK, Promise!Calls
    <2>3. UNCHANGED call \/ call' = [call EXCEPT ![c] = k]
        BY <1>3 DEF AttachSubmit
    <2> HIDE DEF k
    <2> QED
        BY <2>1, <2>2, <2>3 DEF PromiseVars, Failed, Promise!Invoke
<1>4. ASSUME NEW op \in {"detach", "stop"}, BeginDetach(c, op)
      PROVE  \E k \in Promise!Calls : Promise!Invoke(c, k)
    <2> DEFINE k == [op |-> op, dev |-> NoDevice]
    <2>1. UNCHANGED <<current, mode, device>> /\ pc[c] = "idle" /\ call' = [call EXCEPT ![c] = k]
        BY <1>4 DEF BeginDetach, supVars, sessVars
    <2>2. call[c] = NoCall /\ k \in Promise!Calls
        BY <1>1, <2>1 DEF OwnerInv, ClientsOK, ClientOK, Promise!Calls
    <2> HIDE DEF k
    <2> QED
        BY <2>1, <2>2 DEF Promise!Invoke
<1>5. CASE AttachFailed(c)
    <2>1. PICK d \in Devices : d = local[c].dev /\ Fresh(d)
        BY <1>1, <1>5 DEF AttachFailed, OwnerInv, ClientsOK, ClientOK, Offers, Fresh, NotRunning
    <2>2. device' = [device EXCEPT ![d] = "closed"] /\ d # current /\ UNCHANGED <<current, mode, call>>
        BY <1>5, <2>1 DEF AttachFailed, Fresh, supVars
    <2> QED
        BY <1>1, <2>2 DEF PromiseVars, Failed, OwnerInv, SessionTypeOK
<1>6. CASE AttachDone(c) \/ DetachDone(c) \/ SetFirewall(c)
    BY <1>6 DEF AttachDone, DetachDone, SetFirewall, tunVars, supVars, sessVars, PromiseVars, Failed
<1>7. ASSUME NEW new \in Configs, NEW whole \in BOOLEAN, FirewallRead(c, new, whole)
      PROVE  UNCHANGED PromiseVars
    BY <1>7 DEF FirewallRead, supVars, sessVars, PromiseVars, Failed
<1> QED
    BY <1>2, <1>3, <1>4, <1>5, <1>6, <1>7, <1>8 DEF Client

LEMMA ServePromise ==
    ASSUME IInv, NEW c \in Clients, Serve(c)
    PROVE  Promise!Effect(c) \/ Promise!Refuse(c)
<1>1. OwnerInv
    BY DEF IInv
<1>2. CASE handleAttach(c)
    <2>1. /\ mode # "stopped" /\ call[c] # NoCall /\ call[c].op \in {"attach", "replace"}
          /\ call[c].op = "attach" => current = NoDevice
          /\ current' = call[c].dev /\ mode' = "attached" /\ UNCHANGED device
          /\ call' = [call EXCEPT ![c] = NoCall]
        BY <1>2 DEF handleAttach, Attached, Accepted, Supervising, Answer
    <2>2. device'[current'] = "open"
        BY <1>1, <2>1, CalledFacts DEF Fresh
    <2> QED
        BY <2>1, <2>2 DEF Promise!Effect
<1>3. CASE Detach(c) \/ Stop(c)
    <2>1. /\ mode # "stopped" /\ call[c] # NoCall /\ current' = NoDevice
          /\ call' = [call EXCEPT ![c] = NoCall]
          /\ \/ call[c].op = "detach" /\ mode' = "detached"
             \/ call[c].op = "stop" /\ mode' = "stopped"
        BY <1>3 DEF Detach, Stop, Accepted, Supervising, Answer, detachCurrent, DetachTo
    <2> QED
        BY <2>1 DEF Promise!Effect
<1>4. CASE refuseAttach(c) \/ AlreadyStopped(c)
    <2>1. /\ UNCHANGED <<current, mode, device>> /\ call[c] # NoCall
          /\ call' = [call EXCEPT ![c] = NoCall]
          /\ mode = "stopped" \/ (call[c].op = "attach" /\ current # NoDevice)
        BY <1>4 DEF refuseAttach, AlreadyStopped, Accepted, Supervising, Answer, supVars, sessVars
    <2> QED
        BY <2>1 DEF Promise!Refuse
<1> QED
    BY <1>2, <1>3, <1>4 DEF Serve

LEMMA AdapterPromise ==
    ASSUME IInv, Adapter
    PROVE  Promise!Fail \/ Promise!DropFailed \/ UNCHANGED PromiseVars
<1>1. OwnerInv
    BY DEF IInv
<1>2. CASE handleReport
    <2> DEFINE r == Head(reportCh)
    <2>1. CASE r.dev = current /\ r.kind = "error" /\ DetachTo("detached")
        <3>1. reportCh \in Seq(Report) /\ reportCh # <<>>
            BY <1>1, <1>2 DEF handleReport, OwnerInv, SessionTypeOK
        <3>2. r = reportCh[1] /\ 1 \in 1 .. Len(reportCh) /\ r \in Report
            BY <3>1
        <3>3. current \in Devices /\ device[current] \in {"broken", "closed"}
            BY <1>1, <2>1, <3>2 DEF OwnerInv, ErrorsReal, Report
        <3>4. device[current] = "broken"
            BY <1>1, <3>3 DEF OwnerInv, DevicesOK, DeviceOK
        <3>5. current # NoDevice /\ current' = NoDevice /\ mode' = "detached" /\ UNCHANGED call
            BY <1>2, <2>1, <3>3, TunAssumption DEF handleReport, DetachTo
        <3> QED
            BY <3>4, <3>5 DEF Promise!DropFailed
    <2>2. CASE UNCHANGED <<current, mode>>
        <3>1. UNCHANGED <<device, call>>
            BY <1>2 DEF handleReport
        <3> QED
            BY <2>2, <3>1 DEF PromiseVars, Failed
    <2> HIDE DEF r
    <2> QED
        BY <1>2, <2>1, <2>2 DEF handleReport, supVars, r
<1>3. ASSUME NEW p \in Packets, routePacket(p) PROVE UNCHANGED PromiseVars
    BY <1>3 DEF routePacket, sessVars, PromiseVars, Failed
<1>8. CASE enqueuePacket
    BY <1>8 DEF enqueuePacket, PromiseVars, Failed
<1>4. CASE Clock
    BY <1>4 DEF Clock, supVars, sessVars, PromiseVars, Failed
<1>5. ASSUME NEW d \in Devices, NEW how \in {"broken", "eof"}, deviceFails(d, how)
      PROVE  Promise!Fail \/ UNCHANGED PromiseVars
    <2>1. /\ device[d] = "open" /\ device' = [device EXCEPT ![d] = how]
          /\ UNCHANGED <<current, mode, call>>
        BY <1>5 DEF deviceFails, SessionStep, supVars
    <2>2. device'[d] = how /\ \A e \in Devices : e # d => device'[e] = device[e]
        BY <1>1, <2>1 DEF OwnerInv, SessionTypeOK
    <2>3. current \in Devices \cup {NoDevice}
        BY <1>1 DEF OwnerInv
    <2>4. CASE d = current /\ how = "broken"
        BY <2>1, <2>2, <2>4, TunAssumption DEF Promise!Fail
    <2>5. CASE ~(d = current /\ how = "broken")
        BY <2>1, <2>2, <2>3, <2>5 DEF PromiseVars, Failed
    <2> QED
        BY <2>4, <2>5
<1>6. ASSUME NEW d \in Devices, stopSession(d) PROVE UNCHANGED PromiseVars
    <2>1. /\ stopping[d] = "asked" /\ device' = [device EXCEPT ![d] = "closed"]
          /\ UNCHANGED <<current, mode, call>>
        BY <1>6 DEF stopSession, SessionStep, supVars
    <2>2. d # current
        BY <1>1, <2>1 DEF OwnerInv, DevicesOK, DeviceOK
    <2> QED
        BY <1>1, <2>1, <2>2 DEF PromiseVars, Failed, OwnerInv, SessionTypeOK
<1>7. ASSUME NEW d \in Devices, Session(d), ~stopSession(d), \A how \in {"broken", "eof"} : ~deviceFails(d, how)
      PROVE  UNCHANGED PromiseVars
    BY <1>7 DEF Session, readPacket, forwardPacket, writePacket, loopFails, sendReport, deviceEvent,
                SessionStep, supVars, PromiseVars, Failed
<1> QED
    BY <1>2, <1>3, <1>4, <1>5, <1>6, <1>7, <1>8 DEF Adapter

(***************************************************************************)
(* Theorem.  The adapter implements TunPromise: every attach, replace,     *)
(* detach and stop takes effect once, at one moment, and handleReport      *)
(* detaches only a device that has itself failed.                          *)
(***************************************************************************)
THEOREM AdapterKeepsPromise == Spec => KeepsPromise
<1>1. IInv /\ [Next]_vars => [Promise!Next]_(Promise!vars)
    <2> SUFFICES ASSUME IInv, [Next]_vars PROVE Promise!Next \/ UNCHANGED Promise!vars
        OBVIOUS
    <2>1. UNCHANGED PromiseVars => UNCHANGED Promise!vars
        BY DEF PromiseVars, Failed, Promise!vars
    <2>2. CASE UNCHANGED vars
        BY <2>1, <2>2 DEF vars, tunVars, supVars, sessVars, PromiseVars, Failed
    <2>3. CASE Next
        BY <2>1, <2>3, ClientPromise, ServePromise, AdapterPromise DEF Next, Promise!Next
    <2> QED
        BY <2>2, <2>3
<1> QED
    BY <1>1, InitPromise, Invariance, PTL DEF Spec, KeepsPromise, Promise!Spec
=============================================================================
