--------------------------- MODULE TunController ----------------------------
(***************************************************************************)
(* The daemon's TUN controller (yggd/yggd/main.go, daemonTunController),   *)
(* driven by the admin handlers (ygglib/admin/adapters.go), each of which  *)
(* runs in the goroutine of its admin connection, composed with the        *)
(* adapter and its firewall.                                               *)
(*                                                                         *)
(* Attach creates a device, installs the firewall configuration of the new *)
(* attachment, asks the adapter, and on failure puts the previous          *)
(* configuration back and closes the device.  Nothing serialises two       *)
(* calls.                                                                  *)
(***************************************************************************)
EXTENDS Tun

CONSTANTS
    Types,        \* TUN types that requests name
    Named         \* firewall fields that an attach request may name

ASSUME NamedAssumption == Named \subseteq SUBSET ({"enabled"} \cup Transports)

VARIABLES
    pc,           \* where the call of each client is
    local,        \* its device, whether it replaces, its firewall
                  \* configuration and the one it saved
    cfgFirewall,  \* cfg.TunFirewall: whether Enabled is set, and the values
    kind,         \* type of each device
    activeSocks   \* the sockstun or outproxy device of the last attach

ctlVars == <<pc, local, cfgFirewall, kind, activeSocks>>
vars == <<now, fwVars, tunVars, ctlVars>>

NoConfig == [enabled |-> FALSE, allowed |-> {}]
NoLocal == [dev |-> NoDevice, op |-> "none", cfg |-> NoConfig, prev |-> NoConfig]

(* The daemon starts detached, or has attached a native device, whose        *)
(* firewall is on, before the admin handlers are registered.                 *)
Init ==
    /\ TunInit
    /\ pc = [c \in Clients |-> "idle"]
    /\ local = [c \in Clients |-> NoLocal]
    /\ cfgFirewall = [set |-> FALSE, enabled |-> FALSE, allowed |-> {}]
    /\ activeSocks = NoDevice
    /\ kind = [d \in Devices |-> IF d = current THEN "native" ELSE "none"]
    /\ fw = [enabled |-> current # NoDevice, allowed |-> {}]

Goto(c, p) == pc' = [pc EXCEPT ![c] = p]
Return(c) == Goto(c, "idle") /\ local' = [local EXCEPT ![c] = NoLocal]

(* firewallConfigForAttach: an unset Enabled means on for a native device; *)
(* a field that the request names comes from the request.                  *)
firewallConfigForAttach(typ, named, req) ==
    [enabled |-> IF "enabled" \in named THEN req.enabled
                 ELSE IF cfgFirewall.set THEN cfgFirewall.enabled ELSE typ = "native",
     allowed |-> {a \in req.allowed : a[1] \in named}
                   \cup {a \in cfgFirewall.allowed : a[1] \notin named}]

(* The device of the requested type is created, which nobody else sees, and *)
(* the firewall configuration in force is saved; creating it may fail.      *)
Creates(d, typ) ==
    /\ \E x \in Devices : device[x] = "none"
    /\ d = CHOOSE x \in Devices : device[x] = "none"
    /\ kind' = [kind EXCEPT ![d] = typ]

AttachCreate(c, typ, op, named, req) ==
    /\ pc[c] = "idle" /\ Input
    /\ \E d \in Devices :
        /\ Creates(d, typ)
        /\ device' = [device EXCEPT ![d] = "open"]
        /\ local' = [local EXCEPT ![c] =
              [dev |-> d, op |-> op, cfg |-> firewallConfigForAttach(typ, named, req), prev |-> fw]]
    /\ Goto(c, "created")
    /\ UNCHANGED <<now, fwVars, supVars, mtu, loop, stopping, inbox, outbox, reportCh,
                   call, reply, cfgFirewall, activeSocks>>

(* A firewall field of the request does not parse: the device is closed.    *)
AttachRejected(c, typ) ==
    /\ pc[c] = "idle" /\ Input
    /\ \E d \in Devices : Creates(d, typ) /\ device' = [device EXCEPT ![d] = "closed"]
    /\ UNCHANGED <<now, fwVars, supVars, mtu, loop, stopping, inbox, outbox, reportCh,
                   call, reply, pc, local, cfgFirewall, activeSocks>>

(* The new firewall configuration is installed and the request handed to    *)
(* the supervisor, unless buildAttachSpec cannot read the device.           *)
AttachSubmit(c) ==
    /\ pc[c] = "created"
    /\ SetConfig(local[c].cfg)
    /\ \/ /\ call' = [call EXCEPT ![c] = [op |-> local[c].op, dev |-> local[c].dev]]
          /\ UNCHANGED reply
       \/ /\ reply' = [reply EXCEPT ![c] = "err"]
          /\ UNCHANGED call
    /\ Goto(c, "attaching")
    /\ UNCHANGED <<now, supVars, sessVars, reportCh, inputs, local, cfgFirewall, kind,
                   activeSocks>>

AttachDone(c) ==
    /\ pc[c] = "attaching" /\ call[c] = NoCall /\ reply[c] = "ok"
    /\ activeSocks' = IF kind[local[c].dev] = "native" THEN NoDevice ELSE local[c].dev
    /\ Return(c)
    /\ UNCHANGED <<now, fwVars, tunVars, cfgFirewall, kind>>

AttachFailed_NoClose(c) ==
    /\ pc[c] = "attaching" /\ call[c] = NoCall /\ reply[c] = "err"
    /\ SetConfig(local[c].prev)
    /\ Return(c)
    /\ UNCHANGED <<now, tunVars, cfgFirewall, kind, activeSocks>>

AttachFailed(c) ==
    /\ pc[c] = "attaching" /\ call[c] = NoCall /\ reply[c] = "err"
    /\ SetConfig(local[c].prev)
    /\ device' = [device EXCEPT ![local[c].dev] = "closed"]
    /\ Return(c)
    /\ UNCHANGED <<now, supVars, mtu, loop, stopping, inbox, outbox, reportCh, inputs, call, reply,
                   cfgFirewall, kind, activeSocks>>

(* detachTun, and attachTun of type "none"; the shutdown of the daemon.     *)
BeginDetach(c, op) ==
    /\ Input /\ pc[c] = "idle" /\ op \in {"detach", "stop"}
    /\ call' = [call EXCEPT ![c] = [op |-> op, dev |-> NoDevice]]
    /\ Goto(c, op)
    /\ UNCHANGED <<now, fwVars, supVars, sessVars, reportCh, reply, local, cfgFirewall, kind, activeSocks>>

DetachDone(c) ==
    /\ pc[c] \in {"detach", "stop"} /\ call[c] = NoCall
    /\ activeSocks' = IF pc[c] = "detach" THEN NoDevice ELSE activeSocks
    /\ Return(c)
    /\ UNCHANGED <<now, fwVars, tunVars, cfgFirewall, kind>>

(* setTunFirewall reads the configuration, changes what the request names   *)
(* and writes it back.                                                      *)
FirewallRead(c, new, whole) ==
    /\ Input /\ pc[c] = "idle"
    /\ local' = [local EXCEPT ![c].cfg = IF whole THEN new
                                         ELSE [fw EXCEPT !.enabled = new.enabled]]
    /\ Goto(c, "firewall")
    /\ UNCHANGED <<now, fwVars, supVars, sessVars, reportCh, call, reply, cfgFirewall, kind, activeSocks>>

SetFirewall(c) ==
    /\ pc[c] = "firewall"
    /\ SetConfig(local[c].cfg)
    /\ cfgFirewall' = [set |-> TRUE, enabled |-> local[c].cfg.enabled,
                       allowed |-> local[c].cfg.allowed]
    /\ Return(c)
    /\ UNCHANGED <<now, tunVars, kind, activeSocks>>

Client(c) ==
    \/ \E typ \in Types, op \in {"attach", "replace"}, named \in Named, req \in Configs :
          AttachCreate(c, typ, op, named, req)
    \/ \E typ \in Types : AttachRejected(c, typ)
    \/ AttachSubmit(c) \/ AttachDone(c) \/ AttachFailed(c)
    \/ \E op \in {"detach", "stop"} : BeginDetach(c, op)
    \/ DetachDone(c)
    \/ \E new \in Configs, whole \in BOOLEAN : FirewallRead(c, new, whole)
    \/ SetFirewall(c)

Next ==
    \/ \E c \in Clients : Client(c) \/ (Serve(c) /\ UNCHANGED ctlVars)
    \/ Adapter /\ UNCHANGED ctlVars

(***************************************************************************)
(* Goroutines that can run do run: the supervisor's select is fair to a    *)
(* request that stays ready and to reports, which packets in hand disable  *)
(* MaxInputs times at most, and so are the loops of a session.  Clients    *)
(* and devices need do nothing.                                            *)
(***************************************************************************)
Fairness ==
    /\ \A c \in Clients : WF_vars(Serve(c) /\ UNCHANGED ctlVars)
    /\ WF_vars(handleReport /\ UNCHANGED ctlVars)
    /\ WF_vars(enqueuePacket /\ UNCHANGED ctlVars)
    /\ \A d \in Devices :
        /\ WF_vars(stopSession(d) /\ UNCHANGED ctlVars)
        /\ \A l \in Loops : WF_vars(sendReport(d, l) /\ UNCHANGED ctlVars)

Spec == Init /\ [][Next]_vars /\ Fairness
-----------------------------------------------------------------------------
FirewallTypeOK ==
    /\ now \in 1 .. MaxTime /\ fw \in FirewallConfigs
    /\ flows \in [Flows -> Nat] /\ used \in [Flows -> 0 .. MaxTime]

SupervisorTypeOK ==
    /\ mode \in {"detached", "attached", "stopped"} /\ enabled \in BOOLEAN
    /\ current \in Devices \cup {NoDevice}
    /\ (mode = "attached") <=> (current # NoDevice)
    /\ hand \in Packets \cup {NoPacket} /\ (hand # NoPacket => current # NoDevice)
    /\ rwcMTU \in Nat /\ mtu \in [Devices -> {0} \cup SessionMTUs]

QueueTypeOK ==
    /\ inbox \in [Devices -> Seq(Packets)] /\ \A d \in Devices : Len(inbox[d]) <= QueueCap
    /\ outbox \in [Devices -> Packets \cup {NoPacket}]

SessionTypeOK ==
    /\ device \in [Devices -> {"none", "open", "broken", "eof", "closed"}]
    /\ loop \in [Devices -> [Loops -> {"off", "run", "done"} \cup Reports]]
    /\ stopping \in [Devices -> {"no", "asked", "stopped"}]
    /\ reportCh \in Seq(Report) /\ Len(reportCh) <= ReportCap

ClientTypeOK ==
    /\ call \in [Clients -> Request \cup {NoCall}] /\ reply \in [Clients -> {"ok", "err"}]
    /\ pc \in [Clients -> {"idle", "created", "attaching", "detach", "stop", "firewall"}]
    /\ local \in [Clients -> [dev : Devices \cup {NoDevice}, op : {"none", "attach", "replace"},
                             cfg : FirewallConfigs, prev : FirewallConfigs]]
    /\ cfgFirewall \in [set : BOOLEAN, enabled : BOOLEAN, allowed : SUBSET (Transports \X Endpoints)]
    /\ kind \in [Devices -> Types \cup {"native", "none"}]
    /\ activeSocks \in Devices \cup {NoDevice}

TypeOK ==
    FirewallTypeOK /\ SupervisorTypeOK /\ QueueTypeOK /\ SessionTypeOK /\ ClientTypeOK

(***************************************************************************)
(* Every device that is open is in the hands of the call that created it,  *)
(* of the attached session, or of a session that is being stopped:         *)
(* whichever way two attaches, a replace, a failure of the device and Stop *)
(* interleave, no device is left open with nobody to close it.             *)
(***************************************************************************)
NoLeakedDevice ==
    \A d \in Devices : device[d] \in {"open", "broken", "eof"} =>
        \/ d = current
        \/ stopping[d] = "asked"
        \/ \E c \in Clients : /\ local[c].dev = d
                              /\ pc[c] \in {"created", "attaching"}

(***************************************************************************)
(* The MTU that the node uses is that of the attached session, within the  *)
(* limits of the core: after any sequence of MTU events, replacements by a *)
(* device with another MTU and detaches nothing of an earlier session is   *)
(* left (tun.go:336, 358, 364 and 412).                                    *)
(***************************************************************************)
MTUInStep ==
    rwcMTU = SetMTU(IF current = NoDevice THEN DesiredMTU ELSE mtu[current])

(***************************************************************************)
(* With the firewall on, routePacket takes a packet only if it is          *)
(* solicited at the moment of the decision: an answer on a live flow, an   *)
(* allowed port, or ICMPv6; and what is queued is that packet, for the     *)
(* session that was attached then.  A configuration that an admin handler  *)
(* installs between decision and queue does not recall the packet.         *)
(***************************************************************************)
NoUnsolicited ==
    [][/\ hand' \notin {hand, NoPacket} /\ fw.enabled => Solicited(hand')
       /\ hand # NoPacket => current' = current /\ hand' \in {hand, NoPacket}
       /\ \A d \in Devices, p \in Packets :
            inbox'[d] = Append(inbox[d], p) => d = current /\ p = hand]_vars

(***************************************************************************)
(* The adapter implements TunPromise: each call takes effect once, at one  *)
(* moment, and a report detaches only a device that has itself failed.     *)
(***************************************************************************)
Promise == INSTANCE TunPromise WITH
    owner <- current,
    failed <- current # NoDevice /\ device[current] = "broken"

KeepsPromise == Promise!Spec

(* Every request to the adapter is answered. *)
CallsAnswered == \A c \in Clients : call[c] # NoCall ~> call[c] = NoCall

(* The loops of a detached session end while the adapter runs; after Stop    *)
(* nobody reads their reports.                                               *)
SessionsEnd ==
    \A d \in Devices : stopping[d] # "no" ~>
        mode = "stopped" \/ \A l \in Loops : loop[d][l] = "done"
=============================================================================
