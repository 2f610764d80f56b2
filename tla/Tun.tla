-------------------------------- MODULE Tun ---------------------------------
(***************************************************************************)
(* The TUN adapter (ygglib/tun/tun.go, iface.go): one supervisor goroutine *)
(* owns the attachment and takes requests, packets and reports of the      *)
(* sessions; a session runs a read, a write and an event loop, and is      *)
(* stopped by a goroutine of its own when it has been detached.            *)
(*                                                                         *)
(* A device is handed over once, so it stands for its session: `id' of     *)
(* nextSession tells apart exactly what the device does.  A request waits  *)
(* in `call' until the supervisor receives it from the unbuffered          *)
(* controlCh, or until stopCh is closed.  The read, the write and the      *)
(* closed-events report have the same effect and are one kind, "error".    *)
(***************************************************************************)
EXTENDS Firewall

CONSTANTS
    Clients, NoCall,
    Devices, NoDevice,
    MTUs, DeviceMTU,    \* what device.MTU() may return, and returns at an attach
    IfMTU, MaxMTU,      \* mtu of the adapter's configuration, and of the core
    ReportCap,    \* capacity of reportCh (64 in the code)
    QueueCap,     \* capacity of packetCh of a session (four batches)
    MaxInputs     \* bound on what the network, the devices and the clock do

Loops == {"read", "write", "event"}
Events == {"down", "up", "mtu", "mtufail"}
Reports == Events \cup {"error"}

NoPacket == [size |-> 0]

MinMTU == 1             \* 1280
getSupportedMTU(m) == IF m < MinMTU THEN MinMTU ELSE m
DesiredMTU == getSupportedMTU(IF 0 < MaxMTU /\ MaxMTU < IfMTU THEN MaxMTU ELSE IfMTU)
SessionMTUs == {getSupportedMTU(m) : m \in MTUs}

(* What rwc.SetMTU makes of an MTU. *)
SetMTU(m) == getSupportedMTU(IF m > MaxMTU THEN MaxMTU ELSE m)

Report == [dev : Devices, kind : Reports, mtu : {0} \cup SessionMTUs]
Request == [op : {"attach", "replace", "detach", "stop"}, dev : Devices \cup {NoDevice}]

ASSUME TunAssumption ==
    /\ Devices # {} /\ NoDevice \notin Devices
    /\ NoCall \notin Request /\ NoPacket \notin Packets
    /\ MTUs \subseteq Nat /\ DeviceMTU \in [Devices -> MTUs]
    /\ IfMTU \in Nat \ {0} /\ MaxMTU \in Nat
    /\ ReportCap \in Nat /\ QueueCap \in Nat /\ MaxInputs \in Nat

VARIABLES
    mode, enabled,      \* status.State and status.Enabled
    current,            \* the attached session, and currentSessionID
    rwcMTU,             \* what the last rwc.SetMTU set
    hand,               \* the packet routePacket has asked the firewall about
    device,             \* "none", "open", "broken" or "closed" for each device
    mtu,                \* mtu of each session, 0 for no limit
    loop,               \* each loop: "off", "run", "done" or a report to send
    stopping,           \* detached sessions and whether stop() has run
    inbox,              \* packetCh of each session
    outbox,             \* the packet a read loop has read and not forwarded
    reportCh,
    inputs,             \* packets, device events and ticks still to come
    call,               \* the request each client is waiting for
    reply               \* and the answer to its last one

supVars == <<mode, enabled, current, rwcMTU, hand>>
sessVars == <<device, mtu, loop, stopping, inbox, outbox>>
tunVars == <<supVars, sessVars, reportCh, inputs, call, reply>>

TunInit ==
    /\ FwInit
    /\ current \in {NoDevice, CHOOSE d \in Devices : TRUE}
    /\ enabled = (current # NoDevice)
    /\ mode = IF enabled THEN "attached" ELSE "detached"
    /\ mtu = [d \in Devices |-> IF d = current THEN getSupportedMTU(DeviceMTU[d]) ELSE 0]
    /\ rwcMTU = SetMTU(IF current = NoDevice THEN DesiredMTU ELSE mtu[current])
    /\ hand = NoPacket
    /\ device = [d \in Devices |-> IF d = current THEN "open" ELSE "none"]
    /\ loop = [d \in Devices |-> [l \in Loops |-> IF d = current THEN "run" ELSE "off"]]
    /\ stopping = [d \in Devices |-> "no"]
    /\ inbox = [d \in Devices |-> <<>>]
    /\ outbox = [d \in Devices |-> NoPacket]
    /\ reportCh = <<>> /\ inputs = MaxInputs
    /\ call = [c \in Clients |-> NoCall]
    /\ reply = [c \in Clients |-> "ok"]

Input == inputs > 0 /\ inputs' = inputs - 1

(***************************************************************************)
(* The supervisor.  While it has a packet in hand it serves nobody.        *)
(***************************************************************************)
Supervising == mode # "stopped" /\ hand = NoPacket

Answer(c, r) ==
    /\ call' = [call EXCEPT ![c] = NoCall]
    /\ reply' = [reply EXCEPT ![c] = r]

AskToStop == IF current = NoDevice THEN stopping
             ELSE [stopping EXCEPT ![current] = "asked"]

DetachTo_KeepsState(next) ==
    /\ current' = NoDevice /\ rwcMTU' = SetMTU(DesiredMTU)
    /\ stopping' = AskToStop /\ UNCHANGED <<enabled, mode, hand>>

DetachTo(next) ==
    /\ current' = NoDevice /\ enabled' = FALSE /\ mode' = next
    /\ rwcMTU' = SetMTU(DesiredMTU)
    /\ stopping' = AskToStop /\ UNCHANGED hand

detachCurrent(next) ==
    /\ DetachTo(next)
    /\ UNCHANGED <<device, mtu, loop, inbox, outbox, reportCh, inputs>>

Accepted(c) ==
    /\ Supervising /\ call[c] # NoCall
    /\ call[c].op = "attach" => current = NoDevice

(* An attach or replace that succeeds starts the three loops before the old *)
(* session is told to stop.                                                 *)
Attached(c) ==
    LET d == call[c].dev IN
    /\ Accepted(c) /\ call[c].op \in {"attach", "replace"}
    /\ loop' = [loop EXCEPT ![d] = [l \in Loops |-> "run"]]
    /\ mtu' = [mtu EXCEPT ![d] = getSupportedMTU(DeviceMTU[d])]
    /\ current' = d /\ enabled' = TRUE /\ mode' = "attached"
    /\ stopping' = AskToStop
    /\ Answer(c, "ok")
    /\ UNCHANGED <<hand, device, inbox, outbox, reportCh, inputs, now, fwVars>>

handleAttach_KeepsMTU(c) ==
    Attached(c) /\ rwcMTU' = IF current = NoDevice THEN SetMTU(mtu'[current']) ELSE rwcMTU

handleAttach(c) ==
    Attached(c) /\ rwcMTU' = SetMTU(getSupportedMTU(DeviceMTU[call[c].dev]))

refuseAttach(c) ==
    /\ call[c] # NoCall /\ call[c].op \in {"attach", "replace"}
    /\ hand = NoPacket /\ ~Accepted(c)
    /\ Answer(c, "err")
    /\ UNCHANGED <<supVars, sessVars, reportCh, inputs, now, fwVars>>

Detach(c) ==
    /\ Accepted(c) /\ call[c].op = "detach"
    /\ detachCurrent("detached") /\ Answer(c, "ok")
    /\ UNCHANGED <<now, fwVars>>

Stop(c) ==
    /\ Accepted(c) /\ call[c].op = "stop"
    /\ detachCurrent("stopped") /\ Answer(c, "ok")
    /\ UNCHANGED <<now, fwVars>>

(* Detach and Stop of an adapter whose stopCh is closed return at once. *)
AlreadyStopped_OnlyControlCh(c) == FALSE

AlreadyStopped(c) ==
    /\ mode = "stopped" /\ call[c] # NoCall /\ call[c].op \in {"detach", "stop"}
    /\ Answer(c, "ok")
    /\ UNCHANGED <<supVars, sessVars, reportCh, inputs, now, fwVars>>

(* A packet that the queue goroutine has read from the core. *)
Deliverable(p) ==
    /\ current # NoDevice /\ enabled
    /\ mtu[current] > 0 => p.size <= mtu[current]

(* The firewall decides under its own lock; the packet that it lets through *)
(* is queued afterwards, or dropped when the queue is full.                 *)
routePacket(p) ==
    /\ Supervising /\ Deliverable(p) /\ Input
    /\ LET r == AllowIncoming(p) IN
        /\ flows' = r.flows
        /\ used' = IF r.ok THEN UsedByIn(p) ELSE used
        /\ hand' = IF r.ok THEN p ELSE NoPacket
    /\ UNCHANGED <<mode, enabled, current, rwcMTU, sessVars, reportCh, call, reply, now, fw>>

enqueuePacket ==
    /\ hand # NoPacket /\ hand' = NoPacket
    /\ inbox' = IF Len(inbox[current]) < QueueCap
                THEN [inbox EXCEPT ![current] = Append(@, hand)] ELSE inbox
    /\ UNCHANGED <<mode, enabled, current, rwcMTU, device, mtu, loop, stopping, outbox, reportCh,
                   inputs, call, reply, now, fwVars>>

(* A report of a session that is not attached any more is ignored. *)
handleReport_AnySession ==
    /\ Supervising /\ reportCh # <<>>
    /\ reportCh' = Tail(reportCh)
    /\ IF Head(reportCh).kind = "error" /\ current # NoDevice
       THEN DetachTo("detached") ELSE UNCHANGED <<supVars, stopping>>
    /\ UNCHANGED <<device, mtu, loop, inbox, outbox, inputs, call, reply, now, fwVars>>

handleReport ==
    LET r == Head(reportCh) IN
    /\ Supervising /\ reportCh # <<>>
    /\ reportCh' = Tail(reportCh)
    /\ \/ r.dev # current /\ UNCHANGED <<supVars, stopping, mtu>>
       \/ r.dev = current /\ r.kind = "error" /\ DetachTo("detached") /\ UNCHANGED mtu
       \/ /\ r.dev = current /\ r.kind \in {"down", "up"}
          /\ enabled' = (r.kind = "up")
          /\ UNCHANGED <<mode, current, rwcMTU, hand, stopping, mtu>>
       \/ /\ r.dev = current /\ r.kind \in {"mtu", "mtufail"}
          /\ mtu' = [mtu EXCEPT ![current] = r.mtu]       \* 0 when device.MTU failed
          /\ rwcMTU' = SetMTU(r.mtu)
          /\ UNCHANGED <<mode, enabled, current, hand, stopping>>
    /\ UNCHANGED <<device, loop, inbox, outbox, inputs, call, reply, now, fwVars>>

(***************************************************************************)
(* A session.                                                              *)
(***************************************************************************)
SessionStep == UNCHANGED <<supVars, mtu, call, reply, now>>

LoopTo(d, l, s) == loop' = [loop EXCEPT ![d][l] = s]

(* readLoop: read a packet and look at currentSessionID, then ask the       *)
(* firewall and write it to the core, whatever happened in between.         *)
readPacket(d, p) ==
    /\ loop[d]["read"] = "run" /\ device[d] = "open" /\ outbox[d] = NoPacket
    /\ current = d
    /\ outbox' = [outbox EXCEPT ![d] = p]
    /\ SessionStep /\ Input /\ UNCHANGED <<device, loop, stopping, inbox, reportCh, fwVars>>

forwardPacket(d) ==
    LET p == outbox[d] IN
    /\ p # NoPacket
    /\ outbox' = [outbox EXCEPT ![d] = NoPacket]
    /\ flows' = AllowOutgoing(p).flows
    /\ used' = UsedByOut(p)
    /\ SessionStep /\ UNCHANGED inputs /\ UNCHANGED <<device, loop, stopping, inbox, reportCh, fw>>

(* writeLoop *)
writePacket(d) ==
    /\ loop[d]["write"] = "run" /\ device[d] = "open" /\ inbox[d] # <<>>
    /\ inbox' = [inbox EXCEPT ![d] = Tail(@)]
    /\ SessionStep /\ UNCHANGED inputs
    /\ UNCHANGED <<device, loop, stopping, outbox, reportCh, fwVars>>

(* A loop whose device fails reports it; a read or write loop takes the end *)
(* of file or a closed device for a close, whoever closed it, and leaves.   *)
loopFails(d, l) ==
    /\ loop[d][l] = "run" /\ device[d] \in {"broken", "eof"}
    /\ l = "read" => outbox[d] = NoPacket
    /\ l = "write" => inbox[d] # <<>>
    /\ l = "event" => device[d] # "eof"
    /\ LoopTo(d, l, IF device[d] = "broken" THEN "error" ELSE "done")
    /\ SessionStep /\ UNCHANGED inputs
    /\ UNCHANGED <<device, stopping, inbox, outbox, reportCh, fwVars>>

deviceEvent(d, e) ==
    /\ loop[d]["event"] = "run" /\ device[d] = "open"
    /\ LoopTo(d, "event", e)
    /\ SessionStep /\ Input
    /\ UNCHANGED <<device, stopping, inbox, outbox, reportCh, fwVars>>

(* The send on reportCh waits for room, for ever once the supervisor ended. *)
sendReport(d, l) ==
    /\ loop[d][l] \in Reports /\ Len(reportCh) < ReportCap
    /\ \E m \in IF loop[d][l] = "mtu" THEN SessionMTUs ELSE {0} :
          reportCh' = Append(reportCh, [dev |-> d, kind |-> loop[d][l], mtu |-> m])
    /\ LoopTo(d, l, IF loop[d][l] = "error" \/ stopping[d] = "stopped"
                    THEN "done" ELSE "run")
    /\ SessionStep /\ UNCHANGED inputs
    /\ UNCHANGED <<device, stopping, inbox, outbox, fwVars>>

(* session.stop, run by the goroutine that detaching started, closes stopCh *)
(* and the device.  A loop that is not sending a report then leaves, which  *)
(* nobody can tell from its leaving later.                                  *)
stopSession_NoStopCh(d) ==
    /\ stopping[d] = "asked"
    /\ stopping' = [stopping EXCEPT ![d] = "stopped"]
    /\ device' = [device EXCEPT ![d] = "closed"]
    /\ SessionStep /\ UNCHANGED <<inputs, loop, inbox, outbox, reportCh, fwVars>>

stopSession(d) ==
    /\ stopping[d] = "asked"
    /\ stopping' = [stopping EXCEPT ![d] = "stopped"]
    /\ device' = [device EXCEPT ![d] = "closed"]
    /\ loop' = [loop EXCEPT ![d] = [l \in Loops |-> IF @[l] = "run" THEN "done" ELSE @[l]]]
    /\ inbox' = [inbox EXCEPT ![d] = <<>>]
    /\ SessionStep /\ UNCHANGED inputs
    /\ UNCHANGED <<outbox, reportCh, fwVars>>

(* The device fails, or is closed from outside, for instance because its    *)
(* interface was deleted.                                                   *)
deviceFails(d, how) ==
    /\ how \in {"broken", "eof"} /\ device[d] = "open" /\ loop[d]["read"] # "off"
    /\ device' = [device EXCEPT ![d] = how]
    /\ SessionStep /\ Input
    /\ UNCHANGED <<loop, stopping, inbox, outbox, reportCh, fwVars>>

Clock == Tick /\ Input /\ UNCHANGED <<supVars, sessVars, reportCh, call, reply, fwVars>>

Serve(c) ==
    handleAttach(c) \/ refuseAttach(c) \/ Detach(c) \/ Stop(c) \/ AlreadyStopped(c)

Session(d) ==
    \/ \E p \in Packets : readPacket(d, p)
    \/ forwardPacket(d) \/ writePacket(d) \/ stopSession(d)
    \/ \E l \in Loops : loopFails(d, l) \/ sendReport(d, l)
    \/ \E e \in Events : deviceEvent(d, e)
    \/ \E how \in {"broken", "eof"} : deviceFails(d, how)

Adapter ==
    \/ handleReport
    \/ \E p \in Packets : routePacket(p)
    \/ enqueuePacket
    \/ \E d \in Devices : Session(d)
    \/ Clock
=============================================================================
