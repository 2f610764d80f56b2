------------------------------- MODULE Daemon -------------------------------
(***************************************************************************)
(* The daemon's life: main builds the node part by part, registers the     *)
(* admin handlers of each while the admin socket already serves, blocks    *)
(* until it is told to stop, and stops the parts in a fixed order, the     *)
(* core last.                                                              *)
(***************************************************************************)
EXTENDS Multicast, AdminSocket, Sequences

CONSTANTS
    LocalDNS,    \* whether a local DNS server is configured
    MaxInputs    \* bound on connections, interface changes and beacons

ASSUME DaemonAssumption ==
    /\ Beaconing \subseteq Ifaces /\ Listening \subseteq Ifaces
    /\ WebListen \in BOOLEAN /\ LocalDNS \in BOOLEAN /\ MaxInputs \in Nat
    /\ {"list", "core", "multicast", "tun"} \subseteq Groups

VARIABLES
    stage,       \* what main does next, an index of Steps; 0 once it has panicked
    fellBack,    \* whether the unprivileged admin address was tried
    dns,         \* servers of the local DNS that run
    fetching,    \* whether the fetcher of autopeer downloads a list
    inputs

mainVars == <<stage, fellBack, dns, fetching>>
vars == <<multicastVars, adminVars, mainVars, inputs>>

Steps ==
    <<"admin", "web", "handlers", "multicast", "tun", "dns", "serve",
      "stopDNS", "stopAdmin", "stopJumper", "stopAutopeer", "stopMulticast", "stopTun", "stopCore",
      "exited">>

At(s) == stage > 0 /\ Steps[stage] = s
Past(s) == \E n \in 1 .. stage - 1 : Steps[n] = s
Then == stage' = stage + 1
Panic == stage' = 0
Input == inputs > 0 /\ inputs' = inputs - 1

Init ==
    /\ MulticastInit /\ AdminInit
    /\ stage = 1 /\ fellBack = FALSE /\ dns = {} /\ fetching = FALSE /\ inputs = MaxInputs

(***************************************************************************)
(* Start-up.  Any part that fails ends the process, but a lack of          *)
(* permission at the admin socket sends main to another address, once.     *)
(***************************************************************************)
setUpAdmin ==
    /\ At("admin") /\ startSocket /\ Then
    /\ UNCHANGED <<multicastVars, fellBack, dns, fetching, inputs>>

setUpAdminFails(permission) ==
    /\ At("admin")
    /\ IF permission /\ ~fellBack
       THEN fellBack' = TRUE /\ path' \in {"absent", "stale", "used"} /\ UNCHANGED stage
       ELSE Panic /\ UNCHANGED <<fellBack, path>>
    /\ UNCHANGED <<listener, done, accepting, web, handlers, conn, kept>>
    /\ UNCHANGED <<multicastVars, dns, fetching, inputs>>

setUpWeb ==
    /\ At("web")
    /\ \/ startWebAdmin /\ Then
       \/ WebListen /\ Stop /\ Panic
       \/ ~WebListen /\ UNCHANGED adminVars /\ Then
    /\ UNCHANGED <<multicastVars, fellBack, dns, fetching, inputs>>

setUpHandlers ==
    /\ At("handlers") /\ AddHandler("core") /\ Then
    /\ UNCHANGED <<multicastVars, fellBack, dns, fetching, inputs>>

setUpMulticast(ok) ==
    /\ At("multicast") /\ start(ok)
    /\ IF ok THEN AddHandler("multicast") /\ Then ELSE UNCHANGED adminVars /\ Panic
    /\ UNCHANGED <<fellBack, dns, fetching, inputs>>

(* The TUN is attached before its handlers are registered. *)
setUpTun(ok) ==
    /\ At("tun")
    /\ IF ok THEN AddHandler("tun") /\ Then ELSE UNCHANGED adminVars /\ Panic
    /\ UNCHANGED <<multicastVars, fellBack, dns, fetching, inputs>>

(* newLocalDNSServer and Start: the TCP server after the UDP server. *)
startDNS(ok) ==
    /\ At("dns")
    /\ IF ~LocalDNS \/ dns = {"udp", "tcp"} THEN Then /\ UNCHANGED dns
       ELSE IF ok THEN dns' = (IF dns = {} THEN {"udp"} ELSE {"udp", "tcp"}) /\ UNCHANGED stage
       ELSE dns' = {} /\ Panic
    /\ UNCHANGED <<multicastVars, adminVars, fellBack, fetching, inputs>>

(***************************************************************************)
(* Shutdown, once a signal or the service manager has cancelled the context. *)
(***************************************************************************)
cancel ==
    /\ At("serve") /\ Then
    /\ UNCHANGED <<multicastVars, adminVars, fellBack, dns, fetching, inputs>>

stopDNS ==
    /\ At("stopDNS") /\ dns' = {} /\ Then
    /\ UNCHANGED <<multicastVars, adminVars, fellBack, fetching, inputs>>

stopAdmin ==
    /\ At("stopAdmin") /\ Stop /\ Then
    /\ UNCHANGED <<multicastVars, fellBack, dns, fetching, inputs>>

(* The actor of the module runs _stop between two announcements. *)
stopMulticast ==
    /\ At("stopMulticast") /\ stop /\ Then
    /\ UNCHANGED <<adminVars, fellBack, dns, fetching, inputs>>

(***************************************************************************)
(* The jumper and autopeer (module Peering), the TUN (Tun), the core       *)
(* (Links).  autopeer.Close waits for the fetcher; the others wait for     *)
(* nothing without a limit: the NodeInfo requests of the jumper's loop     *)
(* have a time-out, and the supervisor answers tun.Stop when it has begun  *)
(* the goroutine that closes the device.                                   *)
(***************************************************************************)
stopOthers ==
    /\ \/ At("stopJumper") \/ At("stopTun") \/ At("stopCore")
       \/ At("stopAutopeer") /\ ~fetching
    /\ Then
    /\ UNCHANGED <<multicastVars, adminVars, fellBack, dns, fetching, inputs>>

Main ==
    \/ setUpAdmin \/ setUpWeb \/ setUpHandlers
    \/ \E permission \in BOOLEAN : setUpAdminFails(permission)
    \/ \E ok \in BOOLEAN : setUpMulticast(ok) \/ setUpTun(ok) \/ startDNS(ok)
    \/ stopDNS \/ stopAdmin \/ stopMulticast \/ stopOthers

(* The goroutines of a process that has not panicked. *)
Alive == stage > 0

(***************************************************************************)
(* The fetcher downloads with no time-out, and its loop may take a wake-up *)
(* as well as the stop.  A server answers or breaks off: nobody has to.    *)
(***************************************************************************)
fetchBegins ==
    /\ Alive /\ Input /\ ~fetching /\ ~Past("stopAutopeer") /\ fetching' = TRUE
    /\ UNCHANGED <<multicastVars, adminVars, stage, fellBack, dns>>

fetchEnds ==
    /\ Alive /\ fetching /\ fetching' = FALSE
    /\ UNCHANGED <<multicastVars, adminVars, stage, fellBack, dns, inputs>>

Announce ==
    /\ Alive /\ UNCHANGED <<adminVars, mainVars, inputs>>
    /\ \/ timerFires
       \/ \E readable \in SUBSET Ifaces, opened \in [Ifaces -> IfAddrs \cup {None}] :
              announceOnce(readable, opened)

Listen == Alive /\ (heed \/ listenEnds) /\ UNCHANGED <<adminVars, mainVars, inputs>>

Serve ==
    /\ Alive /\ UNCHANGED <<multicastVars, mainVars, inputs>>
    /\ listenReturns \/ \E c \in Conns : Respond(c)

Environment ==
    /\ Alive /\ Input /\ UNCHANGED mainVars
    /\ \/ /\ UNCHANGED adminVars
          /\ \/ InterfaceChanges
             \/ \E i \in Ifaces, honest \in BOOLEAN : ReadFromControl(i, honest)
       \/ /\ UNCHANGED multicastVars
          /\ \E c \in Conns : Accept(c) \/ \E g \in Groups, keep \in BOOLEAN : Dispatch(c, g, keep)

Next == Main \/ cancel \/ Announce \/ Listen \/ Serve \/ Environment \/ fetchBegins \/ fetchEnds

(* Main and the goroutines go on; nobody has to stop the daemon. *)
Fairness == WF_vars(Main) /\ WF_vars(Announce) /\ WF_vars(Listen) /\ WF_vars(Serve)

Spec == Init /\ [][Next]_vars /\ Fairness
-----------------------------------------------------------------------------
Finished ==
    /\ At("exited") /\ listener = "closed" /\ web # "up"
    /\ accepting = "ended" /\ loop = "ended" /\ announce = "off" /\ dns = {}

(***************************************************************************)
(* A daemon that is told to stop does, unless a download of a peer list    *)
(* never ends, for which autopeer.Close waits without a limit: main comes  *)
(* to its end, and then nothing of the admin API, the discovery or the DNS *)
(* is left running, though beacons, announcements, clients and new         *)
(* downloads come at every step.                                           *)
(***************************************************************************)
ShutdownCompletes == []<>~fetching => (At("stopDNS") ~> Finished)
=============================================================================
