---------------------------- MODULE DaemonProofs ----------------------------
(***************************************************************************)
(* Proofs about Daemon: multicast discovery, the admin socket and main's   *)
(* start-up and shutdown, for every set of interfaces, addresses,          *)
(* connections and handlers.                                               *)
(***************************************************************************)
EXTENDS Daemon, TLAPS

(***************************************************************************)
(* What runs at each step of main: the admin socket is open from the step  *)
(* after "admin" (1) until "stopAdmin" (9), discovery runs from            *)
(* "multicast" (4) until "stopMulticast" (12), and the DNS is stopped      *)
(* before both (8).                                                        *)
(***************************************************************************)
MainTypeOK ==
    /\ stage \in 0 .. Len(Steps)
    /\ conn \in [Conns -> {"none", "reading", "handling"}]

StartedInOrder ==
    /\ stage = 1 => listener = "none" /\ ~done
    /\ stage > 1 /\ stage < 10 => listener = "open" /\ ~done
    /\ stage > 0 /\ stage < 5 => ~running /\ ~sock

(* Nothing that main has stopped is left running. *)
QuietOnceStopped ==
    /\ stage > 8 => dns = {}
    /\ stage > 9 => listener = "closed" /\ path = "absent" /\ done /\ web # "up"
    /\ stage > 12 => ~running /\ ~sock

(* Nor does it begin anything: no connection is accepted, no beacon read   *)
(* and no listener opened.                                                 *)
NothingBegins ==
    [][/\ stage > 9 => \A c \in Conns : conn[c] = "none" => conn'[c] = "none"
       /\ stage > 12 => /\ UNCHANGED <<seen, listeners>>
                        /\ loop' = "asking" => loop = "asking"]_vars

IInv == MainTypeOK /\ ListenersFollowInterfaces /\ StartedInOrder /\ QuietOnceStopped

LEMMA StepNumbers ==
    ASSUME MainTypeOK
    PROVE  /\ Len(Steps) = 15
           /\ At("admin") => stage = 1
           /\ At("web") => stage = 2
           /\ At("handlers") => stage = 3
           /\ At("multicast") => stage = 4
           /\ At("tun") => stage = 5
           /\ At("dns") => stage = 6
           /\ At("serve") => stage = 7
           /\ At("stopDNS") => stage = 8
           /\ At("stopAdmin") => stage = 9
           /\ At("stopJumper") => stage = 10
           /\ At("stopAutopeer") => stage = 11
           /\ At("stopMulticast") => stage = 12
           /\ At("stopTun") => stage = 13
           /\ At("stopCore") => stage = 14
           /\ At("exited") => stage = 15
<1>1. Len(Steps) = 15
    BY DEF Steps
<1>2. /\ Steps[1] = "admin" /\ Steps[2] = "web" /\ Steps[3] = "handlers" /\ Steps[4] = "multicast"
      /\ Steps[5] = "tun" /\ Steps[6] = "dns" /\ Steps[7] = "serve" /\ Steps[8] = "stopDNS"
      /\ Steps[9] = "stopAdmin" /\ Steps[10] = "stopJumper" /\ Steps[11] = "stopAutopeer"
      /\ Steps[12] = "stopMulticast" /\ Steps[13] = "stopTun" /\ Steps[14] = "stopCore"
      /\ Steps[15] = "exited"
    BY DEF Steps
<1>3. stage \in {0, 1, 2, 3, 4, 5, 6, 7, 8, 9, 10, 11, 12, 13, 14, 15}
    BY <1>1 DEF MainTypeOK
<1> QED
    BY <1>1, <1>2, <1>3 DEF At

LEMMA InitIInv == Init => IInv
BY StepNumbers DEF Init, MulticastInit, AdminInit, IInv, MainTypeOK, ListenersFollowInterfaces,
                   StartedInOrder, QuietOnceStopped, Steps

(* The listeners after an announcement: one that was kept has an address of *)
(* its interface, and a new one was opened at such an address.              *)
LEMMA announceKeeps ==
    ASSUME ListenersFollowInterfaces, NEW readable \in SUBSET Ifaces,
           NEW opened \in [Ifaces -> IfAddrs \cup {None}], announceOnce(readable, opened)
    PROVE  ListenersFollowInterfaces' /\ (~running => UNCHANGED <<seen, listeners>>)
<1>1. CASE ~running
    BY <1>1 DEF announceOnce, ListenersFollowInterfaces
<1>2. CASE running
    <2>1. PICK shown : shown = updateInterfaces(readable)
        OBVIOUS
    <2>2. /\ seen' = shown /\ \A i \in Ifaces : opened[i] = None \/ (i \in DOMAIN shown /\ opened[i] \in shown[i])
          /\ listeners' = [i \in Ifaces |->
                              IF Kept(shown)[i] = None THEN opened[i] ELSE Kept(shown)[i]]
        BY <1>2, <2>1 DEF announceOnce
    <2>3. \A i \in Ifaces : Kept(shown)[i] = None \/ (i \in DOMAIN shown /\ Kept(shown)[i] \in shown[i])
        BY DEF Kept
    <2>4. \A i \in Ifaces : listeners'[i] = None \/ (i \in DOMAIN shown /\ listeners'[i] \in shown[i])
        BY <2>2, <2>3
    <2> QED
        BY <1>2, <2>2, <2>4 DEF ListenersFollowInterfaces
<1> QED
    BY <1>1, <1>2

(* Start-up: each part follows the one before it, or main panics. *)
LEMMA StartKeeps ==
    ASSUME IInv, \/ setUpAdmin \/ setUpWeb \/ setUpHandlers
                 \/ \E permission \in BOOLEAN : setUpAdminFails(permission)
                 \/ \E ok \in BOOLEAN : setUpMulticast(ok) \/ setUpTun(ok) \/ startDNS(ok)
    PROVE  IInv'
<1> USE StepNumbers DEF IInv, MainTypeOK
<1>1. Len(Steps) = 15
    OBVIOUS
<1>2. CASE setUpAdmin
    <2>1. stage = 1
        BY <1>2 DEF setUpAdmin
    <2> QED
        BY <1>1, <1>2, <2>1 DEF setUpAdmin, startSocket, Then, multicastVars, ListenersFollowInterfaces,
                                StartedInOrder, QuietOnceStopped
<1>3. ASSUME NEW permission \in BOOLEAN, setUpAdminFails(permission) PROVE IInv'
    <2>1. stage = 1
        BY <1>3 DEF setUpAdminFails
    <2> QED
        BY <1>1, <1>3, <2>1 DEF setUpAdminFails, Panic, multicastVars, ListenersFollowInterfaces,
                                StartedInOrder, QuietOnceStopped
<1>4. CASE setUpWeb
    <2>1. stage = 2
        BY <1>4 DEF setUpWeb
    <2>2. stage' = 0 \/ (stage' = 3 /\ UNCHANGED <<listener, done>>)
        BY <1>4, <2>1 DEF setUpWeb, Then, Panic, startWebAdmin, adminVars
    <2>3. UNCHANGED <<multicastVars, conn>>
        BY <1>4 DEF setUpWeb, startWebAdmin, Stop, adminVars
    <2> QED
        BY <1>1, <2>1, <2>2, <2>3 DEF multicastVars, ListenersFollowInterfaces, StartedInOrder, QuietOnceStopped
<1>5. CASE setUpHandlers
    <2>1. stage = 3
        BY <1>5 DEF setUpHandlers
    <2> QED
        BY <1>1, <1>5, <2>1 DEF setUpHandlers, AddHandler, Then, multicastVars, ListenersFollowInterfaces,
                                StartedInOrder, QuietOnceStopped
<1>6. ASSUME NEW ok \in BOOLEAN, setUpMulticast(ok) PROVE IInv'
    <2>1. stage = 4
        BY <1>6 DEF setUpMulticast
    <2>2. UNCHANGED <<listener, done, conn, seen, listeners>> /\ stage' \in {0, 5}
        BY <1>6, <2>1 DEF setUpMulticast, start, AddHandler, Then, Panic, adminVars
    <2> QED
        BY <1>1, <2>1, <2>2 DEF ListenersFollowInterfaces, StartedInOrder, QuietOnceStopped
<1>7. ASSUME NEW ok \in BOOLEAN, setUpTun(ok) PROVE IInv'
    <2>1. stage = 5
        BY <1>7 DEF setUpTun
    <2>2. UNCHANGED <<listener, done, conn, seen, listeners>> /\ stage' \in {0, 6}
        BY <1>7, <2>1 DEF setUpTun, AddHandler, Then, Panic, adminVars, multicastVars
    <2> QED
        BY <1>1, <2>1, <2>2 DEF ListenersFollowInterfaces, StartedInOrder, QuietOnceStopped
<1>8. ASSUME NEW ok \in BOOLEAN, startDNS(ok) PROVE IInv'
    <2>1. stage = 6
        BY <1>8 DEF startDNS
    <2>2. UNCHANGED <<listener, done, conn, seen, listeners>> /\ stage' \in {0, 6, 7}
        BY <1>8, <2>1 DEF startDNS, Then, Panic, adminVars, multicastVars
    <2> QED
        BY <1>1, <2>1, <2>2 DEF ListenersFollowInterfaces, StartedInOrder, QuietOnceStopped
<1> QED
    BY <1>2, <1>3, <1>4, <1>5, <1>6, <1>7, <1>8

LEMMA StopKeeps ==
    ASSUME IInv, cancel \/ stopDNS \/ stopAdmin \/ stopMulticast \/ stopOthers
    PROVE  IInv'
<1> USE StepNumbers DEF IInv, MainTypeOK
<1>1. Len(Steps) = 15
    OBVIOUS
<1>2. CASE cancel
    <2>1. stage = 7
        BY <1>2 DEF cancel
    <2> QED
        BY <1>1, <1>2, <2>1 DEF cancel, Then, multicastVars, adminVars, ListenersFollowInterfaces,
                                StartedInOrder, QuietOnceStopped
<1>3. CASE stopDNS
    <2>1. stage = 8
        BY <1>3 DEF stopDNS
    <2> QED
        BY <1>1, <1>3, <2>1 DEF stopDNS, Then, multicastVars, adminVars, ListenersFollowInterfaces,
                                StartedInOrder, QuietOnceStopped
<1>4. CASE stopAdmin
    <2>1. stage = 9
        BY <1>4 DEF stopAdmin
    <2>2. done' = TRUE /\ listener' = "closed" /\ path' = "absent" /\ web' # "up"
          /\ UNCHANGED <<conn, multicastVars, dns>> /\ stage' = 10
        BY <1>4, <2>1 DEF stopAdmin, Stop, Then
    <2> QED
        BY <1>1, <2>1, <2>2 DEF multicastVars, ListenersFollowInterfaces, StartedInOrder, QuietOnceStopped
<1>5. CASE stopMulticast
    <2>1. stage = 12
        BY <1>5 DEF stopMulticast
    <2> QED
        BY <1>1, <1>5, <2>1 DEF stopMulticast, stop, Then, adminVars, ListenersFollowInterfaces,
                                StartedInOrder, QuietOnceStopped
<1>6. CASE stopOthers
    <2>1. stage \in {10, 11, 13, 14}
        BY <1>6 DEF stopOthers
    <2> QED
        BY <1>1, <1>6, <2>1 DEF stopOthers, Then, multicastVars, adminVars, ListenersFollowInterfaces,
                                StartedInOrder, QuietOnceStopped
<1> QED
    BY <1>2, <1>3, <1>4, <1>5, <1>6

(* The goroutines beside main. *)
Beside == Announce \/ Listen \/ Serve \/ Environment \/ fetchBegins \/ fetchEnds

LEMMA BesideKeeps ==
    ASSUME IInv, Beside
    PROVE  IInv'
<1>1. UNCHANGED <<stage, dns, listener, path, done, web, running, sock>>
    BY DEF Beside, Announce, Listen, Serve, Environment, fetchBegins, fetchEnds, mainVars, adminVars, multicastVars, timerFires,
           announceOnce, heed, listenEnds, listenReturns, Respond, InterfaceChanges, ReadFromControl,
           Accept, Dispatch
<1>2. ListenersFollowInterfaces'
    <2>1. CASE \E readable \in SUBSET Ifaces, opened \in [Ifaces -> IfAddrs \cup {None}] :
                announceOnce(readable, opened)
        BY <2>1, announceKeeps DEF IInv
    <2>2. CASE UNCHANGED <<seen, listeners>>
        BY <2>2 DEF IInv, ListenersFollowInterfaces
    <2> QED
        BY <2>1, <2>2 DEF Beside, Announce, Listen, Serve, Environment, fetchBegins, fetchEnds, multicastVars, timerFires, heed,
                          listenEnds, InterfaceChanges, ReadFromControl
<1>3. conn' \in [Conns -> {"none", "reading", "handling"}]
    BY DEF IInv, MainTypeOK, Beside, Announce, Listen, Serve, Environment, fetchBegins, fetchEnds, adminVars, listenReturns,
           Respond, Accept, Dispatch
<1> QED
    BY <1>1, <1>2, <1>3 DEF IInv, MainTypeOK, StartedInOrder, QuietOnceStopped

LEMMA NextIInv == IInv /\ [Next]_vars => IInv'
<1> SUFFICES ASSUME IInv, [Next]_vars PROVE IInv'
    OBVIOUS
<1>1. CASE UNCHANGED vars
    BY <1>1 DEF vars, multicastVars, adminVars, mainVars, IInv, MainTypeOK, ListenersFollowInterfaces,
                StartedInOrder, QuietOnceStopped
<1>2. CASE Next
    BY <1>2, StartKeeps, StopKeeps, BesideKeeps DEF Next, Main, Beside
<1> QED
    BY <1>1, <1>2

LEMMA Invariance == Spec => []IInv
BY InitIInv, NextIInv, PTL DEF Spec

(***************************************************************************)
(* Theorem.  No announcement (_announce) leaves a listener behind whose    *)
(* interface had lost its address when it looked.                          *)
(***************************************************************************)
THEOREM ListenersFollow == Spec => []ListenersFollowInterfaces
<1>1. IInv => ListenersFollowInterfaces
    BY DEF IInv
<1> QED
    BY <1>1, Invariance, PTL

(***************************************************************************)
(* Theorem.  After each step of main's shutdown what it stopped is not     *)
(* running, and stays so while the other goroutines go on: the DNS, then   *)
(* the admin socket and its file and HTTP server, then discovery.          *)
(***************************************************************************)
THEOREM ShutdownIsQuiet == Spec => []QuietOnceStopped
<1>1. IInv => QuietOnceStopped
    BY DEF IInv
<1> QED
    BY <1>1, Invariance, PTL

(***************************************************************************)
(* Theorem.  Once AdminSocket.Stop has run no connection is accepted, and  *)
(* once multicast's _stop has run no beacon is read and no listener opened,*)
(* although their goroutines and the actor's timer are still there.        *)
(***************************************************************************)
THEOREM StoppedBeginNothing == Spec => NothingBegins
<1> DEFINE Step == /\ stage > 9 => \A c \in Conns : conn[c] = "none" => conn'[c] = "none"
                   /\ stage > 12 => /\ UNCHANGED <<seen, listeners>>
                                    /\ loop' = "asking" => loop = "asking"
<1>1. ASSUME IInv, Next, stage > 9
      PROVE  Step
    <2>1. MainTypeOK /\ QuietOnceStopped /\ listener = "closed"
        BY <1>1 DEF IInv, QuietOnceStopped
    <2>2. stage \in 0 .. 15 /\ ~(stage \in 1 .. 9)
        <3>1. Len(Steps) = 15
            BY <2>1, StepNumbers
        <3> QED
            BY <1>1, <2>1, <3>1 DEF MainTypeOK
    <2>3. stopMulticast \/ stopOthers \/ Beside
        BY <1>1, <2>1, <2>2, StepNumbers
        DEF Next, Main, Beside, setUpAdmin, setUpAdminFails, setUpWeb, setUpHandlers, setUpMulticast,
            setUpTun, startDNS, cancel, stopDNS, stopAdmin
    <2>4. ASSUME NEW c \in Conns, conn[c] = "none" PROVE conn'[c] = "none"
        <3>1. CASE UNCHANGED conn
            BY <2>4, <3>1
        <3>2. ASSUME NEW e \in Conns, Respond(e) \/ \E g \in Groups, keep \in BOOLEAN : Dispatch(e, g, keep)
              PROVE  conn'[c] = "none"
            <4>1. e # c
                BY <2>4, <3>2 DEF Respond, Dispatch
            <4> QED
                BY <2>1, <2>4, <3>2, <4>1 DEF Respond, Dispatch, MainTypeOK
        <3> QED
            BY <2>1, <2>3, <3>1, <3>2
            DEF stopMulticast, stopOthers, Beside, Announce, Listen, Serve, Environment, fetchBegins, fetchEnds, adminVars,
                listenReturns, Accept
    <2>5. ASSUME stage > 12 PROVE UNCHANGED <<seen, listeners>> /\ (loop' = "asking" => loop = "asking")
        <3>1. ~running /\ ~stopMulticast
            BY <2>1, <2>2, <2>5, StepNumbers DEF QuietOnceStopped, stopMulticast
        <3>2. CASE stopOthers
            BY <3>2 DEF stopOthers, multicastVars
        <3>3. CASE \E readable \in SUBSET Ifaces, opened \in [Ifaces -> IfAddrs \cup {None}] :
                announceOnce(readable, opened)
            BY <1>1, <3>1, <3>3 DEF announceOnce
        <3>4. CASE Beside /\ ~\E readable \in SUBSET Ifaces, opened \in [Ifaces -> IfAddrs \cup {None}] :
                                 announceOnce(readable, opened)
            BY <3>1, <3>4 DEF Beside, Announce, Listen, Serve, Environment, fetchBegins, fetchEnds, multicastVars, timerFires,
                              heed, listenEnds, InterfaceChanges, ReadFromControl
        <3> QED
            BY <2>3, <3>1, <3>2, <3>3, <3>4
    <2> QED
        BY <2>4, <2>5
<1>2. ASSUME IInv, ~(stage > 9) PROVE Step
    BY <1>2, StepNumbers DEF IInv, MainTypeOK
<1>3. IInv /\ [Next]_vars => [Step]_vars
    BY <1>1, <1>2
<1> QED
    BY <1>3, Invariance, PTL DEF Spec, NothingBegins
=============================================================================
