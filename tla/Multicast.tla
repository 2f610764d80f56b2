----------------------------- MODULE Multicast ------------------------------
(***************************************************************************)
(* Multicast discovery: an actor that announces every second or two on the *)
(* interfaces the operating system shows it, with a TCP listener for each  *)
(* of them, and a goroutine that reads beacons and calls who sent them.    *)
(***************************************************************************)
EXTENDS Integers

CONSTANTS
    Ifaces,               \* interfaces that a configured pattern matches
    IfAddrs,              \* link-local addresses they may have
    Beaconing, Listening, \* interfaces configured to send and to heed beacons
    None

VARIABLES
    running,
    os,          \* the system's usable interfaces and their addresses
    seen,        \* _interfaces: those of them the last announcement found
    listeners,   \* _listeners: address of the listener of each interface
    announce,    \* "off", "posted" to the actor, or "timer"
    sock,        \* whether the group socket is open
    loop,        \* listen: "off", "reading", "asking" or "ended"
    beacon,      \* the beacon that listen has in hand
    called       \* interfaces by which CallPeer was asked to call

multicastVars == <<running, os, seen, listeners, announce, sock, loop, beacon, called>>

(* Interfaces that are up, each with its link-local addresses, if any. *)
Shown == UNION {[up -> SUBSET IfAddrs] : up \in SUBSET Ifaces}
Nothing == [i \in {} |-> {}]

MulticastInit ==
    /\ running = FALSE /\ seen = Nothing /\ listeners = [i \in Ifaces |-> None]
    /\ os \in Shown
    /\ announce = "off" /\ sock = FALSE /\ loop = "off" /\ beacon = None /\ called = {}

(* Without an interface to send or listen on the module does not start. *)
start(ok) ==
    /\ IF ok /\ Beaconing \cup Listening # {}
       THEN running' = TRUE /\ sock' = TRUE /\ loop' = "reading" /\ announce' = "posted"
       ELSE UNCHANGED <<running, sock, loop, announce>>
    /\ UNCHANGED <<os, seen, listeners, beacon, called>>

stop_KeepsRunning ==
    sock' = FALSE /\ UNCHANGED <<running, os, seen, listeners, announce, loop, beacon, called>>

(* _stop is run by the actor; listeners and the timer are left alone. *)
stop ==
    /\ running' = FALSE /\ sock' = FALSE
    /\ UNCHANGED <<os, seen, listeners, announce, loop, beacon, called>>

(* _getAllowedInterfaces finds none when the system's list cannot be had;   *)
(* an interface whose addresses cannot be read is dropped.                  *)
updateInterfaces(readable) == [i \in DOMAIN os \cap readable |-> os[i]]

(* Listeners that _announce keeps: their interface still has the address. *)
Kept_WhileUp(shown) == [i \in Ifaces |-> IF i \in DOMAIN shown THEN listeners[i] ELSE None]

Kept(shown) ==
    [i \in Ifaces |-> IF i \in DOMAIN shown /\ listeners[i] \in shown[i] THEN listeners[i] ELSE None]

(* The next listeners: one for each announcing interface that has none, at *)
(* the first of its addresses on which ListenLocal succeeds, if any.       *)
announceOnce(readable, opened) ==
    LET shown == updateInterfaces(readable) IN
    /\ announce = "posted"
    /\ IF ~running THEN announce' = "off" /\ UNCHANGED <<seen, listeners>>
       ELSE /\ \A i \in Ifaces :
                  \/ opened[i] = None
                  \/ i \in Beaconing \cap DOMAIN shown /\ opened[i] \in shown[i]
            /\ seen' = shown /\ announce' = "timer"
            /\ listeners' = [i \in Ifaces |->
                  IF Kept(shown)[i] = None THEN opened[i] ELSE Kept(shown)[i]]
    /\ UNCHANGED <<running, os, sock, loop, beacon, called>>

timerFires ==
    /\ announce = "timer" /\ announce' = "posted"
    /\ UNCHANGED <<running, os, seen, listeners, sock, loop, beacon, called>>

(* listen: malformed and foreign beacons, and this node's own, are skipped. *)
ReadFromControl(i, honest) ==
    /\ loop = "reading" /\ running /\ sock
    /\ loop' = "asking" /\ beacon' = [iface |-> i, honest |-> honest]
    /\ UNCHANGED <<running, os, seen, listeners, announce, sock, called>>

(* The actor hands over _interfaces; the beacon's hash proves the password. *)
heed ==
    /\ loop = "asking" /\ loop' = "reading" /\ beacon' = None
    /\ called' = IF beacon.honest /\ beacon.iface \in DOMAIN seen \cap Listening
                 THEN called \cup {beacon.iface} ELSE called
    /\ UNCHANGED <<running, os, seen, listeners, announce, sock>>

(* A read error ends the loop only once the module is stopped. *)
listenEnds ==
    /\ loop = "reading" /\ ~running /\ loop' = "ended"
    /\ UNCHANGED <<running, os, seen, listeners, announce, sock, beacon, called>>

InterfaceChanges ==
    /\ os' \in Shown \ {os}
    /\ UNCHANGED <<running, seen, listeners, announce, sock, loop, beacon, called>>
-----------------------------------------------------------------------------
(***************************************************************************)
(* Every listener that the announcements count on has an address that its  *)
(* interface had when _announce last looked: interfaces that went, came    *)
(* back or changed their address never leave one behind under their name.  *)
(***************************************************************************)
ListenersFollowInterfaces ==
    \A i \in Ifaces : listeners[i] # None => i \in DOMAIN seen /\ listeners[i] \in seen[i]
=============================================================================
