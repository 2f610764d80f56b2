------------------------------- MODULE Proxy --------------------------------
(***************************************************************************)
(* The SOCKS devices of the daemon, sockstun and outproxy: a SOCKS server  *)
(* on a virtual TUN, the routing of what its clients ask for, the TLS      *)
(* interception of sockstun, and the admin calls that change routing and   *)
(* DNS while connections are being made.                                   *)
(*                                                                         *)
(* A host is known by its zone and the kind of IP address its name         *)
(* resolves to; an address is a host in the form of its name or of its IP. *)
(* A routing table is a sequence of rules, each a set of addresses that it *)
(* matches and a proxy, and a default proxy.                               *)
(***************************************************************************)
EXTENDS Integers, Sequences

CONSTANTS
    Hosts,         \* records with fields zone and ip ("mesh", "clear", "none")
    Tables,        \* routing tables that requests install
    ZoneSets,      \* no-resolve zones that requests configure
    MITMHosts,     \* hosts that the interception patterns match
    Conns, Clients,
    None,
    MaxInputs      \* bound on SOCKS connections and admin requests

DefaultZones == {"onion"}         \* .onion, .i2p and .loki
Names == [host : Hosts, form : {"name", "ip"}]

ASSUME ProxyAssumption ==
    /\ \A h \in Hosts : h.ip \in {"mesh", "clear", "none"}
    /\ MITMHosts \subseteq Hosts /\ MaxInputs \in Nat
    /\ \A t \in Tables : /\ t.valid \in BOOLEAN /\ DOMAIN t.rules \subseteq Nat
                         /\ \A i \in DOMAIN t.rules : t.rules[i].matches \subseteq Names

(* No proxy is named both by a rule and as a default, so that the proxy a   *)
(* connection went through tells which of the two sent it there.            *)
ASSUME ProxyNames ==
    \A t \in Tables, u \in Tables :
        /\ u.default # "direct"
        /\ \A i \in DOMAIN t.rules : t.rules[i].proxy # u.default

VARIABLES
    kind,          \* "sockstun" or "outproxy"
    table,         \* routes and defaultProxy of the device
    dns,           \* the zones that SetDNS gave the device
    cfg,           \* TunSocksProxies and TunSocksNoResolve of the daemon
    stage,         \* how far Close has come
    serving,       \* whether serve runs
    conn,          \* the SOCKS connections
    cert,          \* certByCN: hosts with a certificate
    pc, local,     \* admin calls
    inputs

vars == <<kind, table, dns, cfg, stage, serving, conn, cert, pc, local, inputs>>
routing == <<kind, table, dns>>
admin == <<cfg, pc, local>>

NoConn == [at |-> "none", ask |-> "none", asked |-> None, addr |-> None, via |-> None,
           lookup |-> "none", closed |-> FALSE, guarded |-> FALSE]

(* Create builds the device, its routing and its listener, and starts serve. *)
sockstunCreate(t) == kind = "sockstun" /\ t.valid /\ table = t /\ dns = {}
outproxyCreate(t) == kind = "outproxy" /\ t.valid /\ table = t /\ dns = {}

Init ==
    /\ \E t \in Tables : sockstunCreate(t) \/ outproxyCreate(t)
    /\ cfg = [table |-> table, zones |-> {}]
    /\ stage = "open" /\ serving = TRUE
    /\ conn = [c \in Conns |-> NoConn] /\ cert = {}
    /\ pc = [a \in Clients |-> "idle"] /\ local = [a \in Clients |-> None]
    /\ inputs = MaxInputs

Input == inputs > 0 /\ inputs' = inputs - 1
Move(c, p) == conn' = [conn EXCEPT ![c].at = p]

(***************************************************************************)
(* Routing.                                                                *)
(***************************************************************************)
isYggdrasilAddress(a) == a.form = "ip" /\ a.host.ip = "mesh"

(* The first rule that matches, else the default proxy where it applies. *)
Route(a, default) ==
    LET hits == {i \in DOMAIN table.rules : a \in table.rules[i].matches} IN
    IF hits # {} THEN table.rules[CHOOSE i \in hits : \A j \in hits : i <= j].proxy
    ELSE IF table.default # None /\ default THEN table.default ELSE "direct"

networkFor(a) == Route(a, ~isYggdrasilAddress(a))
outproxyNetworkFor(a) == Route(a, TRUE)

noResolveZones_Configured == dns

noResolveZones == DefaultZones \cup dns

shouldSkipResolve(a) == a.host.zone \in noResolveZones

(***************************************************************************)
(* The SOCKS server: accept, register, then one goroutine for each         *)
(* connection.                                                             *)
(***************************************************************************)
serve(c) ==
    /\ serving /\ stage = "open" /\ Input
    /\ conn[c].at = "none" /\ \A d \in Conns : conn[d].at # "accepted"
    /\ Move(c, "accepted")
    /\ UNCHANGED <<routing, admin, stage, serving, cert>>

addConn(c) ==
    /\ conn[c].at = "accepted" /\ Move(c, "asking")
    /\ UNCHANGED <<routing, admin, stage, serving, cert, inputs>>

serveEnds ==
    /\ serving /\ stage # "open" /\ \A c \in Conns : conn[c].at # "accepted"
    /\ serving' = FALSE
    /\ UNCHANGED <<routing, admin, stage, conn, cert, inputs>>

shouldIntercept(a) == kind = "sockstun" /\ a.form = "name" /\ a.host \in MITMHosts

(* A client asks for a connection, for TLS on port 443, or for a lookup. *)
request(c, a, ask) ==
    /\ conn[c].at = "asking" /\ (a.form = "ip" => a.host.ip # "none")
    /\ conn' = [conn EXCEPT ![c] = [@ EXCEPT
          !.at = IF ask = "lookup" THEN "looking" ELSE "checking",
          !.ask = IF ask = "tls" /\ shouldIntercept(a) THEN "mitm" ELSE ask,
          !.asked = a, !.addr = a]]
    /\ UNCHANGED <<routing, admin, stage, serving, cert, inputs>>

Advance(c, r) ==
    /\ conn' = [conn EXCEPT ![c] = r]
    /\ UNCHANGED <<routing, admin, stage, serving, inputs>>

(* resolveAddress reads the zones and the resolver before it routes. *)
resolveBegins(c) ==
    LET a == conn[c].addr
        skip == a.form = "ip" \/ shouldSkipResolve(a) IN
    /\ conn[c].at = "checking" /\ kind = "sockstun" /\ UNCHANGED cert
    /\ Advance(c, [conn[c] EXCEPT !.guarded = a.host.zone \in dns,
                                  !.at = IF skip THEN "routing" ELSE "resolving"])

resolveAddress(c, found) ==
    /\ conn[c].at = "resolving" /\ (found => conn[c].addr.host.ip # "none")
    /\ Advance(c, [conn[c] EXCEPT !.at = "routing", !.addr.form = IF found THEN "ip" ELSE "name"])
    /\ UNCHANGED cert

dialUnresolved(c) ==
    /\ conn[c].at = "routing"
    /\ Advance(c, [conn[c] EXCEPT !.at = "relay", !.via = networkFor(conn[c].addr)])
    /\ cert' = IF conn[c].ask = "mitm" THEN cert \cup {conn[c].addr.host} ELSE cert

(* The lookups ask the route resolver, unless the name is in a zone to skip, *)
(* and then the virtual TUN's own resolver; an IP address is its own answer. *)
lookup(c) ==
    LET a == conn[c].addr IN
    /\ conn[c].at = "looking" /\ kind = "sockstun" /\ UNCHANGED cert
    /\ Advance(c, [conn[c] EXCEPT !.at = "relay", !.guarded = a.host.zone \in dns,
          !.lookup = IF a.form = "ip" THEN "literal"
                     ELSE IF shouldSkipResolve(a) THEN "direct" ELSE "route"])

(* The outproxy resolves nothing before it routes. *)
outproxyDial(c) ==
    /\ conn[c].at = "checking" /\ kind = "outproxy" /\ UNCHANGED cert
    /\ Advance(c, [conn[c] EXCEPT !.at = "relay", !.via = outproxyNetworkFor(conn[c].addr)])

outproxyLookup(c) ==
    /\ conn[c].at = "looking" /\ kind = "outproxy" /\ UNCHANGED cert
    /\ Advance(c, [conn[c] EXCEPT !.at = "relay", !.lookup = "direct"])

(* A handler ends when its client or its target leaves, when its dial or   *)
(* lookup fails, or when Close has closed the connection.                  *)
HandlerEnds(c) == Advance(c, [NoConn EXCEPT !.at = "done"]) /\ UNCHANGED cert

Handled(c) == conn[c].at \notin {"none", "accepted", "done"}

leaves(c) == Handled(c) /\ ~conn[c].closed /\ HandlerEnds(c)
removeConn(c) == Handled(c) /\ conn[c].closed /\ HandlerEnds(c)

(***************************************************************************)
(* Close: cancel and close the listener, close the connections it finds,   *)
(* wait for serve and for every handler, close the virtual TUN.            *)
(***************************************************************************)
closeListener ==
    /\ stage = "open" /\ Input /\ stage' = "listener"
    /\ UNCHANGED <<routing, admin, serving, conn, cert>>

closeConns_Forgets == conn' = conn

closeConns ==
    conn' = [c \in Conns |-> IF Handled(c) THEN [conn[c] EXCEPT !.closed = TRUE] ELSE conn[c]]

closeAllConns ==
    /\ stage = "listener" /\ stage' = "waiting"
    /\ closeConns
    /\ UNCHANGED <<routing, admin, serving, cert, inputs>>

Drained_HandlersOnly == \A c \in Conns : ~Handled(c)

Drained == ~serving /\ \A c \in Conns : ~Handled(c)

closeDevice ==
    /\ stage = "waiting" /\ Drained /\ stage' = "closed"
    /\ UNCHANGED <<routing, admin, serving, conn, cert, inputs>>

(***************************************************************************)
(* The controller: SetSocksProxies and SetSocksDNS change the device, then *)
(* the configuration, under no common lock.                                *)
(***************************************************************************)
SetProxies_Unvalidated(a, t) ==
    /\ pc[a] = "idle" /\ Input /\ table' = t
    /\ pc' = [pc EXCEPT ![a] = "proxies"] /\ local' = [local EXCEPT ![a] = t]
    /\ UNCHANGED <<kind, dns, cfg, stage, serving, conn, cert>>

SetProxies(a, t) ==
    /\ pc[a] = "idle" /\ Input
    /\ IF t.valid THEN /\ table' = t
                       /\ pc' = [pc EXCEPT ![a] = "proxies"]
                       /\ local' = [local EXCEPT ![a] = t]
       ELSE UNCHANGED <<table, pc, local>>
    /\ UNCHANGED <<kind, dns, cfg, stage, serving, conn, cert>>

(* An outproxy has no zones, and refuses any. *)
SetDNS(a, z) ==
    /\ pc[a] = "idle" /\ Input
    /\ IF kind = "sockstun" THEN dns' = z /\ pc' = [pc EXCEPT ![a] = "set"] /\ UNCHANGED local
       ELSE IF z = {} THEN /\ pc' = [pc EXCEPT ![a] = "dns"]
                           /\ local' = [local EXCEPT ![a] = z] /\ UNCHANGED dns
       ELSE UNCHANGED <<dns, pc, local>>
    /\ UNCHANGED <<kind, table, cfg, stage, serving, conn, cert>>

(* SetSocksDNS reads back what the device has normalised. *)
DNS(a) ==
    /\ pc[a] = "set" /\ pc' = [pc EXCEPT ![a] = "dns"]
    /\ local' = [local EXCEPT ![a] = dns]
    /\ UNCHANGED <<routing, cfg, stage, serving, conn, cert, inputs>>

SaveConfig(a) ==
    /\ pc[a] \in {"proxies", "dns"}
    /\ cfg' = IF pc[a] = "dns" THEN [cfg EXCEPT !.zones = local[a]]
              ELSE [cfg EXCEPT !.table = local[a]]
    /\ pc' = [pc EXCEPT ![a] = "idle"] /\ local' = [local EXCEPT ![a] = None]
    /\ UNCHANGED <<routing, stage, serving, conn, cert, inputs>>

Handler(c) ==
    \/ \E a \in Names, ask \in {"connect", "tls", "lookup"} : request(c, a, ask)
    \/ resolveBegins(c) \/ dialUnresolved(c) \/ lookup(c)
    \/ outproxyDial(c) \/ outproxyLookup(c)
    \/ \E found \in BOOLEAN : resolveAddress(c, found)

Closing == closeAllConns \/ closeDevice

Next ==
    \/ \E c \in Conns : serve(c) \/ addConn(c) \/ Handler(c) \/ leaves(c) \/ removeConn(c)
    \/ serveEnds \/ closeListener \/ Closing
    \/ \E a \in Clients : \/ \E t \in Tables : SetProxies(a, t)
                          \/ \E z \in ZoneSets : SetDNS(a, z)
                          \/ DNS(a) \/ SaveConfig(a)

(***************************************************************************)
(* serve, Close and a handler whose connection was closed go on.  Clients  *)
(* may stay connected for ever, so `leaves' is not fair.                   *)
(***************************************************************************)
Fairness ==
    /\ WF_vars(serveEnds) /\ WF_vars(Closing)
    /\ \A c \in Conns : WF_vars(addConn(c)) /\ WF_vars(removeConn(c))

Spec == Init /\ [][Next]_vars /\ Fairness
-----------------------------------------------------------------------------
Proxies ==
    {None, "direct"} \cup {t.default : t \in Tables}
        \cup UNION {{t.rules[i].proxy : i \in DOMAIN t.rules} : t \in Tables}

ConnRecord ==
    [at : {"none", "accepted", "asking", "checking", "resolving", "routing", "looking",
           "relay", "done"},
     ask : {"none", "connect", "tls", "mitm", "lookup"},
     asked : Names \cup {None}, addr : Names \cup {None}, via : Proxies,
     lookup : {"none", "literal", "direct", "route"}, closed : BOOLEAN, guarded : BOOLEAN]

Zones == ZoneSets \cup {{}}

(* A refused table is never installed, and only intercepted hosts get a     *)
(* certificate.                                                             *)
TypeOK ==
    /\ kind \in {"sockstun", "outproxy"}
    /\ table \in Tables /\ table.valid /\ dns \in Zones
    /\ stage \in {"open", "listener", "waiting", "closed"} /\ serving \in BOOLEAN
    /\ conn \in [Conns -> ConnRecord]
    /\ cert \subseteq MITMHosts
    /\ cfg \in [table : Tables, zones : Zones]
    /\ pc \in [Clients -> {"idle", "proxies", "set", "dns"}] /\ inputs \in 0 .. MaxInputs

Protected(r) ==
    /\ r.asked # None /\ r.asked.form = "name"
    /\ r.guarded \/ r.asked.host.zone \in DefaultZones

StaysName(r) ==
    Protected(r) => r.addr.form = "name" /\ r.at # "resolving" /\ r.lookup # "route"

AvoidsDefault(r) ==
    r.via # None /\ isYggdrasilAddress(r.addr) =>
        kind = "outproxy" \/ r.via \notin {t.default : t \in Tables}

(***************************************************************************)
(* What sockstun promises of its routing, whatever SetProxies and SetDNS   *)
(* did before or do between the steps of a dial: a name in a protected or  *)
(* configured zone is never handed to the route resolver, and is routed as *)
(* the name it is, an intercepted one too; and an address of the mesh,     *)
(* asked for or resolved, never leaves by the default proxy.               *)
(***************************************************************************)
RoutingPromises == \A c \in Conns : StaysName(conn[c]) /\ AvoidsDefault(conn[c])

(***************************************************************************)
(* Once Close has closed the virtual TUN no handler runs and none can      *)
(* start, whichever connections were being accepted when it began.         *)
(***************************************************************************)
ClosedIsQuiet ==
    stage = "closed" => ~serving /\ \A c \in Conns : conn[c].at \in {"none", "done"}

(***************************************************************************)
(* Close returns: the connections it finds are closed, so their handlers   *)
(* end.  A connection that serve had accepted but not yet registered is    *)
(* excepted: registered after Close looked, it is closed by nobody, and    *)
(* Close waits for as long as its client stays.                            *)
(***************************************************************************)
CloseReturns ==
    (stage = "listener" /\ \A c \in Conns : conn[c].at # "accepted") ~> stage = "closed"
=============================================================================
