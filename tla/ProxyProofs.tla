---------------------------- MODULE ProxyProofs -----------------------------
(***************************************************************************)
(* Proofs about Proxy, for every set of hosts, routing tables, zones,      *)
(* connections and admin clients.                                          *)
(***************************************************************************)
EXTENDS Proxy, WellFoundedInduction, TLAPS

Asked == {"checking", "looking", "resolving", "routing", "relay"}

(* What a connection has asked for and how far its answer is.  The name is  *)
(* fixed when it asks, the form may change, and only at the end is there a  *)
(* route.                                                                   *)
ConnOK(r) ==
    /\ r.at \notin Asked => r.asked = None /\ r.addr = None /\ r.via = None /\ r.ask = "none"
    /\ r.at \in Asked => r.asked \in Names /\ r.addr \in Names /\ r.addr.host = r.asked.host
    /\ r.at \in {"checking", "looking", "resolving"} => r.addr = r.asked
    /\ r.at \notin {"resolving", "routing", "relay"} => ~r.guarded
    /\ r.at # "relay" => r.via = None /\ r.lookup = "none"
    /\ r.ask = "mitm" /\ r.at \in Asked => r.asked.host \in MITMHosts

Good(r) == r \in ConnRecord /\ ConnOK(r) /\ StaysName(r) /\ AvoidsDefault(r)

(* serve holds what it has accepted and not yet registered; a closed device *)
(* has neither serve nor handlers.                                          *)
AcceptedIsServed == \A c \in Conns : conn[c].at = "accepted" => serving

(* What an admin call is about to save has the right type. *)
LocalOK ==
    /\ DOMAIN local = Clients
    /\ \A a \in Clients : /\ pc[a] = "proxies" => local[a] \in Tables
                          /\ pc[a] = "dns" => local[a] \in Zones

IInv ==
    /\ TypeOK /\ (\A c \in Conns : Good(conn[c]))
    /\ AcceptedIsServed /\ LocalOK /\ ClosedIsQuiet

-----------------------------------------------------------------------------
(* Routing.                                                                *)

LEMMA LeastElement ==
    ASSUME NEW S \in SUBSET Nat, S # {}
    PROVE  \E i \in S : \A j \in S : i <= j
<1> DEFINE R == OpToRel(<, Nat)
<1>1. IsWellFoundedOn(R, Nat)
    BY NatLessThanWellFounded
<1>2. PICK x \in S : \A y \in S : ~(<<y, x>> \in R)
    <2> HIDE DEF R
    <2> QED
        BY <1>1, WFMin
<1>3. \A y \in S : ~(y < x)
    BY <1>2 DEF OpToRel
<1> QED
    BY <1>3

(* A route is the proxy of a rule, the default where it applies, or direct. *)
LEMMA RouteCases ==
    ASSUME table \in Tables, NEW a, NEW default \in BOOLEAN
    PROVE  \/ \E i \in DOMAIN table.rules : Route(a, default) = table.rules[i].proxy
           \/ default /\ table.default # None /\ Route(a, default) = table.default
           \/ Route(a, default) = "direct"
<1> DEFINE hits == {i \in DOMAIN table.rules : a \in table.rules[i].matches}
           first == CHOOSE i \in hits : \A j \in hits : i <= j
<1>1. CASE hits # {}
    <2>1. hits \in SUBSET Nat
        BY ProxyAssumption
    <2>2. \E i \in hits : \A j \in hits : i <= j
        <3> HIDE DEF hits
        <3> QED
            BY <1>1, <2>1, LeastElement
    <2>3. first \in hits
        <3> HIDE DEF hits
        <3> QED
            BY <2>2
    <2>4. Route(a, default) = table.rules[first].proxy
        BY <1>1 DEF Route
    <2> HIDE DEF first
    <2> QED
        BY <2>3, <2>4
<1>2. CASE hits = {}
    BY <1>2 DEF Route
<1> QED
    BY <1>1, <1>2

LEMMA RouteType ==
    ASSUME table \in Tables, NEW a, NEW default \in BOOLEAN
    PROVE  Route(a, default) \in Proxies
BY RouteCases DEF Proxies

LEMMA NoDefault ==
    ASSUME table \in Tables, NEW a
    PROVE  Route(a, FALSE) \notin {t.default : t \in Tables}
BY RouteCases, ProxyNames

-----------------------------------------------------------------------------
(* Steps of one connection.                                                *)

LEMMA NoConnGood ==
    /\ Good(NoConn)
    /\ Good([NoConn EXCEPT !.at = "done"])
    /\ [NoConn EXCEPT !.at = "done"].at = "done"
<1>1. None \in Proxies
    BY DEF Proxies
<1>2. NoConn \in ConnRecord /\ [NoConn EXCEPT !.at = "done"] \in ConnRecord
    BY <1>1 DEF NoConn, ConnRecord
<1> QED
    BY <1>2 DEF Good, NoConn, ConnOK, Asked, StaysName, Protected, AvoidsDefault

(* The part of the invariant that speaks of all connections. *)
ConnInv == conn \in [Conns -> ConnRecord] /\ \A c \in Conns : Good(conn[c])

LEMMA Replaced ==
    ASSUME ConnInv, NEW c \in Conns, NEW r, Good(r), conn' = [conn EXCEPT ![c] = r],
           UNCHANGED kind
    PROVE  /\ ConnInv' /\ conn'[c] = r
           /\ \A d \in Conns : d # c => conn'[d] = conn[d]
<1>1. r \in ConnRecord
    BY DEF Good
<1>2. /\ conn' \in [Conns -> ConnRecord] /\ conn'[c] = r
      /\ \A d \in Conns : d # c => conn'[d] = conn[d]
    BY <1>1 DEF ConnInv
<1>3. \A d \in Conns : Good(conn'[d])
    BY <1>2 DEF ConnInv
<1>4. \A d \in Conns : Good(conn[d])'
    BY <1>3 DEF Good, AvoidsDefault, ConnOK, StaysName, Protected, isYggdrasilAddress
<1> QED
    BY <1>2, <1>4 DEF ConnInv

LEMMA Frame ==
    ASSUME ConnInv, UNCHANGED <<conn, kind>>
    PROVE  ConnInv'
BY DEF ConnInv, Good, AvoidsDefault, ConnOK, StaysName, Protected, isYggdrasilAddress

LEMMA AcceptGood ==
    ASSUME NEW r, Good(r), r.at = "none"
    PROVE  Good([r EXCEPT !.at = "accepted"])
<1>1. [r EXCEPT !.at = "accepted"] \in ConnRecord
    BY DEF Good, ConnRecord
<1> QED
    BY <1>1 DEF Good, ConnOK, Asked, StaysName, Protected, AvoidsDefault, ConnRecord

LEMMA AddGood ==
    ASSUME NEW r, Good(r), r.at = "accepted"
    PROVE  Good([r EXCEPT !.at = "asking"])
<1>1. [r EXCEPT !.at = "asking"] \in ConnRecord
    BY DEF Good, ConnRecord
<1> QED
    BY <1>1 DEF Good, ConnOK, Asked, StaysName, Protected, AvoidsDefault, ConnRecord

LEMMA CloseGood ==
    ASSUME NEW r, Good(r)
    PROVE  Good([r EXCEPT !.closed = TRUE]) /\ [r EXCEPT !.closed = TRUE].at = r.at
<1>1. [r EXCEPT !.closed = TRUE] \in ConnRecord
    BY DEF Good, ConnRecord
<1> QED
    BY <1>1 DEF Good, ConnOK, Asked, StaysName, Protected, AvoidsDefault, ConnRecord

LEMMA RequestGood ==
    ASSUME NEW r, Good(r), r.at = "asking", NEW a \in Names,
           NEW p \in {"looking", "checking"}, NEW q \in {"connect", "tls", "mitm", "lookup"},
           q = "mitm" => a.host \in MITMHosts
    PROVE  Good([r EXCEPT !.at = p, !.ask = q, !.asked = a, !.addr = a])
<1> DEFINE n == [r EXCEPT !.at = p, !.ask = q, !.asked = a, !.addr = a]
<1>1. /\ n \in ConnRecord /\ n.at = p /\ n.ask = q /\ n.asked = a /\ n.addr = a
      /\ n.via = r.via /\ n.lookup = r.lookup /\ n.guarded = r.guarded
    BY DEF Good, ConnRecord
<1>2. r.via = None /\ r.lookup = "none" /\ ~r.guarded
    BY DEF Good, ConnOK
<1> QED
    BY <1>1, <1>2 DEF Good, ConnOK, Asked, StaysName, Protected, AvoidsDefault

(* resolveAddress: the zones are read before anything is resolved. *)
LEMMA BeginGood ==
    ASSUME NEW r, Good(r), r.at = "checking", NEW g \in BOOLEAN,
           NEW p \in {"routing", "resolving"},
           p = "resolving" => ~(g \/ r.addr.host.zone \in DefaultZones)
    PROVE  Good([r EXCEPT !.guarded = g, !.at = p])
<1> DEFINE n == [r EXCEPT !.guarded = g, !.at = p]
<1>1. /\ n \in ConnRecord /\ n.at = p /\ n.guarded = g /\ n.ask = r.ask
      /\ n.asked = r.asked /\ n.addr = r.addr /\ n.via = r.via /\ n.lookup = r.lookup
    BY DEF Good, ConnRecord
<1>2. r.via = None /\ r.lookup = "none" /\ r.addr = r.asked /\ r.asked \in Names
    BY DEF Good, ConnOK, Asked
<1>3. r.ask = "mitm" => r.asked.host \in MITMHosts
    BY DEF Good, ConnOK, Asked
<1> HIDE DEF n
<1>4. p = "resolving" => ~Protected(n)
    BY <1>1, <1>2 DEF Protected
<1>5. Protected(n) => n.addr.form = "name"
    BY <1>1, <1>2 DEF Protected
<1>6. ConnOK(n)
    BY <1>1, <1>2, <1>3 DEF ConnOK, Asked
<1>7. StaysName(n) /\ AvoidsDefault(n)
    BY <1>1, <1>2, <1>4, <1>5 DEF StaysName, AvoidsDefault
<1> QED
    BY <1>1, <1>6, <1>7 DEF Good, n

LEMMA ResolvedGood ==
    ASSUME NEW r, Good(r), r.at = "resolving", NEW f \in {"ip", "name"}
    PROVE  Good([r EXCEPT !.at = "routing", !.addr.form = f])
<1> DEFINE x == [r.addr EXCEPT !.form = f]
           n == [r EXCEPT !.at = "routing", !.addr = x]
<1>1. /\ r \in ConnRecord /\ r.via = None /\ r.lookup = "none" /\ r.addr = r.asked
      /\ r.asked \in Names
    BY DEF Good, ConnOK, Asked
<1>2. r.ask = "mitm" => r.asked.host \in MITMHosts
    BY DEF Good, ConnOK, Asked
<1>3. x \in Names /\ x.host = r.asked.host
    BY <1>1 DEF Names
<1>4. [r EXCEPT !.at = "routing", !.addr.form = f] = n
    BY <1>1 DEF ConnRecord
<1> HIDE DEF x
<1>5. /\ n \in ConnRecord /\ n.at = "routing" /\ n.addr = x
      /\ n.asked = r.asked /\ n.ask = r.ask /\ n.via = r.via /\ n.lookup = r.lookup
      /\ n.guarded = r.guarded
    BY <1>1, <1>3 DEF ConnRecord
<1>6. ~Protected(r)
    BY DEF Good, StaysName
<1> HIDE DEF n
<1>7. ~Protected(n)
    BY <1>5, <1>6 DEF Protected
<1>8. ConnOK(n)
    BY <1>1, <1>2, <1>3, <1>5 DEF ConnOK, Asked
<1>9. StaysName(n) /\ AvoidsDefault(n)
    BY <1>1, <1>5, <1>7 DEF StaysName, AvoidsDefault
<1>10. Good(n)
    BY <1>5, <1>8, <1>9 DEF Good
<1> QED
    BY <1>4, <1>10

(* The two ways to get a route. *)
LEMMA DialGood ==
    ASSUME NEW r, Good(r), r.at \in {"routing", "checking"}, NEW v \in Proxies,
           isYggdrasilAddress(r.addr) => kind = "outproxy" \/ v \notin {t.default : t \in Tables}
    PROVE  Good([r EXCEPT !.at = "relay", !.via = v])
<1> DEFINE n == [r EXCEPT !.at = "relay", !.via = v]
<1>1. /\ n \in ConnRecord /\ n.at = "relay" /\ n.via = v /\ n.asked = r.asked /\ n.addr = r.addr
      /\ n.ask = r.ask /\ n.lookup = r.lookup /\ n.guarded = r.guarded
    BY DEF Good, ConnRecord
<1> HIDE DEF n
<1>2. ConnOK(n)
    BY <1>1 DEF Good, ConnOK, Asked
<1>3. StaysName(n)
    BY <1>1 DEF Good, StaysName, Protected
<1>4. AvoidsDefault(n)
    BY <1>1 DEF AvoidsDefault
<1> QED
    BY <1>1, <1>2, <1>3, <1>4 DEF Good, n

LEMMA LookupGood ==
    ASSUME NEW r, Good(r), r.at = "looking", NEW l \in {"literal", "direct", "route"},
           NEW g \in BOOLEAN,
           l = "route" => ~Protected([r EXCEPT !.guarded = g])
    PROVE  Good([r EXCEPT !.at = "relay", !.guarded = g, !.lookup = l])
<1> DEFINE n == [r EXCEPT !.at = "relay", !.guarded = g, !.lookup = l]
           h == [r EXCEPT !.guarded = g]
<1>1. /\ n \in ConnRecord /\ n.at = "relay" /\ n.via = r.via /\ n.asked = r.asked
      /\ n.addr = r.addr /\ n.ask = r.ask /\ n.lookup = l /\ n.guarded = g
      /\ h.asked = r.asked /\ h.guarded = g
    BY DEF Good, ConnRecord
<1>2. r.via = None /\ r.addr = r.asked
    BY DEF Good, ConnOK
<1> HIDE DEF n
<1>3. ConnOK(n)
    BY <1>1 DEF Good, ConnOK, Asked
<1>4. StaysName(n)
    BY <1>1, <1>2 DEF StaysName, Protected
<1>5. AvoidsDefault(n)
    BY <1>1, <1>2 DEF AvoidsDefault
<1> QED
    BY <1>1, <1>3, <1>4, <1>5 DEF Good, n

-----------------------------------------------------------------------------
(* Steps of the device.                                                    *)

(* A step of one connection: what is left to show is that the connection is *)
(* good afterwards, and that nothing begins on a device that is closed.     *)
LEMMA ConnStep ==
    ASSUME IInv, NEW c \in Conns, NEW r, Good(r), conn' = [conn EXCEPT ![c] = r],
           r.at = "accepted" => serving,
           stage = "closed" => r.at \in {"none", "done"},
           UNCHANGED <<routing, admin, stage, serving>>,
           cert' \subseteq MITMHosts, inputs' \in 0 .. MaxInputs
    PROVE  IInv'
<1>1. ConnInv
    BY DEF IInv, TypeOK, ConnInv
<1>2. /\ ConnInv' /\ conn'[c] = r
      /\ \A d \in Conns : d # c => conn'[d] = conn[d]
    BY <1>1, Replaced DEF routing
<1>3. TypeOK'
    BY <1>2 DEF IInv, TypeOK, ConnInv, routing, admin
<1>4. AcceptedIsServed'
    BY <1>2 DEF IInv, AcceptedIsServed
<1>5. LocalOK'
    BY DEF IInv, LocalOK, admin
<1>6. ClosedIsQuiet'
    BY <1>2 DEF IInv, ClosedIsQuiet
<1> QED
    BY <1>2, <1>3, <1>4, <1>5, <1>6 DEF IInv, ConnInv

(* While a connection is being handled the device is not closed. *)
LEMMA Open ==
    ASSUME IInv, NEW c \in Conns, conn[c].at \notin {"none", "done"}
    PROVE  stage # "closed"
BY DEF IInv, ClosedIsQuiet

LEMMA serveKeeps ==
    ASSUME IInv, NEW c \in Conns, serve(c)
    PROVE  IInv'
<1> DEFINE r == [conn[c] EXCEPT !.at = "accepted"]
<1>1. Good(r)
    BY AcceptGood DEF IInv, serve
<1>2. conn' = [conn EXCEPT ![c] = r]
    BY DEF serve, Move, IInv, TypeOK
<1>3. r.at = "accepted"
    BY DEF IInv, TypeOK, ConnRecord
<1>4. inputs' \in 0 .. MaxInputs
    BY ProxyAssumption DEF serve, Input, IInv, TypeOK
<1>5. serving /\ stage # "closed" /\ UNCHANGED <<routing, admin, stage, serving, cert>>
    BY DEF serve
<1>6. cert' \subseteq MITMHosts
    BY <1>5 DEF IInv, TypeOK
<1> HIDE DEF r
<1> QED
    BY <1>1, <1>2, <1>3, <1>4, <1>5, <1>6, ConnStep

LEMMA addConnKeeps ==
    ASSUME IInv, NEW c \in Conns, addConn(c)
    PROVE  IInv'
<1> DEFINE r == [conn[c] EXCEPT !.at = "asking"]
<1>1. Good(r)
    BY AddGood DEF IInv, addConn
<1>2. conn' = [conn EXCEPT ![c] = r]
    BY DEF addConn, Move, IInv, TypeOK
<1>3. r.at = "asking"
    BY DEF IInv, TypeOK, ConnRecord
<1>4. UNCHANGED <<routing, admin, stage, serving, cert, inputs>> /\ stage # "closed"
    BY Open DEF addConn
<1>5. cert' \subseteq MITMHosts /\ inputs' \in 0 .. MaxInputs
    BY <1>4 DEF IInv, TypeOK
<1> HIDE DEF r
<1> QED
    BY <1>1, <1>2, <1>3, <1>4, <1>5, ConnStep

(* The steps of a handler, all of which go through Advance but the first. *)
LEMMA AdvanceKeeps ==
    ASSUME IInv, NEW c \in Conns, NEW r, Advance(c, r), Good(r), cert' \subseteq MITMHosts,
           r.at # "accepted", conn[c].at \notin {"none", "done"}
    PROVE  IInv'
<1>1. /\ conn' = [conn EXCEPT ![c] = r] /\ stage # "closed"
      /\ UNCHANGED <<routing, admin, stage, serving, inputs>>
    BY Open DEF Advance
<1>2. inputs' \in 0 .. MaxInputs
    BY <1>1 DEF IInv, TypeOK
<1> QED
    BY <1>1, <1>2, ConnStep

LEMMA requestKeeps ==
    ASSUME IInv, NEW c \in Conns, NEW a \in Names, NEW ask \in {"connect", "tls", "lookup"},
           request(c, a, ask)
    PROVE  IInv'
<1> DEFINE p == IF ask = "lookup" THEN "looking" ELSE "checking"
           q == IF ask = "tls" /\ shouldIntercept(a) THEN "mitm" ELSE ask
           r == [conn[c] EXCEPT !.at = p, !.ask = q, !.asked = a, !.addr = a]
<1>1. p \in {"looking", "checking"} /\ q \in {"connect", "tls", "mitm", "lookup"}
    OBVIOUS
<1>2. q = "mitm" => a.host \in MITMHosts
    BY DEF shouldIntercept
<1>3. conn[c].at = "asking" /\ Good(conn[c]) /\ conn[c] \in ConnRecord
    BY DEF request, IInv, TypeOK
<1>4. Advance(c, r)
    BY DEF request, Advance
<1>5. cert' \subseteq MITMHosts
    BY DEF request, IInv, TypeOK
<1> HIDE DEF p, q
<1>6. Good(r)
    BY <1>1, <1>2, <1>3, RequestGood
<1>7. r.at = p
    BY <1>3 DEF ConnRecord
<1> HIDE DEF r
<1> QED
    BY <1>1, <1>3, <1>4, <1>5, <1>6, <1>7, AdvanceKeeps

LEMMA resolveBeginsKeeps ==
    ASSUME IInv, NEW c \in Conns, resolveBegins(c)
    PROVE  IInv'
<1> DEFINE a == conn[c].addr
           g == a.host.zone \in dns
           p == IF a.form = "ip" \/ shouldSkipResolve(a) THEN "routing" ELSE "resolving"
           r == [conn[c] EXCEPT !.guarded = g, !.at = p]
<1>1. g \in BOOLEAN /\ p \in {"routing", "resolving"}
    OBVIOUS
<1>2. p = "resolving" => ~(g \/ a.host.zone \in DefaultZones)
    BY DEF shouldSkipResolve, noResolveZones
<1>3. conn[c].at = "checking" /\ Good(conn[c]) /\ conn[c] \in ConnRecord
    BY DEF resolveBegins, IInv, TypeOK
<1>4. Advance(c, r)
    BY DEF resolveBegins
<1>5. cert' \subseteq MITMHosts
    BY DEF resolveBegins, IInv, TypeOK
<1> HIDE DEF p, g
<1>6. Good(r)
    BY <1>1, <1>2, <1>3, BeginGood
<1>7. r.at = p
    BY <1>3 DEF ConnRecord
<1> HIDE DEF r
<1> QED
    BY <1>1, <1>3, <1>4, <1>5, <1>6, <1>7, AdvanceKeeps

LEMMA resolveAddressKeeps ==
    ASSUME IInv, NEW c \in Conns, NEW found \in BOOLEAN, resolveAddress(c, found)
    PROVE  IInv'
<1> DEFINE f == IF found THEN "ip" ELSE "name"
           r == [conn[c] EXCEPT !.at = "routing", !.addr.form = f]
<1>1. f \in {"ip", "name"}
    OBVIOUS
<1>2. conn[c].at = "resolving" /\ Good(conn[c]) /\ conn[c] \in ConnRecord
    BY DEF resolveAddress, IInv, TypeOK
<1>3. Advance(c, r)
    BY DEF resolveAddress
<1>4. cert' \subseteq MITMHosts
    BY DEF resolveAddress, IInv, TypeOK
<1> HIDE DEF f
<1>5. Good(r)
    BY <1>1, <1>2, ResolvedGood
<1>6. r.at = "routing"
    BY <1>2 DEF ConnRecord
<1> HIDE DEF r
<1> QED
    BY <1>2, <1>3, <1>4, <1>5, <1>6, AdvanceKeeps

LEMMA dialUnresolvedKeeps ==
    ASSUME IInv, NEW c \in Conns, dialUnresolved(c)
    PROVE  IInv'
<1> DEFINE a == conn[c].addr
           v == networkFor(a)
           r == [conn[c] EXCEPT !.at = "relay", !.via = v]
<1>1. conn[c].at = "routing" /\ Good(conn[c]) /\ conn[c] \in ConnRecord
    BY DEF dialUnresolved, IInv, TypeOK
<1>2. table \in Tables
    BY DEF IInv, TypeOK
<1>3. v \in Proxies
    BY <1>2, RouteType DEF networkFor, isYggdrasilAddress
<1>4. isYggdrasilAddress(a) => v \notin {t.default : t \in Tables}
    <2>1. isYggdrasilAddress(a) => v = Route(a, FALSE)
        BY DEF networkFor
    <2> HIDE DEF v
    <2> QED
        BY <1>2, <2>1, NoDefault
<1>5. Advance(c, r)
    BY DEF dialUnresolved
<1>6. conn[c].ask = "mitm" => a.host \in MITMHosts
    BY <1>1 DEF Good, ConnOK, Asked
<1>7. cert' \subseteq MITMHosts
    BY <1>6 DEF dialUnresolved, IInv, TypeOK
<1> HIDE DEF v
<1>8. Good(r)
    BY <1>1, <1>3, <1>4, DialGood
<1>9. r.at = "relay"
    BY <1>1 DEF ConnRecord
<1> HIDE DEF r
<1> QED
    BY <1>1, <1>5, <1>7, <1>8, <1>9, AdvanceKeeps

LEMMA outproxyDialKeeps ==
    ASSUME IInv, NEW c \in Conns, outproxyDial(c)
    PROVE  IInv'
<1> DEFINE v == outproxyNetworkFor(conn[c].addr)
           r == [conn[c] EXCEPT !.at = "relay", !.via = v]
<1>1. /\ conn[c].at = "checking" /\ Good(conn[c]) /\ conn[c] \in ConnRecord
      /\ kind = "outproxy"
    BY DEF outproxyDial, IInv, TypeOK
<1>2. v \in Proxies
    BY RouteType DEF outproxyNetworkFor, IInv, TypeOK
<1>3. Advance(c, r) /\ cert' \subseteq MITMHosts
    BY DEF outproxyDial, IInv, TypeOK
<1> HIDE DEF v
<1>4. Good(r)
    BY <1>1, <1>2, DialGood
<1>5. r.at = "relay"
    BY <1>1 DEF ConnRecord
<1> HIDE DEF r
<1> QED
    BY <1>1, <1>3, <1>4, <1>5, AdvanceKeeps

LEMMA lookupKeeps ==
    ASSUME IInv, NEW c \in Conns, lookup(c)
    PROVE  IInv'
<1> DEFINE a == conn[c].addr
           g == a.host.zone \in dns
           l == IF a.form = "ip" THEN "literal"
                ELSE IF shouldSkipResolve(a) THEN "direct" ELSE "route"
           r == [conn[c] EXCEPT !.at = "relay", !.guarded = g, !.lookup = l]
<1>1. g \in BOOLEAN /\ l \in {"literal", "direct", "route"}
    OBVIOUS
<1>2. l = "route" => ~(g \/ a.host.zone \in DefaultZones)
    BY DEF shouldSkipResolve, noResolveZones
<1>3. conn[c].at = "looking" /\ Good(conn[c]) /\ conn[c] \in ConnRecord
    BY DEF lookup, IInv, TypeOK
<1>4. a = conn[c].asked
    BY <1>3 DEF Good, ConnOK
<1>5. Advance(c, r) /\ cert' \subseteq MITMHosts
    BY DEF lookup, IInv, TypeOK
<1> HIDE DEF g, l
<1>6. l = "route" => ~Protected([conn[c] EXCEPT !.guarded = g])
    BY <1>1, <1>2, <1>3, <1>4 DEF Protected, ConnRecord
<1>7. Good(r)
    BY <1>1, <1>3, <1>6, LookupGood
<1>8. r.at = "relay"
    BY <1>3 DEF ConnRecord
<1> HIDE DEF r
<1> QED
    BY <1>3, <1>5, <1>7, <1>8, AdvanceKeeps

LEMMA outproxyLookupKeeps ==
    ASSUME IInv, NEW c \in Conns, outproxyLookup(c)
    PROVE  IInv'
<1> DEFINE r == [conn[c] EXCEPT !.at = "relay", !.lookup = "direct"]
<1>1. conn[c].at = "looking" /\ Good(conn[c]) /\ conn[c] \in ConnRecord
    BY DEF outproxyLookup, IInv, TypeOK
<1>2. conn[c].guarded = FALSE
    BY <1>1 DEF Good, ConnOK, ConnRecord
<1>3. r = [conn[c] EXCEPT !.at = "relay", !.guarded = FALSE, !.lookup = "direct"]
    BY <1>1, <1>2 DEF ConnRecord
<1>4. Good(r)
    BY <1>1, <1>3, LookupGood
<1>5. Advance(c, r) /\ cert' \subseteq MITMHosts
    BY DEF outproxyLookup, IInv, TypeOK
<1>6. r.at = "relay"
    BY <1>1 DEF ConnRecord
<1> HIDE DEF r
<1> QED
    BY <1>1, <1>4, <1>5, <1>6, AdvanceKeeps

LEMMA HandlerEndsKeeps ==
    ASSUME IInv, NEW c \in Conns, Handled(c), HandlerEnds(c)
    PROVE  IInv'
<1> DEFINE r == [NoConn EXCEPT !.at = "done"]
<1>1. Good(r) /\ r.at = "done"
    BY NoConnGood
<1>2. Advance(c, r) /\ cert' \subseteq MITMHosts
    BY DEF HandlerEnds, IInv, TypeOK
<1>3. conn[c].at \notin {"none", "done"}
    BY DEF Handled
<1> HIDE DEF r
<1> QED
    BY <1>1, <1>2, <1>3, AdvanceKeeps

(* Close, and the end of serve. *)
LEMMA serveEndsKeeps ==
    ASSUME IInv, serveEnds
    PROVE  IInv'
<1>1. UNCHANGED <<routing, admin, stage, conn, cert, inputs>> /\ serving' = FALSE
    BY DEF serveEnds
<1>2. ConnInv'
    BY <1>1, Frame DEF IInv, TypeOK, ConnInv, routing
<1>3. TypeOK'
    BY <1>1 DEF IInv, TypeOK, routing, admin
<1>4. AcceptedIsServed' /\ LocalOK' /\ ClosedIsQuiet'
    BY <1>1 DEF serveEnds, IInv, AcceptedIsServed, LocalOK, ClosedIsQuiet, admin
<1> QED
    BY <1>2, <1>3, <1>4 DEF IInv, ConnInv

LEMMA closeListenerKeeps ==
    ASSUME IInv, closeListener
    PROVE  IInv'
<1>1. UNCHANGED <<routing, admin, serving, conn, cert>> /\ stage' = "listener"
    BY DEF closeListener
<1>2. ConnInv'
    BY <1>1, Frame DEF IInv, TypeOK, ConnInv, routing
<1>3. inputs' \in 0 .. MaxInputs
    BY ProxyAssumption DEF closeListener, Input, IInv, TypeOK
<1>4. TypeOK'
    BY <1>1, <1>3 DEF IInv, TypeOK, routing, admin
<1>5. AcceptedIsServed' /\ LocalOK' /\ ClosedIsQuiet'
    BY <1>1 DEF IInv, AcceptedIsServed, LocalOK, ClosedIsQuiet, admin
<1> QED
    BY <1>2, <1>4, <1>5 DEF IInv, ConnInv

LEMMA closeAllConnsKeeps ==
    ASSUME IInv, closeAllConns
    PROVE  IInv'
<1>1. UNCHANGED <<routing, admin, serving, cert, inputs>> /\ stage' = "waiting"
    BY DEF closeAllConns
<1>2. ASSUME NEW c \in Conns
      PROVE  Good(conn'[c]) /\ conn'[c].at = conn[c].at
    <2>1. Good(conn[c])
        BY DEF IInv
    <2>2. \/ conn'[c] = [conn[c] EXCEPT !.closed = TRUE]
          \/ conn'[c] = conn[c]
        BY DEF closeAllConns, closeConns
    <2> QED
        BY <2>1, <2>2, CloseGood
<1>3. conn' \in [Conns -> ConnRecord]
    BY <1>2 DEF closeAllConns, closeConns, Good
<1>4. \A c \in Conns : Good(conn[c])'
    BY <1>1, <1>2 DEF Good, AvoidsDefault, ConnOK, StaysName, Protected, isYggdrasilAddress, routing
<1>5. TypeOK'
    BY <1>1, <1>3 DEF IInv, TypeOK, routing, admin
<1>6. AcceptedIsServed' /\ LocalOK' /\ ClosedIsQuiet'
    BY <1>1, <1>2 DEF IInv, AcceptedIsServed, LocalOK, ClosedIsQuiet, admin
<1> QED
    BY <1>4, <1>5, <1>6 DEF IInv

LEMMA closeDeviceKeeps ==
    ASSUME IInv, closeDevice
    PROVE  IInv'
<1>1. UNCHANGED <<routing, admin, serving, conn, cert, inputs>> /\ stage' = "closed"
    BY DEF closeDevice
<1>2. ConnInv'
    BY <1>1, Frame DEF IInv, TypeOK, ConnInv, routing
<1>3. TypeOK'
    BY <1>1 DEF IInv, TypeOK, routing, admin
<1>4. AcceptedIsServed' /\ LocalOK'
    BY <1>1 DEF IInv, AcceptedIsServed, LocalOK, admin
<1>5. ~serving /\ \A c \in Conns : conn[c].at \in {"none", "done"}
    BY DEF closeDevice, Drained, Handled, IInv, AcceptedIsServed
<1>6. ClosedIsQuiet'
    BY <1>1, <1>5 DEF ClosedIsQuiet
<1> QED
    BY <1>2, <1>3, <1>4, <1>6 DEF IInv, ConnInv

(* The admin calls, none of which touches a connection. *)
LEMMA AdminStep ==
    ASSUME IInv, UNCHANGED <<kind, stage, serving, conn, cert>>,
           table' \in Tables, table'.valid, dns' \in Zones,
           cfg' \in [table : Tables, zones : Zones],
           pc' \in [Clients -> {"idle", "proxies", "set", "dns"}],
           inputs' \in 0 .. MaxInputs, LocalOK'
    PROVE  IInv'
<1>1. ConnInv'
    BY Frame DEF IInv, TypeOK, ConnInv
<1>2. TypeOK'
    BY DEF IInv, TypeOK
<1>3. AcceptedIsServed' /\ ClosedIsQuiet'
    BY DEF IInv, AcceptedIsServed, ClosedIsQuiet
<1> QED
    BY <1>1, <1>2, <1>3 DEF IInv, ConnInv

LEMMA SetProxiesKeeps ==
    ASSUME IInv, NEW a \in Clients, NEW t \in Tables, SetProxies(a, t)
    PROVE  IInv'
<1>1. UNCHANGED <<kind, dns, cfg, stage, serving, conn, cert>>
    BY DEF SetProxies
<1>2. inputs' \in 0 .. MaxInputs
    BY ProxyAssumption DEF SetProxies, Input, IInv, TypeOK
<1>3. table' \in Tables /\ table'.valid
    BY DEF SetProxies, IInv, TypeOK
<1>4. pc' \in [Clients -> {"idle", "proxies", "set", "dns"}]
    BY DEF SetProxies, IInv, TypeOK
<1>5. LocalOK'
    BY DEF SetProxies, IInv, TypeOK, LocalOK
<1>6. dns' \in Zones /\ cfg' \in [table : Tables, zones : Zones]
    BY <1>1 DEF IInv, TypeOK
<1> QED
    BY <1>1, <1>2, <1>3, <1>4, <1>5, <1>6, AdminStep

LEMMA SetDNSKeeps ==
    ASSUME IInv, NEW a \in Clients, NEW z \in ZoneSets, SetDNS(a, z)
    PROVE  IInv'
<1>1. UNCHANGED <<kind, table, cfg, stage, serving, conn, cert>>
    BY DEF SetDNS
<1>2. inputs' \in 0 .. MaxInputs
    BY ProxyAssumption DEF SetDNS, Input, IInv, TypeOK
<1>3. dns' \in Zones
    BY DEF SetDNS, IInv, TypeOK, Zones
<1>4. pc' \in [Clients -> {"idle", "proxies", "set", "dns"}]
    BY DEF SetDNS, IInv, TypeOK
<1>5. LocalOK'
    BY DEF SetDNS, IInv, TypeOK, LocalOK, Zones
<1>6. table' \in Tables /\ table'.valid /\ cfg' \in [table : Tables, zones : Zones]
    BY <1>1 DEF IInv, TypeOK
<1> QED
    BY <1>1, <1>2, <1>3, <1>4, <1>5, <1>6, AdminStep

LEMMA DNSKeeps ==
    ASSUME IInv, NEW a \in Clients, DNS(a)
    PROVE  IInv'
<1>1. UNCHANGED <<kind, table, dns, cfg, stage, serving, conn, cert, inputs>>
    BY DEF DNS, routing
<1>2. /\ table' \in Tables /\ table'.valid /\ cfg' \in [table : Tables, zones : Zones]
      /\ dns' \in Zones /\ inputs' \in 0 .. MaxInputs
    BY <1>1 DEF IInv, TypeOK
<1>3. pc' \in [Clients -> {"idle", "proxies", "set", "dns"}]
    BY DEF DNS, IInv, TypeOK
<1>4. LocalOK'
    BY DEF DNS, IInv, TypeOK, LocalOK
<1> QED
    BY <1>1, <1>2, <1>3, <1>4, AdminStep

LEMMA SaveConfigKeeps ==
    ASSUME IInv, NEW a \in Clients, SaveConfig(a)
    PROVE  IInv'
<1>1. UNCHANGED <<kind, table, dns, stage, serving, conn, cert, inputs>>
    BY DEF SaveConfig, routing
<1>2. table' \in Tables /\ table'.valid /\ dns' \in Zones /\ inputs' \in 0 .. MaxInputs
    BY <1>1 DEF IInv, TypeOK
<1>3. cfg' \in [table : Tables, zones : Zones]
    BY DEF SaveConfig, IInv, TypeOK, LocalOK
<1>4. pc' \in [Clients -> {"idle", "proxies", "set", "dns"}]
    BY DEF SaveConfig, IInv, TypeOK
<1>5. LocalOK'
    BY DEF SaveConfig, IInv, TypeOK, LocalOK
<1> QED
    BY <1>1, <1>2, <1>3, <1>4, <1>5, AdminStep

-----------------------------------------------------------------------------
(* The inductive invariant. *)

LEMMA InitIInv == Init => IInv
<1> SUFFICES ASSUME Init PROVE IInv
    OBVIOUS
<1>1. TypeOK
    BY NoConnGood, ProxyAssumption
    DEF Init, TypeOK, sockstunCreate, outproxyCreate, Good, Zones
<1>2. \A c \in Conns : conn[c] = NoConn /\ Good(conn[c])
    BY NoConnGood DEF Init
<1>3. AcceptedIsServed /\ LocalOK /\ ClosedIsQuiet
    BY DEF Init, AcceptedIsServed, LocalOK, ClosedIsQuiet
<1> QED
    BY <1>1, <1>2, <1>3 DEF IInv

LEMMA StutterKeeps ==
    ASSUME IInv, UNCHANGED vars
    PROVE  IInv'
<1>1. ConnInv'
    BY Frame DEF IInv, TypeOK, ConnInv, vars
<1> QED
    BY <1>1 DEF IInv, TypeOK, ConnInv, AcceptedIsServed, LocalOK, ClosedIsQuiet, vars

LEMMA NextIInv == IInv /\ [Next]_vars => IInv'
<1> SUFFICES ASSUME IInv, [Next]_vars PROVE IInv'
    OBVIOUS
<1>1. ASSUME NEW c \in Conns, Handler(c) PROVE IInv'
    BY <1>1, requestKeeps, resolveBeginsKeeps, dialUnresolvedKeeps, lookupKeeps,
       outproxyDialKeeps, outproxyLookupKeeps, resolveAddressKeeps
    DEF Handler
<1>2. ASSUME NEW c \in Conns, serve(c) \/ addConn(c) \/ leaves(c) \/ removeConn(c)
      PROVE  IInv'
    BY <1>2, serveKeeps, addConnKeeps, HandlerEndsKeeps DEF leaves, removeConn
<1>3. ASSUME serveEnds \/ closeListener \/ Closing PROVE IInv'
    BY <1>3, serveEndsKeeps, closeListenerKeeps, closeAllConnsKeeps, closeDeviceKeeps DEF Closing
<1>4. ASSUME NEW a \in Clients,
             \/ \E t \in Tables : SetProxies(a, t)
             \/ \E z \in ZoneSets : SetDNS(a, z)
             \/ DNS(a) \/ SaveConfig(a)
      PROVE  IInv'
    BY <1>4, SetProxiesKeeps, SetDNSKeeps, DNSKeeps, SaveConfigKeeps
<1>5. ASSUME UNCHANGED vars PROVE IInv'
    BY <1>5, StutterKeeps
<1> QED
    BY <1>1, <1>2, <1>3, <1>4, <1>5 DEF Next

(* The inductive invariant holds in every reachable state.                  *)
THEOREM Invariance == Spec => []IInv
BY InitIInv, NextIInv, PTL DEF Spec

(* A table that was refused never reaches the device, and a certificate is  *)
(* made only for a host the interception patterns match, for any tables,    *)
(* hosts, clients and connections.                                          *)
THEOREM TypeCorrect == Spec => []TypeOK
<1>1. IInv => TypeOK
    BY DEF IInv
<1> QED
    BY <1>1, Invariance, PTL

(* resolveAddress and networkFor keep the promises of sockstun for every    *)
(* number of connections, whatever admin calls fall between their steps: a  *)
(* protected name stays a name and is not looked up along a route, and an   *)
(* address of the mesh does not leave by a default proxy.                   *)
THEOREM PromisesKept == Spec => []RoutingPromises
<1>1. IInv => RoutingPromises
    BY DEF IInv, Good, RoutingPromises
<1> QED
    BY <1>1, Invariance, PTL

(* After Close has closed the virtual TUN nothing is served or handled, for *)
(* every number of connections that were being accepted or handled.         *)
THEOREM CloseIsFinal == Spec => []ClosedIsQuiet
<1>1. IInv => ClosedIsQuiet
    BY DEF IInv
<1> QED
    BY <1>1, Invariance, PTL
=============================================================================
