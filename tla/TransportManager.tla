-------------------------- MODULE TransportManager --------------------------
(***************************************************************************)
(* ygglib/transport/manager.go: the registry of transports and networks.   *)
(*                                                                         *)
(* A Manager hands out connections and listeners.  Dial and Listen take a  *)
(* snapshot of the routing tables under the read lock, call the transport  *)
(* with no lock held, and commit the result under the write lock only if   *)
(* no table changed in between (version).  An operation that changes a     *)
(* table collects, under the lock, the resources it strands and closes     *)
(* them after unlocking.  Closing a tracked resource is itself two steps:  *)
(* unregister it, then close the socket below.                             *)
(*                                                                         *)
(* One step of this module is one critical section of m.mu, or one call    *)
(* that the code makes with the lock released.  A host, a pattern (already *)
(* normalised and valid), a network and a scheme are model values;         *)
(* path.Match and patternScore are the constants HostMatches, Score and    *)
(* Wildcards.  A socket name s stands both for the resource id and for the *)
(* connection or listener under it; a name is used again only when nothing *)
(* refers to it any more, as ids are never used again.                     *)
(***************************************************************************)
EXTENDS Integers

CONSTANTS
    Sock,         \* names of connections and listeners
    Callers,      \* goroutines that call Dial or Listen
    Admins,       \* goroutines that reconfigure or close the manager
    Hosts, Patterns, Networks, Schemes, Transports,
    HostMatches,  \* hostMatches: a set of <<pattern, host>>
    Score,        \* patternScore: literal characters of a pattern
    Wildcards,    \* patternScore: wildcard characters of a pattern
    SchemesOf,    \* Transport.Schemes()
    MaxVersion,   \* bound on the number of reconfigurations
    None,         \* nil, and "no value"
    Unmapped,     \* the pattern is not a key of m.mappings
    DefaultKey    \* defaultMappingKey, the empty string

ASSUME ConstantsAssumption ==
    /\ HostMatches \subseteq Patterns \X Hosts
    /\ Score \in [Patterns -> Nat]
    /\ Wildcards \in [Patterns -> Nat]
    /\ SchemesOf \in [Transports -> SUBSET Schemes]
    /\ MaxVersion \in Nat
    /\ None \notin Sock \cup Hosts \cup Patterns \cup Networks \cup Schemes \cup Transports
    /\ Unmapped \notin Networks \cup {None}
    /\ DefaultKey \notin Patterns \cup {None}

VARIABLES
    closed,      \* m.closed
    version,     \* m.version
    defaultNet,  \* m.defaultNet, None when nil
    transports,  \* m.transports, None where a scheme is not registered
    mappings,    \* m.mappings, Unmapped where a pattern is not a key
    sock,        \* m.resources and the sockets below them
    call,        \* the Dial and Listen calls in progress
    admin        \* the closeAll calls in progress

vars == <<closed, version, defaultNet, transports, mappings, sock, call, admin>>
tables == <<closed, version, defaultNet, transports, mappings>>

Kinds == {"conn", "listener"}
Mappings == Patterns \cup {DefaultKey}

\* What one socket is.  "raw": made by the transport, not registered; "open":
\* registered in m.resources; "closing": unregistered by the goroutine that won
\* once.Do, the socket below still open; "free": closed.  late is history: an accepted
\* connection was registered when its listener was already due to be closed.
Free == [phase |-> "free", kind |-> "conn", host |-> None, mapping |-> None,
         net |-> None, parent |-> None, late |-> FALSE]

SockState ==
    [phase: {"free", "raw", "open", "closing"}, kind: Kinds, host: Hosts \cup {None},
     mapping: Mappings \cup {None}, net: Networks \cup {None}, parent: Sock \cup {None},
     late: BOOLEAN]

\* The type snapshot, flattened together with the arguments of the call.
Idle == [pc |-> "idle", kind |-> "conn", scheme |-> None, host |-> None, version |-> 0,
         transport |-> None, net |-> None, mapping |-> None, sock |-> None]

CallState ==
    [pc: {"idle", "resolve", "transport", "commit"}, kind: Kinds, scheme: Schemes \cup {None},
     host: Hosts \cup {None}, version: Nat, transport: Transports \cup {None},
     net: Networks \cup {None}, mapping: Mappings \cup {None}, sock: Sock \cup {None}]

Resting == [left |-> {}, cur |-> None]

-----------------------------------------------------------------------------
(* Route selection.                                                        *)

Mapped(m, h) == {p \in Patterns : m[p] # Unmapped /\ <<p, h>> \in HostMatches}

\* p replaces q as the best pattern: more literal characters, then fewer
\* wildcards.
Better(p, q) ==
    \/ Score[p] > Score[q]
    \/ Score[p] = Score[q] /\ Wildcards[p] < Wildcards[q]

\* resolveNetworkLocked.  Patterns that tie are chosen by Go's map iteration
\* order, so the result is the set of the possible results.
Resolve(m, d, h) ==
    IF Mapped(m, h) = {}
    THEN {<<d, DefaultKey>>}
    ELSE {<<m[p], p>> : p \in {q \in Mapped(m, h) : \A r \in Mapped(m, h) : ~Better(r, q)}}

resolveNetworkLocked(h) == Resolve(mappings, defaultNet, h)

-----------------------------------------------------------------------------
(* Resources.                                                              *)

\* The keys of m.resources.
Registered == {s \in Sock : sock[s].phase = "open"}

Children(s) == {c \in Registered : sock[c].parent = s}

\* collectClosersLocked and collectResourceTreeLocked: the resources that match
\* and the accepted connections below them.
collectClosersLocked(match) ==
    LET roots == Registered \cap match
    IN  roots \cup UNION {Children(s) : s \in roots}

\* Some closeAll still has to close s.
CloseIsDue(s) == \E a \in Admins : s \in admin[a].left

\* No call, no pending close and no accepted connection refers to s.
Unreferenced(s) ==
    /\ \A p \in Callers : call[p].sock # s
    /\ \A a \in Admins : s \notin admin[a].left /\ admin[a].cur # s
    /\ \A c \in Sock : sock[c].parent # s

Fresh(s) == sock[s] = Free /\ Unreferenced(s)

-----------------------------------------------------------------------------
(* Transports.                                                             *)

RegisterTransport(t) ==
    /\ version < MaxVersion
    /\ SchemesOf[t] # {}
    /\ ~closed
    /\ \A x \in SchemesOf[t] : transports[x] = None
    /\ transports' = [x \in Schemes |-> IF x \in SchemesOf[t] THEN t ELSE transports[x]]
    /\ version' = version + 1
    /\ UNCHANGED <<closed, defaultNet, mappings, sock, call, admin>>

\* Mutant: UnregisterTransport forgets m.version++.
UnregisterTransport_NoVersion(x) ==
    /\ ~closed
    /\ transports[x] # None
    /\ transports' = [transports EXCEPT ![x] = None]
    /\ UNCHANGED <<closed, version, defaultNet, mappings, sock, call, admin>>

UnregisterTransport(x) ==
    /\ version < MaxVersion
    /\ ~closed
    /\ transports[x] # None
    /\ transports' = [transports EXCEPT ![x] = None]
    /\ version' = version + 1
    /\ UNCHANGED <<closed, defaultNet, mappings, sock, call, admin>>

-----------------------------------------------------------------------------
(* Reconfiguration.  The critical section changes the table and collects;  *)
(* closeAll then runs unlocked, one Close at a time.                       *)

StartClosers(a, closers) == admin' = [admin EXCEPT ![a].left = closers]

Reconfigure(a) ==
    /\ version < MaxVersion
    /\ admin[a] = Resting
    /\ ~closed
    /\ version' = version + 1
    /\ UNCHANGED <<transports, sock, call>>

SetDefaultNetwork(a, n) ==
    /\ Reconfigure(a)
    /\ defaultNet' = n
    /\ StartClosers(a, collectClosersLocked({s \in Sock : sock[s].mapping = DefaultKey}))
    /\ UNCHANGED <<closed, mappings>>

\* Mutant: MapNetwork closes only what the pattern already served, and misses the
\* resources a new, more specific pattern takes over.
MapNetwork_SameMapping(a, p, n) ==
    /\ Reconfigure(a)
    /\ mappings' = [mappings EXCEPT ![p] = n]
    /\ StartClosers(a, collectClosersLocked({s \in Sock : sock[s].mapping = p}))
    /\ UNCHANGED <<closed, defaultNet>>

MapNetwork(a, p, n) ==
    /\ Reconfigure(a)
    /\ mappings' = [mappings EXCEPT ![p] = n]
    /\ StartClosers(a, collectClosersLocked({s \in Sock : <<p, sock[s].host>> \in HostMatches}))
    /\ UNCHANGED <<closed, defaultNet>>

UnmapNetwork(a, p) ==
    /\ Reconfigure(a)
    /\ mappings[p] # Unmapped
    /\ mappings' = [mappings EXCEPT ![p] = Unmapped]
    /\ StartClosers(a, collectClosersLocked({s \in Sock : sock[s].mapping = p}))
    /\ UNCHANGED <<closed, defaultNet>>

Close(a) ==
    /\ Reconfigure(a)
    /\ closed' = TRUE
    /\ StartClosers(a, collectClosersLocked(Sock))
    /\ UNCHANGED <<defaultNet, mappings>>

-----------------------------------------------------------------------------
(* trackedConn.Close and trackedListener.Close.                            *)

\* The winner of once.Do runs done, which is unregister(id).
BeginClose(s) == sock' = [sock EXCEPT ![s].phase = "closing"]

\* ... and then closes the socket below.
CloseUnderlying(s) ==
    /\ sock[s].phase = "closing"
    /\ sock' = [sock EXCEPT ![s] = Free]
    /\ UNCHANGED <<tables, call, admin>>

\* The holder of a connection or listener closes it.
UserClose(s) ==
    /\ sock[s].phase = "open"
    /\ BeginClose(s)
    /\ UNCHANGED <<tables, call, admin>>

\* closeAll turns to the next closer, in the order of Go's map iteration.
CloseNext(a) ==
    /\ admin[a].cur = None
    /\ \E s \in admin[a].left :
        /\ admin' = [admin EXCEPT ![a] = [left |-> @.left \ {s}, cur |-> s]]
        /\ IF sock[s].phase = "open" THEN BeginClose(s) ELSE UNCHANGED sock
    /\ UNCHANGED <<tables, call>>

\* Close returns to closeAll: once.Do waits for whoever won it.
CloseReturns(a) ==
    /\ admin[a].cur # None
    /\ sock[admin[a].cur] = Free
    /\ admin' = [admin EXCEPT ![a].cur = None]
    /\ UNCHANGED <<tables, sock, call>>

-----------------------------------------------------------------------------
(* DialWithOptions and ListenWithOptions.                                  *)

\* A call at the head of its loop, with no snapshot and no socket.
Resolving(k, x, h) == [Idle EXCEPT !.pc = "resolve", !.kind = k, !.scheme = x, !.host = h]

StartCall(p, k, x, h) ==
    /\ call[p].pc = "idle"
    /\ call' = [call EXCEPT ![p] = Resolving(k, x, h)]
    /\ UNCHANGED <<tables, sock, admin>>

\* Mutant: snapshotFor accepts a nil network.
snapshotFor_NilNetwork(p) ==
    /\ call[p].pc = "resolve"
    /\ \E nm \in resolveNetworkLocked(call[p].host) :
        LET t == transports[call[p].scheme]
        IN  call' = [call EXCEPT ![p] =
                IF closed \/ t = None
                THEN Idle
                ELSE [@ EXCEPT !.pc = "transport", !.version = version, !.transport = t,
                               !.net = nm[1], !.mapping = nm[2]]]
    /\ UNCHANGED <<tables, sock, admin>>

\* snapshotFor: ErrClosed, ErrUnsupportedScheme, ErrNoNetwork, or a snapshot.
snapshotFor(p) ==
    /\ call[p].pc = "resolve"
    /\ \E nm \in resolveNetworkLocked(call[p].host) :
        LET t == transports[call[p].scheme]
        IN  call' = [call EXCEPT ![p] =
                IF closed \/ t = None \/ nm[1] = None
                THEN Idle
                ELSE [@ EXCEPT !.pc = "transport", !.version = version, !.transport = t,
                               !.net = nm[1], !.mapping = nm[2]]]
    /\ UNCHANGED <<tables, sock, admin>>

\* Transport.Dial or Transport.Listen makes a socket on the network of the
\* snapshot.
TransportMakes(p, s) ==
    /\ call[p].pc = "transport"
    /\ Fresh(s)
    /\ sock' = [sock EXCEPT ![s] = [Free EXCEPT !.phase = "raw", !.kind = call[p].kind,
                                                !.net = call[p].net]]
    /\ call' = [call EXCEPT ![p].pc = "commit", ![p].sock = s]
    /\ UNCHANGED <<tables, admin>>

TransportFails(p) ==
    /\ call[p].pc = "transport"
    /\ call' = [call EXCEPT ![p] = Idle]
    /\ UNCHANGED <<tables, sock, admin>>

\* Mutant: commit checks only m.closed.
MustRetry_ClosedOnly(p) == closed

MustRetry(p) == closed \/ version # call[p].version

\* commitConn and commitListener register the socket and Dial returns it.
commit(p) ==
    /\ call[p].pc = "commit"
    /\ ~MustRetry(p)
    /\ sock' = [sock EXCEPT ![call[p].sock].phase = "open",
                            ![call[p].sock].host = call[p].host,
                            ![call[p].sock].mapping = call[p].mapping]
    /\ call' = [call EXCEPT ![p] = Idle]
    /\ UNCHANGED <<tables, admin>>

\* Mutant: the retry loop does not close the socket it gives up.
retry_NoClose(p, cancelled) ==
    /\ call[p].pc = "commit"
    /\ MustRetry(p)
    /\ call' = [call EXCEPT ![p] =
            IF cancelled THEN Idle
            ELSE Resolving(call[p].kind, call[p].scheme, call[p].host)]
    /\ UNCHANGED <<tables, sock, admin>>

\* ... or ask for a retry: the socket is closed; a cancelled context ends the
\* call, otherwise the loop takes a new snapshot.
retry(p, cancelled) ==
    /\ call[p].pc = "commit"
    /\ MustRetry(p)
    /\ sock' = [sock EXCEPT ![call[p].sock] = Free]
    /\ call' = [call EXCEPT ![p] =
            IF cancelled THEN Idle
            ELSE Resolving(call[p].kind, call[p].scheme, call[p].host)]
    /\ UNCHANGED <<tables, admin>>

-----------------------------------------------------------------------------
(* trackedListener.Accept.                                                 *)

\* l.Listener.Accept returns a connection, as it may until the listener below
\* is closed.
AcceptUnderlying(l, s) ==
    /\ sock[l].kind = "listener"
    /\ sock[l].phase \in {"open", "closing"}
    /\ \A c \in Sock : sock[c].phase = "raw" => sock[c].parent # l
    /\ Fresh(s)
    /\ sock' = [sock EXCEPT ![s] = [Free EXCEPT !.phase = "raw", !.net = sock[l].net,
                                                !.parent = l]]
    /\ UNCHANGED <<tables, call, admin>>

\* Mutant: the mapping of the listener is not copied; its zero value is
\* defaultMappingKey.
registerAcceptedConn_NoMapping(s) ==
    LET l == sock[s].parent
    IN  /\ sock[s].phase = "raw"
        /\ l # None
        /\ sock' = [sock EXCEPT ![s] =
                IF sock[l].phase = "open"
                THEN [@ EXCEPT !.phase = "open", !.host = sock[l].host,
                               !.mapping = DefaultKey, !.late = CloseIsDue(l)]
                ELSE Free]
        /\ UNCHANGED <<tables, call, admin>>

\* registerAcceptedConn: the parent must still be in m.resources.
registerAcceptedConn(s) ==
    LET l == sock[s].parent
    IN  /\ sock[s].phase = "raw"
        /\ l # None
        /\ sock' = [sock EXCEPT ![s] =
                IF sock[l].phase = "open"
                THEN [@ EXCEPT !.phase = "open", !.host = sock[l].host,
                               !.mapping = sock[l].mapping, !.late = CloseIsDue(l)]
                ELSE Free]
        /\ UNCHANGED <<tables, call, admin>>

-----------------------------------------------------------------------------

\* NewManager.
Init ==
    /\ closed = FALSE
    /\ version = 0
    /\ defaultNet \in Networks \cup {None}
    /\ transports = [x \in Schemes |-> None]
    /\ mappings = [p \in Patterns |-> Unmapped]
    /\ sock = [s \in Sock |-> Free]
    /\ call = [p \in Callers |-> Idle]
    /\ admin = [a \in Admins |-> Resting]

Next ==
    \/ \E t \in Transports : RegisterTransport(t)
    \/ \E x \in Schemes : UnregisterTransport(x)
    \/ \E a \in Admins, n \in Networks \cup {None} : SetDefaultNetwork(a, n)
    \/ \E a \in Admins, p \in Patterns, n \in Networks \cup {None} : MapNetwork(a, p, n)
    \/ \E a \in Admins, p \in Patterns : UnmapNetwork(a, p)
    \/ \E a \in Admins : Close(a)
    \/ \E a \in Admins : CloseNext(a)
    \/ \E a \in Admins : CloseReturns(a)
    \/ \E s \in Sock : CloseUnderlying(s)
    \/ \E s \in Sock : UserClose(s)
    \/ \E p \in Callers, k \in Kinds, x \in Schemes, h \in Hosts : StartCall(p, k, x, h)
    \/ \E p \in Callers : snapshotFor(p)
    \/ \E p \in Callers, s \in Sock : TransportMakes(p, s)
    \/ \E p \in Callers : TransportFails(p)
    \/ \E p \in Callers : commit(p)
    \/ \E p \in Callers, c \in BOOLEAN : retry(p, c)
    \/ \E l, s \in Sock : AcceptUnderlying(l, s)
    \/ \E s \in Sock : registerAcceptedConn(s)

Spec == Init /\ [][Next]_vars

-----------------------------------------------------------------------------
(* Properties.                                                             *)

\* Every variable has its type, every socket is on a network (a nil network is
\* never dialled on, ErrNoNetwork), and what is registered has a host and a mapping.
TypeOK ==
    /\ closed \in BOOLEAN
    /\ version \in 0..MaxVersion
    /\ defaultNet \in Networks \cup {None}
    /\ transports \in [Schemes -> Transports \cup {None}]
    /\ mappings \in [Patterns -> Networks \cup {None, Unmapped}]
    /\ sock \in [Sock -> SockState]
    /\ call \in [Callers -> CallState]
    /\ admin \in [Admins -> [left: SUBSET Sock, cur: Sock \cup {None}]]
    /\ \A s \in Sock : sock[s].phase # "free" => sock[s].net \in Networks
    /\ \A s \in Registered : sock[s].host \in Hosts /\ sock[s].mapping \in Mappings

\* The tables, as they are now, give s the network it is on.
Routed(s) == ~closed /\ <<sock[s].net, sock[s].mapping>> \in resolveNetworkLocked(sock[s].host)

\* A Dial or Listen that would commit now holds a snapshot that is what
\* snapshotFor would return now, transport included, and the manager is open:
\* every change of m.transports, m.mappings, m.defaultNet and m.closed since the
\* snapshot shows in m.version (commitConn, commitListener).
SnapshotIsCurrent ==
    \A p \in Callers :
        call[p].pc \in {"transport", "commit"} /\ ~MustRetry(p) =>
            /\ transports[call[p].scheme] = call[p].transport
            /\ <<call[p].net, call[p].mapping>> \in resolveNetworkLocked(call[p].host)

\* Every connection that Dial returned and every listener is on the network the
\* tables select now, or the reconfiguration that stranded it is about to close
\* it: the match functions passed to collectClosersLocked miss nothing, and no
\* Dial slips a stale resource in between a change and its closers.
RoutedOrClosing ==
    \A s \in Registered : sock[s].parent = None => Routed(s) \/ CloseIsDue(s)

\* The same for accepted connections, also those whose listener has been closed
\* since, as far as it goes: only a connection that was registered when its listener
\* was already on the list of a closeAll can be on the wrong network for good.
AcceptedFollowsListener ==
    \A s \in Registered : sock[s].parent # None =>
        Routed(s) \/ CloseIsDue(s) \/ sock[s].late

\* A socket that a transport made and that is not handed out yet belongs to
\* exactly one call, which will commit or close it: no path of the retry loop
\* forgets a socket.
NoLeakedSocket ==
    \A s \in Sock : sock[s].phase = "raw" /\ sock[s].parent = None =>
        \E p \in Callers : /\ call[p].pc = "commit" /\ call[p].sock = s
                            /\ \A q \in Callers \ {p} : call[q].sock # s

\* A change of the tables collects, in the same critical section, every resource
\* it strands, accepted connections included.
StrandedIsCollected ==
    [][\A s \in Registered : Routed(s) /\ ~Routed(s)' /\ s \in Registered' => CloseIsDue(s)']_vars

\* What the doc comment of Manager promises (manager.go:71-74): when no
\* reconfiguration is running, no resource is on the wrong network.
NoResourceOnWrongNetwork ==
    (\A a \in Admins : admin[a] = Resting) => \A s \in Registered : Routed(s)
=============================================================================
