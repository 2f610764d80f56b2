----------------------- MODULE TransportManagerProofs -----------------------
(***************************************************************************)
(* TransportManager's safety properties hold for every set of sockets,     *)
(* callers, administrators, hosts, patterns, networks and transports, for  *)
(* every host-matching relation and scoring, and for every bound on the    *)
(* number of reconfigurations.                                             *)
(*                                                                         *)
(* None of the properties is inductive alone.  The strengthening is        *)
(* CallOwnsSocket: a call that is about to commit is the only owner of an  *)
(* unregistered socket, made on the network of the call's snapshot; and    *)
(* ChildOfListener: what an accepted connection knows of its listener.     *)
(***************************************************************************)
EXTENDS TransportManager, TLAPS

\* A call that is about to commit owns a raw socket on its snapshot's network.
CallOwnsSocket ==
    \A p \in Callers :
        /\ call[p].pc # "idle" => call[p].scheme \in Schemes /\ call[p].host \in Hosts
        /\ call[p].pc \in {"transport", "commit"} =>
            call[p].net \in Networks /\ call[p].mapping \in Mappings /\ call[p].version <= version
        /\ call[p].pc # "commit" => call[p].sock = None
        /\ call[p].pc = "commit" =>
            /\ call[p].sock \in Sock
            /\ sock[call[p].sock].phase = "raw"
            /\ sock[call[p].sock].parent = None
            /\ sock[call[p].sock].net = call[p].net
            /\ \A q \in Callers \ {p} : call[q].sock # call[p].sock

\* A connection accepted from a listener is on the listener's network as long as
\* the listener is registered, and only listeners have children.
ChildOfListener ==
    \A s \in Sock :
        /\ sock[s].phase = "free" => sock[s] = Free
        /\ sock[s].parent # None =>
            LET l == sock[s].parent
            IN  /\ sock[s].phase # "free"
                /\ sock[l].phase \in {"open", "closing", "free"}
                /\ sock[l].parent = None
                /\ sock[l].phase = "open" => sock[l].net = sock[s].net
        /\ sock[s].kind = "listener" => sock[s].parent = None

IInv ==
    /\ TypeOK
    /\ CallOwnsSocket
    /\ ChildOfListener
    /\ SnapshotIsCurrent
    /\ RoutedOrClosing
    /\ AcceptedFollowsListener
    /\ NoLeakedSocket

-----------------------------------------------------------------------------
(* Facts about route selection.                                            *)

\* Resolving a host gives a network (or nil) with the mapping it came from.
LEMMA ResolveType ==
    ASSUME NEW m \in [Patterns -> Networks \cup {None, Unmapped}],
           NEW d \in Networks \cup {None}, NEW h, NEW nm \in Resolve(m, d, h)
    PROVE  nm[1] \in Networks \cup {None} /\ nm[2] \in Mappings
<1>1. CASE Mapped(m, h) = {}
    BY <1>1 DEF Resolve, Mappings
<1>2. CASE Mapped(m, h) # {}
    <2>1. PICK q \in Mapped(m, h) : nm = <<m[q], q>>
        BY <1>2 DEF Resolve
    <2>2. q \in Patterns /\ m[q] \in Networks \cup {None}
        BY DEF Mapped
    <2> QED
        BY <2>1, <2>2 DEF Mappings
<1> QED
    BY <1>1, <1>2

\* Mapping a pattern changes nothing for the hosts it does not match.
LEMMA MapKeepsOthers ==
    ASSUME NEW m \in [Patterns -> Networks \cup {None, Unmapped}], NEW d, NEW h,
           NEW p \in Patterns, NEW n, NEW nm \in Resolve(m, d, h), <<p, h>> \notin HostMatches
    PROVE  nm \in Resolve([m EXCEPT ![p] = n], d, h)
<1> DEFINE mm == [m EXCEPT ![p] = n]
<1>1. Mapped(mm, h) = Mapped(m, h)
    BY DEF Mapped
<1>2. \A q \in Mapped(m, h) : q # p /\ mm[q] = m[q]
    BY DEF Mapped
<1> QED
    BY <1>1, <1>2 DEF Resolve

\* Unmapping a pattern changes nothing for what another mapping serves.
LEMMA UnmapKeepsOthers ==
    ASSUME NEW m \in [Patterns -> Networks \cup {None, Unmapped}], NEW d, NEW h,
           NEW p \in Patterns, NEW nm \in Resolve(m, d, h), nm[2] # p
    PROVE  nm \in Resolve([m EXCEPT ![p] = Unmapped], d, h)
<1> DEFINE mm == [m EXCEPT ![p] = Unmapped]
<1>1. Mapped(mm, h) = Mapped(m, h) \ {p}
    BY DEF Mapped
<1>2. CASE Mapped(m, h) = {}
    BY <1>1, <1>2 DEF Resolve
<1>3. CASE Mapped(m, h) # {}
    <2>1. PICK q \in Mapped(m, h) : nm = <<m[q], q>> /\ \A r \in Mapped(m, h) : ~Better(r, q)
        BY <1>3 DEF Resolve
    <2>2. q \in Mapped(mm, h) /\ mm[q] = m[q] /\ \A r \in Mapped(mm, h) : ~Better(r, q)
        BY <1>1, <2>1 DEF Mapped
    <2> QED
        BY <2>1, <2>2 DEF Resolve
<1> QED
    BY <1>2, <1>3

\* A new default network changes nothing for what a pattern serves.
LEMMA DefaultKeepsMapped ==
    ASSUME NEW m \in [Patterns -> Networks \cup {None, Unmapped}], NEW d, NEW e, NEW h,
           NEW nm \in Resolve(m, d, h), nm[2] # DefaultKey
    PROVE  nm \in Resolve(m, e, h)
BY DEF Resolve

-----------------------------------------------------------------------------
(* The type invariant.                                                     *)

\* A reconfiguration collects registered sockets.
LEMMA CollectType ==
    ASSUME NEW match
    PROVE  collectClosersLocked(match) \subseteq Registered
BY DEF collectClosersLocked, Children

\* Unregistering a socket keeps the types.
LEMMA BeginCloseType ==
    ASSUME TypeOK, NEW s \in Sock, BeginClose(s)
    PROVE  /\ sock' \in [Sock -> SockState]
           /\ \A c \in Registered' : c \in Registered /\ sock'[c] = sock[c]
           /\ sock[s].phase # "free" => \A c \in Sock :
                sock'[c].net = sock[c].net /\ (sock'[c].phase # "free" => sock[c].phase # "free")
<1>1. [sock[s] EXCEPT !.phase = "closing"] \in SockState
    BY DEF TypeOK, SockState
<1>2. sock' = [sock EXCEPT ![s] = [sock[s] EXCEPT !.phase = "closing"]]
    BY DEF BeginClose
<1>3. sock'[s].phase = "closing"
    BY <1>2 DEF TypeOK, SockState
<1> QED
    BY <1>1, <1>2, <1>3 DEF TypeOK, Registered, SockState

\* TypeInv is TypeOK with what it needs to be inductive.
TypeInv == TypeOK /\ CallOwnsSocket

\* TypeInv is inductive: one case per action.
LEMMA TypeStep == TypeInv /\ [Next]_vars => TypeInv'
<1> SUFFICES ASSUME TypeInv, [Next]_vars PROVE TypeInv'
    OBVIOUS
<1> USE ConstantsAssumption DEF TypeInv, Registered
<1>1. ASSUME NEW t \in Transports, RegisterTransport(t)
      PROVE TypeInv'
    <2>1. TypeOK'
        BY <1>1 DEF RegisterTransport, TypeOK, CallOwnsSocket, CallState, SockState
    <2>2. CallOwnsSocket'
        BY <1>1 DEF RegisterTransport, TypeOK, CallOwnsSocket, CallState, SockState
    <2> QED
        BY <2>1, <2>2
<1>2. ASSUME NEW x \in Schemes, UnregisterTransport(x)
      PROVE TypeInv'
    <2>1. TypeOK'
        BY <1>2 DEF UnregisterTransport, TypeOK, CallOwnsSocket, CallState, SockState
    <2>2. CallOwnsSocket'
        BY <1>2 DEF UnregisterTransport, TypeOK, CallOwnsSocket, CallState, SockState
    <2> QED
        BY <2>1, <2>2
<1>3. ASSUME NEW a \in Admins, NEW n \in Networks \cup {None}, SetDefaultNetwork(a, n)
      PROVE TypeInv'
    <2>1. TypeOK'
        BY <1>3, CollectType DEF SetDefaultNetwork, Reconfigure, StartClosers, TypeOK, CallOwnsSocket, CallState, SockState
    <2>2. CallOwnsSocket'
        BY <1>3, CollectType DEF SetDefaultNetwork, Reconfigure, StartClosers, TypeOK, CallOwnsSocket, CallState, SockState
    <2> QED
        BY <2>1, <2>2
<1>4. ASSUME NEW a \in Admins, NEW p \in Patterns, NEW n \in Networks \cup {None}, MapNetwork(a, p, n)
      PROVE TypeInv'
    <2>1. TypeOK'
        BY <1>4, CollectType DEF MapNetwork, Reconfigure, StartClosers, TypeOK, CallOwnsSocket, CallState, SockState
    <2>2. CallOwnsSocket'
        BY <1>4, CollectType DEF MapNetwork, Reconfigure, StartClosers, TypeOK, CallOwnsSocket, CallState, SockState
    <2> QED
        BY <2>1, <2>2
<1>5. ASSUME NEW a \in Admins, NEW p \in Patterns, UnmapNetwork(a, p)
      PROVE TypeInv'
    <2>1. TypeOK'
        BY <1>5, CollectType, SMTT(30) DEF UnmapNetwork, Reconfigure, StartClosers, TypeOK, CallOwnsSocket, CallState, SockState
    <2>2. CallOwnsSocket'
        BY <1>5, CollectType DEF UnmapNetwork, Reconfigure, StartClosers, TypeOK, CallOwnsSocket, CallState, SockState
    <2> QED
        BY <2>1, <2>2
<1>6. ASSUME NEW a \in Admins, Close(a)
      PROVE TypeInv'
    <2>1. TypeOK'
        BY <1>6, CollectType DEF Close, Reconfigure, StartClosers, TypeOK, CallOwnsSocket, CallState, SockState
    <2>2. CallOwnsSocket'
        BY <1>6, CollectType DEF Close, Reconfigure, StartClosers, TypeOK, CallOwnsSocket, CallState, SockState
    <2> QED
        BY <2>1, <2>2
<1>7. ASSUME NEW a \in Admins, CloseNext(a)
      PROVE TypeInv'
    <2>1. TypeOK'
        <3>1. PICK s \in admin[a].left :
                /\ admin' = [admin EXCEPT ![a] = [left |-> @.left \ {s}, cur |-> s]]
                /\ IF sock[s].phase = "open" THEN BeginClose(s) ELSE UNCHANGED sock
            BY <1>7 DEF CloseNext
        <3>2. s \in Sock
            BY DEF TypeOK
        <3>3. /\ sock' \in [Sock -> SockState]
              /\ \A c \in Registered' : c \in Registered /\ sock'[c] = sock[c]
              /\ \A c \in Sock :
                sock'[c].net = sock[c].net /\ (sock'[c].phase # "free" => sock[c].phase # "free")
            BY <3>1, <3>2, BeginCloseType DEF TypeOK
        <3>4. admin' \in [Admins -> [left: SUBSET Sock, cur: Sock \cup {None}]]
            BY <3>1, <3>2 DEF TypeOK
        <3> QED
            BY <1>7, <3>3, <3>4 DEF CloseNext, tables, TypeOK
    <2>2. CallOwnsSocket'
        <3>1. UNCHANGED <<call, version>>
            BY <1>7 DEF CloseNext, tables
        <3>2. \A c \in Sock : sock[c].phase = "raw" => sock'[c] = sock[c]
            BY <1>7 DEF CloseNext, BeginClose, TypeOK
        <3> QED
            BY <3>1, <3>2 DEF CallOwnsSocket
    <2> QED
        BY <2>1, <2>2
<1>8. ASSUME NEW a \in Admins, CloseReturns(a)
      PROVE TypeInv'
    <2>1. TypeOK'
        BY <1>8 DEF CloseReturns, tables, TypeOK, CallOwnsSocket, CallState, SockState
    <2>2. CallOwnsSocket'
        BY <1>8 DEF CloseReturns, tables, TypeOK, CallOwnsSocket, CallState, SockState
    <2> QED
        BY <2>1, <2>2
<1>9. ASSUME NEW s \in Sock, CloseUnderlying(s)
      PROVE TypeInv'
    <2>1. TypeOK'
        BY <1>9 DEF CloseUnderlying, Free, Kinds, tables, TypeOK, CallOwnsSocket, CallState, SockState
    <2>2. CallOwnsSocket'
        BY <1>9 DEF CloseUnderlying, Free, Kinds, tables, TypeOK, CallOwnsSocket, CallState, SockState
    <2> QED
        BY <2>1, <2>2
<1>10. ASSUME NEW s \in Sock, UserClose(s)
      PROVE TypeInv'
    <2>1. TypeOK'
        BY <1>10, BeginCloseType DEF UserClose, tables, TypeOK
    <2>2. CallOwnsSocket'
        BY <1>10 DEF UserClose, BeginClose, tables, TypeOK, CallOwnsSocket, CallState, SockState
    <2> QED
        BY <2>1, <2>2
<1>11. ASSUME NEW p \in Callers, NEW k \in Kinds, NEW x \in Schemes, NEW h \in Hosts, StartCall(p, k, x, h)
      PROVE TypeInv'
    <2>1. TypeOK'
        BY <1>11 DEF StartCall, Resolving, Idle, Kinds, tables, TypeOK, CallOwnsSocket, CallState, SockState
    <2>2. CallOwnsSocket'
        BY <1>11 DEF StartCall, Resolving, Idle, Kinds, tables, TypeOK, CallOwnsSocket, CallState, SockState
    <2> QED
        BY <2>1, <2>2
<1>12. ASSUME NEW p \in Callers, snapshotFor(p)
      PROVE TypeInv'
    <2>1. TypeOK'
        <3> DEFINE t == transports[call[p].scheme]
        <3>1. PICK nm \in Resolve(mappings, defaultNet, call[p].host) :
                call' = [call EXCEPT ![p] =
                    IF closed \/ t = None \/ nm[1] = None
                    THEN Idle
                    ELSE [@ EXCEPT !.pc = "transport", !.version = version, !.transport = t,
                                   !.net = nm[1], !.mapping = nm[2]]]
            BY <1>12 DEF snapshotFor, resolveNetworkLocked
        <3>2. nm[1] \in Networks \cup {None} /\ nm[2] \in Mappings
            BY ResolveType DEF TypeOK
        <3>3. Idle \in CallState
            BY DEF Idle, CallState, Kinds
        <3>4. t \in Transports \cup {None} /\ version \in Nat /\ call[p] \in CallState
            BY <1>12 DEF TypeOK, CallOwnsSocket, snapshotFor
        <3>5. [call[p] EXCEPT !.pc = "transport", !.version = version, !.transport = t,
                              !.net = nm[1], !.mapping = nm[2]] \in CallState
            BY <3>2, <3>4 DEF CallState
        <3>6. call' \in [Callers -> CallState]
            BY <3>1, <3>3, <3>5 DEF TypeOK
        <3> QED
            BY <1>12, <3>6 DEF snapshotFor, tables, TypeOK
    <2>2. CallOwnsSocket'
        BY <1>12, ResolveType DEF snapshotFor, resolveNetworkLocked, Idle, Kinds, tables, TypeOK, CallOwnsSocket, CallState, SockState
    <2> QED
        BY <2>1, <2>2
<1>13. ASSUME NEW p \in Callers, NEW s \in Sock, TransportMakes(p, s)
      PROVE TypeInv'
    <2>1. TypeOK'
        BY <1>13 DEF TransportMakes, Fresh, Unreferenced, Free, Kinds, tables, TypeOK, CallOwnsSocket, CallState, SockState
    <2>2. CallOwnsSocket'
        BY <1>13 DEF TransportMakes, Fresh, Unreferenced, Free, Kinds, tables, TypeOK, CallOwnsSocket, CallState, SockState
    <2> QED
        BY <2>1, <2>2
<1>14. ASSUME NEW p \in Callers, TransportFails(p)
      PROVE TypeInv'
    <2>1. TypeOK'
        BY <1>14 DEF TransportFails, Idle, Kinds, tables, TypeOK, CallOwnsSocket, CallState, SockState
    <2>2. CallOwnsSocket'
        BY <1>14 DEF TransportFails, Idle, Kinds, tables, TypeOK, CallOwnsSocket, CallState, SockState
    <2> QED
        BY <2>1, <2>2
<1>15. ASSUME NEW p \in Callers, commit(p)
      PROVE TypeInv'
    <2>1. TypeOK'
        BY <1>15, SMTT(30) DEF commit, MustRetry, Idle, Kinds, tables, TypeOK, CallOwnsSocket, CallState, SockState
    <2>2. CallOwnsSocket'
        BY <1>15, SMTT(30) DEF commit, MustRetry, Idle, Kinds, tables, TypeOK, CallOwnsSocket, CallState, SockState
    <2> QED
        BY <2>1, <2>2
<1>16. ASSUME NEW p \in Callers, NEW c \in BOOLEAN, retry(p, c)
      PROVE TypeInv'
    <2>1. TypeOK'
        <3>1. Free \in SockState /\ Idle \in CallState
            BY DEF Free, Idle, SockState, CallState, Kinds
        <3>2. Resolving(call[p].kind, call[p].scheme, call[p].host) \in CallState
            BY DEF TypeOK, CallState, Resolving, Idle
        <3>3. sock' \in [Sock -> SockState] /\ call' \in [Callers -> CallState]
            BY <1>16, <3>1, <3>2 DEF retry, TypeOK
        <3>4. \A s \in Sock : sock'[s] = sock[s] \/ sock'[s].phase = "free"
            BY <1>16 DEF retry, Free, TypeOK
        <3> QED
            BY <1>16, <3>3, <3>4 DEF retry, tables, TypeOK
    <2>2. CallOwnsSocket'
        BY <1>16 DEF retry, Resolving, Idle, Free, Kinds, tables, TypeOK, CallOwnsSocket, CallState, SockState
    <2> QED
        BY <2>1, <2>2
<1>17. ASSUME NEW l \in Sock, NEW s \in Sock, AcceptUnderlying(l, s)
      PROVE TypeInv'
    <2>1. TypeOK'
        <3> DEFINE new == [Free EXCEPT !.phase = "raw", !.net = sock[l].net, !.parent = l]
        <3>1. sock' = [sock EXCEPT ![s] = new] /\ sock[l].net \in Networks
            BY <1>17 DEF AcceptUnderlying, TypeOK
        <3>2. new \in SockState /\ new.phase = "raw" /\ new.net = sock[l].net
            BY <3>1 DEF SockState, Free, Kinds
        <3>3. sock' \in [Sock -> SockState]
            BY <3>1, <3>2 DEF TypeOK
        <3> QED
            BY <1>17, <3>1, <3>2, <3>3 DEF AcceptUnderlying, tables, TypeOK
    <2>2. CallOwnsSocket'
        BY <1>17 DEF AcceptUnderlying, Fresh, Unreferenced, Free, Kinds, tables, TypeOK, CallOwnsSocket, CallState, SockState
    <2> QED
        BY <2>1, <2>2
<1>18. ASSUME NEW s \in Sock, registerAcceptedConn(s)
      PROVE TypeInv'
    <2>1. TypeOK'
        <3> DEFINE l == sock[s].parent
                   new == [sock[s] EXCEPT !.phase = "open", !.host = sock[l].host,
                                          !.mapping = sock[l].mapping, !.late = CloseIsDue(l)]
        <3>0. CloseIsDue(l) \in BOOLEAN
            BY DEF CloseIsDue
        <3>1. sock' = [sock EXCEPT ![s] = IF sock[l].phase = "open" THEN new ELSE Free] /\ l \in Sock
            BY <1>18 DEF registerAcceptedConn, TypeOK, SockState
        <3>2. sock[s] \in SockState /\ sock[l] \in SockState /\ Free \in SockState
            BY <3>1 DEF TypeOK, SockState, Free, Kinds
        <3>3. new \in SockState
            BY <3>0, <3>2 DEF SockState
        <3>4. sock' \in [Sock -> SockState]
            BY <3>1, <3>2, <3>3 DEF TypeOK
        <3> QED
            BY <1>18, <3>1, <3>2, <3>4, SMTT(30) DEF registerAcceptedConn, Free, tables, TypeOK, SockState
    <2>2. CallOwnsSocket'
        BY <1>18 DEF registerAcceptedConn, Free, Kinds, tables, TypeOK, CallOwnsSocket, CallState, SockState
    <2> QED
        BY <2>1, <2>2
<1>19. CASE UNCHANGED vars
    BY <1>19 DEF vars, TypeOK, CallOwnsSocket
<1> QED
    BY <1>1, <1>2, <1>3, <1>4, <1>5, <1>6, <1>7, <1>8, <1>9, <1>10, <1>11, <1>12, <1>13,
       <1>14, <1>15, <1>16, <1>17, <1>18, <1>19 DEF Next

-----------------------------------------------------------------------------
(* What a step keeps.                                                      *)

\* The steps by what they change: the tables, the sockets, or the calls.
TableStep == version' = version + 1 /\ UNCHANGED <<sock, call>>

SockStep ==
    /\ UNCHANGED tables
    /\ \/ \E a \in Admins : CloseNext(a)
       \/ \E s \in Sock : CloseUnderlying(s) \/ UserClose(s) \/ registerAcceptedConn(s)
       \/ \E l, s \in Sock : AcceptUnderlying(l, s)
       \/ \E p \in Callers, s \in Sock : TransportMakes(p, s)
       \/ \E p \in Callers : commit(p)
       \/ \E p \in Callers, c \in BOOLEAN : retry(p, c)

CallStep ==
    /\ UNCHANGED <<tables, sock, admin>>
    /\ \/ \E p \in Callers, k \in Kinds, x \in Schemes, h \in Hosts : StartCall(p, k, x, h)
       \/ \E p \in Callers : snapshotFor(p) \/ TransportFails(p)

\* Every step is one of these.
LEMMA NextCases ==
    ASSUME [Next]_vars
    PROVE  \/ TableStep \/ SockStep \/ CallStep
           \/ \E a \in Admins : CloseReturns(a)
           \/ UNCHANGED vars
BY DEF Next, TableStep, SockStep, CallStep, RegisterTransport, UnregisterTransport, SetDefaultNetwork,
   MapNetwork, UnmapNetwork, Close, Reconfigure, CloseNext, CloseUnderlying, UserClose, StartCall,
   snapshotFor, TransportMakes, TransportFails, commit, retry, AcceptUnderlying, registerAcceptedConn

\* A registered resource does not change until it is unregistered.
LEMMA RegisteredFrame ==
    ASSUME TypeInv, [Next]_vars
    PROVE  \A s \in Registered : s \in Registered' => sock'[s] = sock[s]
<1> DEFINE Goal == \A s \in Registered : s \in Registered' => sock'[s] = sock[s]
<1> SUFFICES Goal
    OBVIOUS
<1> USE ConstantsAssumption DEF TypeInv, TypeOK, CallOwnsSocket, CallState, SockState, Registered
<1>1. CASE UNCHANGED sock /\ UNCHANGED call
    BY <1>1
<1>2. ASSUME NEW a \in Admins, CloseNext(a) PROVE Goal
    BY <1>2 DEF CloseNext, BeginClose, tables
<1>3. ASSUME NEW r \in Sock, CloseUnderlying(r) PROVE Goal
    BY <1>3 DEF CloseUnderlying, Free, tables
<1>4. ASSUME NEW r \in Sock, UserClose(r) PROVE Goal
    BY <1>4 DEF UserClose, BeginClose, tables
<1>5. ASSUME NEW p \in Callers, NEW r \in Sock, TransportMakes(p, r) PROVE Goal
    BY <1>5 DEF TransportMakes, Fresh, Unreferenced, Free, tables
<1>6. ASSUME NEW p \in Callers, commit(p) PROVE Goal
    BY <1>6 DEF commit, Idle, tables
<1>7. ASSUME NEW p \in Callers, NEW c \in BOOLEAN, retry(p, c) PROVE Goal
    BY <1>7 DEF retry, Resolving, Idle, Free, tables
<1>8. ASSUME NEW l \in Sock, NEW r \in Sock, AcceptUnderlying(l, r) PROVE Goal
    BY <1>8 DEF AcceptUnderlying, Fresh, Unreferenced, Free, tables
<1>9. ASSUME NEW r \in Sock, registerAcceptedConn(r) PROVE Goal
    BY <1>9 DEF registerAcceptedConn, Free, tables
<1>10. CASE CallStep
    BY <1>10 DEF CallStep, tables
<1> HIDE DEF Goal, TypeInv, TypeOK
<1> QED
    BY <1>1, <1>2, <1>3, <1>4, <1>5, <1>6, <1>7, <1>8, <1>9, <1>10, NextCases
    DEF TableStep, SockStep, CloseReturns, vars

\* Children keep to their listener.
LEMMA ChildStep ==
    ASSUME TypeInv, ChildOfListener, [Next]_vars
    PROVE  ChildOfListener'
<1> USE ConstantsAssumption DEF TypeInv, TypeOK, CallOwnsSocket, ChildOfListener, CallState, SockState, Kinds
<1>1. CASE UNCHANGED sock /\ UNCHANGED call
    BY <1>1
<1>2. ASSUME NEW a \in Admins, CloseNext(a) PROVE ChildOfListener'
    BY <1>2, SMTT(30) DEF CloseNext, BeginClose, tables
<1>3. ASSUME NEW r \in Sock, CloseUnderlying(r) PROVE ChildOfListener'
    BY <1>3 DEF CloseUnderlying, Free, tables
<1>4. ASSUME NEW r \in Sock, UserClose(r) PROVE ChildOfListener'
    BY <1>4 DEF UserClose, BeginClose, tables
<1>5. ASSUME NEW p \in Callers, NEW r \in Sock, TransportMakes(p, r) PROVE ChildOfListener'
    BY <1>5 DEF TransportMakes, Fresh, Unreferenced, Free, tables
<1>6. ASSUME NEW p \in Callers, commit(p) PROVE ChildOfListener'
    <2> DEFINE o == call[p].sock
    <2>1. o \in Sock /\ sock[o].phase = "raw" /\ sock[o].parent = None
        BY <1>6 DEF commit
    <2>2. /\ \A s \in Sock \ {o} : sock'[s] = sock[s]
          /\ sock'[o].phase = "open" /\ sock'[o].parent = None
        BY <1>6, <2>1 DEF commit
    <2>3. \A s \in Sock : sock[s].parent # o
        BY <2>1
    <2> QED
        BY <2>1, <2>2, <2>3
<1>7. ASSUME NEW p \in Callers, NEW c \in BOOLEAN, retry(p, c) PROVE ChildOfListener'
    BY <1>7 DEF retry, Resolving, Idle, Free, tables
<1>8. ASSUME NEW l \in Sock, NEW r \in Sock, AcceptUnderlying(l, r) PROVE ChildOfListener'
    BY <1>8 DEF AcceptUnderlying, Fresh, Unreferenced, Free, tables
<1>9. ASSUME NEW r \in Sock, registerAcceptedConn(r) PROVE ChildOfListener'
    <2>1. /\ \A s \in Sock \ {r} : sock'[s] = sock[s]
          /\ \/ sock'[r] = Free
             \/ /\ sock'[r].phase = "open" /\ sock'[r].parent = sock[r].parent
                /\ sock'[r].net = sock[r].net /\ sock'[r].kind = sock[r].kind
        BY <1>9 DEF registerAcceptedConn
    <2>2. sock[r].phase = "raw" /\ sock[r].parent # None
        BY <1>9 DEF registerAcceptedConn
    <2>3. \A s \in Sock : sock[s].parent # r
        BY <2>2
    <2>4. \A s \in Sock \ {r} : sock[s].parent # None =>
              sock[s].parent \in Sock \ {r} /\ sock'[sock[s].parent] = sock[sock[s].parent]
        BY <2>1, <2>3
    <2>5. sock[r].parent \in Sock \ {r} /\ sock'[sock[r].parent] = sock[sock[r].parent]
        BY <2>1, <2>2, <2>3
    <2>6. r \in Sock /\ ChildOfListener
        OBVIOUS
    <2> HIDE DEF TypeInv, TypeOK, CallOwnsSocket, CallState, SockState, Kinds, ChildOfListener
    <2>7. ASSUME NEW s \in Sock
          PROVE  /\ sock'[s].phase = "free" => sock'[s] = Free
                 /\ sock'[s].parent # None =>
                     LET l == sock'[s].parent
                     IN  /\ sock'[s].phase # "free"
                         /\ sock'[l].phase \in {"open", "closing", "free"}
                         /\ sock'[l].parent = None
                         /\ sock'[l].phase = "open" => sock'[l].net = sock'[s].net
                 /\ sock'[s].kind = "listener" => sock'[s].parent = None
        <3>1. CASE s # r
            <4>1. sock'[s] = sock[s]
                BY <2>1, <3>1
            <4> QED
                BY <2>4, <2>6, <3>1, <4>1 DEF ChildOfListener
        <3>2. CASE s = r /\ sock'[r] = Free
            BY <3>2 DEF Free
        <3>3. CASE s = r /\ sock'[r] # Free
            BY <2>1, <2>2, <2>5, <2>6, <3>3 DEF ChildOfListener
        <3> QED
            BY <3>1, <3>2, <3>3
    <2> QED
        BY <2>7 DEF ChildOfListener
<1>10. CASE CallStep
    BY <1>10 DEF CallStep, tables
<1> HIDE DEF ChildOfListener, TypeInv, TypeOK
<1> QED
    BY <1>1, <1>2, <1>3, <1>4, <1>5, <1>6, <1>7, <1>8, <1>9, <1>10, NextCases
    DEF TableStep, SockStep, CloseReturns, vars

\* No socket is forgotten.
LEMMA LeakStep ==
    ASSUME TypeInv, NoLeakedSocket, [Next]_vars
    PROVE  NoLeakedSocket'
<1> USE ConstantsAssumption DEF TypeInv, TypeOK, CallOwnsSocket, NoLeakedSocket, CallState, SockState
<1>1. CASE UNCHANGED sock /\ UNCHANGED call
    BY <1>1
<1>2. ASSUME NEW a \in Admins, CloseNext(a) PROVE NoLeakedSocket'
    BY <1>2 DEF CloseNext, BeginClose, tables
<1>3. ASSUME NEW r \in Sock, CloseUnderlying(r) PROVE NoLeakedSocket'
    BY <1>3 DEF CloseUnderlying, Free, tables
<1>4. ASSUME NEW r \in Sock, UserClose(r) PROVE NoLeakedSocket'
    BY <1>4 DEF UserClose, BeginClose, tables
<1>5. ASSUME NEW p \in Callers, NEW r \in Sock, TransportMakes(p, r) PROVE NoLeakedSocket'
    BY <1>5 DEF TransportMakes, Fresh, Unreferenced, Free, tables
<1>6. ASSUME NEW p \in Callers, commit(p) PROVE NoLeakedSocket'
    BY <1>6 DEF commit, Idle, tables
<1>7. ASSUME NEW p \in Callers, NEW c \in BOOLEAN, retry(p, c) PROVE NoLeakedSocket'
    BY <1>7 DEF retry, Resolving, Idle, Free, tables
<1>8. ASSUME NEW l \in Sock, NEW r \in Sock, AcceptUnderlying(l, r) PROVE NoLeakedSocket'
    BY <1>8 DEF AcceptUnderlying, Fresh, Unreferenced, Free, tables
<1>9. ASSUME NEW r \in Sock, registerAcceptedConn(r) PROVE NoLeakedSocket'
    BY <1>9 DEF registerAcceptedConn, Free, tables
<1>10. CASE CallStep
    <2>1. ASSUME NEW p \in Callers, NEW k \in Kinds, NEW x \in Schemes, NEW h \in Hosts,
                 StartCall(p, k, x, h)
          PROVE  NoLeakedSocket'
        BY <2>1 DEF StartCall, Resolving, Idle
    <2>2. ASSUME NEW p \in Callers, snapshotFor(p) PROVE NoLeakedSocket'
        BY <2>2 DEF snapshotFor, Idle
    <2>3. ASSUME NEW p \in Callers, TransportFails(p) PROVE NoLeakedSocket'
        BY <2>3 DEF TransportFails, Idle
    <2> HIDE DEF NoLeakedSocket, TypeInv, TypeOK
    <2> QED
        BY <1>10, <2>1, <2>2, <2>3 DEF CallStep
<1> HIDE DEF NoLeakedSocket, TypeInv, TypeOK
<1> QED
    BY <1>1, <1>2, <1>3, <1>4, <1>5, <1>6, <1>7, <1>8, <1>9, <1>10, NextCases
    DEF TableStep, SockStep, CloseReturns, vars

\* A registered resource that is due to be closed stays due: a reconfiguration
\* starts only when its administrator has nothing left to close.
LEMMA DueFrame ==
    ASSUME TypeInv, [Next]_vars
    PROVE  \A s \in Registered : s \in Registered' /\ CloseIsDue(s) => CloseIsDue(s)'
<1> SUFFICES ASSUME NEW s \in Registered, s \in Registered', NEW b \in Admins, s \in admin[b].left
             PROVE  s \in admin'[b].left
    BY DEF CloseIsDue
<1> USE DEF TypeInv, TypeOK, SockState, Registered
<1>1. ASSUME NEW a \in Admins, Reconfigure(a), NEW closers, StartClosers(a, closers)
      PROVE  s \in admin'[b].left
    BY <1>1 DEF Reconfigure, StartClosers, Resting
<1>2. ASSUME NEW a \in Admins, CloseNext(a) PROVE s \in admin'[b].left
    BY <1>2 DEF CloseNext, BeginClose
<1>3. ASSUME NEW a \in Admins, CloseReturns(a) PROVE s \in admin'[b].left
    BY <1>3 DEF CloseReturns
<1> QED
    BY <1>1, <1>2, <1>3 DEF Next, vars, RegisterTransport, UnregisterTransport, SetDefaultNetwork,
       MapNetwork, UnmapNetwork, Close, CloseUnderlying, UserClose, StartCall, snapshotFor,
       TransportMakes, TransportFails, commit, retry, AcceptUnderlying, registerAcceptedConn

\* A snapshot that is not current is noticed: whatever changes a table changes
\* m.version, which no snapshot is ahead of.
LEMMA SnapshotStep ==
    ASSUME TypeInv, SnapshotIsCurrent, [Next]_vars
    PROVE  SnapshotIsCurrent'
<1> SUFFICES ASSUME NEW q \in Callers, (call[q].pc \in {"transport", "commit"} /\ ~MustRetry(q))'
             PROVE  (/\ transports[call[q].scheme] = call[q].transport
                     /\ <<call[q].net, call[q].mapping>> \in resolveNetworkLocked(call[q].host))'
    BY DEF SnapshotIsCurrent
<1> USE DEF TypeInv, TypeOK, CallOwnsSocket, CallState, SnapshotIsCurrent, MustRetry, resolveNetworkLocked
<1>1. CASE TableStep
    BY <1>1 DEF TableStep
<1>2. ASSUME UNCHANGED tables, call'[q] = call[q]
      PROVE  (/\ transports[call[q].scheme] = call[q].transport
              /\ <<call[q].net, call[q].mapping>> \in resolveNetworkLocked(call[q].host))'
    BY <1>2 DEF tables
<1>3. ASSUME NEW p \in Callers, q # p,
             \/ \E k \in Kinds, x \in Schemes, h \in Hosts : StartCall(p, k, x, h)
             \/ snapshotFor(p) \/ TransportFails(p) \/ commit(p)
             \/ \E c \in BOOLEAN : retry(p, c)
             \/ \E s \in Sock : TransportMakes(p, s)
      PROVE  call'[q] = call[q]
    BY <1>3 DEF StartCall, snapshotFor, TransportFails, commit, retry, TransportMakes
<1>4. ~(\/ \E k \in Kinds, x \in Schemes, h \in Hosts : StartCall(q, k, x, h)
        \/ TransportFails(q) \/ commit(q)
        \/ \E c \in BOOLEAN : retry(q, c))
    <2>1. ASSUME NEW k \in Kinds, NEW x \in Schemes, NEW h \in Hosts, StartCall(q, k, x, h) PROVE FALSE
        BY <2>1 DEF StartCall, Resolving, Idle
    <2>2. ASSUME TransportFails(q) \/ commit(q) PROVE FALSE
        BY <2>2 DEF TransportFails, commit, Idle
    <2>3. ASSUME NEW c \in BOOLEAN, retry(q, c) PROVE FALSE
        BY <2>3 DEF retry, Resolving, Idle
    <2> QED
        BY <2>1, <2>2, <2>3
<1>5. ASSUME NEW s \in Sock, TransportMakes(q, s)
      PROVE  (/\ transports[call[q].scheme] = call[q].transport
              /\ <<call[q].net, call[q].mapping>> \in resolveNetworkLocked(call[q].host))'
    BY <1>5 DEF TransportMakes, tables
<1>6. ASSUME snapshotFor(q)
      PROVE  (/\ transports[call[q].scheme] = call[q].transport
              /\ <<call[q].net, call[q].mapping>> \in resolveNetworkLocked(call[q].host))'
    <2> DEFINE t == transports[call[q].scheme]
    <2>1. UNCHANGED <<closed, version, defaultNet, transports, mappings>>
        BY <1>6 DEF snapshotFor, tables
    <2>2. PICK nm \in Resolve(mappings, defaultNet, call[q].host) :
            call' = [call EXCEPT ![q] =
                IF closed \/ t = None \/ nm[1] = None
                THEN Idle
                ELSE [@ EXCEPT !.pc = "transport", !.version = version, !.transport = t,
                               !.net = nm[1], !.mapping = nm[2]]]
        BY <1>6 DEF snapshotFor
    <2>3. nm = <<nm[1], nm[2]>>
        BY DEF Resolve
    <2>4. ~(closed \/ t = None \/ nm[1] = None)
        BY <2>2 DEF Idle
    <2>5. /\ call'[q].scheme = call[q].scheme /\ call'[q].host = call[q].host
          /\ call'[q].transport = t /\ call'[q].net = nm[1] /\ call'[q].mapping = nm[2]
        BY <2>2, <2>4
    <2>6. <<call'[q].net, call'[q].mapping>> \in Resolve(mappings', defaultNet', call'[q].host)
        BY <2>1, <2>3, <2>5
    <2> QED
        BY <2>1, <2>5, <2>6
<1>7. CASE UNCHANGED <<tables, call>>
    BY <1>2, <1>7
<1>8. ASSUME SockStep \/ CallStep
      PROVE  (/\ transports[call[q].scheme] = call[q].transport
              /\ <<call[q].net, call[q].mapping>> \in resolveNetworkLocked(call[q].host))'
    <2>1. UNCHANGED tables
        BY <1>8 DEF SockStep, CallStep
    <2> HIDE DEF TypeInv, MustRetry, resolveNetworkLocked
    <2> QED
        BY <1>2, <1>3, <1>4, <1>5, <1>6, <1>8, <2>1
        DEF SockStep, CallStep, CloseNext, CloseUnderlying, UserClose, registerAcceptedConn, AcceptUnderlying
<1> QED
    BY <1>1, <1>7, <1>8, NextCases DEF CloseReturns, vars, tables

\* A resource is registered by a commit whose snapshot is current, or by Accept
\* on a registered listener, whose host, mapping and network it takes.
LEMMA NewlyRegistered ==
    ASSUME TypeInv, ChildOfListener, SnapshotIsCurrent, [Next]_vars
    PROVE  \A s \in Registered' \ Registered :
               /\ sock[s].phase = "raw" /\ sock'[s].parent = sock[s].parent
               /\ UNCHANGED <<tables, admin>>
               /\ sock[s].parent = None =>
                    ~closed /\ <<sock'[s].net, sock'[s].mapping>> \in resolveNetworkLocked(sock'[s].host)
               /\ sock[s].parent # None =>
                    LET l == sock[s].parent
                    IN  /\ l \in Registered /\ sock'[l] = sock[l]
                        /\ sock'[s].net = sock[l].net /\ sock'[s].mapping = sock[l].mapping
                        /\ sock'[s].host = sock[l].host
                        /\ CloseIsDue(l) => sock'[s].late
<1> DEFINE Goal == \A s \in Registered' \ Registered :
                   /\ sock[s].phase = "raw" /\ sock'[s].parent = sock[s].parent
                   /\ UNCHANGED <<tables, admin>>
                   /\ sock[s].parent = None =>
                        ~closed /\ <<sock'[s].net, sock'[s].mapping>> \in resolveNetworkLocked(sock'[s].host)
                   /\ sock[s].parent # None =>
                        LET l == sock[s].parent
                        IN  /\ l \in Registered /\ sock'[l] = sock[l]
                            /\ sock'[s].net = sock[l].net /\ sock'[s].mapping = sock[l].mapping
                            /\ sock'[s].host = sock[l].host
                            /\ CloseIsDue(l) => sock'[s].late
<1> SUFFICES Goal
    OBVIOUS
<1> USE ConstantsAssumption DEF TypeInv, TypeOK, CallOwnsSocket, ChildOfListener, CallState, SockState, Registered
<1>1. CASE UNCHANGED sock /\ UNCHANGED call
    BY <1>1
<1>2. ASSUME NEW a \in Admins, CloseNext(a) PROVE Goal
    <2>1. PICK r \in admin[a].left : IF sock[r].phase = "open" THEN BeginClose(r) ELSE UNCHANGED sock
        BY <1>2 DEF CloseNext
    <2>2. r \in Sock
        OBVIOUS
    <2>3. \A s \in Sock : sock'[s].phase = "open" => sock[s].phase = "open"
        BY <2>1, <2>2 DEF BeginClose
    <2> QED
        BY <2>3
<1>3. ASSUME NEW r \in Sock, CloseUnderlying(r) PROVE Goal
    BY <1>3 DEF CloseUnderlying, Free, tables
<1>4. ASSUME NEW r \in Sock, UserClose(r) PROVE Goal
    BY <1>4 DEF UserClose, BeginClose, tables
<1>5. ASSUME NEW p \in Callers, NEW r \in Sock, TransportMakes(p, r) PROVE Goal
    BY <1>5 DEF TransportMakes, Fresh, Unreferenced, Free, tables
<1>6. ASSUME NEW p \in Callers, commit(p) PROVE Goal
    BY <1>6, SMTT(30) DEF commit, tables, SnapshotIsCurrent, MustRetry
<1>7. ASSUME NEW p \in Callers, NEW c \in BOOLEAN, retry(p, c) PROVE Goal
    BY <1>7 DEF retry, Resolving, Idle, Free, tables
<1>8. ASSUME NEW l \in Sock, NEW r \in Sock, AcceptUnderlying(l, r) PROVE Goal
    BY <1>8 DEF AcceptUnderlying, Fresh, Unreferenced, Free, tables
<1>9. ASSUME NEW r \in Sock, registerAcceptedConn(r) PROVE Goal
    BY <1>9 DEF registerAcceptedConn, Free, tables
<1>10. CASE CallStep
    BY <1>10 DEF CallStep, tables
<1> HIDE DEF Goal, TypeInv, TypeOK
<1> QED
    BY <1>1, <1>2, <1>3, <1>4, <1>5, <1>6, <1>7, <1>8, <1>9, <1>10, NextCases
    DEF TableStep, SockStep, CloseReturns, vars

\* Every change of the tables collects what it strands.
LEMMA StrandStep ==
    ASSUME TypeInv, [Next]_vars
    PROVE  \A s \in Registered : Routed(s) /\ ~Routed(s)' /\ s \in Registered' => CloseIsDue(s)'
<1> SUFFICES ASSUME NEW s \in Registered, Routed(s), ~Routed(s)', s \in Registered'
             PROVE  CloseIsDue(s)'
    OBVIOUS
<1> DEFINE nm == <<sock[s].net, sock[s].mapping>>
<1>1. s \in Sock /\ sock'[s] = sock[s]
    BY RegisteredFrame DEF Registered
<1>2. ~closed /\ nm \in Resolve(mappings, defaultNet, sock[s].host)
    BY DEF Routed, resolveNetworkLocked
<1>3. closed' \/ nm \notin Resolve(mappings', defaultNet', sock[s].host)
    BY <1>1 DEF Routed, resolveNetworkLocked
<1>4. /\ mappings \in [Patterns -> Networks \cup {None, Unmapped}]
      /\ admin \in [Admins -> [left: SUBSET Sock, cur: Sock \cup {None}]]
    BY DEF TypeInv, TypeOK
<1>5. ASSUME NEW a \in Admins, NEW match, StartClosers(a, collectClosersLocked(match)), s \in match
      PROVE  CloseIsDue(s)'
    BY <1>4, <1>5 DEF StartClosers, collectClosersLocked, CloseIsDue
<1>6. ASSUME NEW a \in Admins, NEW n \in Networks \cup {None}, SetDefaultNetwork(a, n)
      PROVE  CloseIsDue(s)'
    <2>1. sock[s].mapping = DefaultKey
        BY <1>2, <1>3, <1>4, <1>6, DefaultKeepsMapped DEF SetDefaultNetwork
    <2> QED
        BY <1>1, <1>5, <1>6, <2>1 DEF SetDefaultNetwork
<1>7. ASSUME NEW a \in Admins, NEW q \in Patterns, NEW n \in Networks \cup {None}, MapNetwork(a, q, n)
      PROVE  CloseIsDue(s)'
    <2>1. <<q, sock[s].host>> \in HostMatches
        BY <1>2, <1>3, <1>4, <1>7, MapKeepsOthers DEF MapNetwork
    <2> QED
        BY <1>1, <1>5, <1>7, <2>1 DEF MapNetwork
<1>8. ASSUME NEW a \in Admins, NEW q \in Patterns, UnmapNetwork(a, q)
      PROVE  CloseIsDue(s)'
    <2>1. sock[s].mapping = q
        BY <1>2, <1>3, <1>4, <1>8, UnmapKeepsOthers DEF UnmapNetwork
    <2> QED
        BY <1>1, <1>5, <1>8, <2>1 DEF UnmapNetwork
<1>9. ASSUME NEW a \in Admins, Close(a)
      PROVE  CloseIsDue(s)'
    BY <1>1, <1>5, <1>9 DEF Close
<1>10. UNCHANGED <<closed, defaultNet, mappings>> => FALSE
    BY <1>2, <1>3
<1> QED
    BY <1>6, <1>7, <1>8, <1>9, <1>10 DEF Next, vars, tables, RegisterTransport, UnregisterTransport,
       CloseNext, CloseReturns, CloseUnderlying, UserClose, StartCall, snapshotFor, TransportMakes,
       TransportFails, commit, retry, AcceptUnderlying, registerAcceptedConn

\* Dialled connections and listeners stay routed or due to be closed.
LEMMA RoutedStep ==
    ASSUME IInv, [Next]_vars
    PROVE  RoutedOrClosing'
<1> SUFFICES ASSUME NEW s \in Registered', sock'[s].parent = None
             PROVE  Routed(s)' \/ CloseIsDue(s)'
    BY DEF RoutedOrClosing
<1> USE DEF IInv, TypeInv
<1>1. CASE s \in Registered
    BY <1>1, RegisteredFrame, DueFrame, StrandStep DEF RoutedOrClosing
<1>2. CASE s \notin Registered
    BY <1>2, NewlyRegistered DEF Routed, resolveNetworkLocked, tables
<1> QED
    BY <1>1, <1>2

\* Accepted connections do too, unless their listener was already due to be closed.
LEMMA AcceptedStep ==
    ASSUME IInv, [Next]_vars
    PROVE  AcceptedFollowsListener'
<1> SUFFICES ASSUME NEW s \in Registered', sock'[s].parent # None
             PROVE  Routed(s)' \/ CloseIsDue(s)' \/ sock'[s].late
    BY DEF AcceptedFollowsListener
<1> USE DEF IInv, TypeInv
<1>1. CASE s \in Registered
    <2>1. sock'[s] = sock[s]
        BY <1>1, RegisteredFrame
    <2>2. Routed(s) \/ CloseIsDue(s) \/ sock[s].late
        BY <1>1, <2>1 DEF AcceptedFollowsListener
    <2>3. CASE Routed(s)
        BY <1>1, <2>3, StrandStep
    <2>4. CASE CloseIsDue(s)
        BY <1>1, <2>4, DueFrame
    <2> QED
        BY <2>1, <2>2, <2>3, <2>4
<1>2. CASE s \notin Registered
    <2>1. s \in Sock /\ sock'[s].parent = sock[s].parent
        BY <1>2, NewlyRegistered DEF Registered
    <2> PICK l \in Sock : l = sock[s].parent
        BY <2>1 DEF TypeOK, SockState
    <2>2. /\ l # None /\ l \in Registered /\ sock'[l] = sock[l]
          /\ sock'[s].net = sock[l].net /\ sock'[s].mapping = sock[l].mapping
          /\ sock'[s].host = sock[l].host /\ UNCHANGED <<tables, admin>>
          /\ CloseIsDue(l) => sock'[s].late
        BY <1>2, <2>1, NewlyRegistered
    <2>3. sock[l].parent = None
        BY <2>1, <2>2 DEF ChildOfListener
    <2>4. Routed(l) \/ CloseIsDue(l)
        BY <2>2, <2>3 DEF RoutedOrClosing
    <2> QED
        BY <2>2, <2>4 DEF Routed, resolveNetworkLocked, tables
<1> QED
    BY <1>1, <1>2

-----------------------------------------------------------------------------
(* The theorems.                                                           *)

\* A new manager satisfies the inductive invariant.
LEMMA InitIInv == Init => IInv
<1> SUFFICES ASSUME Init PROVE IInv
    OBVIOUS
<1> USE ConstantsAssumption DEF Init
<1>1. Free \in SockState /\ Idle \in CallState
    BY DEF SockState, CallState, Kinds, Free, Idle
<1>2. TypeOK
    <2>1. sock \in [Sock -> SockState] /\ call \in [Callers -> CallState]
        BY <1>1
    <2>2. \A s \in Sock : sock[s].phase = "free"
        BY DEF Free
    <2>3. admin \in [Admins -> [left: SUBSET Sock, cur: Sock \cup {None}]]
        BY DEF Resting
    <2>4. closed \in BOOLEAN
        OBVIOUS
    <2>5. version \in 0..MaxVersion
        OBVIOUS
    <2>6. transports \in [Schemes -> Transports \cup {None}]
        OBVIOUS
    <2>7. mappings \in [Patterns -> Networks \cup {None, Unmapped}]
        OBVIOUS
    <2>8. defaultNet \in Networks \cup {None}
        OBVIOUS
    <2> HIDE DEF Init
    <2> QED
        BY <2>1, <2>2, <2>3, <2>4, <2>5, <2>6, <2>7, <2>8 DEF TypeOK, Registered
<1> USE DEF Free, Idle, Resting
<1>3. CallOwnsSocket /\ SnapshotIsCurrent
    BY DEF CallOwnsSocket, SnapshotIsCurrent
<1>4. ChildOfListener /\ NoLeakedSocket
    BY DEF ChildOfListener, NoLeakedSocket
<1>5. RoutedOrClosing /\ AcceptedFollowsListener
    BY DEF RoutedOrClosing, AcceptedFollowsListener, Registered
<1> QED
    BY <1>2, <1>3, <1>4, <1>5 DEF IInv

\* Every step keeps it.
LEMMA IInvStep == IInv /\ [Next]_vars => IInv'
BY TypeStep, ChildStep, SnapshotStep, LeakStep, RoutedStep, AcceptedStep DEF IInv, TypeInv

\* The inductive invariant holds in every reachable state.
THEOREM Invariance == Spec => []IInv
BY InitIInv, IInvStep, PTL DEF Spec

\* Every variable keeps its type, no socket is ever made on a nil network and
\* nothing is registered without a host and a mapping.
THEOREM TypeCorrect == Spec => []TypeOK
<1>1. IInv => TypeOK
    BY DEF IInv
<1> QED
    BY <1>1, Invariance, PTL

\* A Dial or Listen that commits has an up-to-date snapshot (manager.go, the
\* version check of commitConn and commitListener).
THEOREM CommitIsCurrent == Spec => []SnapshotIsCurrent
<1>1. IInv => SnapshotIsCurrent
    BY DEF IInv
<1> QED
    BY <1>1, Invariance, PTL

\* No dialled connection and no listener survives on the wrong network.
THEOREM DialledAndListenersRouted == Spec => []RoutedOrClosing
<1>1. IInv => RoutedOrClosing
    BY DEF IInv
<1> QED
    BY <1>1, Invariance, PTL

\* An accepted connection on the wrong network is about to be closed, whatever has
\* become of its listener, unless the listener was already due to be closed when the
\* connection was registered.
THEOREM AcceptedRouted == Spec => []AcceptedFollowsListener
<1>1. IInv => AcceptedFollowsListener
    BY DEF IInv
<1> QED
    BY <1>1, Invariance, PTL

\* The retry loops of Dial and Listen leak no socket.
THEOREM RetryLeaksNothing == Spec => []NoLeakedSocket
<1>1. IInv => NoLeakedSocket
    BY DEF IInv
<1> QED
    BY <1>1, Invariance, PTL

\* Every reconfiguration collects, atomically, all it strands.
THEOREM ReconfigurationCollects == Spec => StrandedIsCollected
<1>1. IInv /\ [Next]_vars =>
        [\A s \in Registered : Routed(s) /\ ~Routed(s)' /\ s \in Registered' => CloseIsDue(s)']_vars
    BY StrandStep DEF IInv, TypeInv
<1> QED
    BY <1>1, Invariance, PTL DEF Spec, StrandedIsCollected
=============================================================================
