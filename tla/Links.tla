-------------------------------- MODULE Links --------------------------------
(***************************************************************************)
(* ygglib/core/link.go: the links actor and the goroutines around it.      *)
(*                                                                         *)
(* _links maps a peering URI (linkInfo) to the state of a link.  A peer    *)
(* that is added gets a state and a dialler goroutine, which dials, gives  *)
(* the connection to the handler, and backs off and dials again; a         *)
(* listener starts one goroutine for each connection it accepts.  They     *)
(* share the map and the states through phony.Block, so one step of this   *)
(* module is one block on the actor or one blocking call between two       *)
(* blocks; everything else interleaves.                                    *)
(*                                                                         *)
(* A URI is a model value.  Addr[c] is the URI that an accepted connection *)
(* c is filed under: the listener's URI with the remote address in it.     *)
(* TCP and TLS connections have a remote address each, all connections of  *)
(* a UNIX socket have the same one.  What the handshake checks is a        *)
(* nondeterministic outcome; HandleConn is ironwood's and returns when the *)
(* connection is closed or, by the remote side, at any time.               *)
(***************************************************************************)
EXTENDS Integers, FiniteSets

CONSTANTS
    Conns,        \* connections
    LinkStates,   \* *link objects
    DialInfos,    \* URIs passed to AddPeer and CallPeer
    RemoveInfos,  \* URIs passed to RemovePeer
    Addr,         \* the URI of an accepted connection
    None

Infos == DialInfos \cup RemoveInfos \cup {Addr[c] : c \in Conns}

ASSUME LinksAssumption ==
    /\ Addr \in [Conns -> Infos]
    /\ None \notin Conns \cup LinkStates \cup Infos

VARIABLES
    _links,    \* l._links, None where there is no entry
    link,      \* the *link objects and their dialler goroutines
    inbound,   \* the goroutines of accepted connections
    open,      \* the connections whose socket is open
    listener,  \* one listener and the goroutine of its listen call and accept loop
    stage,     \* how far Core._close has come
    panicked   \* a goroutine panicked, which ends the process

vars == <<_links, link, inbound, open, listener, stage, panicked>>

LinkTypes == {"persistent", "ephemeral", "incoming"}

\* pc is the dialler's: "none" for a link that has none (an incoming one) or
\* whose dialler has returned.  own is the dialler's local lc, conn is _conn,
\* self is backoff < 0, and cancelled is ctx, as far as remove cancels it.  removed
\* is history: a removal came that found no dial of the link in progress.
NoLink == [type |-> "incoming", info |-> None, conn |-> None, cancelled |-> FALSE,
           pc |-> "none", own |-> None, self |-> FALSE, removed |-> FALSE]

LinkRecord ==
    [type: LinkTypes, info: Infos \cup {None}, conn: Conns \cup {None}, cancelled: BOOLEAN,
     pc: {"none", "top", "dialing", "dialed", "handshake", "up", "ended", "backoff", "exit"},
     own: Conns \cup {None}, self: BOOLEAN, removed: BOOLEAN]

\* st is the goroutine's local state.
InboundRecord ==
    [pc: {"none", "accepted", "handshake", "up", "closing"}, st: LinkStates \cup {None}]

NoInbound == [pc |-> "none", st |-> None]

\* "opening": the socket is open and li is not yet in _listeners; "on": registered
\* and accepting; "closed": cancelled, and the accept loop has not yet noticed;
\* "lost": open, and forgotten by the error path of listen.
ListenerStates == {"off", "opening", "on", "closed", "lost"}

-----------------------------------------------------------------------------
(* Objects.  An object is reused only when nothing refers to it.           *)

Referenced(k) ==
    \/ \E i \in Infos : _links[i] = k
    \/ \E c \in Conns : inbound[c].st = k

FreeLink(k) == link[k] = NoLink /\ ~Referenced(k)

FreeConn(c) ==
    /\ c \notin open
    /\ inbound[c] = NoInbound
    /\ \A k \in LinkStates : link[k].conn # c /\ link[k].own # c

\* Mutant: state.ctx is not derived from core.ctx.
Done_OwnContext(k) == link[k].cancelled

\* state.ctx is done: removed, or core.ctx cancelled.
Done(k) == link[k].cancelled \/ stage # "running"

-----------------------------------------------------------------------------
(* add.                                                                    *)

\* The non-blocking send on the unbuffered kick channel: only a dialler that
\* waits in backoffNow receives it.
Kicked(k) == IF link[k].pc = "backoff" THEN [link[k] EXCEPT !.pc = "top"] ELSE link[k]

\* AddPeer or CallPeer of a URI that has no entry.
addNew(i, type, k) ==
    /\ _links[i] = None
    /\ FreeLink(k)
    /\ link' = [link EXCEPT ![k] = [NoLink EXCEPT !.type = type, !.info = i, !.pc = "top"]]
    /\ _links' = [_links EXCEPT ![i] = k]
    /\ UNCHANGED <<inbound, open, listener, stage, panicked>>

\* ErrLinkAlreadyConfigured, after a kick.
addExisting(i) ==
    /\ _links[i] # None
    /\ link' = [link EXCEPT ![_links[i]] = Kicked(_links[i])]
    /\ UNCHANGED <<_links, inbound, open, listener, stage, panicked>>

\* Core.RetryPeersNow.
RetryPeersNow ==
    /\ link' = [k \in LinkStates |->
                    IF \E i \in Infos : _links[i] = k THEN Kicked(k) ELSE link[k]]
    /\ UNCHANGED <<_links, inbound, open, listener, stage, panicked>>

-----------------------------------------------------------------------------
(* The dialler goroutine.                                                  *)

LoopTop(k) ==
    /\ link[k].pc = "top"
    /\ link' = [link EXCEPT ![k].pc = IF Done(k) THEN "exit" ELSE "dialing"]
    /\ UNCHANGED <<_links, inbound, open, listener, stage, panicked>>

\* Mutant: a dialled link of any type ends with its connection.
AfterFailure_Once(k) == "exit"

\* A persistent link backs off; the others end.
AfterFailure(k) == IF link[k].type = "persistent" THEN "backoff" ELSE "exit"

DialFails(k) ==
    /\ link[k].pc = "dialing"
    /\ link' = [link EXCEPT ![k] =
            [@ EXCEPT !.pc = AfterFailure(k),
                      !.conn = IF link[k].type = "persistent" THEN None ELSE link[k].conn]]
    /\ UNCHANGED <<_links, inbound, open, listener, stage, panicked>>

\* Mutant: connect may return neither a connection nor an error, and nobody looks.
DialSucceeds_NilConn(k, c) ==
    /\ link[k].pc = "dialing"
    /\ FreeConn(c)
    /\ \E d \in {c, None} :
        /\ open' = open \cup {d}
        /\ link' = [link EXCEPT ![k] = [@ EXCEPT !.pc = "dialed", !.own = d]]
    /\ UNCHANGED <<_links, inbound, listener, stage, panicked>>

\* The dial may complete although the context has been cancelled in the meantime.
DialSucceeds(k, c) ==
    /\ link[k].pc = "dialing"
    /\ FreeConn(c)
    /\ open' = open \cup {c}
    /\ link' = [link EXCEPT ![k] = [@ EXCEPT !.pc = "dialed", !.own = c]]
    /\ UNCHANGED <<_links, inbound, listener, stage, panicked>>

\* state._conn = lc happens even when a peering has come up in this time and the
\* goroutine returns.
Install(k) ==
    /\ link[k].pc = "dialed"
    /\ link' = [link EXCEPT ![k] =
            IF link[k].conn # None
            THEN [@ EXCEPT !.conn = link[k].own, !.pc = "exit", !.own = None]
            ELSE [@ EXCEPT !.conn = link[k].own, !.pc = "handshake"]]
    /\ UNCHANGED <<_links, inbound, open, listener, stage, panicked>>

\* The handshake succeeds: resetBackoff, then HandleConn.
HandshakeDone(k) ==
    /\ link[k].pc = "handshake"
    /\ link[k].own \in open
    /\ link' = [link EXCEPT ![k] = [@ EXCEPT !.pc = "up", !.self = FALSE]]
    /\ UNCHANGED <<_links, inbound, open, listener, stage, panicked>>

\* Mutant: the dialler leaves the closing to the handler.
HandlerReturns_NoClose(k, self) ==
    /\ link[k].pc = "handshake" \/ (link[k].pc = "up" /\ ~self)
    /\ link' = [link EXCEPT ![k] = [@ EXCEPT !.pc = "ended", !.self = link[k].self \/ self]]
    /\ UNCHANGED <<_links, inbound, open, listener, stage, panicked>>

\* handler returns and the dialler closes the connection.  self: ErrLinkToSelf,
\* which only the handshake finds.
HandlerReturns(k, self) ==
    /\ link[k].pc = "handshake" \/ (link[k].pc = "up" /\ ~self)
    /\ open' = open \ {link[k].own}
    /\ link' = [link EXCEPT ![k] = [@ EXCEPT !.pc = "ended", !.self = link[k].self \/ self]]
    /\ UNCHANGED <<_links, inbound, listener, stage, panicked>>

DropConn(k) ==
    /\ link[k].pc = "ended"
    /\ link' = [link EXCEPT ![k] = [@ EXCEPT !.pc = AfterFailure(k), !.conn = None, !.own = None]]
    /\ UNCHANGED <<_links, inbound, open, listener, stage, panicked>>

\* backoffNow: the timer fires, unless backoff is negative, or the context ends.
BackoffTimeout(k) ==
    /\ link[k].pc = "backoff"
    /\ ~link[k].self
    /\ link' = [link EXCEPT ![k].pc = "top"]
    /\ UNCHANGED <<_links, inbound, open, listener, stage, panicked>>

BackoffCancelled(k) ==
    /\ link[k].pc = "backoff"
    /\ Done(k)
    /\ link' = [link EXCEPT ![k].pc = "exit"]
    /\ UNCHANGED <<_links, inbound, open, listener, stage, panicked>>

\* The deferred block.
DeleteEntry(i, k) == _links' = IF _links[i] = k THEN [_links EXCEPT ![i] = None] ELSE _links

\* Mutant: the dialler returns without the deferred block.
Exit_NoDelete(k) ==
    /\ link[k].pc = "exit"
    /\ link' = [link EXCEPT ![k] = NoLink]
    /\ UNCHANGED <<_links, inbound, open, listener, stage, panicked>>

Exit(k) ==
    /\ link[k].pc = "exit"
    /\ DeleteEntry(link[k].info, k)
    /\ link' = [link EXCEPT ![k] =
            IF \E c \in Conns : inbound[c].st = k THEN [@ EXCEPT !.pc = "none"] ELSE NoLink]
    /\ UNCHANGED <<inbound, open, listener, stage, panicked>>

-----------------------------------------------------------------------------
(* remove.                                                                 *)

\* The dial of a link is in progress: _conn does not have its connection yet.
InDial(k) == link[k].pc \in {"dialing", "dialed"}

\* state.cancel().
Removed(k) == [link[k] EXCEPT !.cancelled = TRUE, !.removed = link[k].removed \/ ~InDial(k)]

\* Mutant: remove deletes the entry at once, before the dialler has ended.
remove_Deletes(i) ==
    LET k == _links[i]
    IN  /\ k # None
        /\ link[k].type # "incoming"
        /\ link' = [link EXCEPT ![k] = Removed(k)]
        /\ open' = open \ {link[k].conn}
        /\ _links' = [_links EXCEPT ![i] = None]
        /\ UNCHANGED <<inbound, listener, stage, panicked>>

\* Mutant: remove cancels the context and leaves the connection to its handler.
remove_KeepsConn(i) ==
    LET k == _links[i]
    IN  /\ k # None
        /\ link[k].type # "incoming"
        /\ link' = [link EXCEPT ![k] = Removed(k)]
        /\ UNCHANGED <<_links, inbound, open, listener, stage, panicked>>

\* RemovePeer of a link that add made.
remove(i) ==
    LET k == _links[i]
    IN  /\ k # None
        /\ link[k].type # "incoming"
        /\ link' = [link EXCEPT ![k] = Removed(k)]
        /\ open' = open \ {link[k].conn}
        /\ UNCHANGED <<_links, inbound, listener, stage, panicked>>

\* The state of an incoming link is made without a context: state.cancel is nil.
removeIncoming(i) ==
    LET k == _links[i]
    IN  /\ k # None
        /\ link[k].type = "incoming"
        /\ panicked' = TRUE
        /\ UNCHANGED <<_links, link, inbound, open, listener, stage>>

-----------------------------------------------------------------------------
(* listen and the goroutines of accepted connections.                      *)

\* Core.Listen: the transport manager opens the socket.  Nothing looks at core.ctx
\* afterwards, so a call may get this far while Stop runs, or later.
listenOpens ==
    /\ listener = "off"
    /\ listener' = "opening"
    /\ UNCHANGED <<_links, link, inbound, open, stage, panicked>>

\* A bad priority or password in the URI: the error is returned and neither the
\* socket is closed nor its context cancelled.
listenFails ==
    /\ listener = "opening"
    /\ listener' = "lost"
    /\ UNCHANGED <<_links, link, inbound, open, stage, panicked>>

\* The block that registers it in _listeners, and its accept loop, whether shutdown
\* has come by then or not.
listenRegisters ==
    /\ listener = "opening"
    /\ listener' = "on"
    /\ UNCHANGED <<_links, link, inbound, open, stage, panicked>>

\* Listener.Stop, or the cancel functions that shutdown calls.
StopListener ==
    /\ listener = "on"
    /\ listener' = "closed"
    /\ UNCHANGED <<_links, link, inbound, open, stage, panicked>>

\* Accept fails and the accept loop ends with its deferred block.
AcceptLoopEnds ==
    /\ listener = "closed"
    /\ listener' = "off"
    /\ UNCHANGED <<_links, link, inbound, open, stage, panicked>>

Accept(c) ==
    /\ listener = "on"
    /\ FreeConn(c)
    /\ open' = open \cup {c}
    /\ inbound' = [inbound EXCEPT ![c].pc = "accepted"]
    /\ UNCHANGED <<_links, link, listener, stage, panicked>>

\* The first block: find or make the state, and drop the connection if the state
\* has one already.
FileInbound(c, k) ==
    /\ inbound[c].pc = "accepted"
    /\ IF _links[Addr[c]] # None THEN k = _links[Addr[c]] ELSE FreeLink(k)
    /\ IF link[k].conn # None
       THEN /\ inbound' = [inbound EXCEPT ![c] = [pc |-> "closing", st |-> k]]
            /\ UNCHANGED <<_links, link>>
       ELSE /\ inbound' = [inbound EXCEPT ![c] = [pc |-> "handshake", st |-> k]]
            /\ link' = [link EXCEPT ![k] = [@ EXCEPT !.conn = c, !.info = Addr[c]]]
            /\ _links' = [_links EXCEPT ![Addr[c]] = k]
    /\ UNCHANGED <<open, listener, stage, panicked>>

InboundHandshakeDone(c) ==
    /\ inbound[c].pc = "handshake"
    /\ c \in open
    /\ inbound' = [inbound EXCEPT ![c].pc = "up"]
    /\ UNCHANGED <<_links, link, open, listener, stage, panicked>>

\* handler returns and lc is closed.
InboundHandlerReturns(c) ==
    /\ inbound[c].pc \in {"handshake", "up"}
    /\ open' = open \ {c}
    /\ inbound' = [inbound EXCEPT ![c].pc = "closing"]
    /\ UNCHANGED <<_links, link, listener, stage, panicked>>

\* The deferred block, which runs whether lc was nil or not, and conn.Close.
InboundExit(c) ==
    LET k == inbound[c].st
    IN  /\ inbound[c].pc = "closing"
        /\ DeleteEntry(Addr[c], k)
        /\ open' = open \ {c}
        /\ inbound' = [inbound EXCEPT ![c] = NoInbound]
        /\ link' = [link EXCEPT ![k] =
                IF @.pc = "none" /\ \A d \in Conns \ {c} : inbound[d].st # k THEN NoLink ELSE @]
        /\ UNCHANGED <<listener, stage, panicked>>

-----------------------------------------------------------------------------
(* Core.Stop.                                                              *)

\* c.cancel()
Cancel ==
    /\ stage = "running"
    /\ stage' = "cancelled"
    /\ UNCHANGED <<_links, link, inbound, open, listener, panicked>>

\* links.shutdown: the listeners that are registered, and the connections that the entries hold now.
shutdown ==
    /\ stage = "cancelled"
    /\ stage' = "shut"
    /\ listener' = IF listener = "on" THEN "closed" ELSE listener
    /\ open' = open \ {link[_links[i]].conn : i \in {j \in Infos : _links[j] # None}}
    /\ UNCHANGED <<_links, link, inbound, panicked>>

\* c.Close(): ironwood's PacketConn ends every HandleConn, now and later.
ClosePacketConn ==
    /\ stage = "shut"
    /\ stage' = "closed"
    /\ UNCHANGED <<_links, link, inbound, open, listener, panicked>>

-----------------------------------------------------------------------------

Init ==
    /\ _links = [i \in Infos |-> None]
    /\ link = [k \in LinkStates |-> NoLink]
    /\ inbound = [c \in Conns |-> NoInbound]
    /\ open = {}
    /\ listener = "off"
    /\ stage = "running"
    /\ panicked = FALSE

Api ==
    \/ \E i \in DialInfos, t \in {"persistent", "ephemeral"}, k \in LinkStates : addNew(i, t, k)
    \/ \E i \in DialInfos : addExisting(i)
    \/ RetryPeersNow
    \/ \E i \in RemoveInfos : remove(i)
    \/ \E i \in RemoveInfos : removeIncoming(i)
    \/ listenOpens \/ listenFails \/ listenRegisters
    \/ StopListener
    \/ Cancel

Dialler(k) ==
    \/ LoopTop(k) \/ DialFails(k) \/ Install(k)
    \/ \E c \in Conns : DialSucceeds(k, c)
    \/ HandshakeDone(k)
    \/ \E self \in BOOLEAN : HandlerReturns(k, self)
    \/ DropConn(k) \/ BackoffTimeout(k) \/ BackoffCancelled(k) \/ Exit(k)

Inbound(c) ==
    \/ Accept(c)
    \/ \E k \in LinkStates : FileInbound(c, k)
    \/ InboundHandshakeDone(c) \/ InboundHandlerReturns(c) \/ InboundExit(c)

Next ==
    /\ ~panicked
    /\ \/ Api
       \/ \E k \in LinkStates : Dialler(k)
       \/ \E c \in Conns : Inbound(c)
       \/ AcceptLoopEnds
       \/ shutdown
       \/ ClosePacketConn

Spec == Init /\ [][Next]_vars

\* Goroutines run, behaviours that end in a panic left aside; a dial and a handshake
\* end, by the network's timeout and the six-second deadline; the backoff timer
\* fires; HandleConn returns once its connection or the PacketConn is closed.
\* Nothing is assumed of the callers of the API, and nothing of the remote side,
\* which may keep a connection up.
\* FileInbound is strongly fair since only the bound on LinkStates disables it.
Fairness ==
    /\ \A k \in LinkStates :
        /\ WF_vars(LoopTop(k)) /\ WF_vars(DialFails(k) \/ \E c \in Conns : DialSucceeds(k, c))
        /\ WF_vars(Install(k)) /\ WF_vars(DropConn(k)) /\ WF_vars(Exit(k))
        /\ WF_vars(HandshakeDone(k) \/ (link[k].pc = "handshake" /\ HandlerReturns(k, FALSE)))
        /\ WF_vars((link[k].own \notin open \/ stage = "closed") /\ HandlerReturns(k, FALSE))
        /\ WF_vars(BackoffTimeout(k)) /\ WF_vars(BackoffCancelled(k))
    /\ \A c \in Conns :
        /\ SF_vars(\E k \in LinkStates : FileInbound(c, k)) /\ WF_vars(InboundExit(c))
        /\ WF_vars(InboundHandshakeDone(c) \/ (inbound[c].pc = "handshake" /\ InboundHandlerReturns(c)))
        /\ WF_vars((c \notin open \/ stage = "closed") /\ InboundHandlerReturns(c))
    /\ WF_vars(AcceptLoopEnds) /\ WF_vars(shutdown) /\ WF_vars(ClosePacketConn)

FairSpec == Spec /\ Fairness

-----------------------------------------------------------------------------
(* Properties.                                                             *)

\* Every variable has its type.
TypeOK ==
    /\ _links \in [Infos -> LinkStates \cup {None}]
    /\ link \in [LinkStates -> LinkRecord]
    /\ inbound \in [Conns -> InboundRecord]
    /\ open \subseteq Conns
    /\ listener \in ListenerStates
    /\ stage \in {"running", "cancelled", "shut", "closed"}
    /\ panicked \in BOOLEAN

\* Every entry of _links has a goroutine that will delete it: no path of add,
\* remove or the accept goroutines leaves an entry that GetPeers shows for ever
\* and that blocks the URI for every later AddPeer.
NoGhostEntry ==
    \A i \in Infos : _links[i] # None =>
        \/ link[_links[i]].pc # "none"
        \/ \E c \in Conns : inbound[c].st = _links[i]

\* The connections that a handler is running on for a URI.
Handled(i) ==
    {link[k].own : k \in {j \in LinkStates : link[j].info = i /\ link[j].pc \in {"handshake", "up"}}}
    \cup {c \in Conns : Addr[c] = i /\ inbound[c].pc \in {"handshake", "up"}}

\* The connections that an accept goroutine of a state has given to the handler.
HandledBy(k) == {c \in Conns : inbound[c].st = k /\ inbound[c].pc \in {"handshake", "up"}}

\* A URI that is dialled has at most one connection with the handler, however AddPeer,
\* RemovePeer and the dialler overlap, and so has the state of an incoming link,
\* however many connections are accepted under its URI.
OneHandlerPerLink ==
    /\ \A i \in DialInfos : Cardinality(Handled(i) \cap open) <= 1
    /\ \A k \in LinkStates : Cardinality(HandledBy(k)) <= 1

\* Every open connection belongs to a goroutine that will close it, whatever add,
\* remove, Stop, a failed dial or a dropped duplicate does to its link.
NoOrphanConn ==
    \A c \in open :
        \/ inbound[c].pc # "none"
        \/ \E k \in LinkStates : link[k].own = c /\ link[k].pc \in {"dialed", "handshake", "up"}

\* "If this node is already connected to us, just drop the connection.  This prevents
\* duplicate peerings" (link.go:490-492), and "If a peering has come up in this time,
\* abort this one" (link.go:336-338): at most one connection per URI is with the
\* handler, and the one that was dropped or aborted is closed, or somebody is left to
\* close it.
NoDuplicatePeering ==
    /\ \A i \in Infos : Cardinality(Handled(i) \cap open) <= 1
    /\ NoOrphanConn

\* AddPeer "adds the peer to the peer list, so that they will be called again if
\* the connection drops" (api.go:199-200): until the peer is removed or the node
\* stops, its dialler goes on and is in the list, where RemovePeer finds it.
PersistentStaysConfigured ==
    \A k \in LinkStates : link[k].type = "persistent" /\ ~Done(k) =>
        link[k].pc \notin {"none", "exit"} /\ _links[link[k].info] = k

\* "If this peer is already configured then we will close the connection and stop
\* it from retrying" (link.go:399-400): every removal, at whatever point of the
\* dialler it comes, ends with the dialler gone.
RemoveEndsLink == \A k \in LinkStates : link[k].cancelled ~> link[k].pc = "none"

\* The part of it that the code keeps: a removal that does not come while a dial is
\* in progress ends the dialler, a connection that is up and that the remote side
\* would keep up for ever included.
RemoveTakesEffect == \A k \in LinkStates : link[k].removed ~> link[k].pc = "none"

\* Stop ends every dialler, every accept goroutine and every connection, whatever
\* they were doing, a dial or an accept that completes after shutdown included.  It
\* does not end a listener that registers after shutdown: nobody calls its cancel
\* function, and it goes on accepting connections, each of which ends.
StopEndsLinks ==
    /\ \A k \in LinkStates : stage = "closed" ~> link[k].pc = "none"
    /\ \A c \in Conns : stage = "closed" ~> inbound[c].pc = "none" /\ c \notin open
=============================================================================
