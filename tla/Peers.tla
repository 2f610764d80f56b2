------------------------------- MODULE Peers --------------------------------
(***************************************************************************)
(* The core's peers as jumper, autopeer and the admin handlers see them    *)
(* (GetPeers, PeerURIs, AddPeer and RemovePeer of ygglib/core).  The core  *)
(* knows a peer by its URI without the query; the callers keep the whole   *)
(* URI.  How a peer connects is the subject of Links; here the network     *)
(* brings a configured peer up and down.                                   *)
(***************************************************************************)
EXTENDS Integers, Sequences, FiniteSets

CONSTANTS
    Uris,         \* records with fields base, query (has one) and valid
    Nodes,        \* remote nodes
    Reaches       \* the node that answers at each base

Bases == {u.base : u \in Uris}

ASSUME PeersAssumption ==
    /\ \A u \in Uris : u.query \in BOOLEAN /\ u.valid \in BOOLEAN
    /\ Reaches \in [Bases -> Nodes]

VARIABLE peers    \* base -> state of the link, who added it and for whom

NoPeer == [state |-> "none", by |-> "none", target |-> "none"]

Configured(b) == peers[b].state # "none"

(* What a caller finds when it looks its own URI up in the answer of       *)
(* GetPeers: a URI with a query is never there.                            *)
uriConfigured(ps, u) == ~u.query /\ ps[u.base].state # "none"
peerUpWithURI(ps, u) == ~u.query /\ ps[u.base].state = "up"
DirectlyConnected(ps, n) == \E b \in Bases : ps[b].state = "up" /\ Reaches[b] = n

(* AddPeer fails if the peer exists, or if its scheme or options are bad.  *)
CanAdd(u) == u.valid /\ ~Configured(u.base)
AddPeer(u, by, t) ==
    peers' = [peers EXCEPT ![u.base] = [state |-> "down", by |-> by, target |-> t]]

Without(bs) == [b \in Bases |-> IF b \in bs THEN NoPeer ELSE peers[b]]

LinkChanges(b) ==
    /\ Configured(b)
    /\ peers' = [peers EXCEPT ![b].state = IF @ = "up" THEN "down" ELSE "up"]

(* The admin handlers addPeer and removePeer. *)
OperatorAdds(u) == CanAdd(u) /\ AddPeer(u, "operator", "none")
OperatorRemoves(b) == Configured(b) /\ peers' = Without({b})
=============================================================================
