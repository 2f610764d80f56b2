------------------------------ MODULE AutoPeer ------------------------------
(***************************************************************************)
(* Autopeering (ygglib/autopeer): a fetcher that downloads lists of public *)
(* peers over the network of each source, and a manager that adds peers    *)
(* from these lists while too few are connected.                           *)
(*                                                                         *)
(* A list is the set of URIs that its source serves; the model remembers   *)
(* over which network it was fetched.  Both loops also wake up by a timer, *)
(* so a round may begin at any time and `wake' need not be kept.           *)
(***************************************************************************)
EXTENDS Peers

CONSTANTS
    Sources,      \* sources, one of which is Builtin
    Builtin,
    Networks,     \* networks that sources may be fetched over
    Nil,          \* no network
    NoList,       \* nothing fetched
    Serves,       \* the URIs in the list of each source
    Policies      \* autopeering policies of the instance

VARIABLES
    fetcher,      \* active, closed and where its loop is
    order,        \* sourceOrder, as a set
    netOf,        \* sourceNetworks: source -> network, Nil or "default"
    defaultNet,   \* defaultNetwork
    lists,        \* sourcePeers: source -> NoList or the network it came over
    fetchList,    \* sources and networks that the loop has still to fetch
    manager,      \* active, closed and where its loop is
    policy,       \* config of the manager
    selected      \* the candidate the manager is about to add

fetchVars == <<fetcher, order, netOf, defaultNet, lists, fetchList>>
managerVars == <<manager, policy, selected>>

NoUri == [base |-> "none"]
Life(on) == [active |-> on, closed |-> FALSE, loop |-> IF on THEN "idle" ELSE "off"]

(* The daemon has started both when the configuration enables autopeering. *)
AutoPeerInit(on) ==
    /\ fetcher = Life(on) /\ manager = Life(on)
    /\ order = IF on THEN Sources ELSE {}
    /\ netOf = [s \in Sources |-> "default"] /\ defaultNet = CHOOSE n \in Networks : TRUE
    /\ lists = [s \in Sources |-> IF s = Builtin /\ s \in order THEN Nil ELSE NoList]
    /\ fetchList = {}
    /\ policy \in Policies /\ selected = NoUri

(***************************************************************************)
(* The fetcher.                                                            *)
(***************************************************************************)
networkFor(s, nets, def) == IF nets[s] = "default" THEN def ELSE nets[s]

reconcile(srcs, nets, def) ==
    lists' = [s \in Sources |->
        IF s \notin srcs THEN NoList
        ELSE IF s = Builtin THEN Nil
        ELSE IF networkFor(s, nets, def) = Nil THEN NoList ELSE lists[s]]

Reconfigure(srcs, nets, def) ==
    /\ order' = srcs /\ netOf' = nets /\ defaultNet' = def
    /\ reconcile(srcs, nets, def)
    /\ UNCHANGED <<fetcher, fetchList, managerVars>>

SetSources(srcs) == Reconfigure(srcs, netOf, defaultNet)
AddSource(s) == Reconfigure(order \cup {s}, netOf, defaultNet)
RemoveSource(s) == Reconfigure(order \ {s}, [netOf EXCEPT ![s] = "default"], defaultNet)
SetSourceNetwork(s, n) == Reconfigure(order, [netOf EXCEPT ![s] = n], defaultNet)
RemoveSourceNetwork(s) == Reconfigure(order, [netOf EXCEPT ![s] = "default"], defaultNet)
SetDefaultNetwork(n) == Reconfigure(order, netOf, n)

(* The networks are compared again when a list arrives. *)
replaceSourcePeers_AnyNetwork(s, via) ==
    lists' = IF s \in order THEN [lists EXCEPT ![s] = via] ELSE lists

replaceSourcePeers(s, via) ==
    lists' = IF s \notin order THEN lists
             ELSE [lists EXCEPT ![s] =
                     IF networkFor(s, netOf, defaultNet) = via THEN via ELSE NoList]

Fetchable(s) == /\ s \in order /\ s # Builtin
                /\ networkFor(s, netOf, defaultNet) # Nil

(* What FetchNow does once its source has answered, over `via'. *)
FetchNow(s, via, ok) ==
    /\ IF s = Builtin THEN reconcile(order, netOf, defaultNet)
       ELSE IF ok THEN replaceSourcePeers(s, via) ELSE UNCHANGED lists
    /\ UNCHANGED <<fetcher, order, netOf, defaultNet, fetchList, managerVars>>

FetcherStarts(f) == ~f.active /\ ~f.closed

fetchBegins ==
    /\ fetcher.loop = "idle" /\ fetcher' = [fetcher EXCEPT !.loop = "fetching"]
    /\ fetchList' = {[source |-> s, via |-> networkFor(s, netOf, defaultNet)] :
                       s \in {s \in Sources : Fetchable(s)}}
    /\ UNCHANGED <<order, netOf, defaultNet, lists, managerVars, peers>>

fetchSource(item, ok) ==
    /\ item \in fetchList /\ fetchList' = fetchList \ {item}
    /\ IF ok THEN replaceSourcePeers(item.source, item.via) ELSE UNCHANGED lists
    /\ UNCHANGED <<fetcher, order, netOf, defaultNet, managerVars, peers>>

fetchEnds ==
    /\ fetcher.loop = "fetching" /\ fetchList = {}
    /\ fetcher' = IF fetcher.closed
                  THEN [fetcher EXCEPT !.loop = "ended", !.active = FALSE]
                  ELSE [fetcher EXCEPT !.loop = "idle"]
    /\ UNCHANGED <<order, netOf, defaultNet, lists, fetchList, managerVars, peers>>

(* Peers: what all lists together offer. *)
Fetched == UNION {Serves[s] : s \in {s \in Sources : lists[s] # NoList}}

(***************************************************************************)
(* The manager.                                                            *)
(***************************************************************************)
Startable_IgnoresClosed == ~manager.active

Startable == ~manager.active /\ ~manager.closed

StartFlag ==
    /\ Startable
    /\ manager' = [manager EXCEPT !.active = TRUE]
    /\ UNCHANGED <<fetchVars, policy, selected>>

(* Start goes on without the lock: fetcher.Start, then its own loop. *)
StartLoops ==
    /\ manager' = [manager EXCEPT !.loop = "idle"]
    /\ IF FetcherStarts(fetcher)
       THEN /\ fetcher' = [fetcher EXCEPT !.active = TRUE, !.loop = "idle"]
            /\ reconcile(order, netOf, defaultNet)
       ELSE UNCHANGED <<fetcher, lists>>
    /\ UNCHANGED <<order, netOf, defaultNet, fetchList, policy, selected>>

(* Close closes the fetcher and waits for its loop, then does the same for *)
(* the manager.                                                            *)
CloseFetcher ==
    /\ fetcher' = [fetcher EXCEPT !.closed = TRUE]
    /\ UNCHANGED <<order, netOf, defaultNet, lists, fetchList, managerVars>>

CloseManager ==
    /\ manager' = [manager EXCEPT !.closed = TRUE]
    /\ UNCHANGED <<fetchVars, policy, selected>>

SetConfig(p) == policy' = p /\ UNCHANGED <<fetchVars, manager, selected>>

Eligible == Fetched \cap policy.accepts

Connected == {b \in Bases : peers[b].state = "up"}
ConnectedPublic == {b \in Connected : \E u \in Eligible : ~u.query /\ u.base = b}

ConditionsMet ==
    /\ Cardinality(Connected) >= policy.min
    /\ Cardinality(ConnectedPublic) >= policy.minFetched

Idle == policy.accepts = {} \/ (policy.min = 0 /\ policy.minFetched = 0)

(* Candidates: the best of those that PeerURIs does not list; one endpoint *)
(* whose uptime cannot be parsed ends the selection.                       *)
Unlisted_All == Eligible

Unlisted == {u \in Eligible : ~uriConfigured(peers, u)}

Candidates ==
    IF \E u \in Unlisted : u.score < 0 THEN {}
    ELSE {u \in Unlisted : \A v \in Unlisted : v.score <= u.score}

checkNow ==
    /\ manager.loop = "idle" /\ ~manager.closed
    /\ ~Idle /\ ~ConditionsMet
    /\ \E u \in Candidates : selected' = u
    /\ manager' = [manager EXCEPT !.loop = "adding"]
    /\ UNCHANGED <<fetchVars, policy, peers>>

addSelected ==
    /\ manager.loop = "adding"
    /\ IF CanAdd(selected) THEN AddPeer(selected, "autopeer", "none") ELSE UNCHANGED peers
    /\ manager' = [manager EXCEPT !.loop = "idle"] /\ selected' = NoUri
    /\ UNCHANGED <<fetchVars, policy>>

managerEnds ==
    /\ manager.loop = "idle" /\ manager.closed
    /\ manager' = [manager EXCEPT !.loop = "ended", !.active = FALSE]
    /\ UNCHANGED <<fetchVars, policy, selected, peers>>

(* An idle fetcher loop that has been told to stop. *)
fetcherEnds ==
    /\ fetcher.loop = "idle" /\ fetcher.closed
    /\ fetcher' = [fetcher EXCEPT !.loop = "ended", !.active = FALSE]
    /\ UNCHANGED <<order, netOf, defaultNet, lists, fetchList, managerVars, peers>>
=============================================================================
