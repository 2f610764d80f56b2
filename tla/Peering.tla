------------------------------ MODULE Peering -------------------------------
(***************************************************************************)
(* Jumper, autopeer, an operator and the network share the core's peers.   *)
(* Both managers may run; in one behaviour the requests and the traffic    *)
(* concern one of the two, `focus'.                                        *)
(* The controllers of the admin socket (ygglib/admin/adapters.go) drive    *)
(* both managers; each admin connection serves its requests one after the  *)
(* other in a goroutine of its own.                                        *)
(***************************************************************************)
EXTENDS Peers

CONSTANTS
    Targets, Published, MaxGen,                                   \* Jumper
    Sources, Builtin, Networks, Nil, NoList, Serves, Policies,    \* AutoPeer
    Clients,      \* admin connections, and main when it shuts down
    Adverts,      \* jumper addresses that requests set
    TooBig,       \* those that make NodeInfo exceed its limit
    MaxInputs     \* bound on requests, traffic and changes of links

Policy == [min : Nat, minFetched : Nat, accepts : SUBSET Uris]

ASSUME PeeringAssumption ==
    /\ Targets \subseteq Nodes /\ Published \in [Targets -> Seq(Uris)] /\ MaxGen \in Nat \ {0}
    /\ Builtin \in Sources /\ Networks # {} /\ Serves \in [Sources -> SUBSET Uris]
    /\ Nil \notin Networks /\ NoList \notin Networks \cup {Nil}
    /\ Policies \subseteq Policy /\ MaxInputs \in Nat

VARIABLES
    mgr, closedDone, loop, target, owned, seen, todo, try, crashed,
    fetcher, order, netOf, defaultNet, lists, fetchList, manager, policy, selected,
    jumperCtl,    \* enabled and addresses of the JumperController
    nodeInfo,     \* what the node advertises
    autoEnabled,  \* enabled of the AutoPeerController
    pc, local,    \* where each client is, and its local variable
    inputs,
    focus         \* the manager that the requests of a behaviour are for

J == INSTANCE Jumper
A == INSTANCE AutoPeer

jumperVars == <<mgr, closedDone, loop, target, owned, seen, todo, try, crashed>>
autoPeerVars == <<fetcher, order, netOf, defaultNet, lists, fetchList, manager, policy, selected>>
ctlVars == <<jumperCtl, nodeInfo, autoEnabled>>
clientVars == <<pc, local>>
vars == <<peers, jumperVars, autoPeerVars, ctlVars, clientVars, inputs, focus>>

NoLocal == "none"

mergeJumperNodeInfo(ctl) == IF ctl.enabled THEN ctl.addresses ELSE {}

Init ==
    /\ peers = [b \in Bases |-> NoPeer]
    /\ focus \in {"jumper", "autopeer"}
    /\ \E jumps, auto \in BOOLEAN :
        /\ J!JumperInit(jumps) /\ jumperCtl = [enabled |-> jumps, addresses |-> {}]
        /\ A!AutoPeerInit(auto) /\ autoEnabled = auto
    /\ nodeInfo = {}
    /\ pc = [c \in Clients |-> "idle"] /\ local = [c \in Clients |-> NoLocal]
    /\ inputs = MaxInputs

Input == inputs > 0 /\ inputs' = inputs - 1
Request(c, f) == pc[c] = "idle" /\ focus = f /\ Input
Goto(c, p, l) == pc' = [pc EXCEPT ![c] = p] /\ local' = [local EXCEPT ![c] = l]
Return(c) == Goto(c, "idle", NoLocal)

(***************************************************************************)
(* setJumper: the controller's fields and NodeInfo change under its lock;  *)
(* the manager is started or stopped after it.  NodeInfo that would be too *)
(* big is refused, which ends the request.                                 *)
(***************************************************************************)
applyNodeInfo(c, ctl, next) ==
    /\ jumperCtl' = ctl
    /\ IF mergeJumperNodeInfo(ctl) = TooBig
       THEN UNCHANGED nodeInfo /\ Return(c)
       ELSE nodeInfo' = mergeJumperNodeInfo(ctl) /\ Goto(c, next, NoLocal)

setJumper(c) ==
    /\ Request(c, "jumper")
    /\ \/ \E adv \in Adverts :
            applyNodeInfo(c, [jumperCtl EXCEPT !.addresses = adv], "idle")
       \/ \E on \in BOOLEAN :
            applyNodeInfo(c, [jumperCtl EXCEPT !.enabled = on],
                          IF on THEN "start" ELSE "stop")
    /\ UNCHANGED <<peers, jumperVars, autoPeerVars, autoEnabled>>

jumperStart(c) ==
    /\ pc[c] = "start" /\ Return(c)
    /\ IF J!Startable /\ mgr.gen < MaxGen THEN J!Start ELSE UNCHANGED jumperVars
    /\ UNCHANGED <<peers, autoPeerVars, ctlVars, inputs>>

jumperStop(c) ==
    /\ pc[c] = "stop"
    /\ J!Stop
    /\ IF J!Waits THEN Goto(c, "wait", mgr.gen) ELSE Return(c)
    /\ UNCHANGED <<peers, autoPeerVars, ctlVars, inputs>>

(* main closes the jumper when the daemon ends. *)
jumperClose(c) ==
    /\ Request(c, "jumper") /\ ~mgr.closed
    /\ J!Close
    /\ IF J!Waits THEN Goto(c, "wait", mgr.gen) ELSE Return(c)
    /\ UNCHANGED <<peers, autoPeerVars, ctlVars>>

jumperStopped(c) ==
    /\ pc[c] = "wait" /\ local[c] \in closedDone /\ Return(c)
    /\ UNCHANGED <<peers, jumperVars, autoPeerVars, ctlVars, inputs>>

(***************************************************************************)
(* setAutoPeer reads the policy, changes the sources, writes a policy back *)
(* and, under the controller's lock, starts the manager.                   *)
(***************************************************************************)
setAutoPeer(c) ==
    /\ Request(c, "autopeer")
    /\ \/ \E srcs \in SUBSET Sources :
            A!SetSources(srcs) /\ Goto(c, "policy", policy)
       \/ \E p \in Policies :
            /\ Goto(c, "policy", [policy EXCEPT !.min = p.min, !.minFetched = p.minFetched])
            /\ UNCHANGED autoPeerVars
    /\ UNCHANGED <<peers, jumperVars, ctlVars>>

setPolicy(c) ==
    /\ pc[c] = "policy" /\ A!SetConfig(local[c])
    /\ \/ Return(c) \/ Goto(c, "enable", NoLocal)
    /\ UNCHANGED <<peers, jumperVars, ctlVars, inputs>>

autoEnable(c, on) ==
    /\ pc[c] = "enable"
    /\ \A d \in Clients : pc[d] # "startLoops"       \* the controller's lock
    /\ IF ~on /\ autoEnabled /\ manager.active /\ ~manager.closed
       THEN Return(c) /\ UNCHANGED <<autoEnabled, autoPeerVars>>
       ELSE /\ autoEnabled' = on
            /\ IF on /\ A!Startable THEN A!StartFlag /\ Goto(c, "startLoops", NoLocal)
               ELSE Return(c) /\ UNCHANGED autoPeerVars
    /\ UNCHANGED <<peers, jumperVars, jumperCtl, nodeInfo, inputs>>

autoStartLoops(c) ==
    /\ pc[c] = "startLoops" /\ A!StartLoops /\ Return(c)
    /\ UNCHANGED <<peers, jumperVars, ctlVars, inputs>>

refreshAutoPeer(c, s) ==
    /\ Request(c, "autopeer")
    /\ s = Builtin \/ A!Fetchable(s)
    /\ Goto(c, "refresh", [source |-> s, via |-> A!networkFor(s, netOf, defaultNet)])
    /\ UNCHANGED <<peers, jumperVars, autoPeerVars, ctlVars>>

refreshed(c, ok) ==
    /\ pc[c] = "refresh" /\ A!FetchNow(local[c].source, local[c].via, ok) /\ Return(c)
    /\ UNCHANGED <<peers, jumperVars, ctlVars, inputs>>

(* main closes the manager when the daemon ends. *)
autoClose(c) ==
    /\ Request(c, "autopeer") /\ ~fetcher.closed
    /\ A!CloseFetcher
    /\ Goto(c, IF fetcher.active THEN "waitFetcher" ELSE "closeManager", NoLocal)
    /\ UNCHANGED <<peers, jumperVars, ctlVars>>

fetcherClosed(c) ==
    /\ pc[c] = "waitFetcher" /\ fetcher.loop = "ended" /\ Goto(c, "closeManager", NoLocal)
    /\ UNCHANGED <<peers, jumperVars, autoPeerVars, ctlVars, inputs>>

closeManager(c) ==
    /\ pc[c] = "closeManager" /\ A!CloseManager
    /\ IF manager.active THEN Goto(c, "waitManager", NoLocal) ELSE Return(c)
    /\ UNCHANGED <<peers, jumperVars, ctlVars, inputs>>

managerClosed(c) ==
    /\ pc[c] = "waitManager" /\ manager.loop = "ended" /\ Return(c)
    /\ UNCHANGED <<peers, jumperVars, autoPeerVars, ctlVars, inputs>>

(***************************************************************************)
(* Traffic, links, and an embedding program that changes the networks.     *)
(***************************************************************************)
Environment ==
    /\ Input
    /\ UNCHANGED <<ctlVars, clientVars>>
    /\ \/ /\ focus = "jumper" /\ \E t \in Targets : J!NotifyTraffic(t)
          /\ UNCHANGED <<peers, autoPeerVars>>
       \/ /\ \/ \E b \in Bases : LinkChanges(b) \/ OperatorRemoves(b)
             \/ \E u \in Uris : OperatorAdds(u)
          /\ UNCHANGED <<jumperVars, autoPeerVars>>
       \/ /\ focus = "autopeer"
          /\ \/ \E n \in Networks \cup {Nil} :
                   \/ A!SetDefaultNetwork(n)
                   \/ \E s \in Sources \ {Builtin} : A!SetSourceNetwork(s, n)
             \/ \E s \in Sources \ {Builtin} :
                   A!RemoveSourceNetwork(s) \/ A!AddSource(s) \/ A!RemoveSource(s)
          /\ UNCHANGED <<peers, jumperVars>>

JumperStep(P) == P /\ UNCHANGED <<autoPeerVars, ctlVars, clientVars, inputs>>
AutoPeerStep(P) == P /\ UNCHANGED <<jumperVars, ctlVars, clientVars, inputs>>

Client(c) ==
    \/ setJumper(c) \/ jumperStart(c) \/ jumperStop(c) \/ jumperClose(c) \/ jumperStopped(c)
    \/ setAutoPeer(c) \/ setPolicy(c) \/ (\E on \in BOOLEAN : autoEnable(c, on))
    \/ autoStartLoops(c) \/ autoClose(c) \/ fetcherClosed(c) \/ closeManager(c) \/ managerClosed(c)
    \/ \E s \in Sources : refreshAutoPeer(c, s)
    \/ \E ok \in BOOLEAN : refreshed(c, ok)

Fetches == \E item \in fetchList, ok \in BOOLEAN : A!fetchSource(item, ok)
ManagerLoop == A!checkNow \/ A!addSelected \/ A!managerEnds
FetcherLoop == A!fetchBegins \/ A!fetchEnds \/ A!fetcherEnds
Answers(t) == \E ok \in BOOLEAN : J!fetchTargetNodeInfo(t, ok)

Next ==
    /\ ~crashed /\ UNCHANGED focus
    /\ \/ \E c \in Clients : Client(c)
       \/ Environment
       \/ \E g \in J!Gens : JumperStep(J!Loop(g))
       \/ \E t \in Targets : JumperStep(Answers(t))
       \/ \E u \in Uris : JumperStep(J!linkTimeout(u))
       \/ AutoPeerStep(ManagerLoop)
       \/ AutoPeerStep(FetcherLoop) \/ AutoPeerStep(Fetches)

(***************************************************************************)
(* The loops run, a request for NodeInfo ends (it has a time-out), and a   *)
(* client goes on with a request it has begun.  The fetch of a list has no *)
(* time-out (fetcher.go:271 and 418): it need not end, nor need what waits *)
(* for it.                                                                 *)
(***************************************************************************)
Fairness ==
    /\ \A g \in J!Gens : WF_vars(~crashed /\ UNCHANGED focus /\ JumperStep(J!Loop(g)))
    /\ \A t \in Targets : WF_vars(~crashed /\ UNCHANGED focus /\ JumperStep(Answers(t)))
    /\ WF_vars(~crashed /\ UNCHANGED focus /\ AutoPeerStep(ManagerLoop))
    /\ WF_vars(~crashed /\ UNCHANGED focus /\ AutoPeerStep(FetcherLoop))
    /\ \A c \in Clients :
          WF_vars(~crashed /\ UNCHANGED focus /\ pc[c] \notin {"idle", "refresh"} /\ Client(c))

Spec == Init /\ [][Next]_vars /\ Fairness
-----------------------------------------------------------------------------
Peer == [state : {"none", "down", "up"}, by : {"none", "operator", "jumper", "autopeer"},
         target : Targets \cup {"none"}]

JumperTypeOK ==
    /\ peers \in [Bases -> Peer] /\ seen \in [Bases -> Peer]
    /\ mgr \in [active : BOOLEAN, stopping : BOOLEAN, closed : BOOLEAN, gen : 0 .. MaxGen]
    /\ mgr.stopping => mgr.active
    /\ closedDone \subseteq J!Gens /\ crashed \in BOOLEAN
    /\ loop \in [J!Gens -> {"off", "idle", "cleanup", "targets", "adding", "leaving",
                             "unlocked", "ended"}]
    /\ target \in [Targets -> [pending : BOOLEAN, fetch : {"no", "busy", "done"},
                                addrs : Seq(Uris), tried : SUBSET Uris]]
    /\ owned \in [Uris -> {"none", "fresh", "stale"}] /\ todo \subseteq Targets
    /\ try \in [target : Targets \cup {"none"}, addrs : Seq(Uris)]

AutoPeerTypeOK ==
    /\ fetcher \in [active : BOOLEAN, closed : BOOLEAN, loop : {"off", "idle", "fetching", "ended"}]
    /\ manager \in [active : BOOLEAN, closed : BOOLEAN, loop : {"off", "idle", "adding", "ended"}]
    /\ order \subseteq Sources /\ netOf \in [Sources -> Networks \cup {Nil, "default"}]
    /\ defaultNet \in Networks \cup {Nil}
    /\ lists \in [Sources -> Networks \cup {Nil, NoList}]
    /\ fetchList \subseteq [source : Sources \ {Builtin}, via : Networks]
    /\ policy \in Policy /\ selected \in Uris \cup {A!NoUri}
    /\ manager.loop = "adding" => selected \in Uris

ClientTypeOK ==
    /\ jumperCtl \in [enabled : BOOLEAN, addresses : Adverts \cup {{}}]
    /\ nodeInfo \in Adverts \cup {{}} /\ autoEnabled \in BOOLEAN
    /\ pc \in [Clients -> {"idle", "start", "stop", "wait", "policy", "enable", "startLoops",
                            "refresh", "waitFetcher", "closeManager", "waitManager"}]
    /\ local = [c \in Clients |-> local[c]]
    /\ \A c \in Clients :
        /\ pc[c] = "policy" => local[c] \in Policy
        /\ pc[c] = "refresh" => /\ local[c].source \in Sources
                                /\ local[c].source # Builtin => local[c].via \in Networks
    /\ inputs \in 0 .. MaxInputs

TypeOK == JumperTypeOK /\ AutoPeerTypeOK /\ ClientTypeOK

(***************************************************************************)
(* The jumper holds at most one direct link to a target at a time, however *)
(* operator, autopeer and restarts interfere.  A link to an address that   *)
(* is published only with a query is not counted: the jumper does not      *)
(* recognise those it has added.                                           *)
(***************************************************************************)
Plain(t) == {b \in Bases : \E i \in DOMAIN Published[t] :
                             Published[t][i].base = b /\ ~Published[t][i].query}

JumpsTo(t) == {b \in Plain(t) : peers[b].by = "jumper" /\ peers[b].target = t}

OneJumpPerTarget == \A t \in Targets : Cardinality(JumpsTo(t)) <= 1

(***************************************************************************)
(* Traffic to a target is followed up while the jumper runs: a published   *)
(* address is tried, unless the target is or gets connected, one of its    *)
(* addresses is configured, or it publishes nothing or does not answer.    *)
(***************************************************************************)
TargetsTried ==
    \A t \in Targets : target[t].pending ~>
        \/ target[t].tried # {} \/ DirectlyConnected(peers, t) \/ J!HasPublishedLink(t)
        \/ \E i \in DOMAIN target[t].addrs : Configured(target[t].addrs[i].base)
        \/ target[t].fetch = "done" /\ target[t].addrs = <<>>
        \/ ~J!IsStarted \/ crashed

(***************************************************************************)
(* No list is offered for a source that is not configured or has no        *)
(* network, and a list that arrives is kept only if it came over the       *)
(* network that its source is mapped to by then.                           *)
(***************************************************************************)
ListsFollowNetworks ==
    [][\A s \in Sources \ {Builtin} :
         LET n == A!networkFor(s, netOf, defaultNet)' IN
         /\ lists'[s] # NoList => s \in order' /\ n # Nil
         /\ lists'[s] # lists[s] => lists'[s] \in {NoList, n}]_vars

(***************************************************************************)
(* After the shutdown of autopeer, a Start that was under way included, no *)
(* loop of it runs and nothing can be added.                               *)
(***************************************************************************)
NoLoopAfterClose ==
    manager.closed /\ (\A c \in Clients : pc[c] # "waitManager")
        => /\ manager.loop \in {"off", "ended"}
           /\ fetcher.loop \in {"off", "ended"}

(***************************************************************************)
(* While too few peers are connected, the public peers that the policy     *)
(* accepts are added until none is left.  One endpoint that cannot be      *)
(* added, whose uptime is malformed or whose URI has a query blocks all.   *)
(***************************************************************************)
Wanting ==
    /\ manager.loop \in {"idle", "adding"} /\ ~manager.closed
    /\ ~A!Idle /\ ~A!ConditionsMet /\ A!Unlisted # {}

Blocked == \E v \in A!Unlisted : v.query \/ ~v.valid \/ v.score < 0

AutoPeerProgress == Wanting ~> ~Wanting \/ Blocked

(***************************************************************************)
(* "Stop stops the manager loop" and returns once it has.                  *)
(***************************************************************************)
StopReturns == \A c \in Clients : pc[c] = "wait" ~> pc[c] = "idle"
=============================================================================
