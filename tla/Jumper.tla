------------------------------- MODULE Jumper -------------------------------
(***************************************************************************)
(* The jumper (ygglib/jumper/manager.go): it learns from path notes which  *)
(* nodes traffic goes to, asks them for the addresses they publish and     *)
(* adds one of these as a direct peer.                                     *)
(*                                                                         *)
(* Every Start makes a fresh pair of channels and a fresh loop, numbered   *)
(* by `gen'.  Stop raises `stopping' and closes the stop channel, which    *)
(* only the loop waits for.  The loop also wakes up by its timer, so a     *)
(* check may begin at any time and `wake' need not be kept.                *)
(***************************************************************************)
EXTENDS Peers

CONSTANTS
    Targets,      \* nodes that traffic goes to
    Published,    \* the sequence of URIs that each target publishes
    MaxGen        \* bound on the number of starts

Gens == 1 .. MaxGen

VARIABLES
    mgr,          \* active, stopping, closed and the current generation
    closedDone,   \* done channels that have been closed
    loop,         \* where the loop of each generation is
    target,       \* targetState of each target
    owned,        \* owned: URI -> "none", "fresh" or "stale" (past LinkTimeout)
    seen,         \* the answer of GetPeers that the loop holds
    todo,         \* targets that the present check has still to look at
    try,          \* the target the loop is adding a peer for, its addresses
    crashed       \* close of a closed channel

lifeVars == <<mgr, closedDone, crashed>>

NotSeen == [b \in Bases |-> NoPeer]
NoTry == [target |-> "none", addrs |-> <<>>]

(* The daemon has started the manager when the configuration enables it. *)
JumperInit(on) ==
    /\ mgr = [active |-> on, stopping |-> FALSE, closed |-> FALSE, gen |-> IF on THEN 1 ELSE 0]
    /\ closedDone = {} /\ crashed = FALSE
    /\ loop = [g \in Gens |-> IF on /\ g = 1 THEN "idle" ELSE "off"]
    /\ target = [t \in Targets |-> [pending |-> FALSE, fetch |-> "no",
                                    addrs |-> <<>>, tried |-> {}]]
    /\ owned = [u \in Uris |-> "none"]
    /\ seen = NotSeen /\ todo = {} /\ try = NoTry

(***************************************************************************)
(* Start, Stop and Close.  A Start that is not startable returns at once,  *)
(* and so does a Stop that has no loop to wait for.                        *)
(***************************************************************************)
Startable == ~mgr.active /\ ~mgr.stopping /\ ~mgr.closed

Start ==
    /\ Startable
    /\ mgr' = [mgr EXCEPT !.active = TRUE, !.gen = @ + 1]
    /\ loop' = [loop EXCEPT ![mgr.gen + 1] = "idle"]
    /\ UNCHANGED <<closedDone, target, owned, seen, todo, try, crashed>>

Waits == mgr.active \/ mgr.stopping

Stop_Always ==
    /\ mgr' = [mgr EXCEPT !.stopping = TRUE]
    /\ UNCHANGED <<closedDone, loop, target, owned, seen, todo, try, crashed>>

Stop ==
    /\ mgr' = [mgr EXCEPT !.stopping = Waits]
    /\ UNCHANGED <<closedDone, loop, target, owned, seen, todo, try, crashed>>

Close ==
    /\ mgr' = [mgr EXCEPT !.closed = TRUE, !.stopping = Waits]
    /\ UNCHANGED <<closedDone, loop, target, owned, seen, todo, try, crashed>>

IsStarted == mgr.active /\ ~mgr.stopping /\ ~mgr.closed

NotifyTraffic(t) ==
    /\ target' = [target EXCEPT ![t].pending = TRUE]
    /\ UNCHANGED <<lifeVars, loop, owned, seen, todo, try>>

(***************************************************************************)
(* The loop.  A check asks for the peers, then removes what it owns and    *)
(* finds stale, then looks at one target after another.                    *)
(***************************************************************************)
Goto(g, p) == loop' = [loop EXCEPT ![g] = p]

cleanupBegins(g) ==
    /\ loop[g] = "idle"
    /\ seen' = peers
    /\ Goto(g, IF mgr.stopping THEN "leaving" ELSE "cleanup")
    /\ UNCHANGED <<peers, lifeVars, target, owned, todo, try>>

Stale == {u \in Uris : owned[u] = "stale" /\ ~peerUpWithURI(seen, u)}

cleanupOwned ==
    /\ owned' = [u \in Uris |-> IF u \in Stale THEN "none" ELSE owned[u]]
    /\ peers' = Without({u.base : u \in Stale})
    /\ seen' = NotSeen

checkNow(g) ==
    /\ loop[g] = "cleanup"
    /\ cleanupOwned
    /\ todo' = {t \in Targets : target[t].pending}
    /\ Goto(g, "targets")
    /\ UNCHANGED <<lifeVars, target, try>>

HasPublishedLink_Never(t) == FALSE

HasPublishedLink(t) ==
    \E i \in DOMAIN target[t].addrs : uriConfigured(peers, target[t].addrs[i])

checkTarget(g, t) ==
    /\ loop[g] = "targets" /\ t \in todo
    /\ todo' = todo \ {t}
    /\ IF DirectlyConnected(peers, t) \/ HasPublishedLink(t) \/ ~target[t].pending
       THEN UNCHANGED <<target, loop, try>>
       ELSE IF target[t].addrs = <<>>
       THEN /\ target' = [target EXCEPT ![t].fetch = IF @ = "no" THEN "busy" ELSE @]
            /\ UNCHANGED <<loop, try>>
       ELSE /\ try' = [target |-> t, addrs |-> target[t].addrs]
            /\ Goto(g, "adding")
            /\ UNCHANGED target
    /\ UNCHANGED <<peers, lifeVars, owned, seen>>

(* The first address that has not been tried and is not refused is added;  *)
(* one that is configured ends the search, whoever configured it.          *)
addPeer(g) ==
    LET t == try.target
        u == Head(try.addrs)
        tried == u \in target[t].tried IN
    /\ loop[g] = "adding"
    /\ IF try.addrs = <<>> \/ (~tried /\ Configured(u.base))
       THEN UNCHANGED <<peers, owned, target>> /\ Goto(g, "targets") /\ try' = NoTry
       ELSE IF tried \/ ~u.valid
       THEN /\ target' = [target EXCEPT ![t].tried = @ \cup {u}]
            /\ try' = [try EXCEPT !.addrs = Tail(@)]
            /\ UNCHANGED <<peers, owned, loop>>
       ELSE /\ AddPeer(u, "jumper", t)
            /\ owned' = [owned EXCEPT ![u] = "fresh"]
            /\ target' = [target EXCEPT ![t].tried = @ \cup {u}]
            /\ Goto(g, "targets") /\ try' = NoTry
    /\ UNCHANGED <<lifeVars, seen, todo>>

checkEnds(g) ==
    /\ loop[g] = "targets" /\ todo = {}
    /\ Goto(g, "idle")
    /\ UNCHANGED <<peers, lifeVars, target, owned, seen, todo, try>>

(* The deferred function: clean up, reset the flags under the lock, and    *)
(* only then look at m.done and close it.                                  *)
leave(g) ==
    /\ loop[g] = "leaving"
    /\ cleanupOwned
    /\ mgr' = [mgr EXCEPT !.active = FALSE, !.stopping = FALSE]
    /\ Goto(g, "unlocked")
    /\ UNCHANGED <<closedDone, crashed, target, todo, try>>

closeDone(g) ==
    /\ loop[g] = "unlocked"
    /\ crashed' = (mgr.gen \in closedDone)
    /\ closedDone' = closedDone \cup {mgr.gen}
    /\ Goto(g, "ended")
    /\ UNCHANGED <<peers, mgr, target, owned, seen, todo, try>>

Loop(g) ==
    \/ cleanupBegins(g) \/ checkNow(g) \/ addPeer(g) \/ checkEnds(g)
    \/ \E t \in Targets : checkTarget(g, t)
    \/ leave(g) \/ closeDone(g)

(* The goroutine of fetchTargetNodeInfo: the request is answered, or fails *)
(* or times out, after which it is not made again.                         *)
fetchTargetNodeInfo_Loses(t, ok) ==
    /\ target[t].fetch = "busy" /\ ok \in BOOLEAN
    /\ target' = [target EXCEPT ![t].fetch = "no"]
    /\ UNCHANGED <<peers, lifeVars, loop, owned, seen, todo, try>>

fetchTargetNodeInfo(t, ok) ==
    /\ target[t].fetch = "busy"
    /\ target' = [target EXCEPT ![t].fetch = "done",
                                ![t].addrs = IF ok THEN Published[t] ELSE <<>>]
    /\ UNCHANGED <<peers, lifeVars, loop, owned, seen, todo, try>>

(* LinkTimeout passes after a link was added. *)
linkTimeout(u) ==
    /\ owned[u] = "fresh"
    /\ owned' = [owned EXCEPT ![u] = "stale"]
    /\ UNCHANGED <<peers, lifeVars, loop, target, seen, todo, try>>
=============================================================================
