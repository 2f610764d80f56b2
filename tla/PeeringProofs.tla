--------------------------- MODULE PeeringProofs ----------------------------
(***************************************************************************)
(* Proofs about Peering: jumper, autopeer, their admin controllers and the *)
(* peers of the core that they share, for every set of URIs, targets,      *)
(* sources, networks, policies and clients.                                *)
(***************************************************************************)
EXTENDS Peering, FiniteSetTheorems, SequenceTheorems, TLAPS

(***************************************************************************)
(* The jumper.  One loop at a time does its work: that of the current      *)
(* generation while the manager is active.  A loop that has reset the      *)
(* flags and has still to close m.done touches nothing else.               *)
(***************************************************************************)
Working == {"idle", "cleanup", "targets", "adding", "leaving"}

OneLoop ==
    \A g \in J!Gens : /\ loop[g] \in Working => g = mgr.gen /\ mgr.active
                      /\ loop[g] # "off" => g <= mgr.gen

(* What a target publishes is fetched once. *)
AddressesKnown ==
    \A t \in Targets : target[t].addrs = <<>> \/ (target[t].addrs = Published[t] /\ target[t].fetch = "done")

(* A link of the jumper belongs to a target whose addresses it knows. *)
LinksKnown ==
    \A b \in Bases :
        /\ peers[b].state = "none" => peers[b].by = "none"
        /\ \A t \in Targets : peers[b].by = "jumper" /\ peers[b].target = t => target[t].addrs = Published[t]

(* A loop that is about to add a link has found none. *)
Adding(t) == try.target = t /\ target[t].addrs = Published[t] /\ JumpsTo(t) = {}
AddingFirst == \A g \in J!Gens : loop[g] = "adding" => \E t \in Targets : Adding(t)

AtMostOne == \A t \in Targets : \A b, c \in JumpsTo(t) : b = c

JumperInv ==
    /\ JumperTypeOK /\ OneLoop /\ AddressesKnown /\ LinksKnown /\ AddingFirst /\ AtMostOne

(***************************************************************************)
(* Autopeer.  A loop runs exactly while its part is active, but for the    *)
(* manager's between Start's two halves; and closing goes from the fetcher *)
(* to the manager.                                                         *)
(***************************************************************************)
FetcherLife ==
    /\ fetcher.active <=> fetcher.loop \in {"idle", "fetching"}
    /\ fetcher.loop = "ended" => fetcher.closed

ManagerLife ==
    /\ \A c \in Clients : pc[c] = "startLoops" => manager.active /\ manager.loop = "off"
    /\ \A c, d \in Clients : pc[c] = "startLoops" /\ pc[d] = "startLoops" => c = d
    /\ manager.loop \in {"idle", "adding"} => manager.active
    /\ manager.loop = "ended" => manager.closed /\ ~manager.active

ClosedInOrder ==
    /\ \A c \in Clients : pc[c] \in {"closeManager", "waitManager"} => fetcher.closed /\ ~fetcher.active
    /\ manager.closed => fetcher.closed /\ ~fetcher.active
    /\ manager.closed /\ manager.active => \E c \in Clients : pc[c] = "waitManager"

(* No list is kept for a source that is not configured or has no network. *)
ListsMapped ==
    \A s \in Sources \ {Builtin} :
        lists[s] # NoList => s \in order /\ A!networkFor(s, netOf, defaultNet) # Nil

AutoPeerInv == AutoPeerTypeOK /\ FetcherLife /\ ManagerLife /\ ClosedInOrder /\ ListsMapped

IInv == JumperInv /\ AutoPeerInv /\ ClientTypeOK

-----------------------------------------------------------------------------
(***************************************************************************)
(* The peers, as the jumper depends on them.                               *)
(***************************************************************************)
LEMMA JumperFrame ==
    ASSUME JumperInv, UNCHANGED <<peers, jumperVars>>
    PROVE  JumperInv'
BY DEF JumperInv, jumperVars, JumperTypeOK, OneLoop, AddressesKnown, LinksKnown, AddingFirst, Adding,
       AtMostOne, JumpsTo, Plain, Working, J!Gens, Peer

(* No link of the jumper is new. *)
NoNewJump ==
    \A b \in Bases :
        /\ peers'[b].by = "jumper" => peers[b].by = "jumper" /\ peers'[b].target = peers[b].target
        /\ peers'[b].state = "none" => peers'[b].by = "none"

LEMMA NoNewJumpKeeps ==
    ASSUME JumperInv, NoNewJump, \A t \in Targets : target'[t].addrs = target[t].addrs
    PROVE  /\ LinksKnown' /\ AtMostOne'
           /\ \A t \in Targets : Adding(t) /\ UNCHANGED try => Adding(t)'
<1>1. LinksKnown'
    BY DEF JumperInv, LinksKnown, NoNewJump
<1>2. \A t \in Targets : JumpsTo(t)' \subseteq JumpsTo(t)
    BY DEF NoNewJump, JumpsTo, Plain
<1>3. AtMostOne'
    BY <1>2 DEF JumperInv, AtMostOne
<1>4. ASSUME NEW t \in Targets, Adding(t), UNCHANGED try PROVE Adding(t)'
    <2>1. JumpsTo(t)' = {}
        BY <1>2, <1>4 DEF Adding
    <2> QED
        BY <1>4, <2>1 DEF Adding
<1> QED
    BY <1>1, <1>3, <1>4

(* Others change the peers. *)
LEMMA PeersChange ==
    ASSUME JumperInv, UNCHANGED jumperVars, peers' \in [Bases -> Peer], NoNewJump
    PROVE  JumperInv'
<1>1. UNCHANGED <<mgr, closedDone, loop, target, owned, seen, todo, try, crashed>>
    BY DEF jumperVars
<1>2. LinksKnown' /\ AtMostOne' /\ \A t \in Targets : Adding(t) => Adding(t)'
    BY <1>1, NoNewJumpKeeps
<1>3. AddingFirst'
    BY <1>1, <1>2 DEF JumperInv, AddingFirst
<1> QED
    BY <1>1, <1>2, <1>3 DEF JumperInv, JumperTypeOK, OneLoop, AddressesKnown, J!Gens

(* The jumper and autopeer see the peers by the same operators. *)
LEMMA SamePeers ==
    /\ J!Bases = Bases /\ J!NoPeer = NoPeer /\ \A bs : J!Without(bs) = Without(bs)
    /\ \A u, by, t : (J!AddPeer(u, by, t) <=> AddPeer(u, by, t)) /\ (A!AddPeer(u, by, t) <=> AddPeer(u, by, t))
    /\ \A u : A!CanAdd(u) <=> CanAdd(u)
    /\ \A b : (J!Configured(b) <=> Configured(b)) /\ (A!Configured(b) <=> Configured(b))
BY DEF J!Bases, Bases, J!NoPeer, NoPeer, J!Without, Without, J!AddPeer, A!AddPeer, AddPeer, A!CanAdd,
       CanAdd, J!Configured, A!Configured, Configured

LEMMA NoPeerType == NoPeer \in Peer /\ NoPeer.by = "none" /\ NoPeer.state = "none"
BY DEF NoPeer, Peer

LEMMA AddPeerOthers ==
    ASSUME JumperInv, UNCHANGED jumperVars, NEW u \in Uris, NEW by \in {"operator", "autopeer"},
           AddPeer(u, by, "none")
    PROVE  JumperInv'
<1> DEFINE p == [state |-> "down", by |-> by, target |-> "none"]
<1>1. p \in Peer /\ p.by = by /\ p.state = "down" /\ u.base \in Bases
    BY DEF Peer, Bases
<1>2. peers' = [peers EXCEPT ![u.base] = p] /\ peers \in [Bases -> Peer]
    BY DEF AddPeer, JumperInv, JumperTypeOK
<1> HIDE DEF p
<1>3. peers' \in [Bases -> Peer] /\ NoNewJump
    BY <1>1, <1>2 DEF NoNewJump, JumperInv, LinksKnown
<1> QED
    BY <1>3, PeersChange

LEMMA WithoutFacts ==
    ASSUME JumperInv, NEW bs, peers' = Without(bs)
    PROVE  peers' \in [Bases -> Peer] /\ NoNewJump
<1>1. peers' \in [Bases -> Peer]
    BY NoPeerType DEF Without, JumperInv, JumperTypeOK
<1>2. \A b \in Bases : peers'[b] = NoPeer \/ peers'[b] = peers[b]
    BY DEF Without
<1> QED
    BY <1>1, <1>2, NoPeerType DEF NoNewJump, JumperInv, LinksKnown

LEMMA LinkChangesKeeps ==
    ASSUME JumperInv, UNCHANGED jumperVars, NEW b \in Bases, LinkChanges(b)
    PROVE  JumperInv'
<1> DEFINE p == [peers[b] EXCEPT !.state = IF peers[b].state = "up" THEN "down" ELSE "up"]
<1>1. peers \in [Bases -> Peer]
    BY DEF JumperInv, JumperTypeOK
<1>2. p \in Peer /\ p.by = peers[b].by /\ p.target = peers[b].target /\ p.state # "none"
    BY <1>1 DEF Peer
<1>3. peers' = [peers EXCEPT ![b] = p]
    BY <1>1 DEF LinkChanges
<1> HIDE DEF p
<1>4. peers' \in [Bases -> Peer] /\ NoNewJump
    BY <1>1, <1>2, <1>3 DEF NoNewJump, JumperInv, LinksKnown
<1> QED
    BY <1>4, PeersChange

-----------------------------------------------------------------------------
(***************************************************************************)
(* The jumper's life.                                                      *)
(***************************************************************************)
LEMMA JumperRest ==
    ASSUME JumperInv, UNCHANGED <<peers, target, try>>,
           \A g \in J!Gens : loop'[g] = "adding" => loop[g] = "adding"
    PROVE  AddressesKnown' /\ LinksKnown' /\ AddingFirst' /\ AtMostOne'
<1>1. NoNewJump
    BY DEF NoNewJump, JumperInv, LinksKnown
<1>2. LinksKnown' /\ AtMostOne' /\ \A t \in Targets : Adding(t) => Adding(t)'
    BY <1>1, NoNewJumpKeeps
<1> QED
    BY <1>2 DEF JumperInv, AddressesKnown, AddingFirst, J!Gens

LEMMA StartKeeps ==
    ASSUME JumperInv, J!Startable, mgr.gen < MaxGen, J!Start, UNCHANGED peers
    PROVE  JumperInv'
<1>1. PICK n \in J!Gens : n = mgr.gen + 1 /\ n \in 0 .. MaxGen
    BY PeeringAssumption DEF JumperInv, JumperTypeOK, J!Gens
<1>2. /\ mgr' = [mgr EXCEPT !.active = TRUE, !.gen = n]
      /\ loop' = [loop EXCEPT ![n] = "idle"]
      /\ UNCHANGED <<closedDone, target, owned, seen, todo, try, crashed>>
    BY <1>1 DEF J!Start
<1>3. /\ mgr' \in [active : BOOLEAN, stopping : BOOLEAN, closed : BOOLEAN, gen : 0 .. MaxGen]
      /\ mgr'.active /\ mgr'.gen = n
    BY <1>1, <1>2 DEF JumperInv, JumperTypeOK
<1>4. JumperTypeOK'
    BY <1>2, <1>3 DEF JumperInv, JumperTypeOK
<1>5. OneLoop'
    <2>1. loop'[n] = "idle" /\ \A g \in J!Gens : g # n => loop'[g] = loop[g]
        BY <1>2 DEF JumperInv, JumperTypeOK
    <2>2. mgr.gen \in 0 .. MaxGen /\ ~mgr.active
        BY DEF JumperInv, JumperTypeOK, J!Startable
    <2> QED
        BY <1>1, <1>3, <2>1, <2>2 DEF JumperInv, OneLoop, J!Gens
<1>6. \A g \in J!Gens : loop'[g] = "adding" => loop[g] = "adding"
    BY <1>2 DEF JumperInv, JumperTypeOK
<1> QED
    BY <1>2, <1>4, <1>5, <1>6, JumperRest DEF JumperInv

LEMMA StopOrCloseKeeps ==
    ASSUME JumperInv, J!Stop \/ J!Close, UNCHANGED peers
    PROVE  JumperInv'
<1>1. /\ mgr' \in [active : BOOLEAN, stopping : BOOLEAN, closed : BOOLEAN, gen : 0 .. MaxGen]
      /\ mgr'.active = mgr.active /\ mgr'.gen = mgr.gen /\ (mgr'.stopping => mgr.active)
      /\ UNCHANGED <<closedDone, loop, target, owned, seen, todo, try, crashed>>
    BY DEF J!Stop, J!Close, J!Waits, JumperInv, JumperTypeOK
<1>2. JumperTypeOK' /\ OneLoop'
    BY <1>1 DEF JumperInv, JumperTypeOK, OneLoop, J!Gens
<1> QED
    BY <1>1, <1>2, JumperRest DEF JumperInv

(* A loop of the current generation moves on. *)
LEMMA LoopMoves ==
    ASSUME JumperInv, UNCHANGED <<mgr, closedDone, crashed>>, NEW g \in J!Gens, loop[g] \in Working,
           NEW p \in Working, loop' = [loop EXCEPT ![g] = p]
    PROVE  /\ OneLoop'
           /\ loop' \in [J!Gens -> {"off", "idle", "cleanup", "targets", "adding", "leaving",
                                    "unlocked", "ended"}]
           /\ \A h \in J!Gens : loop'[h] = "adding" => h = g /\ p = "adding"
<1>1. /\ loop' \in [J!Gens -> {"off", "idle", "cleanup", "targets", "adding", "leaving",
                               "unlocked", "ended"}]
      /\ loop'[g] = p /\ \A h \in J!Gens : h # g => loop'[h] = loop[h]
    BY DEF JumperInv, JumperTypeOK, Working
<1>2. OneLoop'
    BY <1>1 DEF JumperInv, OneLoop, Working, J!Gens
<1>3. \A h \in J!Gens : h # g => loop[h] # "adding"
    BY DEF JumperInv, OneLoop, Working
<1> QED
    BY <1>1, <1>2, <1>3

LEMMA cleanupBeginsKeeps ==
    ASSUME JumperInv, NEW g \in J!Gens, J!cleanupBegins(g)
    PROVE  JumperInv'
<1> DEFINE p == IF mgr.stopping THEN "leaving" ELSE "cleanup"
<1>1. /\ loop[g] = "idle" /\ seen' = peers /\ loop' = [loop EXCEPT ![g] = p]
      /\ UNCHANGED <<peers, mgr, closedDone, crashed, target, owned, todo, try>>
    BY DEF J!cleanupBegins, J!Goto, J!lifeVars
<1>2. p \in Working /\ p # "adding" /\ loop[g] \in Working
    BY <1>1 DEF Working
<1> HIDE DEF p
<1>3. /\ OneLoop' /\ \A h \in J!Gens : loop'[h] = "adding" => h = g /\ p = "adding"
      /\ loop' \in [J!Gens -> {"off", "idle", "cleanup", "targets", "adding", "leaving",
                               "unlocked", "ended"}]
    BY <1>1, <1>2, LoopMoves
<1>4. JumperTypeOK'
    BY <1>1, <1>3 DEF JumperInv, JumperTypeOK
<1> QED
    BY <1>1, <1>2, <1>3, <1>4, JumperRest DEF JumperInv

LEMMA cleanupFacts ==
    ASSUME JumperInv, J!cleanupOwned, UNCHANGED <<target, try>>,
           \A h \in J!Gens : loop'[h] # "adding"
    PROVE  /\ peers' \in [Bases -> Peer] /\ seen' \in [Bases -> Peer]
           /\ owned' \in [Uris -> {"none", "fresh", "stale"}]
           /\ AddressesKnown' /\ LinksKnown' /\ AddingFirst' /\ AtMostOne'
<1>1. peers' \in [Bases -> Peer] /\ NoNewJump
    BY SamePeers, WithoutFacts DEF J!cleanupOwned
<1>2. LinksKnown' /\ AtMostOne'
    BY <1>1, NoNewJumpKeeps
<1>3. seen' \in [Bases -> Peer] /\ owned' \in [Uris -> {"none", "fresh", "stale"}]
    <2>1. seen' = [b \in Bases |-> NoPeer]
        BY SamePeers DEF J!cleanupOwned, J!NotSeen
    <2>2. owned' \in [Uris -> {"none", "fresh", "stale"}]
        BY DEF J!cleanupOwned, JumperInv, JumperTypeOK
    <2> QED
        BY <2>1, <2>2, NoPeerType
<1> QED
    BY <1>1, <1>2, <1>3 DEF JumperInv, AddressesKnown, AddingFirst

LEMMA checkNowKeeps ==
    ASSUME JumperInv, NEW g \in J!Gens, J!checkNow(g)
    PROVE  JumperInv'
<1>1. /\ loop[g] = "cleanup" /\ J!cleanupOwned /\ loop' = [loop EXCEPT ![g] = "targets"]
      /\ todo' \subseteq Targets /\ UNCHANGED <<mgr, closedDone, crashed, target, try>>
    BY DEF J!checkNow, J!Goto, J!lifeVars
<1>2. /\ OneLoop' /\ \A h \in J!Gens : loop'[h] # "adding"
      /\ loop' \in [J!Gens -> {"off", "idle", "cleanup", "targets", "adding", "leaving",
                               "unlocked", "ended"}]
    BY <1>1, LoopMoves DEF Working
<1>3. /\ peers' \in [Bases -> Peer] /\ seen' \in [Bases -> Peer]
      /\ owned' \in [Uris -> {"none", "fresh", "stale"}]
      /\ AddressesKnown' /\ LinksKnown' /\ AddingFirst' /\ AtMostOne'
    BY <1>1, <1>2, cleanupFacts
<1>4. JumperTypeOK'
    BY <1>1, <1>2, <1>3 DEF JumperInv, JumperTypeOK
<1> QED
    BY <1>2, <1>3, <1>4 DEF JumperInv

LEMMA checkEndsKeeps ==
    ASSUME JumperInv, NEW g \in J!Gens, J!checkEnds(g)
    PROVE  JumperInv'
<1>1. /\ loop[g] = "targets" /\ loop' = [loop EXCEPT ![g] = "idle"]
      /\ UNCHANGED <<peers, mgr, closedDone, crashed, target, owned, seen, todo, try>>
    BY DEF J!checkEnds, J!Goto, J!lifeVars
<1>2. /\ OneLoop' /\ \A h \in J!Gens : loop'[h] # "adding"
      /\ loop' \in [J!Gens -> {"off", "idle", "cleanup", "targets", "adding", "leaving",
                               "unlocked", "ended"}]
    BY <1>1, LoopMoves DEF Working
<1>3. JumperTypeOK'
    BY <1>1, <1>2 DEF JumperInv, JumperTypeOK
<1> QED
    BY <1>1, <1>2, <1>3, JumperRest DEF JumperInv

LEMMA leaveKeeps ==
    ASSUME JumperInv, NEW g \in J!Gens, J!leave(g)
    PROVE  JumperInv'
<1>1. /\ loop[g] = "leaving" /\ J!cleanupOwned /\ loop' = [loop EXCEPT ![g] = "unlocked"]
      /\ mgr' = [mgr EXCEPT !.active = FALSE, !.stopping = FALSE]
      /\ UNCHANGED <<closedDone, crashed, target, todo, try>>
    BY DEF J!leave, J!Goto
<1>2. /\ loop' \in [J!Gens -> {"off", "idle", "cleanup", "targets", "adding", "leaving",
                               "unlocked", "ended"}]
      /\ loop'[g] = "unlocked" /\ \A h \in J!Gens : h # g => loop'[h] = loop[h]
    BY <1>1 DEF JumperInv, JumperTypeOK
<1>3. \A h \in J!Gens : loop'[h] \notin Working
    BY <1>1, <1>2 DEF JumperInv, OneLoop, Working
<1>4. /\ mgr' \in [active : BOOLEAN, stopping : BOOLEAN, closed : BOOLEAN, gen : 0 .. MaxGen]
      /\ mgr'.gen = mgr.gen /\ ~mgr'.stopping
    BY <1>1 DEF JumperInv, JumperTypeOK
<1>5. OneLoop'
    BY <1>1, <1>2, <1>3, <1>4 DEF JumperInv, OneLoop, J!Gens, Working
<1>6. /\ peers' \in [Bases -> Peer] /\ seen' \in [Bases -> Peer]
      /\ owned' \in [Uris -> {"none", "fresh", "stale"}]
      /\ AddressesKnown' /\ LinksKnown' /\ AddingFirst' /\ AtMostOne'
    BY <1>1, <1>3, cleanupFacts DEF Working
<1>7. JumperTypeOK'
    BY <1>1, <1>2, <1>4, <1>6 DEF JumperInv, JumperTypeOK
<1> QED
    BY <1>5, <1>6, <1>7 DEF JumperInv

LEMMA closeDoneKeeps ==
    ASSUME JumperInv, NEW g \in J!Gens, J!closeDone(g)
    PROVE  JumperInv'
<1>1. /\ loop[g] = "unlocked" /\ loop' = [loop EXCEPT ![g] = "ended"]
      /\ closedDone' = closedDone \cup {mgr.gen} /\ crashed' \in BOOLEAN
      /\ UNCHANGED <<peers, mgr, target, owned, seen, todo, try>>
    BY DEF J!closeDone, J!Goto
<1>2. /\ loop' \in [J!Gens -> {"off", "idle", "cleanup", "targets", "adding", "leaving",
                               "unlocked", "ended"}]
      /\ loop'[g] = "ended" /\ \A h \in J!Gens : h # g => loop'[h] = loop[h]
    BY <1>1 DEF JumperInv, JumperTypeOK
<1>3. mgr.gen \in J!Gens
    <2>1. g <= mgr.gen
        BY <1>1 DEF JumperInv, OneLoop
    <2>2. mgr.gen \in 0 .. MaxGen
        BY DEF JumperInv, JumperTypeOK
    <2> QED
        BY <2>1, <2>2, PeeringAssumption DEF J!Gens
<1>4. JumperTypeOK'
    BY <1>1, <1>2, <1>3 DEF JumperInv, JumperTypeOK
<1>5. OneLoop'
    BY <1>1, <1>2 DEF JumperInv, OneLoop, J!Gens, Working
<1> QED
    BY <1>1, <1>2, <1>4, <1>5, JumperRest DEF JumperInv

(* What the jumper knows of a target changes, but not its addresses. *)
LEMMA TargetChange ==
    ASSUME JumperInv, UNCHANGED peers, NEW t \in Targets,
           NEW s \in [pending : BOOLEAN, fetch : {"no", "busy", "done"}, addrs : Seq(Uris), tried : SUBSET Uris],
           target' = [target EXCEPT ![t] = s], s.addrs = target[t].addrs,
           target[t].fetch = "done" => s.fetch = "done"
    PROVE  /\ target' \in [Targets -> [pending : BOOLEAN, fetch : {"no", "busy", "done"},
                                       addrs : Seq(Uris), tried : SUBSET Uris]]
           /\ AddressesKnown' /\ LinksKnown' /\ AtMostOne'
           /\ \A x \in Targets : target'[x].addrs = target[x].addrs
           /\ \A x \in Targets : Adding(x) /\ UNCHANGED try => Adding(x)'
<1>1. target \in [Targets -> [pending : BOOLEAN, fetch : {"no", "busy", "done"},
                              addrs : Seq(Uris), tried : SUBSET Uris]]
    BY DEF JumperInv, JumperTypeOK
<1>2. /\ target' \in [Targets -> [pending : BOOLEAN, fetch : {"no", "busy", "done"},
                                  addrs : Seq(Uris), tried : SUBSET Uris]]
      /\ target'[t] = s /\ \A x \in Targets : x # t => target'[x] = target[x]
    BY <1>1
<1>3. \A x \in Targets : target'[x].addrs = target[x].addrs
    BY <1>2
<1>4. NoNewJump
    BY DEF NoNewJump, JumperInv, LinksKnown
<1>5. AddressesKnown'
    BY <1>2, <1>3 DEF JumperInv, AddressesKnown
<1> QED
    BY <1>2, <1>3, <1>4, <1>5, NoNewJumpKeeps

LEMMA TargetType ==
    ASSUME JumperInv, NEW t \in Targets
    PROVE  target[t] \in [pending : BOOLEAN, fetch : {"no", "busy", "done"}, addrs : Seq(Uris), tried : SUBSET Uris]
BY DEF JumperInv, JumperTypeOK

LEMMA NotifyTrafficKeeps ==
    ASSUME JumperInv, UNCHANGED peers, NEW t \in Targets, J!NotifyTraffic(t)
    PROVE  JumperInv'
<1> DEFINE s == [target[t] EXCEPT !.pending = TRUE]
<1>1. /\ s \in [pending : BOOLEAN, fetch : {"no", "busy", "done"}, addrs : Seq(Uris), tried : SUBSET Uris]
      /\ s.addrs = target[t].addrs /\ s.fetch = target[t].fetch
    BY TargetType
<1>2. /\ target' = [target EXCEPT ![t] = s]
      /\ UNCHANGED <<mgr, closedDone, crashed, loop, owned, seen, todo, try>>
    BY DEF J!NotifyTraffic, J!lifeVars, JumperInv, JumperTypeOK
<1> HIDE DEF s
<1>3. /\ target' \in [Targets -> [pending : BOOLEAN, fetch : {"no", "busy", "done"},
                                  addrs : Seq(Uris), tried : SUBSET Uris]]
      /\ AddressesKnown' /\ LinksKnown' /\ AtMostOne' /\ \A x \in Targets : Adding(x) => Adding(x)'
    BY <1>1, <1>2, TargetChange
<1>4. JumperTypeOK' /\ OneLoop' /\ AddingFirst'
    BY <1>2, <1>3 DEF JumperInv, JumperTypeOK, OneLoop, AddingFirst, J!Gens
<1> QED
    BY <1>3, <1>4 DEF JumperInv

LEMMA linkTimeoutKeeps ==
    ASSUME JumperInv, NEW u \in Uris, J!linkTimeout(u)
    PROVE  JumperInv'
<1>1. /\ owned' = [owned EXCEPT ![u] = "stale"]
      /\ UNCHANGED <<peers, mgr, closedDone, crashed, loop, target, seen, todo, try>>
    BY DEF J!linkTimeout, J!lifeVars
<1>2. JumperTypeOK' /\ OneLoop'
    BY <1>1 DEF JumperInv, JumperTypeOK, OneLoop, J!Gens
<1> QED
    BY <1>1, <1>2, JumperRest DEF JumperInv

-----------------------------------------------------------------------------
(***************************************************************************)
(* The jumper looks at its targets and adds links.                         *)
(***************************************************************************)
(* A target whose published addresses are known and not configured has no  *)
(* link of the jumper.                                                     *)
LEMMA NoJumpYet ==
    ASSUME JumperInv, NEW t \in Targets, target[t].addrs # <<>>, ~J!HasPublishedLink(t)
    PROVE  target[t].addrs = Published[t] /\ JumpsTo(t) = {}
<1>1. target[t].addrs = Published[t]
    BY DEF JumperInv, AddressesKnown
<1>2. ASSUME NEW b \in JumpsTo(t) PROVE FALSE
    <2>1. b \in Bases /\ peers[b].by = "jumper"
        BY <1>2 DEF JumpsTo, Plain
    <2>2. PICK i \in DOMAIN Published[t] : Published[t][i].base = b /\ ~Published[t][i].query
        BY <1>2 DEF JumpsTo, Plain
    <2>3. peers[b].state # "none"
        BY <2>1 DEF JumperInv, LinksKnown
    <2> QED
        BY <1>1, <2>2, <2>3 DEF J!HasPublishedLink, J!uriConfigured
<1> QED
    BY <1>1, <1>2

LEMMA checkTargetKeeps ==
    ASSUME JumperInv, NEW g \in J!Gens, NEW t \in Targets, J!checkTarget(g, t)
    PROVE  JumperInv'
<1>1. /\ loop[g] = "targets" /\ todo' = todo \ {t} /\ todo' \subseteq Targets
      /\ UNCHANGED <<peers, mgr, closedDone, crashed, owned, seen>>
    BY DEF J!checkTarget, J!lifeVars, JumperInv, JumperTypeOK
<1>2. CASE UNCHANGED <<target, loop, try>>
    <2>1. JumperTypeOK' /\ OneLoop'
        BY <1>1, <1>2 DEF JumperInv, JumperTypeOK, OneLoop, J!Gens
    <2> QED
        BY <1>1, <1>2, <2>1, JumperRest DEF JumperInv
<1>3. CASE /\ target' = [target EXCEPT ![t].fetch = IF @ = "no" THEN "busy" ELSE @]
           /\ UNCHANGED <<loop, try>>
    <2> DEFINE s == [target[t] EXCEPT !.fetch = IF @ = "no" THEN "busy" ELSE @]
    <2>1. /\ s \in [pending : BOOLEAN, fetch : {"no", "busy", "done"}, addrs : Seq(Uris), tried : SUBSET Uris]
          /\ s.addrs = target[t].addrs /\ (target[t].fetch = "done" => s.fetch = "done")
        BY TargetType
    <2>2. target' = [target EXCEPT ![t] = s]
        BY <1>3 DEF JumperInv, JumperTypeOK
    <2> HIDE DEF s
    <2>3. /\ target' \in [Targets -> [pending : BOOLEAN, fetch : {"no", "busy", "done"},
                                      addrs : Seq(Uris), tried : SUBSET Uris]]
          /\ AddressesKnown' /\ LinksKnown' /\ AtMostOne' /\ \A x \in Targets : Adding(x) => Adding(x)'
        BY <1>1, <1>3, <2>1, <2>2, TargetChange
    <2>4. JumperTypeOK' /\ OneLoop' /\ AddingFirst'
        BY <1>1, <1>3, <2>3 DEF JumperInv, JumperTypeOK, OneLoop, AddingFirst, J!Gens
    <2> QED
        BY <2>3, <2>4 DEF JumperInv
<1>4. CASE /\ ~J!HasPublishedLink(t) /\ target[t].addrs # <<>>
           /\ try' = [target |-> t, addrs |-> target[t].addrs]
           /\ loop' = [loop EXCEPT ![g] = "adding"] /\ UNCHANGED target
    <2>1. target[t].addrs = Published[t] /\ JumpsTo(t) = {}
        BY <1>4, NoJumpYet
    <2>2. /\ OneLoop'
          /\ loop' \in [J!Gens -> {"off", "idle", "cleanup", "targets", "adding", "leaving",
                                   "unlocked", "ended"}]
        BY <1>1, <1>4, LoopMoves DEF Working
    <2>3. try' \in [target : Targets \cup {"none"}, addrs : Seq(Uris)] /\ try'.target = t
        BY <1>4 DEF JumperInv, JumperTypeOK
    <2>4. JumperTypeOK'
        BY <1>1, <1>4, <2>2, <2>3 DEF JumperInv, JumperTypeOK
    <2>5. JumpsTo(t)' = JumpsTo(t)
        BY <1>1 DEF JumpsTo, Plain
    <2>6. Adding(t)'
        BY <1>4, <2>1, <2>3, <2>5 DEF Adding
    <2>7. AddingFirst'
        BY <2>6 DEF AddingFirst
    <2>8. LinksKnown' /\ AtMostOne' /\ AddressesKnown'
        BY <1>1, <1>4 DEF JumperInv, LinksKnown, AtMostOne, AddressesKnown, JumpsTo, Plain
    <2> QED
        BY <2>2, <2>4, <2>7, <2>8 DEF JumperInv
<1> QED
    BY <1>2, <1>3, <1>4 DEF J!checkTarget, J!Goto

(* The jumper's own link is the only one to its target. *)
LEMMA AddJump ==
    ASSUME JumperInv, NEW t \in Targets, Adding(t), NEW u \in Uris, ~Configured(u.base),
           AddPeer(u, "jumper", t), \A x \in Targets : target'[x].addrs = target[x].addrs
    PROVE  peers' \in [Bases -> Peer] /\ LinksKnown' /\ AtMostOne'
<1> DEFINE p == [state |-> "down", by |-> "jumper", target |-> t]
<1>1. p \in Peer /\ p.by = "jumper" /\ p.target = t /\ p.state = "down"
    BY DEF Peer
<1>2. PICK b \in Bases : b = u.base
    BY DEF Bases
<1>3. peers' = [peers EXCEPT ![b] = p] /\ peers \in [Bases -> Peer]
    BY <1>2 DEF AddPeer, JumperInv, JumperTypeOK
<1> HIDE DEF p
<1>4. peers' \in [Bases -> Peer] /\ peers'[b] = p /\ \A c \in Bases : c # b => peers'[c] = peers[c]
    BY <1>1, <1>3
<1>5. LinksKnown'
    <2>1. target[t].addrs = Published[t]
        BY DEF Adding
    <2>2. SUFFICES ASSUME NEW c \in Bases
                   PROVE  /\ peers'[c].state = "none" => peers'[c].by = "none"
                          /\ \A x \in Targets : peers'[c].by = "jumper" /\ peers'[c].target = x
                                                => target'[x].addrs = Published[x]
        BY DEF LinksKnown
    <2>3. CASE c = b
        BY <1>1, <1>4, <2>1, <2>3
    <2>4. CASE c # b
        BY <1>4, <2>4 DEF JumperInv, LinksKnown
    <2> QED
        BY <2>3, <2>4
<1>6. ASSUME NEW x \in Targets, x # t PROVE JumpsTo(x)' \subseteq JumpsTo(x)
    BY <1>1, <1>4, <1>6 DEF JumpsTo, Plain
<1>7. JumpsTo(t)' \subseteq {b}
    <2>1. JumpsTo(t) = {}
        BY DEF Adding
    <2> QED
        BY <1>4, <2>1 DEF JumpsTo, Plain
<1>8. AtMostOne'
    BY <1>6, <1>7 DEF JumperInv, AtMostOne
<1> QED
    BY <1>4, <1>5, <1>8

LEMMA addPeerKeeps ==
    ASSUME JumperInv, NEW g \in J!Gens, J!addPeer(g)
    PROVE  JumperInv'
<1>1. loop[g] = "adding" /\ UNCHANGED <<mgr, closedDone, crashed, seen, todo>>
    BY DEF J!addPeer, J!lifeVars
<1>2. PICK t \in Targets : Adding(t)
    BY <1>1 DEF JumperInv, AddingFirst
<1>3. try.target = t /\ try \in [target : Targets \cup {"none"}, addrs : Seq(Uris)]
    BY <1>2 DEF Adding, JumperInv, JumperTypeOK
<1>4. J!NoTry \in [target : Targets \cup {"none"}, addrs : Seq(Uris)]
    BY DEF J!NoTry
<1>5. CASE UNCHANGED <<peers, owned, target>> /\ loop' = [loop EXCEPT ![g] = "targets"] /\ try' = J!NoTry
    <2>1. /\ OneLoop' /\ \A h \in J!Gens : loop'[h] # "adding"
          /\ loop' \in [J!Gens -> {"off", "idle", "cleanup", "targets", "adding", "leaving",
                                   "unlocked", "ended"}]
        BY <1>1, <1>5, LoopMoves DEF Working
    <2>2. JumperTypeOK'
        BY <1>1, <1>4, <1>5, <2>1 DEF JumperInv, JumperTypeOK
    <2>3. AddingFirst'
        BY <2>1 DEF AddingFirst
    <2>4. LinksKnown' /\ AtMostOne' /\ AddressesKnown'
        BY <1>5 DEF JumperInv, LinksKnown, AtMostOne, AddressesKnown, JumpsTo, Plain
    <2> QED
        BY <2>1, <2>2, <2>3, <2>4 DEF JumperInv
<1>6. ASSUME try.addrs # <<>>, NEW u, u = Head(try.addrs),
             target' = [target EXCEPT ![t].tried = @ \cup {u}]
      PROVE  \E s \in [pending : BOOLEAN, fetch : {"no", "busy", "done"}, addrs : Seq(Uris), tried : SUBSET Uris] :
                 /\ target' = [target EXCEPT ![t] = s] /\ s.addrs = target[t].addrs
                 /\ s.fetch = target[t].fetch
    <2>1. u \in Uris
        BY <1>3, <1>6
    <2> DEFINE s == [target[t] EXCEPT !.tried = @ \cup {u}]
    <2>2. /\ s \in [pending : BOOLEAN, fetch : {"no", "busy", "done"}, addrs : Seq(Uris), tried : SUBSET Uris]
          /\ s.addrs = target[t].addrs /\ s.fetch = target[t].fetch
        BY <2>1, TargetType
    <2>3. target' = [target EXCEPT ![t] = s]
        BY <1>6 DEF JumperInv, JumperTypeOK
    <2> QED
        BY <2>2, <2>3
<1>7. CASE /\ try.addrs # <<>>
           /\ target' = [target EXCEPT ![t].tried = @ \cup {Head(try.addrs)}]
           /\ try' = [try EXCEPT !.addrs = Tail(@)] /\ UNCHANGED <<peers, owned, loop>>
    <2>1. PICK s \in [pending : BOOLEAN, fetch : {"no", "busy", "done"}, addrs : Seq(Uris), tried : SUBSET Uris] :
                 /\ target' = [target EXCEPT ![t] = s] /\ s.addrs = target[t].addrs
                 /\ s.fetch = target[t].fetch
        BY <1>6, <1>7
    <2>2. /\ target' \in [Targets -> [pending : BOOLEAN, fetch : {"no", "busy", "done"},
                                      addrs : Seq(Uris), tried : SUBSET Uris]]
          /\ AddressesKnown' /\ LinksKnown' /\ AtMostOne'
          /\ \A x \in Targets : target'[x].addrs = target[x].addrs
        BY <1>7, <2>1, TargetChange
    <2>3. try' \in [target : Targets \cup {"none"}, addrs : Seq(Uris)] /\ try'.target = t
        <3>1. PICK q \in Seq(Uris) : q = Tail(try.addrs)
            BY <1>3, <1>7, HeadTailProperties
        <3>2. try' = [try EXCEPT !.addrs = q]
            BY <1>3, <1>7, <3>1
        <3> QED
            BY <1>3, <3>2
    <2>4. JumpsTo(t)' = JumpsTo(t)
        BY <1>7 DEF JumpsTo, Plain
    <2>5. Adding(t)'
        BY <1>2, <2>2, <2>3, <2>4 DEF Adding
    <2>6. JumperTypeOK' /\ OneLoop' /\ AddingFirst'
        BY <1>1, <1>7, <2>2, <2>3, <2>5 DEF JumperInv, JumperTypeOK, OneLoop, AddingFirst, J!Gens
    <2> QED
        BY <2>2, <2>6 DEF JumperInv
<1>8. CASE /\ try.addrs # <<>> /\ ~J!Configured(Head(try.addrs).base)
           /\ J!AddPeer(Head(try.addrs), "jumper", t)
           /\ owned' = [owned EXCEPT ![Head(try.addrs)] = "fresh"]
           /\ target' = [target EXCEPT ![t].tried = @ \cup {Head(try.addrs)}]
           /\ loop' = [loop EXCEPT ![g] = "targets"] /\ try' = J!NoTry
    <2>1. PICK s \in [pending : BOOLEAN, fetch : {"no", "busy", "done"}, addrs : Seq(Uris), tried : SUBSET Uris] :
                 /\ target' = [target EXCEPT ![t] = s] /\ s.addrs = target[t].addrs
                 /\ s.fetch = target[t].fetch
        BY <1>6, <1>8
    <2>2. /\ target' \in [Targets -> [pending : BOOLEAN, fetch : {"no", "busy", "done"},
                                      addrs : Seq(Uris), tried : SUBSET Uris]]
          /\ \A x \in Targets : target'[x].addrs = target[x].addrs /\ target'[x].fetch = target[x].fetch
        BY <2>1 DEF JumperInv, JumperTypeOK
    <2>3. PICK u \in Uris : u = Head(try.addrs)
        BY <1>3, <1>8
    <2>4. ~Configured(u.base) /\ AddPeer(u, "jumper", t)
        BY <1>8, <2>3, SamePeers
    <2>5. peers' \in [Bases -> Peer] /\ LinksKnown' /\ AtMostOne'
        BY <1>2, <2>2, <2>4, AddJump
    <2>6. /\ OneLoop' /\ \A h \in J!Gens : loop'[h] # "adding"
          /\ loop' \in [J!Gens -> {"off", "idle", "cleanup", "targets", "adding", "leaving",
                                   "unlocked", "ended"}]
        BY <1>1, <1>8, LoopMoves DEF Working
    <2>7. JumperTypeOK'
        BY <1>1, <1>4, <1>8, <2>2, <2>3, <2>5, <2>6 DEF JumperInv, JumperTypeOK
    <2>8. AddingFirst' /\ AddressesKnown'
        BY <2>2, <2>6 DEF AddingFirst, JumperInv, AddressesKnown
    <2> QED
        BY <2>5, <2>6, <2>7, <2>8 DEF JumperInv
<1> QED
    <2>1. CASE try.addrs = <<>>
        BY <1>5, <2>1 DEF J!addPeer, J!Goto
    <2>2. CASE try.addrs # <<>>
        BY <1>3, <1>5, <1>7, <1>8, <2>2 DEF J!addPeer, J!Goto
    <2> QED
        BY <2>1, <2>2

LEMMA fetchTargetNodeInfoKeeps ==
    ASSUME JumperInv, NEW t \in Targets, NEW ok \in BOOLEAN, J!fetchTargetNodeInfo(t, ok)
    PROVE  JumperInv'
<1>1. /\ target[t].fetch = "busy"
      /\ UNCHANGED <<peers, mgr, closedDone, crashed, loop, owned, seen, todo, try>>
    BY DEF J!fetchTargetNodeInfo, J!lifeVars
<1>2. target[t].addrs = <<>>
    BY <1>1 DEF JumperInv, AddressesKnown
<1> DEFINE s == [target[t] EXCEPT !.fetch = "done", !.addrs = IF ok THEN Published[t] ELSE <<>>]
<1>3. /\ s \in [pending : BOOLEAN, fetch : {"no", "busy", "done"}, addrs : Seq(Uris), tried : SUBSET Uris]
      /\ s.fetch = "done" /\ (s.addrs = Published[t] \/ s.addrs = <<>>)
    <2>1. Published[t] \in Seq(Uris) /\ <<>> \in Seq(Uris)
        BY PeeringAssumption
    <2> QED
        BY <2>1, TargetType
<1>4. target' = [target EXCEPT ![t] = s]
    BY DEF J!fetchTargetNodeInfo, JumperInv, JumperTypeOK
<1> HIDE DEF s
<1>5. /\ target' \in [Targets -> [pending : BOOLEAN, fetch : {"no", "busy", "done"},
                                  addrs : Seq(Uris), tried : SUBSET Uris]]
      /\ target'[t] = s /\ \A x \in Targets : x # t => target'[x] = target[x]
    BY <1>3, <1>4 DEF JumperInv, JumperTypeOK
<1>6. \A x \in Targets : target[x].addrs = Published[x] => target'[x].addrs = Published[x]
    BY <1>2, <1>3, <1>5
<1>7. AddressesKnown' /\ LinksKnown'
    BY <1>1, <1>3, <1>5, <1>6 DEF JumperInv, AddressesKnown, LinksKnown
<1>8. AtMostOne' /\ \A x \in Targets : JumpsTo(x)' = JumpsTo(x)
    BY <1>1 DEF JumperInv, AtMostOne, JumpsTo, Plain
<1>9. \A x \in Targets : Adding(x) => Adding(x)'
    BY <1>1, <1>6, <1>8 DEF Adding
<1>10. JumperTypeOK' /\ OneLoop' /\ AddingFirst'
    BY <1>1, <1>5, <1>9 DEF JumperInv, JumperTypeOK, OneLoop, AddingFirst, J!Gens
<1> QED
    BY <1>7, <1>8, <1>10 DEF JumperInv

LEMMA LoopKeeps ==
    ASSUME JumperInv, NEW g \in J!Gens, J!Loop(g)
    PROVE  JumperInv'
BY cleanupBeginsKeeps, checkNowKeeps, addPeerKeeps, checkEndsKeeps, checkTargetKeeps, leaveKeeps,
   closeDoneKeeps DEF J!Loop

(* The network and the operator. *)
LEMMA LinksChangeKeeps ==
    ASSUME JumperInv, UNCHANGED jumperVars,
           \/ \E b \in Bases : LinkChanges(b) \/ OperatorRemoves(b)
           \/ \E u \in Uris : OperatorAdds(u)
    PROVE  JumperInv'
<1>1. ASSUME NEW b \in Bases, OperatorRemoves(b) PROVE JumperInv'
    <2>1. peers' \in [Bases -> Peer] /\ NoNewJump
        BY <1>1, WithoutFacts DEF OperatorRemoves
    <2> QED
        BY <2>1, PeersChange
<1>2. ASSUME NEW u \in Uris, OperatorAdds(u) PROVE JumperInv'
    BY <1>2, AddPeerOthers DEF OperatorAdds
<1> QED
    BY <1>1, <1>2, LinkChangesKeeps

-----------------------------------------------------------------------------
(***************************************************************************)
(* Autopeer: lists and networks.                                           *)
(***************************************************************************)
(* Where a client stands matters to autopeer in these places only. *)
Starting == {"startLoops", "closeManager", "waitManager"}
Aside == \A c \in Clients : pc[c] \in Starting \/ pc'[c] \in Starting => pc'[c] = pc[c]

LEMMA AutoPeerFrame ==
    ASSUME AutoPeerInv, UNCHANGED autoPeerVars, Aside
    PROVE  AutoPeerInv'
<1>1. UNCHANGED <<fetcher, order, netOf, defaultNet, lists, fetchList, manager, policy, selected>>
    BY DEF autoPeerVars
<1>2. ManagerLife' /\ ClosedInOrder'
    BY <1>1 DEF AutoPeerInv, ManagerLife, ClosedInOrder, Aside, Starting
<1> QED
    BY <1>1, <1>2 DEF AutoPeerInv, AutoPeerTypeOK, FetcherLife, ListsMapped, A!networkFor, A!NoUri, Policy

Networkings == [Sources -> Networks \cup {Nil, "default"}]

LEMMA networkForType ==
    ASSUME NEW s \in Sources, NEW nets \in Networkings, NEW def \in Networks \cup {Nil}
    PROVE  A!networkFor(s, nets, def) \in Networks \cup {Nil}
BY DEF A!networkFor, Networkings

(* Whatever lists are kept or dropped, they stay in step with the sources  *)
(* and networks.                                                           *)
InStep(srcs, nets, def) ==
    /\ lists' \in [Sources -> Networks \cup {Nil, NoList}]
    /\ \A s \in Sources \ {Builtin} :
        lists'[s] # NoList => s \in srcs /\ A!networkFor(s, nets, def) # Nil

LEMMA reconcileFacts ==
    ASSUME AutoPeerInv, NEW srcs, NEW nets, NEW def, A!reconcile(srcs, nets, def)
    PROVE  /\ InStep(srcs, nets, def)
           /\ \A s \in Sources \ {Builtin} : lists'[s] \in {NoList, lists[s]}
BY DEF A!reconcile, InStep, AutoPeerInv, AutoPeerTypeOK

LEMMA replaceFacts ==
    ASSUME AutoPeerInv, NEW s \in Sources, NEW via \in Networks, A!replaceSourcePeers(s, via)
    PROVE  /\ InStep(order, netOf, defaultNet)
           /\ \A x \in Sources \ {Builtin} :
                lists'[x] = lists[x] \/ lists'[x] \in {NoList, A!networkFor(x, netOf, defaultNet)}
<1>1. CASE s \notin order
    BY <1>1 DEF A!replaceSourcePeers, InStep, AutoPeerInv, AutoPeerTypeOK, ListsMapped
<1>2. CASE s \in order
    <2>1. PICK v \in Networks \cup {NoList} :
              /\ lists' = [lists EXCEPT ![s] = v]
              /\ v # NoList => v = A!networkFor(s, netOf, defaultNet) /\ v # Nil
        BY <1>2, PeeringAssumption DEF A!replaceSourcePeers
    <2>2. lists \in [Sources -> Networks \cup {Nil, NoList}]
        BY DEF AutoPeerInv, AutoPeerTypeOK
    <2>3. /\ lists' \in [Sources -> Networks \cup {Nil, NoList}] /\ lists'[s] = v
          /\ \A x \in Sources : x # s => lists'[x] = lists[x]
        BY <2>1, <2>2
    <2> QED
        BY <1>2, <2>1, <2>3 DEF InStep, AutoPeerInv, ListsMapped
<1> QED
    BY <1>1, <1>2

(* Only the lists, sources and networks change. *)
LEMMA ListsKeep ==
    ASSUME AutoPeerInv, Aside, UNCHANGED <<fetcher, manager, policy, selected>>,
           order' \subseteq Sources, netOf' \in Networkings, defaultNet' \in Networks \cup {Nil},
           fetchList' \subseteq fetchList, InStep(order', netOf', defaultNet')
    PROVE  AutoPeerInv'
<1>1. ListsMapped'
    BY DEF InStep, ListsMapped, A!networkFor
<1>2. AutoPeerTypeOK' /\ FetcherLife'
    BY DEF InStep, AutoPeerInv, AutoPeerTypeOK, FetcherLife, Networkings, A!NoUri
<1>3. ManagerLife' /\ ClosedInOrder'
    BY DEF AutoPeerInv, ManagerLife, ClosedInOrder, Aside, Starting
<1> QED
    BY <1>1, <1>2, <1>3 DEF AutoPeerInv

LEMMA ReconfigureKeeps ==
    ASSUME AutoPeerInv, Aside, NEW srcs \in SUBSET Sources, NEW nets \in Networkings,
           NEW def \in Networks \cup {Nil}, A!Reconfigure(srcs, nets, def)
    PROVE  AutoPeerInv'
<1>1. /\ order' = srcs /\ netOf' = nets /\ defaultNet' = def
      /\ UNCHANGED <<fetcher, fetchList, manager, policy, selected>>
    BY DEF A!Reconfigure, A!managerVars
<1>2. InStep(order', netOf', defaultNet')
    BY <1>1, reconcileFacts DEF A!Reconfigure
<1> QED
    BY <1>1, <1>2, ListsKeep

LEMMA NetworksChangeKeeps ==
    ASSUME AutoPeerInv, Aside, 
           \/ \E n \in Networks \cup {Nil} :
                 \/ A!SetDefaultNetwork(n)
                 \/ \E s \in Sources \ {Builtin} : A!SetSourceNetwork(s, n)
           \/ \E s \in Sources \ {Builtin} :
                 A!RemoveSourceNetwork(s) \/ A!AddSource(s) \/ A!RemoveSource(s)
    PROVE  \E srcs \in SUBSET Sources, nets \in Networkings, def \in Networks \cup {Nil} :
               A!Reconfigure(srcs, nets, def)
<1>1. order \in SUBSET Sources /\ netOf \in Networkings /\ defaultNet \in Networks \cup {Nil}
    BY DEF AutoPeerInv, AutoPeerTypeOK, Networkings
<1>2. \A s \in Sources, n \in Networks \cup {Nil, "default"} : [netOf EXCEPT ![s] = n] \in Networkings
    BY <1>1 DEF Networkings
<1>3. ASSUME NEW n \in Networks \cup {Nil}, A!SetDefaultNetwork(n)
      PROVE \E srcs \in SUBSET Sources, nets \in Networkings, def \in Networks \cup {Nil} :
               A!Reconfigure(srcs, nets, def)
    BY <1>1, <1>3 DEF A!SetDefaultNetwork
<1>4. ASSUME NEW n \in Networks \cup {Nil}, NEW s \in Sources, A!SetSourceNetwork(s, n)
      PROVE \E srcs \in SUBSET Sources, nets \in Networkings, def \in Networks \cup {Nil} :
               A!Reconfigure(srcs, nets, def)
    BY <1>1, <1>2, <1>4 DEF A!SetSourceNetwork
<1>5. ASSUME NEW s \in Sources, A!RemoveSourceNetwork(s) \/ A!AddSource(s) \/ A!RemoveSource(s)
      PROVE \E srcs \in SUBSET Sources, nets \in Networkings, def \in Networks \cup {Nil} :
               A!Reconfigure(srcs, nets, def)
    <2>1. order \cup {s} \in SUBSET Sources /\ order \ {s} \in SUBSET Sources
        BY <1>1
    <2> QED
        BY <1>1, <1>2, <1>5, <2>1 DEF A!RemoveSourceNetwork, A!AddSource, A!RemoveSource
<1> QED
    BY <1>3, <1>4, <1>5

-----------------------------------------------------------------------------
(***************************************************************************)
(* Autopeer: the loops.                                                    *)
(***************************************************************************)
LEMMA FetcherLoopKeeps ==
    ASSUME AutoPeerInv, UNCHANGED pc, FetcherLoop \/ Fetches
    PROVE  AutoPeerInv'
<1>1. Aside
    BY DEF Aside
<1>2. CASE A!fetchBegins
    <2>1. /\ fetcher.loop = "idle" /\ fetcher' = [fetcher EXCEPT !.loop = "fetching"]
          /\ fetchList' = {[source |-> s, via |-> A!networkFor(s, netOf, defaultNet)] :
                             s \in {s \in Sources : A!Fetchable(s)}}
          /\ UNCHANGED <<order, netOf, defaultNet, lists, manager, policy, selected>>
        BY <1>2 DEF A!fetchBegins, A!managerVars
    <2>2. netOf \in Networkings /\ defaultNet \in Networks \cup {Nil}
        BY DEF AutoPeerInv, AutoPeerTypeOK, Networkings
    <2>3. \A s \in Sources : A!Fetchable(s) => s # Builtin /\ A!networkFor(s, netOf, defaultNet) \in Networks
        BY <2>2, networkForType DEF A!Fetchable
    <2>4. fetchList' \subseteq [source : Sources \ {Builtin}, via : Networks]
        BY <2>1, <2>3
    <2>5. /\ fetcher' \in [active : BOOLEAN, closed : BOOLEAN, loop : {"off", "idle", "fetching", "ended"}]
          /\ fetcher'.active = fetcher.active /\ fetcher'.closed = fetcher.closed /\ fetcher'.loop = "fetching"
        BY <2>1 DEF AutoPeerInv, AutoPeerTypeOK
    <2>6. AutoPeerTypeOK' /\ FetcherLife' /\ ListsMapped'
        BY <2>1, <2>4, <2>5 DEF AutoPeerInv, AutoPeerTypeOK, FetcherLife, ListsMapped, A!networkFor, A!NoUri
    <2>7. ManagerLife' /\ ClosedInOrder'
        BY <2>1, <2>5 DEF AutoPeerInv, ManagerLife, ClosedInOrder
    <2> QED
        BY <2>6, <2>7 DEF AutoPeerInv
<1>3. CASE Fetches
    <2>1. PICK item \in fetchList, ok \in BOOLEAN : A!fetchSource(item, ok)
        BY <1>3 DEF Fetches
    <2>2. /\ fetchList' \subseteq fetchList
          /\ UNCHANGED <<fetcher, order, netOf, defaultNet, manager, policy, selected>>
        BY <2>1 DEF A!fetchSource, A!managerVars
    <2>3. item.source \in Sources /\ item.via \in Networks
        BY DEF AutoPeerInv, AutoPeerTypeOK
    <2>4. InStep(order, netOf, defaultNet)
        <3>1. CASE ok
            BY <2>1, <2>3, <3>1, replaceFacts DEF A!fetchSource
        <3>2. CASE ~ok
            BY <2>1, <3>2 DEF A!fetchSource, InStep, AutoPeerInv, AutoPeerTypeOK, ListsMapped
        <3> QED
            BY <3>1, <3>2
    <2> QED
        BY <1>1, <2>2, <2>4, ListsKeep DEF AutoPeerInv, AutoPeerTypeOK, Networkings
<1>4. CASE A!fetchEnds \/ A!fetcherEnds
    <2>1. UNCHANGED <<order, netOf, defaultNet, lists, fetchList, manager, policy, selected>>
        BY <1>4 DEF A!fetchEnds, A!fetcherEnds, A!managerVars
    <2>2. /\ fetcher' \in [active : BOOLEAN, closed : BOOLEAN, loop : {"off", "idle", "fetching", "ended"}]
          /\ fetcher'.closed = fetcher.closed /\ fetcher.active
          /\ \/ fetcher'.active /\ fetcher'.loop = "idle" /\ ~fetcher.closed
             \/ ~fetcher'.active /\ fetcher'.loop = "ended" /\ fetcher.closed
        <3>1. /\ fetcher \in [active : BOOLEAN, closed : BOOLEAN, loop : {"off", "idle", "fetching", "ended"}]
              /\ fetcher.loop \in {"idle", "fetching"} => fetcher.active
            BY DEF AutoPeerInv, AutoPeerTypeOK, FetcherLife
        <3>2. CASE fetcher.closed
            BY <1>4, <3>1, <3>2 DEF A!fetchEnds, A!fetcherEnds
        <3>3. CASE ~fetcher.closed
            BY <1>4, <3>1, <3>3 DEF A!fetchEnds, A!fetcherEnds
        <3> QED
            BY <3>2, <3>3
    <2>3. AutoPeerTypeOK' /\ FetcherLife' /\ ListsMapped'
        BY <2>1, <2>2 DEF AutoPeerInv, AutoPeerTypeOK, FetcherLife, ListsMapped, A!networkFor, A!NoUri
    <2>4. ManagerLife' /\ ClosedInOrder'
        BY <2>1, <2>2 DEF AutoPeerInv, ManagerLife, ClosedInOrder
    <2> QED
        BY <2>3, <2>4 DEF AutoPeerInv
<1> QED
    BY <1>2, <1>3, <1>4 DEF FetcherLoop

(* The manager's loop picks a URI and adds it. *)
LEMMA CandidatesType ==
    ASSUME AutoPeerInv
    PROVE  A!Candidates \subseteq Uris
<1>1. policy.accepts \subseteq Uris
    BY DEF AutoPeerInv, AutoPeerTypeOK, Policy
<1> QED
    BY <1>1 DEF A!Candidates, A!Unlisted, A!Eligible

LEMMA ManagerLoopKeeps ==
    ASSUME AutoPeerInv, UNCHANGED pc, ManagerLoop
    PROVE  AutoPeerInv'
<1>1. UNCHANGED <<fetcher, order, netOf, defaultNet, lists, fetchList, policy>>
    BY DEF ManagerLoop, A!checkNow, A!addSelected, A!managerEnds, A!fetchVars
<1>2. FetcherLife' /\ ListsMapped'
    BY <1>1 DEF AutoPeerInv, FetcherLife, ListsMapped, A!networkFor
<1>3. manager \in [active : BOOLEAN, closed : BOOLEAN, loop : {"off", "idle", "adding", "ended"}]
    BY DEF AutoPeerInv, AutoPeerTypeOK
<1>4. CASE A!checkNow
    <2>1. manager.loop = "idle" /\ manager' = [manager EXCEPT !.loop = "adding"] /\ selected' \in Uris
        BY <1>4, CandidatesType DEF A!checkNow
    <2>2. /\ manager' \in [active : BOOLEAN, closed : BOOLEAN, loop : {"off", "idle", "adding", "ended"}]
          /\ manager'.active = manager.active /\ manager'.closed = manager.closed /\ manager'.loop = "adding"
        BY <1>3, <2>1
    <2>3. AutoPeerTypeOK'
        BY <1>1, <2>1, <2>2 DEF AutoPeerInv, AutoPeerTypeOK
    <2>4. ManagerLife' /\ ClosedInOrder'
        BY <1>1, <2>1, <2>2 DEF AutoPeerInv, ManagerLife, ClosedInOrder
    <2> QED
        BY <1>2, <2>3, <2>4 DEF AutoPeerInv
<1>5. CASE A!addSelected
    <2>1. manager.loop = "adding" /\ manager' = [manager EXCEPT !.loop = "idle"] /\ selected' = A!NoUri
        BY <1>5 DEF A!addSelected
    <2>2. /\ manager' \in [active : BOOLEAN, closed : BOOLEAN, loop : {"off", "idle", "adding", "ended"}]
          /\ manager'.active = manager.active /\ manager'.closed = manager.closed /\ manager'.loop = "idle"
        BY <1>3, <2>1
    <2>3. AutoPeerTypeOK'
        BY <1>1, <2>1, <2>2 DEF AutoPeerInv, AutoPeerTypeOK
    <2>4. ManagerLife' /\ ClosedInOrder'
        BY <1>1, <2>1, <2>2 DEF AutoPeerInv, ManagerLife, ClosedInOrder
    <2> QED
        BY <1>2, <2>3, <2>4 DEF AutoPeerInv
<1>6. CASE A!managerEnds
    <2>1. /\ manager.loop = "idle" /\ manager.closed /\ UNCHANGED selected
          /\ manager' = [manager EXCEPT !.loop = "ended", !.active = FALSE]
        BY <1>6 DEF A!managerEnds
    <2>2. /\ manager' \in [active : BOOLEAN, closed : BOOLEAN, loop : {"off", "idle", "adding", "ended"}]
          /\ ~manager'.active /\ manager'.closed = manager.closed /\ manager'.loop = "ended"
        BY <1>3, <2>1
    <2>3. AutoPeerTypeOK'
        BY <1>1, <2>1, <2>2 DEF AutoPeerInv, AutoPeerTypeOK, A!NoUri
    <2>4. ManagerLife' /\ ClosedInOrder'
        BY <1>1, <2>1, <2>2 DEF AutoPeerInv, ManagerLife, ClosedInOrder
    <2> QED
        BY <1>2, <2>3, <2>4 DEF AutoPeerInv
<1> QED
    BY <1>4, <1>5, <1>6 DEF ManagerLoop

LEMMA AutoPeerLoopsKeepJumper ==
    ASSUME JumperInv, AutoPeerInv, UNCHANGED jumperVars, ManagerLoop \/ FetcherLoop \/ Fetches
    PROVE  JumperInv'
<1>1. CASE UNCHANGED peers
    BY <1>1, JumperFrame
<1>2. CASE A!addSelected /\ peers' # peers
    <2>1. selected \in Uris /\ AddPeer(selected, "autopeer", "none")
        BY <1>2, SamePeers DEF A!addSelected, AutoPeerInv, AutoPeerTypeOK
    <2>2. PICK u \in Uris : AddPeer(u, "autopeer", "none")
        BY <2>1
    <2> QED
        BY <2>2, AddPeerOthers
<1> QED
    BY <1>1, <1>2 DEF ManagerLoop, FetcherLoop, Fetches, A!checkNow, A!addSelected, A!managerEnds,
       A!fetchBegins, A!fetchSource, A!fetchEnds, A!fetcherEnds

-----------------------------------------------------------------------------
(***************************************************************************)
(* The requests of the clients.                                            *)
(***************************************************************************)
Places == {"idle", "start", "stop", "wait", "policy", "enable", "startLoops", "refresh", "waitFetcher",
           "closeManager", "waitManager"}

(* What a client takes along to a place. *)
Fits(p, l) ==
    /\ p = "policy" => l \in Policy
    /\ p = "refresh" => l.source \in Sources /\ (l.source # Builtin => l.via \in Networks)

LEMMA GotoFacts ==
    ASSUME ClientTypeOK, NEW c \in Clients, NEW p \in Places, NEW l, Fits(p, l), Goto(c, p, l)
    PROVE  /\ pc' \in [Clients -> Places] /\ local' = [d \in Clients |-> local'[d]]
           /\ \A d \in Clients : Fits(pc'[d], local'[d])
           /\ pc'[c] = p /\ \A d \in Clients : d # c => pc'[d] = pc[d]
<1>1. pc \in [Clients -> Places] /\ local = [d \in Clients |-> local[d]]
    BY DEF ClientTypeOK, Places
<1>2. pc' = [pc EXCEPT ![c] = p] /\ local' = [local EXCEPT ![c] = l]
    BY DEF Goto
<1>3. /\ pc' \in [Clients -> Places] /\ pc'[c] = p /\ local'[c] = l
      /\ \A d \in Clients : d # c => pc'[d] = pc[d] /\ local'[d] = local[d]
    BY <1>1, <1>2
<1>4. local' = [d \in Clients |-> local'[d]]
    BY <1>1, <1>2
<1>5. \A d \in Clients : Fits(pc[d], local[d])
    BY DEF ClientTypeOK, Fits
<1> QED
    BY <1>3, <1>4, <1>5

LEMMA GotoKeeps ==
    ASSUME ClientTypeOK, UNCHANGED <<jumperCtl, nodeInfo>>, autoEnabled' \in BOOLEAN,
           inputs' \in 0 .. MaxInputs, NEW c \in Clients, NEW p \in Places, NEW l, Fits(p, l), Goto(c, p, l)
    PROVE  /\ ClientTypeOK'
           /\ pc'[c] = p /\ \A d \in Clients : d # c => pc'[d] = pc[d]
           /\ pc[c] \notin Starting /\ p \notin Starting => Aside
<1>1. /\ pc' \in [Clients -> Places] /\ local' = [d \in Clients |-> local'[d]]
      /\ \A d \in Clients : Fits(pc'[d], local'[d])
      /\ pc'[c] = p /\ \A d \in Clients : d # c => pc'[d] = pc[d]
    BY GotoFacts
<1>2. ClientTypeOK'
    BY <1>1 DEF ClientTypeOK, Places, Fits, Policy
<1>3. pc[c] \notin Starting /\ p \notin Starting => Aside
    BY <1>1 DEF Aside
<1> QED
    BY <1>1, <1>2, <1>3

LEMMA InputFacts ==
    ASSUME ClientTypeOK, Input
    PROVE  inputs' \in 0 .. MaxInputs
BY PeeringAssumption DEF ClientTypeOK, Input

LEMMA setJumperKeeps ==
    ASSUME IInv, NEW c \in Clients, setJumper(c)
    PROVE  IInv'
<1>1. /\ pc[c] = "idle" /\ inputs' \in 0 .. MaxInputs
      /\ UNCHANGED <<peers, jumperVars, autoPeerVars, autoEnabled>>
    BY InputFacts DEF IInv, setJumper, Request
<1>2. JumperInv'
    BY <1>1, JumperFrame DEF IInv
<1>3. jumperCtl \in [enabled : BOOLEAN, addresses : Adverts \cup {{}}]
    BY DEF IInv, ClientTypeOK
<1>4. PICK ctl \in [enabled : BOOLEAN, addresses : Adverts \cup {{}}], p \in {"idle", "start", "stop"} :
          applyNodeInfo(c, ctl, p)
    <2>1. ASSUME NEW adv \in Adverts, applyNodeInfo(c, [jumperCtl EXCEPT !.addresses = adv], "idle")
          PROVE  \E ctl \in [enabled : BOOLEAN, addresses : Adverts \cup {{}}], p \in {"idle", "start", "stop"} :
                     applyNodeInfo(c, ctl, p)
        <3>1. [jumperCtl EXCEPT !.addresses = adv] \in [enabled : BOOLEAN, addresses : Adverts \cup {{}}]
            BY <1>3
        <3> QED
            BY <2>1, <3>1
    <2>2. ASSUME NEW on \in BOOLEAN,
                 applyNodeInfo(c, [jumperCtl EXCEPT !.enabled = on], IF on THEN "start" ELSE "stop")
          PROVE  \E ctl \in [enabled : BOOLEAN, addresses : Adverts \cup {{}}], p \in {"idle", "start", "stop"} :
                     applyNodeInfo(c, ctl, p)
        <3>1. [jumperCtl EXCEPT !.enabled = on] \in [enabled : BOOLEAN, addresses : Adverts \cup {{}}]
            BY <1>3
        <3>2. (IF on THEN "start" ELSE "stop") \in {"idle", "start", "stop"}
            OBVIOUS
        <3> QED
            BY <2>2, <3>1, <3>2
    <2> QED
        BY <2>1, <2>2 DEF setJumper
<1>5. /\ jumperCtl' = ctl /\ nodeInfo' \in Adverts \cup {{}}
      /\ \E q \in {"idle", "start", "stop"} : Goto(c, q, NoLocal)
    BY <1>4 DEF applyNodeInfo, Return, mergeJumperNodeInfo, IInv, ClientTypeOK
<1>6. PICK q \in {"idle", "start", "stop"} : Goto(c, q, NoLocal)
    BY <1>5
<1>7. /\ pc' \in [Clients -> Places] /\ local' = [d \in Clients |-> local'[d]]
      /\ \A d \in Clients : Fits(pc'[d], local'[d])
      /\ pc'[c] = q /\ \A d \in Clients : d # c => pc'[d] = pc[d]
    <2>1. q \in Places /\ Fits(q, NoLocal)
        BY DEF Places, Fits
    <2> QED
        BY <1>6, <2>1, GotoFacts DEF IInv
<1>8. ClientTypeOK'
    BY <1>1, <1>5, <1>7 DEF IInv, ClientTypeOK, Places, Fits, Policy
<1>9. AutoPeerInv'
    <2>1. Aside
        BY <1>1, <1>7 DEF Aside, Starting
    <2> QED
        BY <1>1, <2>1, AutoPeerFrame DEF IInv
<1> QED
    BY <1>2, <1>8, <1>9 DEF IInv

(* A client goes on to a place that autopeer does not depend on. *)
LEMMA MovesOn ==
    ASSUME IInv, NEW c \in Clients, pc[c] \notin Starting, UNCHANGED <<jumperCtl, nodeInfo, autoEnabled>>,
           UNCHANGED inputs \/ Input, NEW p \in Places \ Starting, NEW l, Fits(p, l), Goto(c, p, l)
    PROVE  ClientTypeOK' /\ Aside
<1>1. inputs' \in 0 .. MaxInputs /\ autoEnabled' \in BOOLEAN
    BY InputFacts DEF IInv, ClientTypeOK
<1>2. p \in Places
    OBVIOUS
<1> QED
    BY <1>1, <1>2, GotoKeeps DEF IInv

LEMMA jumperStartKeeps ==
    ASSUME IInv, NEW c \in Clients, jumperStart(c)
    PROVE  IInv'
<1>1. /\ pc[c] = "start" /\ Goto(c, "idle", NoLocal)
      /\ UNCHANGED <<peers, autoPeerVars, jumperCtl, nodeInfo, autoEnabled, inputs>>
    BY DEF jumperStart, Return, ctlVars
<1>2. ClientTypeOK' /\ Aside
    BY <1>1, MovesOn DEF Places, Starting, Fits
<1>3. JumperInv'
    BY <1>1, StartKeeps, JumperFrame DEF IInv, jumperStart
<1> QED
    BY <1>1, <1>2, <1>3, AutoPeerFrame DEF IInv

LEMMA jumperStopOrCloseKeeps ==
    ASSUME IInv, NEW c \in Clients, jumperStop(c) \/ jumperClose(c)
    PROVE  IInv'
<1>1. /\ pc[c] \in {"stop", "idle"} /\ (J!Stop \/ J!Close)
      /\ Goto(c, "wait", mgr.gen) \/ Goto(c, "idle", NoLocal)
      /\ UNCHANGED inputs \/ Input
      /\ UNCHANGED <<peers, autoPeerVars, jumperCtl, nodeInfo, autoEnabled>>
    BY DEF jumperStop, jumperClose, Return, ctlVars, Request
<1>2. PICK p \in {"wait", "idle"}, l \in {mgr.gen, NoLocal} : Goto(c, p, l)
    BY <1>1
<1>3. pc[c] \notin Starting /\ p \in Places \ Starting /\ Fits(p, l)
    BY <1>1 DEF Places, Starting, Fits
<1>4. ClientTypeOK' /\ Aside
    BY <1>1, <1>2, <1>3, MovesOn
<1>5. JumperInv'
    BY <1>1, StopOrCloseKeeps DEF IInv
<1> QED
    BY <1>1, <1>4, <1>5, AutoPeerFrame DEF IInv

LEMMA jumperStoppedKeeps ==
    ASSUME IInv, NEW c \in Clients, jumperStopped(c)
    PROVE  IInv'
<1>1. /\ pc[c] = "wait" /\ Goto(c, "idle", NoLocal)
      /\ UNCHANGED <<peers, jumperVars, autoPeerVars, jumperCtl, nodeInfo, autoEnabled, inputs>>
    BY DEF jumperStopped, Return, ctlVars
<1>2. ClientTypeOK' /\ Aside
    BY <1>1, MovesOn DEF Places, Starting, Fits
<1> QED
    BY <1>1, <1>2, AutoPeerFrame, JumperFrame DEF IInv

LEMMA setAutoPeerKeeps ==
    ASSUME IInv, NEW c \in Clients, setAutoPeer(c)
    PROVE  IInv'
<1>1. /\ pc[c] = "idle" /\ Input
      /\ UNCHANGED <<peers, jumperVars, jumperCtl, nodeInfo, autoEnabled>>
    BY DEF setAutoPeer, Request, ctlVars
<1>2. policy \in Policy
    BY DEF IInv, AutoPeerInv, AutoPeerTypeOK
<1>3. PICK q \in Policy : Goto(c, "policy", q)
    <2>1. \A p \in Policies : [policy EXCEPT !.min = p.min, !.minFetched = p.minFetched] \in Policy
        BY <1>2, PeeringAssumption DEF Policy
    <2> QED
        BY <1>2, <2>1 DEF setAutoPeer
<1>4. ClientTypeOK' /\ Aside
    BY <1>1, <1>3, MovesOn DEF Places, Starting, Fits
<1>5. AutoPeerInv'
    <2>1. ASSUME NEW srcs \in SUBSET Sources, A!SetSources(srcs) PROVE AutoPeerInv'
        <3>1. netOf \in Networkings /\ defaultNet \in Networks \cup {Nil}
            BY DEF IInv, AutoPeerInv, AutoPeerTypeOK, Networkings
        <3>2. PICK nets \in Networkings, def \in Networks \cup {Nil} : A!Reconfigure(srcs, nets, def)
            BY <2>1, <3>1 DEF A!SetSources
        <3> QED
            BY <1>4, <3>2, ReconfigureKeeps DEF IInv
    <2>2. CASE UNCHANGED autoPeerVars
        BY <1>4, <2>2, AutoPeerFrame DEF IInv
    <2> QED
        BY <2>1, <2>2 DEF setAutoPeer
<1> QED
    BY <1>1, <1>4, <1>5, JumperFrame DEF IInv

LEMMA setPolicyKeeps ==
    ASSUME IInv, NEW c \in Clients, setPolicy(c)
    PROVE  IInv'
<1>1. /\ pc[c] = "policy" /\ policy' = local[c]
      /\ UNCHANGED <<fetcher, order, netOf, defaultNet, lists, fetchList, manager, selected>>
      /\ UNCHANGED <<peers, jumperVars, jumperCtl, nodeInfo, autoEnabled, inputs>>
    BY DEF setPolicy, A!SetConfig, A!fetchVars, ctlVars
<1>2. PICK p \in {"idle", "enable"} : Goto(c, p, NoLocal)
    BY DEF setPolicy, Return
<1>3. ClientTypeOK' /\ Aside
    <2>1. pc[c] \notin Starting /\ p \in Places \ Starting /\ Fits(p, NoLocal)
        BY <1>1 DEF Places, Starting, Fits
    <2> QED
        BY <1>1, <1>2, <2>1, MovesOn
<1>4. AutoPeerInv'
    <2>1. policy' \in Policy
        BY <1>1 DEF IInv, ClientTypeOK
    <2>2. AutoPeerTypeOK' /\ FetcherLife' /\ ListsMapped'
        BY <1>1, <2>1 DEF IInv, AutoPeerInv, AutoPeerTypeOK, FetcherLife, ListsMapped, A!networkFor, A!NoUri
    <2>3. ManagerLife' /\ ClosedInOrder'
        BY <1>1, <1>3 DEF IInv, AutoPeerInv, ManagerLife, ClosedInOrder, Aside, Starting
    <2> QED
        BY <2>2, <2>3 DEF AutoPeerInv
<1> QED
    BY <1>1, <1>3, <1>4, JumperFrame DEF IInv

LEMMA refreshAutoPeerKeeps ==
    ASSUME IInv, NEW c \in Clients, NEW s \in Sources, refreshAutoPeer(c, s)
    PROVE  IInv'
<1> DEFINE l == [source |-> s, via |-> A!networkFor(s, netOf, defaultNet)]
<1>1. /\ pc[c] = "idle" /\ Input /\ Goto(c, "refresh", l)
      /\ UNCHANGED <<peers, jumperVars, autoPeerVars, jumperCtl, nodeInfo, autoEnabled>>
    BY DEF refreshAutoPeer, Request, ctlVars
<1>2. Fits("refresh", l)
    <2>1. netOf \in Networkings /\ defaultNet \in Networks \cup {Nil}
        BY DEF IInv, AutoPeerInv, AutoPeerTypeOK, Networkings
    <2>2. s # Builtin => A!networkFor(s, netOf, defaultNet) \in Networks
        BY <2>1, networkForType DEF refreshAutoPeer, A!Fetchable
    <2> QED
        BY <2>2 DEF Fits
<1> HIDE DEF l
<1>3. ClientTypeOK' /\ Aside
    BY <1>1, <1>2, MovesOn DEF Places, Starting
<1> QED
    BY <1>1, <1>3, AutoPeerFrame, JumperFrame DEF IInv

LEMMA refreshedKeeps ==
    ASSUME IInv, NEW c \in Clients, NEW ok \in BOOLEAN, refreshed(c, ok)
    PROVE  IInv'
<1>1. /\ pc[c] = "refresh" /\ A!FetchNow(local[c].source, local[c].via, ok) /\ Goto(c, "idle", NoLocal)
      /\ UNCHANGED <<peers, jumperVars, jumperCtl, nodeInfo, autoEnabled, inputs>>
    BY DEF refreshed, Return, ctlVars
<1>2. ClientTypeOK' /\ Aside
    BY <1>1, MovesOn DEF Places, Starting, Fits
<1>3. UNCHANGED <<fetcher, order, netOf, defaultNet, fetchList, manager, policy, selected>>
    BY <1>1 DEF A!FetchNow, A!managerVars
<1>4. InStep(order, netOf, defaultNet)
    <2>1. local[c].source \in Sources /\ (local[c].source # Builtin => local[c].via \in Networks)
        BY <1>1 DEF IInv, ClientTypeOK
    <2>2. CASE A!reconcile(order, netOf, defaultNet)
        BY <2>2, reconcileFacts DEF IInv
    <2>3. CASE local[c].source # Builtin /\ A!replaceSourcePeers(local[c].source, local[c].via)
        BY <2>1, <2>3, replaceFacts DEF IInv
    <2>4. CASE UNCHANGED lists
        BY <2>4 DEF InStep, IInv, AutoPeerInv, AutoPeerTypeOK, ListsMapped
    <2> QED
        BY <1>1, <2>2, <2>3, <2>4 DEF A!FetchNow
<1>5. AutoPeerInv'
    BY <1>2, <1>3, <1>4, ListsKeep DEF IInv, AutoPeerInv, AutoPeerTypeOK, Networkings
<1> QED
    BY <1>1, <1>2, <1>5, JumperFrame DEF IInv

(***************************************************************************)
(* Starting and closing autopeer: here the places of the clients matter.   *)
(***************************************************************************)
LEMMA LivesKeep ==
    ASSUME AutoPeerInv, UNCHANGED <<order, netOf, defaultNet, fetchList, policy, selected>>,
           UNCHANGED lists \/ InStep(order, netOf, defaultNet),
           fetcher' \in [active : BOOLEAN, closed : BOOLEAN, loop : {"off", "idle", "fetching", "ended"}],
           manager' \in [active : BOOLEAN, closed : BOOLEAN, loop : {"off", "idle", "adding", "ended"}],
           manager'.loop = "adding" => manager.loop = "adding"
    PROVE  AutoPeerTypeOK' /\ ListsMapped'
<1>1. InStep(order, netOf, defaultNet)
    BY DEF InStep, AutoPeerInv, AutoPeerTypeOK, ListsMapped
<1> QED
    BY <1>1 DEF InStep, AutoPeerInv, AutoPeerTypeOK, ListsMapped, A!networkFor, A!NoUri

LEMMA autoEnableKeeps ==
    ASSUME IInv, NEW c \in Clients, NEW on \in BOOLEAN, autoEnable(c, on)
    PROVE  IInv'
<1>1. /\ pc[c] = "enable" /\ \A d \in Clients : pc[d] # "startLoops"
      /\ UNCHANGED <<peers, jumperVars, jumperCtl, nodeInfo, inputs>>
      /\ autoEnabled' \in BOOLEAN /\ inputs' \in 0 .. MaxInputs
    BY DEF autoEnable, IInv, ClientTypeOK
<1>2. CASE Goto(c, "idle", NoLocal) /\ UNCHANGED autoPeerVars
    <2>1. ClientTypeOK' /\ Aside
        BY <1>1, <1>2, GotoKeeps DEF IInv, Places, Starting, Fits
    <2> QED
        BY <1>1, <1>2, <2>1, AutoPeerFrame, JumperFrame DEF IInv
<1>3. CASE A!Startable /\ A!StartFlag /\ Goto(c, "startLoops", NoLocal)
    <2>1. /\ ClientTypeOK'
          /\ pc'[c] = "startLoops" /\ \A d \in Clients : d # c => pc'[d] = pc[d]
        BY <1>1, <1>3, GotoKeeps DEF IInv, Places, Fits
    <2>2. /\ ~manager.active /\ ~manager.closed /\ manager' = [manager EXCEPT !.active = TRUE]
          /\ UNCHANGED <<fetcher, order, netOf, defaultNet, lists, fetchList, policy, selected>>
        BY <1>3 DEF A!Startable, A!StartFlag, A!fetchVars
    <2>3. /\ manager \in [active : BOOLEAN, closed : BOOLEAN, loop : {"off", "idle", "adding", "ended"}]
          /\ fetcher \in [active : BOOLEAN, closed : BOOLEAN, loop : {"off", "idle", "fetching", "ended"}]
        BY DEF IInv, AutoPeerInv, AutoPeerTypeOK
    <2>4. /\ manager' \in [active : BOOLEAN, closed : BOOLEAN, loop : {"off", "idle", "adding", "ended"}]
          /\ manager'.active /\ ~manager'.closed /\ manager'.loop = manager.loop
        BY <2>2, <2>3
    <2>5. manager.loop = "off"
        BY <2>2, <2>3 DEF IInv, AutoPeerInv, ManagerLife
    <2>6. AutoPeerTypeOK' /\ ListsMapped'
        BY <2>2, <2>3, <2>4, LivesKeep DEF IInv
    <2>7. FetcherLife'
        BY <2>2 DEF IInv, AutoPeerInv, FetcherLife
    <2>8. ManagerLife'
        BY <1>1, <2>1, <2>4, <2>5 DEF ManagerLife
    <2>9. ClosedInOrder'
        BY <2>1, <2>2, <2>4 DEF IInv, AutoPeerInv, ClosedInOrder
    <2>10. JumperInv'
        BY <1>1, JumperFrame DEF IInv
    <2> QED
        BY <2>1, <2>6, <2>7, <2>8, <2>9, <2>10 DEF IInv, AutoPeerInv
<1> QED
    BY <1>2, <1>3 DEF autoEnable, Return

LEMMA autoStartLoopsKeeps ==
    ASSUME IInv, NEW c \in Clients, autoStartLoops(c)
    PROVE  IInv'
<1>1. /\ pc[c] = "startLoops" /\ A!StartLoops /\ Goto(c, "idle", NoLocal)
      /\ UNCHANGED <<peers, jumperVars, jumperCtl, nodeInfo, autoEnabled, inputs>>
      /\ autoEnabled' \in BOOLEAN /\ inputs' \in 0 .. MaxInputs
    BY DEF autoStartLoops, Return, ctlVars, IInv, ClientTypeOK
<1>2. /\ ClientTypeOK'
      /\ pc'[c] = "idle" /\ \A d \in Clients : d # c => pc'[d] = pc[d]
    BY <1>1, GotoKeeps DEF IInv, Places, Fits
<1>3. /\ manager' = [manager EXCEPT !.loop = "idle"]
      /\ UNCHANGED <<order, netOf, defaultNet, fetchList, policy, selected>>
      /\ \/ ~fetcher.active /\ ~fetcher.closed /\ fetcher' = [fetcher EXCEPT !.active = TRUE, !.loop = "idle"]
         \/ UNCHANGED fetcher
      /\ UNCHANGED lists \/ InStep(order, netOf, defaultNet)
    BY <1>1, reconcileFacts DEF A!StartLoops, A!FetcherStarts, IInv
<1>4. /\ manager \in [active : BOOLEAN, closed : BOOLEAN, loop : {"off", "idle", "adding", "ended"}]
      /\ fetcher \in [active : BOOLEAN, closed : BOOLEAN, loop : {"off", "idle", "fetching", "ended"}]
      /\ manager.active /\ \A d \in Clients : d # c => pc[d] # "startLoops"
    BY <1>1 DEF IInv, AutoPeerInv, AutoPeerTypeOK, ManagerLife
<1>5. /\ manager' \in [active : BOOLEAN, closed : BOOLEAN, loop : {"off", "idle", "adding", "ended"}]
      /\ manager'.active /\ manager'.closed = manager.closed /\ manager'.loop = "idle"
    BY <1>3, <1>4
<1>6. /\ fetcher' \in [active : BOOLEAN, closed : BOOLEAN, loop : {"off", "idle", "fetching", "ended"}]
      /\ \/ ~fetcher.closed /\ ~fetcher'.closed /\ fetcher'.active /\ fetcher'.loop = "idle"
         \/ UNCHANGED fetcher
    BY <1>3, <1>4
<1>7. AutoPeerTypeOK' /\ ListsMapped'
    BY <1>3, <1>5, <1>6, LivesKeep DEF IInv
<1>8. FetcherLife'
    BY <1>6 DEF IInv, AutoPeerInv, FetcherLife
<1>9. ManagerLife'
    BY <1>2, <1>4, <1>5 DEF ManagerLife
<1>10. ClosedInOrder'
    <2>1. \A d \in Clients : pc'[d] \in {"closeManager", "waitManager"} => pc[d] = pc'[d]
        BY <1>2
    <2>2. \A d \in Clients : pc[d] = "waitManager" => pc'[d] = "waitManager"
        BY <1>1, <1>2
    <2> QED
        BY <1>4, <1>5, <1>6, <2>1, <2>2 DEF IInv, AutoPeerInv, ClosedInOrder
<1>11. JumperInv'
    BY <1>1, JumperFrame DEF IInv
<1> QED
    BY <1>2, <1>7, <1>8, <1>9, <1>10, <1>11 DEF IInv, AutoPeerInv

LEMMA autoCloseKeeps ==
    ASSUME IInv, NEW c \in Clients, autoClose(c)
    PROVE  IInv'
<1>1. /\ pc[c] = "idle" /\ inputs' \in 0 .. MaxInputs /\ autoEnabled' \in BOOLEAN
      /\ fetcher' = [fetcher EXCEPT !.closed = TRUE]
      /\ UNCHANGED <<order, netOf, defaultNet, lists, fetchList, manager, policy, selected>>
      /\ UNCHANGED <<peers, jumperVars, jumperCtl, nodeInfo>>
    BY InputFacts DEF autoClose, Request, A!CloseFetcher, A!managerVars, ctlVars, IInv, ClientTypeOK
<1>2. PICK p \in {"waitFetcher", "closeManager"} :
          Goto(c, p, NoLocal) /\ (p = "closeManager" => ~fetcher.active)
    BY DEF autoClose
<1>3. /\ ClientTypeOK'
      /\ pc'[c] = p /\ \A d \in Clients : d # c => pc'[d] = pc[d]
    <2>1. p \in Places /\ Fits(p, NoLocal)
        BY DEF Places, Fits
    <2> QED
        BY <1>1, <1>2, <2>1, GotoKeeps DEF IInv
<1>4. /\ manager \in [active : BOOLEAN, closed : BOOLEAN, loop : {"off", "idle", "adding", "ended"}]
      /\ fetcher \in [active : BOOLEAN, closed : BOOLEAN, loop : {"off", "idle", "fetching", "ended"}]
    BY DEF IInv, AutoPeerInv, AutoPeerTypeOK
<1>5. /\ fetcher' \in [active : BOOLEAN, closed : BOOLEAN, loop : {"off", "idle", "fetching", "ended"}]
      /\ fetcher'.closed /\ fetcher'.active = fetcher.active /\ fetcher'.loop = fetcher.loop
    BY <1>1, <1>4
<1>6. AutoPeerTypeOK' /\ ListsMapped'
    BY <1>1, <1>4, <1>5, LivesKeep DEF IInv
<1>7. FetcherLife'
    BY <1>5 DEF IInv, AutoPeerInv, FetcherLife
<1>8. ManagerLife'
    <2>1. \A d \in Clients : pc'[d] = "startLoops" => pc[d] = "startLoops"
        BY <1>3
    <2> QED
        BY <1>1, <2>1 DEF IInv, AutoPeerInv, ManagerLife
<1>9. ClosedInOrder'
    <2>1. \A d \in Clients : pc[d] = "waitManager" => pc'[d] = "waitManager"
        BY <1>1, <1>3
    <2>2. \A d \in Clients : pc'[d] \in {"closeManager", "waitManager"} => ~fetcher.active
        BY <1>2, <1>3 DEF IInv, AutoPeerInv, ClosedInOrder
    <2> QED
        BY <1>1, <1>5, <2>1, <2>2 DEF IInv, AutoPeerInv, ClosedInOrder
<1>10. JumperInv'
    BY <1>1, JumperFrame DEF IInv
<1> QED
    BY <1>3, <1>6, <1>7, <1>8, <1>9, <1>10 DEF IInv, AutoPeerInv

LEMMA fetcherClosedKeeps ==
    ASSUME IInv, NEW c \in Clients, fetcherClosed(c)
    PROVE  IInv'
<1>1. /\ pc[c] = "waitFetcher" /\ fetcher.loop = "ended" /\ Goto(c, "closeManager", NoLocal)
      /\ UNCHANGED <<fetcher, order, netOf, defaultNet, lists, fetchList, manager, policy, selected>>
      /\ UNCHANGED <<peers, jumperVars, autoPeerVars, jumperCtl, nodeInfo>>
      /\ inputs' \in 0 .. MaxInputs /\ autoEnabled' \in BOOLEAN
    BY DEF fetcherClosed, autoPeerVars, ctlVars, IInv, ClientTypeOK
<1>2. /\ ClientTypeOK'
      /\ pc'[c] = "closeManager" /\ \A d \in Clients : d # c => pc'[d] = pc[d]
    BY <1>1, GotoKeeps DEF IInv, Places, Fits
<1>3. AutoPeerTypeOK' /\ ListsMapped'
    BY <1>1, LivesKeep DEF IInv, AutoPeerInv, AutoPeerTypeOK
<1>4. FetcherLife'
    BY <1>1 DEF IInv, AutoPeerInv, FetcherLife
<1>5. ManagerLife'
    <2>1. \A d \in Clients : pc'[d] = "startLoops" => pc[d] = "startLoops"
        BY <1>2
    <2> QED
        BY <1>1, <2>1 DEF IInv, AutoPeerInv, ManagerLife
<1>6. ClosedInOrder'
    <2>1. fetcher.closed /\ ~fetcher.active
        BY <1>1 DEF IInv, AutoPeerInv, FetcherLife
    <2>2. \A d \in Clients : pc[d] = "waitManager" => pc'[d] = "waitManager"
        BY <1>1, <1>2
    <2> QED
        BY <1>1, <2>1, <2>2 DEF IInv, AutoPeerInv, ClosedInOrder
<1>7. JumperInv'
    BY <1>1, JumperFrame DEF IInv
<1> QED
    BY <1>2, <1>3, <1>4, <1>5, <1>6, <1>7 DEF IInv, AutoPeerInv

LEMMA closeManagerKeeps ==
    ASSUME IInv, NEW c \in Clients, closeManager(c)
    PROVE  IInv'
<1>1. /\ pc[c] = "closeManager" /\ manager' = [manager EXCEPT !.closed = TRUE]
      /\ UNCHANGED <<fetcher, order, netOf, defaultNet, lists, fetchList, policy, selected>>
      /\ UNCHANGED <<peers, jumperVars, jumperCtl, nodeInfo>>
      /\ inputs' \in 0 .. MaxInputs /\ autoEnabled' \in BOOLEAN
    BY DEF closeManager, A!CloseManager, A!fetchVars, ctlVars, IInv, ClientTypeOK
<1>2. PICK p \in {"waitManager", "idle"} : Goto(c, p, NoLocal) /\ (manager.active => p = "waitManager")
    BY DEF closeManager, Return
<1>3. /\ ClientTypeOK'
      /\ pc'[c] = p /\ \A d \in Clients : d # c => pc'[d] = pc[d]
    <2>1. p \in Places /\ Fits(p, NoLocal)
        BY DEF Places, Fits
    <2> QED
        BY <1>1, <1>2, <2>1, GotoKeeps DEF IInv
<1>4. /\ manager \in [active : BOOLEAN, closed : BOOLEAN, loop : {"off", "idle", "adding", "ended"}]
      /\ fetcher \in [active : BOOLEAN, closed : BOOLEAN, loop : {"off", "idle", "fetching", "ended"}]
      /\ fetcher.closed /\ ~fetcher.active
    BY <1>1 DEF IInv, AutoPeerInv, AutoPeerTypeOK, ClosedInOrder
<1>5. /\ manager' \in [active : BOOLEAN, closed : BOOLEAN, loop : {"off", "idle", "adding", "ended"}]
      /\ manager'.closed /\ manager'.active = manager.active /\ manager'.loop = manager.loop
    BY <1>1, <1>4
<1>6. AutoPeerTypeOK' /\ ListsMapped'
    BY <1>1, <1>4, <1>5, LivesKeep DEF IInv
<1>7. FetcherLife'
    BY <1>1 DEF IInv, AutoPeerInv, FetcherLife
<1>8. ManagerLife'
    <2>1. \A d \in Clients : pc'[d] = "startLoops" => pc[d] = "startLoops"
        BY <1>3
    <2> QED
        BY <1>5, <2>1 DEF IInv, AutoPeerInv, ManagerLife
<1>9. ClosedInOrder'
    BY <1>1, <1>2, <1>3, <1>4, <1>5 DEF ClosedInOrder
<1>10. JumperInv'
    BY <1>1, JumperFrame DEF IInv
<1> QED
    BY <1>3, <1>6, <1>7, <1>8, <1>9, <1>10 DEF IInv, AutoPeerInv

LEMMA managerClosedKeeps ==
    ASSUME IInv, NEW c \in Clients, managerClosed(c)
    PROVE  IInv'
<1>1. /\ pc[c] = "waitManager" /\ manager.loop = "ended" /\ Goto(c, "idle", NoLocal)
      /\ UNCHANGED <<fetcher, order, netOf, defaultNet, lists, fetchList, manager, policy, selected>>
      /\ UNCHANGED <<peers, jumperVars, autoPeerVars, jumperCtl, nodeInfo>>
      /\ inputs' \in 0 .. MaxInputs /\ autoEnabled' \in BOOLEAN
    BY DEF managerClosed, Return, autoPeerVars, ctlVars, IInv, ClientTypeOK
<1>2. /\ ClientTypeOK'
      /\ pc'[c] = "idle" /\ \A d \in Clients : d # c => pc'[d] = pc[d]
    BY <1>1, GotoKeeps DEF IInv, Places, Fits
<1>3. AutoPeerTypeOK' /\ ListsMapped'
    BY <1>1, LivesKeep DEF IInv, AutoPeerInv, AutoPeerTypeOK
<1>4. FetcherLife'
    BY <1>1 DEF IInv, AutoPeerInv, FetcherLife
<1>5. ~manager.active
    BY <1>1 DEF IInv, AutoPeerInv, ManagerLife
<1>6. \A d \in Clients : pc'[d] \in Starting => pc[d] = pc'[d]
    BY <1>2 DEF Starting
<1>7. ManagerLife' /\ ClosedInOrder'
    BY <1>1, <1>5, <1>6 DEF IInv, AutoPeerInv, ManagerLife, ClosedInOrder, Starting
<1>8. JumperInv'
    BY <1>1, JumperFrame DEF IInv
<1> QED
    BY <1>2, <1>3, <1>4, <1>7, <1>8 DEF IInv, AutoPeerInv

-----------------------------------------------------------------------------
(***************************************************************************)
(* The invariant.                                                          *)
(***************************************************************************)
LEMMA InitIInv == Init => IInv
<1> SUFFICES ASSUME Init PROVE IInv
    OBVIOUS
<1>1. PICK jumps \in BOOLEAN, auto \in BOOLEAN :
          /\ J!JumperInit(jumps) /\ jumperCtl = [enabled |-> jumps, addresses |-> {}]
          /\ A!AutoPeerInit(auto) /\ autoEnabled = auto
    BY DEF Init
<1>2. /\ peers = [b \in Bases |-> NoPeer] /\ seen = [b \in Bases |-> NoPeer]
      /\ pc = [c \in Clients |-> "idle"] /\ local = [c \in Clients |-> NoLocal]
      /\ inputs = MaxInputs /\ nodeInfo = {}
    BY <1>1, SamePeers DEF Init, J!JumperInit, J!NotSeen
<1>3. /\ mgr = [active |-> jumps, stopping |-> FALSE, closed |-> FALSE, gen |-> IF jumps THEN 1 ELSE 0]
      /\ closedDone = {} /\ crashed = FALSE
      /\ loop = [g \in J!Gens |-> IF jumps /\ g = 1 THEN "idle" ELSE "off"]
      /\ target = [t \in Targets |-> [pending |-> FALSE, fetch |-> "no", addrs |-> <<>>, tried |-> {}]]
      /\ owned = [u \in Uris |-> "none"] /\ todo = {} /\ try = [target |-> "none", addrs |-> <<>>]
    BY <1>1 DEF J!JumperInit, J!NoTry
<1>4. JumperInv
    <2>1. peers \in [Bases -> Peer] /\ seen \in [Bases -> Peer]
        BY <1>2, NoPeerType
    <2>2. \A b \in Bases : peers[b].by = "none" /\ peers[b].state = "none"
        BY <1>2, NoPeerType
    <2>3. /\ target \in [Targets -> [pending : BOOLEAN, fetch : {"no", "busy", "done"},
                                     addrs : Seq(Uris), tried : SUBSET Uris]]
          /\ \A t \in Targets : target[t].addrs = <<>>
        BY <1>3
    <2>4. mgr \in [active : BOOLEAN, stopping : BOOLEAN, closed : BOOLEAN, gen : 0 .. MaxGen]
        BY <1>3, PeeringAssumption
    <2>5. JumperTypeOK
        <3>1. try \in [target : Targets \cup {"none"}, addrs : Seq(Uris)]
            BY <1>3
        <3> QED
            BY <1>3, <2>1, <2>3, <2>4, <3>1 DEF JumperTypeOK
    <2>6. OneLoop /\ AddingFirst
        BY <1>3 DEF OneLoop, AddingFirst, Working, J!Gens
    <2>7. AddressesKnown /\ LinksKnown /\ AtMostOne
        BY <2>2, <2>3 DEF AddressesKnown, LinksKnown, AtMostOne, JumpsTo, Plain
    <2> QED
        BY <2>5, <2>6, <2>7 DEF JumperInv
<1>5. AutoPeerInv
    <2>1. /\ fetcher = [active |-> auto, closed |-> FALSE, loop |-> IF auto THEN "idle" ELSE "off"]
          /\ manager = [active |-> auto, closed |-> FALSE, loop |-> IF auto THEN "idle" ELSE "off"]
          /\ order \subseteq Sources /\ netOf = [s \in Sources |-> "default"]
          /\ lists = [s \in Sources |-> IF s = Builtin /\ s \in order THEN Nil ELSE NoList]
          /\ fetchList = {} /\ policy \in Policies /\ selected = A!NoUri
        BY <1>1 DEF A!AutoPeerInit, A!Life
    <2>2. defaultNet \in Networks
        BY <1>1, PeeringAssumption DEF A!AutoPeerInit
    <2>3. /\ fetcher \in [active : BOOLEAN, closed : BOOLEAN, loop : {"off", "idle", "fetching", "ended"}]
          /\ manager \in [active : BOOLEAN, closed : BOOLEAN, loop : {"off", "idle", "adding", "ended"}]
          /\ manager.loop # "adding" /\ policy \in Policy
        BY <2>1, PeeringAssumption
    <2>4. AutoPeerTypeOK
        BY <2>1, <2>2, <2>3 DEF AutoPeerTypeOK
    <2>5. FetcherLife
        BY <2>1 DEF FetcherLife
    <2>6. ManagerLife /\ ClosedInOrder
        BY <1>2, <2>1 DEF ManagerLife, ClosedInOrder
    <2>7. ListsMapped
        BY <2>1 DEF ListsMapped
    <2> QED
        BY <2>4, <2>5, <2>6, <2>7 DEF AutoPeerInv
<1>6. ClientTypeOK
    BY <1>1, <1>2, PeeringAssumption DEF ClientTypeOK, NoLocal
<1> QED
    BY <1>4, <1>5, <1>6 DEF IInv

LEMMA ClientsRest ==
    ASSUME ClientTypeOK, UNCHANGED <<ctlVars, clientVars>>, UNCHANGED inputs \/ Input
    PROVE  ClientTypeOK' /\ Aside /\ UNCHANGED pc
<1>1. UNCHANGED <<jumperCtl, nodeInfo, autoEnabled, pc, local>>
    BY DEF ctlVars, clientVars
<1>2. inputs' \in 0 .. MaxInputs
    BY InputFacts DEF ClientTypeOK
<1> QED
    BY <1>1, <1>2 DEF ClientTypeOK, Aside, Policy

LEMMA EnvironmentKeeps ==
    ASSUME IInv, Environment
    PROVE  IInv'
<1>1. ClientTypeOK' /\ Aside
    BY ClientsRest DEF IInv, Environment
<1>2. ASSUME NEW t \in Targets, J!NotifyTraffic(t), UNCHANGED <<peers, autoPeerVars>> PROVE IInv'
    BY <1>1, <1>2, NotifyTrafficKeeps, AutoPeerFrame DEF IInv
<1>3. CASE /\ \/ \E b \in Bases : LinkChanges(b) \/ OperatorRemoves(b)
              \/ \E u \in Uris : OperatorAdds(u)
           /\ UNCHANGED <<jumperVars, autoPeerVars>>
    BY <1>1, <1>3, LinksChangeKeeps, AutoPeerFrame DEF IInv
<1>4. CASE /\ \/ \E n \in Networks \cup {Nil} :
                    \/ A!SetDefaultNetwork(n)
                    \/ \E s \in Sources \ {Builtin} : A!SetSourceNetwork(s, n)
              \/ \E s \in Sources \ {Builtin} :
                    A!RemoveSourceNetwork(s) \/ A!AddSource(s) \/ A!RemoveSource(s)
           /\ UNCHANGED <<peers, jumperVars>>
    <2>1. PICK srcs \in SUBSET Sources, nets \in Networkings, def \in Networks \cup {Nil} :
              A!Reconfigure(srcs, nets, def)
        BY <1>1, <1>4, NetworksChangeKeeps DEF IInv
    <2>2. AutoPeerInv'
        BY <1>1, <2>1, ReconfigureKeeps DEF IInv
    <2>3. JumperInv'
        BY <1>4, JumperFrame DEF IInv
    <2> QED
        BY <1>1, <2>2, <2>3 DEF IInv
<1> QED
    BY <1>2, <1>3, <1>4 DEF Environment

LEMMA ClientKeeps ==
    ASSUME IInv, NEW c \in Clients, Client(c)
    PROVE  IInv'
BY setJumperKeeps, jumperStartKeeps, jumperStopOrCloseKeeps, jumperStoppedKeeps, setAutoPeerKeeps,
   setPolicyKeeps, autoEnableKeeps, autoStartLoopsKeeps, autoCloseKeeps, fetcherClosedKeeps,
   closeManagerKeeps, managerClosedKeeps, refreshAutoPeerKeeps, refreshedKeeps DEF Client

LEMMA NextIInv == IInv /\ [Next]_vars => IInv'
<1> SUFFICES ASSUME IInv, [Next]_vars PROVE IInv'
    OBVIOUS
<1>1. CASE UNCHANGED vars
    <2>1. UNCHANGED <<peers, jumperVars, autoPeerVars, ctlVars, clientVars, inputs>>
        BY <1>1 DEF vars
    <2> QED
        BY <2>1, ClientsRest, JumperFrame, AutoPeerFrame DEF IInv
<1>3. ASSUME NEW g \in J!Gens, JumperStep(J!Loop(g)) PROVE IInv'
    <2>1. J!Loop(g) /\ UNCHANGED <<autoPeerVars, ctlVars, clientVars, inputs>>
        BY <1>3 DEF JumperStep
    <2> QED
        BY <2>1, LoopKeeps, ClientsRest, AutoPeerFrame DEF IInv
<1>4. ASSUME NEW t \in Targets, JumperStep(Answers(t)) PROVE IInv'
    <2>1. Answers(t) /\ UNCHANGED <<autoPeerVars, ctlVars, clientVars, inputs>>
        BY <1>4 DEF JumperStep
    <2>2. JumperInv'
        BY <2>1, fetchTargetNodeInfoKeeps DEF IInv, Answers
    <2> QED
        BY <2>1, <2>2, ClientsRest, AutoPeerFrame DEF IInv
<1>5. ASSUME NEW u \in Uris, JumperStep(J!linkTimeout(u)) PROVE IInv'
    <2>1. J!linkTimeout(u) /\ UNCHANGED <<autoPeerVars, ctlVars, clientVars, inputs>>
        BY <1>5 DEF JumperStep
    <2> QED
        BY <2>1, linkTimeoutKeeps, ClientsRest, AutoPeerFrame DEF IInv
<1>6. ASSUME AutoPeerStep(ManagerLoop) \/ AutoPeerStep(FetcherLoop) \/ AutoPeerStep(Fetches) PROVE IInv'
    <2>1. (ManagerLoop \/ FetcherLoop \/ Fetches) /\ UNCHANGED <<jumperVars, ctlVars, clientVars, inputs>>
        BY <1>6 DEF AutoPeerStep
    <2>2. ClientTypeOK' /\ UNCHANGED pc
        BY <2>1, ClientsRest DEF IInv
    <2> QED
        BY <2>1, <2>2, ManagerLoopKeeps, FetcherLoopKeeps, AutoPeerLoopsKeepJumper DEF IInv
<1> QED
    BY <1>1, <1>3, <1>4, <1>5, <1>6, ClientKeeps, EnvironmentKeeps DEF Next

THEOREM Invariance == Spec => []IInv
BY InitIInv, NextIInv, PTL DEF Spec

(***************************************************************************)
(* Theorem.  Jumper, autopeer and their controllers keep their types, and  *)
(* a jumper that is stopping is active.                                    *)
(***************************************************************************)
THEOREM TypeCorrect == Spec => []TypeOK
<1>1. IInv => TypeOK
    BY DEF IInv, JumperInv, AutoPeerInv, TypeOK
<1> QED
    BY <1>1, Invariance, PTL

(***************************************************************************)
(* Theorem.  However Start and Stop of the jumper overlap, and whatever    *)
(* the operator, autopeer and the network do to the core's peers meanwhile,*)
(* the jumper holds at most one link to an address its target publishes.   *)
(***************************************************************************)
THEOREM OneJump == Spec => []OneJumpPerTarget
<1>1. ASSUME IInv, NEW t \in Targets PROVE Cardinality(JumpsTo(t)) <= 1
    <2>1. CASE JumpsTo(t) = {}
        BY <2>1, FS_EmptySet
    <2>2. CASE JumpsTo(t) # {}
        <3>1. PICK b : b \in JumpsTo(t)
            BY <2>2
        <3>2. JumpsTo(t) = {b}
            BY <1>1, <3>1 DEF IInv, JumperInv, AtMostOne
        <3> QED
            BY <3>2, FS_Singleton
    <2> QED
        BY <2>1, <2>2
<1>2. IInv => OneJumpPerTarget
    BY <1>1 DEF OneJumpPerTarget
<1> QED
    BY <1>2, Invariance, PTL

(***************************************************************************)
(* Theorem.  When Close of autopeer has returned to every caller, neither  *)
(* of its loops runs, even if a Start had raised the manager's flag and    *)
(* not yet begun the loops when Close came.                                *)
(***************************************************************************)
THEOREM NoLoopLeft == Spec => []NoLoopAfterClose
<1>1. IInv => NoLoopAfterClose
    BY DEF IInv, AutoPeerInv, AutoPeerTypeOK, FetcherLife, ManagerLife, ClosedInOrder, NoLoopAfterClose
<1> QED
    BY <1>1, Invariance, PTL

(***************************************************************************)
(* Theorem.  Whatever fetches are under way while sources and networks are *)
(* reconfigured, a list is offered only for a configured source that has a *)
(* network, and one that arrives late over another network is dropped.     *)
(***************************************************************************)
THEOREM ListsFollow == Spec => ListsFollowNetworks
<1> DEFINE Kept(s) == \/ lists'[s] = lists[s] 
                      \/ lists'[s] \in {NoList, A!networkFor(s, netOf, defaultNet)'}
           Step == \A s \in Sources \ {Builtin} :
                     LET n == A!networkFor(s, netOf, defaultNet)' IN
                     /\ lists'[s] # NoList => s \in order' /\ n # Nil
                     /\ lists'[s] # lists[s] => lists'[s] \in {NoList, n}
<1>1. ASSUME IInv, Next, NEW s \in Sources \ {Builtin} PROVE Kept(s)
    <2>1. CASE UNCHANGED lists
        BY <2>1
    <2>2. ASSUME NEW srcs, NEW nets, NEW def, A!reconcile(srcs, nets, def) PROVE Kept(s)
        BY <1>1, <2>2, reconcileFacts DEF IInv
    <2>3. ASSUME NEW x \in Sources, NEW via \in Networks, A!replaceSourcePeers(x, via),
                 UNCHANGED <<netOf, defaultNet>>
          PROVE  Kept(s)
        <3>1. lists'[s] = lists[s] \/ lists'[s] \in {NoList, A!networkFor(s, netOf, defaultNet)}
            BY <1>1, <2>3, replaceFacts DEF IInv
        <3> QED
            BY <2>3, <3>1 DEF A!networkFor
    <2>4. ASSUME NEW c \in Clients, Client(c) PROVE Kept(s)
        <3>1. CASE \E ok \in BOOLEAN : refreshed(c, ok)
            <4>1. PICK ok \in BOOLEAN : refreshed(c, ok)
                BY <3>1
            <4>2. local[c].source \in Sources /\ (local[c].source # Builtin => local[c].via \in Networks)
                BY <1>1, <4>1 DEF refreshed, IInv, ClientTypeOK
            <4> QED
                BY <2>1, <2>2, <2>3, <4>1, <4>2 DEF refreshed, A!FetchNow
        <3>2. CASE setAutoPeer(c) \/ autoStartLoops(c)
            BY <2>1, <2>2, <3>2 DEF setAutoPeer, autoStartLoops, A!StartLoops, A!SetSources, A!Reconfigure,
               autoPeerVars
        <3>3. CASE UNCHANGED lists
            BY <3>3
        <3> QED
            BY <2>4, <3>1, <3>2, <3>3 DEF Client, setJumper, jumperStart, jumperStop, jumperClose,
               jumperStopped, setPolicy, autoEnable, autoClose, fetcherClosed, closeManager, managerClosed,
               refreshAutoPeer, autoPeerVars, A!SetConfig, A!StartFlag, A!CloseFetcher, A!CloseManager,
               A!fetchVars
    <2>5. CASE Environment
        <3>1. CASE UNCHANGED autoPeerVars
            BY <3>1 DEF autoPeerVars
        <3> QED
            BY <2>2, <2>5, <3>1 DEF Environment, A!SetDefaultNetwork, A!SetSourceNetwork,
               A!RemoveSourceNetwork, A!AddSource, A!RemoveSource, A!Reconfigure
    <2>6. CASE AutoPeerStep(FetcherLoop) \/ AutoPeerStep(Fetches)
        <3>1. ASSUME NEW item \in fetchList, NEW ok \in BOOLEAN, A!fetchSource(item, ok) PROVE Kept(s)
            <4>1. item.source \in Sources /\ item.via \in Networks
                BY <1>1 DEF IInv, AutoPeerInv, AutoPeerTypeOK
            <4> QED
                BY <2>1, <2>3, <3>1, <4>1 DEF A!fetchSource
        <3> QED
            BY <2>6, <3>1 DEF AutoPeerStep, FetcherLoop, Fetches, A!fetchBegins, A!fetchEnds, A!fetcherEnds
    <2>7. CASE AutoPeerStep(ManagerLoop)
        BY <2>7 DEF AutoPeerStep, ManagerLoop, A!checkNow, A!addSelected, A!managerEnds, A!fetchVars
    <2>8. ASSUME UNCHANGED autoPeerVars PROVE Kept(s)
        BY <2>8 DEF autoPeerVars
    <2> QED
        BY <1>1, <2>4, <2>5, <2>6, <2>7, <2>8 DEF Next, JumperStep
<1>2. ASSUME IInv, IInv', [Next]_vars PROVE [Step]_vars
    <2>1. CASE UNCHANGED vars
        BY <2>1
    <2>2. CASE Next
        <3>1. \A s \in Sources \ {Builtin} : Kept(s)
            BY <1>1, <1>2, <2>2
        <3>2. ListsMapped'
            BY <1>2 DEF IInv, AutoPeerInv
        <3> QED
            BY <3>1, <3>2 DEF ListsMapped
    <2> QED
        BY <1>2, <2>1, <2>2
<1>3. IInv /\ IInv' /\ [Next]_vars => [Step]_vars
    BY <1>2
<1> QED
    BY <1>3, Invariance, PTL DEF Spec, ListsFollowNetworks
=============================================================================
