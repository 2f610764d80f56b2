# Verification of ygg

TLA+ models of [asciimoth/ygg](../src/README.md), a Yggdrasil node written in Go:
the library `ygglib` and the daemon `yggd`. The modules model the parts that carry
the program's own logic and run concurrently; TLC checks them on small instances
and TLAPS proves theorems about them for every instance. `PROJECT.json` lists the
components, the runs, the source lines behind every definition, the hazards and the
theorems.

## The system

| component | state | operations | who it talks to |
|---|---|---|---|
| transport manager (`transport/manager.go`) | transports, network mappings, default network, version, tracked resources | RegisterTransport, MapNetwork, SetDefaultNetwork, Dial, Listen, Close | called by links (dial, listen), admin and the daemon (mappings) |
| links (`core/link.go`) | `_links`: URI to link state; one goroutine per dialled peer, one per accepted connection | add, remove, listen, shutdown, kick | manager for sockets, ironwood `HandleConn`, core actor for allowed keys |
| handshake (`core/version.go`) | none | encode, decode, check | links |
| protocol handler, nodeinfo (`core/proto.go`, `core/nodeinfo.go`) | request tables by key, timers, callbacks | send request, handle request, handle response, cleanup | ironwood packets, admin |
| tun adapter (`tun/tun.go`, `tun/iface.go`) | supervisor state, current session, bounded channels | Attach, Replace, Detach, Stop, packets, reports | ipv6rwc, device, firewall |
| firewall (`tun/firewall.go`) | flow table with deadlines, allowed ports | AllowOutgoing, AllowIncoming, SetConfig | tun adapter |
| key store (`ipv6rwc/ipv6rwc.go`) | key, address and subnet tables, one buffered packet per unknown address, timers | send, update, timeout, read, write | core lookups, tun adapter |
| address (`address/address.go`) | none | AddrForKey, SubnetForKey, GetKey | everyone |
| jumper (`jumper/manager.go`) | targets, owned links, life cycle flags and channels | Start, Stop, Close, check, cleanup | core peers, nodeinfo |
| autopeer (`autopeer/*.go`) | sources, their peers, networks; manager rounds | fetch, reconcile, checkNow | core peers |
| multicast (`multicast/*.go`) | interfaces, listeners, timer | announce, listen, AnnounceNow | links (listen, call) |
| admin socket (`admin/*.go`) | handlers, listener | dispatch, Stop, setTransport | everything above |
| sockstun, outproxy (`sockstun/*.go`, `outproxy/*.go`) | open connections, wait group | serve, Close | tun adapter |
| tun controller (`yggd/yggd/main.go`) | active device, firewall configuration | Attach, Detach, SetFirewall | admin, tun adapter |

Concurrency comes in three styles: a mutex with work done after unlocking (transport
manager, key store, jumper, autopeer), actors of the `phony` library with goroutines
that block on them (links, core, proto, nodeinfo, multicast), and a supervisor with
channels (tun). What is hard everywhere is the same: a value read in one critical
section is used in a later one, cleanup that runs for an object somebody else has
taken over, and shutting down while something is in progress. The properties that
make each component correct:

* manager: no socket is handed out on a network the tables do not select, every
  change finds all it strands, nothing leaks in the retry loop;
* links: one connection per link with the handler, every socket and every entry has an
  owner, a peer stays configured until it is removed, a removal and a stop take effect;
* tun: packets go to the current session only, an old session cannot detach a new one,
  the node's MTU is that of the session, Stop ends every goroutine;
* firewall: an unsolicited packet passes only to an allowed port, and an answer
  passes for as long as its flow lives;
* key store: an entry is deleted by its own timer only, no packet waits for a destination
  that has an entry or that belongs to a known key alone, nothing is kept for ever;
* jumper, autopeer: connected links are left alone, a target has one link of the jumper,
  lists come over the network of their source, what can be tried is tried,
  Start and Stop can be called in any order from any goroutine;
* proto: an answer reaches the request it belongs to or none;
* SOCKS devices: a name of a protected zone is never resolved, a mesh address never leaves
  by the default proxy, Close leaves nothing running;
* daemon: what is told to stop stops as far as it can, listeners follow the interfaces.

`PROJECT.json` lists the hazards with their lines.

## Modules

| module | models | builds on |
|---|---|---|
| `TransportManager` | transport manager | |
| `Links` | links, Core.Stop | |
| `Firewall` | packet filter | |
| `Tun` | supervisor, sessions, reports | extends Firewall |
| `TunPromise` | what the adapter promises its callers (abstract) | |
| `TunController` | daemon's controller and the admin handlers for TUN and firewall | extends Tun, implements TunPromise |
| `Peers` | the core's peer table as its users see it | |
| `Jumper`, `AutoPeer` | the two peer managers | extend Peers |
| `Peering` | both managers, their admin controllers, the operator | instances of Jumper and AutoPeer |
| `KeyStore` | IPv6 read-write core | |
| `Requests` | protocol handler and nodeinfo | extends KeyStore |
| `Sessions` | Core.ReadFrom, path notifications, both of the above | extends Requests |
| `Proxy` | sockstun, outproxy, SOCKS part of the controller | |
| `Multicast`, `AdminSocket` | discovery, admin API | |
| `Daemon` | start-up and shutdown of `main`, local DNS | extends Multicast, AdminSocket |

An `MC` module gives the constants of a run their values, a `Proofs` module holds theorems.
Definitions whose name ends in an underscore and a word (`learn_KeepsBuffers`) are
the faulty versions that show each property can fail; nothing else refers to them.

### TransportManager

One step is one critical section of `m.mu`, or one call made with the lock released.
`closed`, `version`, `defaultNet`, `transports` and `mappings` are the fields of
`Manager`. `sock[s]` is a socket together with its entry in `m.resources`: `raw`
(made by the transport or accepted, not registered), `open` (registered), `closing`
(unregistered by the winner of `once.Do`, socket below still open), `free`. Its field
`late` is history: the connection was accepted when its listener was already on the list
of a `closeAll`. `call[p]`
is a Dial or Listen in progress with its snapshot, `admin[a]` the rest of a
`closeAll`. The actions bear the names of the functions; a function that releases the
lock in the middle is several actions:

* `MapNetwork`, `UnmapNetwork`, `SetDefaultNetwork`, `Close`: the critical section.
  `CloseNext` and `CloseReturns` are the loop of `closeAll`.
* `StartCall`, `snapshotFor`, `TransportMakes` or `TransportFails`, `commit` or
  `retry`: `DialWithOptions` and `ListenWithOptions`.
* `AcceptUnderlying`, `registerAcceptedConn`: `trackedListener.Accept`.
* `UserClose`, `CloseUnderlying`: `Close` of a tracked resource.

Hosts, patterns, networks and schemes are model values; `path.Match` and
`patternScore` are constants, so the proofs hold for every matching relation and every
score. Two patterns may tie, and then Go's map order decides: `Resolve` is the set of
the possible results. Calls that return an error without changing anything (nil
arguments, a bad pattern, a closed manager, a taken scheme) are no steps.
`MaxVersion` bounds the reconfigurations in the guards.

### Links

`_links` and `link` are the map and the `*link` objects; `link[k].pc` is the dialler
goroutine of that object, `own` its local connection, `conn` the shared field `_conn`,
which an accepted connection may set as well. `inbound[c]` is the goroutine of an
accepted connection. One step is one `phony.Block`, or one blocking call between two
blocks. `Addr[c]` is the URI under which an accepted connection is filed: the
listener's URI with the remote address; the module takes any assignment, shared ones (the
unnamed clients of a UNIX socket) and dialled ones included. The handshake is an outcome
(success, ErrLinkToSelf, any other error), and `HandleConn` is ironwood's: it returns
when the connection or the PacketConn is closed, or when the remote side wants it to.
`panicked` is a panic, after which nothing happens. `listen` is two actions, as the code
opens the socket and then registers it in a block of its own that does not look at the
stage: `listenRegisters` may come after `shutdown`, and nobody closes the listener then.
`listenFails` is the error path between the two, which forgets the socket. `link[k].removed`
is history: RemovePeer found the link when no dial was in progress. One listener stands for all, and
the URL options, error texts and byte counters are left out.

### Firewall, Tun, TunController

`fw`, `flows` and the clock are the filter's; a packet is its chain of headers, its
endpoints and its size. `LastHeader` is the walk over extension headers, and
`AllowOutgoing`, `AllowIncoming` return the decision and the next flow table. `used` is a
history variable: when a flow was last used since the local side opened it, kept without
looking at `flows`, so that `NoUnsolicited` compares the filter with its purpose and not
with itself.

In `Tun` a device stands for its session, as it is handed over once. A request waits in
`call` until the supervisor takes it from `controlCh` or `stopCh` is closed. `loop[d]` are
the three goroutines of a session; a loop with a report in hand is blocked on `reportCh`,
whose capacity is `ReportCap`. `readPacket` and `forwardPacket` are apart because a detach
may fall between the look at `currentSessionID` and the write to the core; `routePacket` and
`enqueuePacket` because the firewall's lock is released between decision and queue, so that
an admin handler may install another configuration while the supervisor has the packet in
`hand`. A device has an MTU of its own (`DeviceMTU`), which `getSupportedMTU` raises to the
least one; `SetMTU` keeps what it is given within the limits of the core, and MTU events
carry any of `MTUs`. `TunController`
adds the admin calls: a device is created, the firewall configuration computed from the
request's overrides (`Named`), saved and replaced, the adapter asked, and on failure both
undone, with nothing that serialises two calls; `AttachRejected` is a request whose firewall
fields do not parse, after its device was created.

`TunPromise` says what callers may rely on: one device at a time, each call takes effect
once at one moment or is refused for a reason, a device is dropped only by a call or after
it has itself failed, nothing is attached after stop. `TunController` implements it
(`KeepsPromise`) with `owner <- current` and
`failed <- current # NoDevice /\ device[current] = "broken"`.

### Peers, Jumper, AutoPeer, Peering

The core knows a peer by its URI without the query while the managers keep the whole URI
(`uriConfigured`, `peerUpWithURI`), and much of what they decide hangs on that. `Jumper`
numbers its loops by `gen`, as every Start makes new channels; `leave` and `closeDone` are
the two halves of the deferred function of `loop`. `AutoPeer` remembers over which network
each list was fetched. `Peering` adds the controllers: `setJumper` and `setAutoPeer` go
through their fields, locks and manager calls in the order of `Apply`. Each manager
may be on or off at the start, both together too. To bound the instance the admin requests, the
traffic and the changes of networks of one behaviour concern either jumper or autopeer (`focus`);
the loops of both, the links and the operator act in every behaviour.

### KeyStore, Requests, Sessions

Info and buffer objects have identities, since a timer function compares pointers. A timer
is `armed`, then `fired` (its function waits for the mutex, and Stop comes too late), then
has run. `Requests` has the pending request of each kind and key, the one-minute timer, and
the channel of each caller; datagrams are lost, duplicated and delayed, so any request that
was ever sent may be answered at any time. The halves share no variable, and the inputs of
one behaviour are all traffic or all calls (`load`). `update` of a known key does not file the key's subnet again when another
key's expiry has removed it; packets to such a shared subnet then wait although a key of it is
known, and `NoPacketWaits` speaks of what belongs to a key alone (`Sole`).

### Proxy

A SOCKS connection is accepted, registered (`addConn`), asks, and is resolved, routed or
looked up in the steps in which the code takes its locks. `guarded` remembers whether the
name was in a configured zone at the moment `resolveAddress` looked. A table of rules is a
constant; matching an address is membership. `SetProxies` and `SetDNS` change the device, and
`SaveConfig` the configuration later and under no common lock: of two overlapping requests the device may keep one
and the configuration the other. Nothing in the documents says they agree, and they are not compared.

### Multicast, AdminSocket, Daemon

`os` and `seen` map the interfaces that are up to their link-local addresses, of which there
may be none. `announceOnce` is one run of `_announce` on the actor: the interfaces are read,
listeners whose address is gone are closed, missing ones opened. `Daemon` walks through `Steps`, the order in
which `main` builds and stops the parts, while the goroutines of parts that already run go on.
Jumper, autopeer, TUN and core are one step of it each: their own stopping is in the modules above.
Main waits in `autopeer.Close` for the fetcher's loop, and so for a download that has no
time-out (`fetching`). The others wait for nothing without a limit: the jumper's loop for NodeInfo
requests with a time-out, `core.Stop` for actors; `tun.Stop` returns when the supervisor has answered,
and the device is closed by a goroutine of its own (tun.go:366), so that the clients of a SOCKS
device do not hold up main.

## Runs

| run | question | result |
|---|---|---|
| `transport` | a commit uses a current snapshot, every registered socket is routed by the tables or about to be closed, a change collects all it strands, accepted connections follow their listener, the retry loop leaks no socket, with two overlapping administrators | holds |
| `transport_wrong_network` | the doc comment "no resource survives on the wrong network" | violated |
| `links` | no entry without a goroutine, one handler per link, no orphaned socket, peers stay configured, removal and Stop end connections and goroutines, with connections that share a URI | holds |
| `links_shared` | "This prevents duplicate peerings" and "abort this one" | violated |
| `links_remove_dialling` | a removal during a dial disconnects the peer | violated |
| `tun_control` | no device leaks, the node's MTU is the session's, nothing unsolicited passes, the adapter implements its promise, calls are answered, sessions end | holds |
| `peering` | one jump per target, nothing runs after Close, lists only over the mapped network | holds |
| `peering_progress` | targets with traffic are tried, autopeering makes progress | holds |
| `jumper_restart` | "Stop stops the manager loop" with a Start from another connection | violated |
| `sessions` | no packet waits for a destination that has an entry or whose one key is known, answers reach their request once, timers delete only what is theirs, everything expires | holds |
| `proxy` | zones and mesh addresses are routed as promised while routing changes, Close returns and leaves nothing | holds |
| `daemon` | listeners follow the interfaces, shutdown completes unless a download never ends | holds |

The violated runs are the findings of `PROJECT.json`, each with the comment it
contradicts. Several properties hold only with an exception that their comment names and
that the code really has:

* `OneHandlerPerLink`, `NoOrphanConn` and `PersistentStaysConfigured` hold when no connection is
  accepted under a URI that is dialled; connections may share URIs among themselves. When a
  dialled URI is shared, the aborted dial is never closed (link.go:343, `links_shared`), and the peer's
  entry goes with the accepted connection (link.go:529). `OneHandlerPerLink` counts the
  connections of a dialled URI, and those of one link object: a dropped duplicate deletes the live
  connection's entry (link.go:528), and the next one under that URI gets a link of its own
  (`links_shared` with `Addr <- UnixAddr`);
* `RemoveTakesEffect` is about removals that do not come while a dial is in progress
  (`links_remove_dialling` shows the others), and `StopEndsLinks` about diallers and connections: a
  listener that registers after `shutdown` is not ended. Nor is anything after RemovePeer of an
  accepted connection's URI: its state has no cancel function (link.go:499-503), and the call at
  link.go:403 panics (`removeIncoming`);
* `AcceptedFollowsListener`: a connection registered when its listener was already on the list of
  a `closeAll` stays (`transport_wrong_network`);
* `OneJumpPerTarget`, `AutoPeerProgress`: a URI with a query is not found among the core's peers,
  so that the jumper does not count a link to an address published only in that form
  (and, although "existing connected jumper links are left alone", jumper/manager.go:129, drops it
  while it is up once its LinkTimeout has passed); and one candidate that cannot be added blocks
  the others;
* `NoPacketWaits`: packets to a subnet that several keys have may wait though one is known;
* `ShutdownCompletes`: a download of a peer list that never ends keeps main in `autopeer.Close`;
* `CloseReturns`: a connection accepted before Close and registered after it looked keeps Close
  waiting for as long as its client stays;
* `SessionsEnd`: after Stop nobody reads the reports, and a loop may wait with one for ever;
* firewall settings: an attach that fails puts back the configuration it saved, over one that
  another call has installed meanwhile (main.go:785).

**Bounds.** Manager: two sockets are a listener and a connection accepted from it, or
two resources of different routes (`transport_wrong_network` has a third one to hold up
`closeAll`); in `transport` two administrators, four reconfigurations (one of them registers the
transport) and three patterns, of which one is more specific and two tie, give every way a mapping can be
taken over and given back, two overlapping `closeAll`, and changes between snapshot and
commit; a network and none are the values a mapping may have. Links: in `links` two connections
share a URI, as those of a UNIX listener do, so that
one is the live one and the other its duplicate or a dialled one; two link
objects are a dialled peer and an incoming link; the URIs passed to RemovePeer are the
peer's and the shared one. In `links_shared` three connections come from the address of the peer. In both, names are used again when nothing refers to
them, so behaviours of any length are covered, except for the reconfigurations of the manager.

The other modules bound what comes from outside with `MaxInputs`; what follows from it inside
is not bounded. `tun_control`: two clients, two devices and three inputs are two overlapping
attaches or a replace with a failure and a packet; channels of capacity one are full as soon
as anything waits. One device has more than the core's largest MTU and one less than the
least, and MTU events carry either; a request overrides no firewall field or two. Four packets are one out, its answer behind an extension header, its FIN, and a part of a
datagram; two ticks reach the edge of a TTL of one. `peering`: four URIs are two good ones, one with a
query that is the same link as one of these, and one that is refused, and the target publishes
all four; two starts of the jumper are a restart; `peering_progress` has two inputs in place of
three, enough to start a manager that is off and to give it traffic or a peer. `sessions`: two keys with
a common subnet; four inputs let one key take the entry over, expire, and the other be
refreshed, or three questions overlap with an answer. `proxy`: two connections, two administrators, a
protected, a mesh and a configured zone, a table without rules, one with, one that is refused. `daemon`: one
interface that goes, comes back and has one address, another, both or none; two admin connections; four inputs.

Symmetry is used in runs without liveness properties only, over names of sockets, connections,
callers, administrators and link objects. `CHECK_DEADLOCK FALSE` is there
where the system may stop: `links` and `links_shared`, because RemovePeer can reach the panic; the runs with
`MaxInputs`, because the environment may have nothing more to do, and the daemon may have exited.

**Fairness.** Manager: none, as all its properties are safety. Links: runnable goroutines run
(behaviours that end in a panic are left aside), dials and
handshakes end (connect timeout, the six-second deadline), the backoff timer fires, and
`HandleConn` returns once its connection or the PacketConn is closed. Nothing is
assumed of API callers or of the remote side. Tun: the supervisor takes what stays ready in its select, the
goroutine of `session.stop` runs, the packet in hand is queued or dropped, a report is sent when there is room; nothing is assumed of
devices and clients. Peering: the loops run (their timers wake them), NodeInfo requests
end, as they have a time-out, and a client goes on with the request it has begun. A fetch has none
(a background context and a client without Timeout, fetcher.go:271 and 418), so nothing is assumed of fetches nor
of a client that waits for one in refresh. Sessions: timers fire, their
functions get the mutex, actors work their inboxes off. Proxy: serve, Close and the handler of
a closed connection go on; clients may stay for ever. Daemon: main and the goroutines go on;
nobody has to stop the daemon, and no download has to end.

## Proofs

The manager: `TransportManagerProofs` proves, for every set of sockets, callers, administrators,
hosts, patterns and networks and every matching relation, all safety properties of the
runs above except the violated one. The inductive invariant is

    IInv == TypeOK /\ CallOwnsSocket /\ ChildOfListener
            /\ SnapshotIsCurrent /\ RoutedOrClosing
            /\ AcceptedFollowsListener /\ NoLeakedSocket

`RoutedOrClosing` alone is not inductive: `commit` registers what a call holds, so the
call's snapshot must be current (`SnapshotIsCurrent`), its socket must be raw, on the
snapshot's network and held by no other call (`CallOwnsSocket`), and an accepted
connection must have host, network and mapping of its listener for `collectClosersLocked`
to find it (`ChildOfListener`). The central lemmas say what a change of the tables does
to `Resolve`: a host that the changed pattern does not match resolves as before, and
removing a pattern changes only the hosts that resolved to it. The assumptions are
`ConstantsAssumption`: the types of the constants, and that the special values are
different from the others.

The links: `LinksProofs` has two parts. For every assignment of URIs to accepted
connections, shared and dialled ones included, it proves type correctness and
`NoGhostEntry`, from

    OwnedInv == TypeOK /\ EntryAtInfo /\ InboundAtInfo /\ NoGhostEntry

`NoGhostEntry` alone is not inductive: a goroutine deletes the entry of the URI it knows,
so the entry of a state must be filed under the URI of that state (`EntryAtInfo`), and an
accept goroutine's state must have the URI of its connection (`InboundAtInfo`). The other
three safety properties are proved under the hypothesis `DialledApart`, which `links`
satisfies: no connection is accepted under a URI that is dialled. Any number of
accepted connections may share a URI, so that duplicates are dropped in the behaviours the
theorems are about; without the hypothesis they are false, as `links_shared` shows. The invariant

    ApartInv == OwnedInv /\ (\A k \in LinkStates : LinkOK(k))
                /\ NoOrphanConn /\ HandledIsHeld

says that a link that has a dialler was made by add and is the entry of its URI, that
`_conn` is the dialler's own connection from the block that installs it to the block that
drops it (so that the branch which gives up a dialled connection is never taken), that a
persistent dialler is on its way out only when its context has ended, and that a connection
which an accept goroutine has given to the handler is the one its state holds
(`HandledIsHeld`): two handlers of one link would hold the same connection.

The sessions: `SessionsProofs` proves type correctness, `NoPacketWaits`,
`AnswersReachTheirRequest` and `OnlyOwnTimer` for every set of keys and every assignment
of addresses and subnets to them, shared ones included, from

    IInv == KeyInv /\ RequestInv

Objects are numbered by the input that makes them, so the strengthening says that what is
in use is older than the next input (`ObjectsInUse`, `RequestsInUse`), that a buffer
belongs to the destination under which it is filed, that the info of a known key is the
entry of all that belongs to the key alone (`KnownAreFiled`), and that a pending request is filed
under its own kind and key (`PendingFiled`): a new request is then never confused with an
old one, and an answer finds the channel of the request that asked. The assumptions are
those of the module on its constants.

The SOCKS devices: `ProxyProofs` proves type correctness, `RoutingPromises` and
`ClosedIsQuiet` for every set of hosts, tables, zones, connections and admin clients, from

    IInv == TypeOK /\ (\A c \in Conns : Good(conn[c]))
            /\ AcceptedIsServed /\ LocalOK /\ ClosedIsQuiet

`Good` adds to the promises what a connection knows at each stage: until it is resolved
its address is the one that was asked for, and it has a route only at the end. No admin
call touches it, which is why the calls may fall anywhere. `ClosedIsQuiet` needs
`AcceptedIsServed`: `serve` is still running while it holds a connection that it has not
registered. `RouteCases` shows that the first matching rule exists (rules are numbered by
naturals). `ProxyNames` assumes that no proxy is both a rule's and a default's in any two
tables; with shared names the proxy alone would not tell which of them chose it.

The TUN adapter: `TunControllerProofs` proves type correctness, `NoLeakedDevice`,
`MTUInStep`, `NoUnsolicited` and the refinement `KeepsPromise` for every set of clients,
devices, packets and configurations and all capacities, from

    IInv == FilterInv /\ SupervisorInv /\ QueueTypeOK /\ OwnerInv

`FilterInv` links the flow table to the history (`FlowsInUse`): what the table keeps was
used, and expires no later than one TTL after that use; without it an entry could let
anything pass. `Parsed` shows that the walk over the headers finds the transport of a whole
packet. `OwnerInv` says for each device and each client who answers for the device at each
stage of a request (`DeviceOK`, `ClientOK`), that two requests never hold the same device
(`DevicesApart`), and that an error is reported only of a device that has failed
(`ErrorsReal`), which is what the refinement needs to show that a session is never dropped
without reason. The refinement is proved in the usual two halves: initial states map to
initial states, and each step of the adapter, the sessions or a client to one of
`TunPromise` or to a stutter. Assumptions: `FirewallAssumption` and `TunAssumption` (types,
and special values different from the others), and `ChainAssumption`: only an extension
header has a header behind it, and only a fragment header says that the packet is a part,
both facts of the packet format; `NamedAssumption` gives the type of the overrides.

The peers: `PeeringProofs` proves type correctness, `OneJumpPerTarget`,
`NoLoopAfterClose` and `ListsFollowNetworks` for every set of URIs,
targets, sources, networks, policies and clients, from

    IInv == JumperInv /\ AutoPeerInv /\ ClientTypeOK

A second link to a target could come from a second loop, or from a loop that adds one after
it looked. `JumperInv` excludes the first by `OneLoop`: a loop that works is that of the
current generation, and the manager is active; an older loop has at most `m.done` still to
close. It excludes the second by `AddingFirst`: while a loop is adding there is no link to
the target yet, which holds when `checkTarget` decides because it knows all the published
addresses (`AddressesKnown`, `LinksKnown`), and afterwards because nobody else adds links
of the jumper. `NoLoopAfterClose` rests on the order in which Close works (`ClosedInOrder`):
whoever closes the manager has seen the fetcher ended, and a manager that is closed and
still active has somebody who waits for it. A Start between its two halves is covered
because the controller's lock admits one at a time and the manager's loop is off until then
(`ManagerLife`). `PeeringAssumption` gives the types of the constants, at least one network
and one start of the jumper, and keeps `Nil` and `NoList` apart from the networks.

The daemon: `DaemonProofs` proves `ListenersFollowInterfaces` for every set of interfaces
and addresses, and two statements about main's shutdown that no run checks:
`QuietOnceStopped`, that what a step stopped is not running and stays so, and
`NothingBegins`, that a stopped admin socket accepts nothing and a stopped discovery reads
no beacon and opens no listener. The invariant

    IInv == MainTypeOK /\ ListenersFollowInterfaces /\ StartedInOrder /\ QuietOnceStopped

adds what the start-up has brought up by each step (`StartedInOrder`). It is inductive
because main passes each step once and the goroutines beside it, which may act between any
two steps, never open a listener of the admin socket or set `running`.

Only model-checked: liveness under fairness, which TLAPS does not reach (`RemoveTakesEffect`, `StopEndsLinks`, `CallsAnswered`, `SessionsEnd`, `TargetsTried`,
`AutoPeerProgress`, `EverythingExpires`, `CloseReturns`, `ShutdownCompletes`), and the four
violated statements. Every invariant and every action property that a run shows to hold is
also the statement of a theorem.

## Plan

Done: every component that keeps state of its own and runs concurrently has a module and a
run; the safety properties of all runs, and the refinement of TunPromise, are proved. Next:

1. An abstract specification of the transport manager's registry and of a peering, and the
   proof that TransportManager and Links implement them.
2. The bit layout of addresses and the handshake message as operators, checked against
   their reference definitions.
3. Links over TransportManager in place of its abstract dial and listen.

## Not modelled

Transports below the manager (TCP, TLS, QUIC, WebSocket, UNIX sockets), tun drivers,
SOCKS and TLS libraries, ironwood's routing: external, seen by the modelled code as
outcomes. Configuration, logging, command-line tools, the web front end, the handshake
message and the bit layout of addresses: parsing, formatting and arithmetic without
concurrent state. The JSON documents of the admin API, of peer lists and of NodeInfo are reduced to what the code decides from them.
