------------------------------ MODULE Requests ------------------------------
(***************************************************************************)
(* Questions to remote nodes: getSelf, getPeers and getTree of the         *)
(* protocol handler and getNodeInfo of nodeinfo.  A call posts its request *)
(* to the actor, which replaces the pending request of the same kind and   *)
(* key, and waits six seconds on a channel of capacity one.  A pending     *)
(* request is deleted after a minute, long after its caller has left.      *)
(* Requests and responses travel in datagrams that are lost, duplicated    *)
(* and delayed: every request that was ever sent may be answered late.     *)
(***************************************************************************)
EXTENDS KeyStore

CONSTANT Debug       \* "self", "peers" and "tree", which are handled alike

Kinds == Debug \cup {"nodeinfo"}

VARIABLES
    call,        \* request -> what its caller asked for, and how far it is
    pending,     \* selfRequests, peersRequests, treeRequests and callbacks
    age,         \* request -> state of its one-minute timer
    chan,        \* request -> what its channel holds
    asked        \* requests that reached the wire

requestVars == <<call, pending, age, chan, asked>>

RequestsInit ==
    /\ call = [r \in Ids |-> [at |-> "none", kind |-> None, key |-> None]]
    /\ pending = [kind \in Kinds |-> [k \in Keys |-> None]]
    /\ age = [r \in Ids |-> "none"] /\ chan = [r \in Ids |-> {}]
    /\ asked = {}

(* debugRemoteGet... and getNodeInfo post the request to the actor. *)
ask(kind, k) ==
    /\ call' = [call EXCEPT ![new] = [at |-> "posted", kind |-> kind, key |-> k]]
    /\ UNCHANGED <<pending, age, chan, asked>>

(* sendGet...Request stops the timer of the request it replaces; the      *)
(* callback that _addCallback replaces is just forgotten.                 *)
sendRequest(r) ==
    LET kind == call[r].kind
        k == call[r].key IN
    /\ call[r].at \in {"posted", "left"} /\ age[r] = "none"
    /\ call' = [call EXCEPT ![r].at = IF @ = "posted" THEN "waiting" ELSE "gone"]
    /\ age' = [q \in Ids |-> IF q = r THEN "young"
                             ELSE IF q = pending[kind][k] /\ age[q] = "young" THEN "stopped"
                             ELSE age[q]]
    /\ pending' = [pending EXCEPT ![kind][k] = r]
    /\ asked' = asked \cup {<<kind, k>>}
    /\ UNCHANGED <<chan, inputs>>

handleResponse_Keeps(kind, k) ==
    LET r == pending[kind][k] IN
    /\ r # None
    /\ chan' = [chan EXCEPT ![r] = @ \cup {[kind |-> kind, from |-> k, nth |-> new]}]
    /\ UNCHANGED <<pending, age>>

(* _handleGet...Response and _callback: the callback sends on the channel. *)
handleResponse(kind, k) ==
    LET r == pending[kind][k] IN
    /\ r # None
    /\ chan' = [chan EXCEPT ![r] = @ \cup {[kind |-> kind, from |-> k, nth |-> new]}]
    /\ pending' = [pending EXCEPT ![kind][k] = None]
    /\ age' = [age EXCEPT ![r] = IF @ = "young" THEN "stopped" ELSE @]

handleProto(kind, k) ==
    /\ <<kind, k>> \in asked
    /\ handleResponse(kind, k) \/ (pending[kind][k] = None /\ UNCHANGED <<chan, pending, age>>)
    /\ UNCHANGED <<call, asked>>

(* The minute is over; the caller waited six seconds of it. *)
grows(r) ==
    /\ age[r] = "young" /\ call[r].at = "gone"
    /\ age' = [age EXCEPT ![r] = "old"]
    /\ UNCHANGED <<call, pending, chan, asked, inputs>>

dropPending(r) ==
    pending' = [pending EXCEPT ![call[r].kind][call[r].key] = IF @ = r THEN None ELSE @]

(* The function of a debug request's timer reaches the actor. *)
timerDeletes(r) ==
    /\ age[r] = "old" /\ call[r].kind \in Debug
    /\ dropPending(r) /\ age' = [age EXCEPT ![r] = "stopped"]
    /\ UNCHANGED <<call, chan, asked, inputs>>

(* nodeinfo looks for old callbacks every thirty seconds. *)
cleanup ==
    LET old == {r \in Ids : age[r] = "old" /\ call[r].kind = "nodeinfo"} IN
    /\ old # {}
    /\ pending' = [pending EXCEPT !["nodeinfo"] =
          [k \in Keys |-> IF pending["nodeinfo"][k] \in old THEN None ELSE pending["nodeinfo"][k]]]
    /\ age' = [r \in Ids |-> IF r \in old THEN "stopped" ELSE age[r]]
    /\ UNCHANGED <<call, chan, asked, inputs>>

(* The caller takes its answer, or gives up after six seconds. *)
answered(r) ==
    /\ call[r].at = "waiting" /\ chan[r] # {}
    /\ call' = [call EXCEPT ![r].at = "gone"]
    /\ UNCHANGED <<pending, age, chan, asked, inputs>>

timesOut(r) ==
    /\ call[r].at \in {"posted", "waiting"}
    /\ call' = [call EXCEPT ![r].at = IF @ = "posted" THEN "left" ELSE "gone"]
    /\ UNCHANGED <<pending, age, chan, asked, inputs>>

-----------------------------------------------------------------------------
CallRecord ==
    [at : {"none", "posted", "left", "waiting", "gone"},
     kind : Kinds \cup {None}, key : Keys \cup {None}]

Responses == [kind : Kinds, from : Keys, nth : Ids]

RequestsTypeOK ==
    /\ call \in [Ids -> CallRecord] /\ chan \in [Ids -> SUBSET Responses]
    /\ pending \in [Kinds -> [Keys -> Ids \cup {None}]]
    /\ age \in [Ids -> {"none", "young", "old", "stopped"}]
    /\ asked \subseteq Kinds \X Keys

(***************************************************************************)
(* A response goes to one request, of the kind and the key that it answers, *)
(* and a request gets one at most: its channel of capacity one is empty    *)
(* while it is pending, so the callback never blocks the actor, however    *)
(* requests are repeated and responses duplicated or late.                 *)
(***************************************************************************)
AnswersReachTheirRequest ==
    /\ \A r \in Ids : \A m \in chan[r] : m.kind = call[r].kind /\ m.from = call[r].key
    /\ \A r \in Ids, q \in Ids : r # q => chan[r] \cap chan[q] = {}
    /\ \A kind \in Kinds, k \in Keys : pending[kind][k] # None => chan[pending[kind][k]] = {}
=============================================================================
