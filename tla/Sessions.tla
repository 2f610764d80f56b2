------------------------------ MODULE Sessions ------------------------------
(***************************************************************************)
(* What a node does with the packets of its sessions: Core.ReadFrom hands  *)
(* protocol messages to the protocol handler and returns traffic to the    *)
(* key store, which also hears of new paths from the router.               *)
(***************************************************************************)
EXTENDS Requests

(* The two halves share no state: to bound the instance, the inputs of one *)
(* behaviour are all traffic or all calls and their answers.               *)
VARIABLE load

vars == <<keyStoreVars, requestVars, inputs, load>>

Init ==
    /\ KeyStoreInit /\ RequestsInit
    /\ inputs = MaxInputs /\ load \in {"traffic", "calls"}

InputOf(l) == load = l /\ Input /\ UNCHANGED load

(* The TUN hands a packet to the mesh. *)
WriteTo(d) == InputOf("traffic") /\ writePC(d) /\ UNCHANGED requestVars

(* The router has found a path to a key. *)
PathNotify(k) == InputOf("traffic") /\ update(k) /\ UNCHANGED requestVars

(* Core.ReadFrom, by the type of the session packet. *)
ReadTraffic(k, src, large) == InputOf("traffic") /\ readPC(k, src, large) /\ UNCHANGED requestVars
ReadProto(kind, k) == InputOf("calls") /\ handleProto(kind, k) /\ UNCHANGED keyStoreVars

Ask(kind, k) == InputOf("calls") /\ ask(kind, k) /\ UNCHANGED keyStoreVars

Timer(i) == (fires(i) \/ expires(i)) /\ UNCHANGED <<requestVars, load>>

Request(r) ==
    /\ \/ sendRequest(r) \/ grows(r) \/ timerDeletes(r)
       \/ answered(r) \/ timesOut(r)
    /\ UNCHANGED <<keyStoreVars, load>>

Cleanup == cleanup /\ UNCHANGED <<keyStoreVars, load>>

Next ==
    \/ \E d \in Dests : WriteTo(d)
    \/ \E k \in Keys : PathNotify(k)
    \/ \E k \in Keys, src \in Dests, large \in BOOLEAN : ReadTraffic(k, src, large)
    \/ \E kind \in Kinds, k \in Keys : ReadProto(kind, k) \/ Ask(kind, k)
    \/ \E i \in Ids : Timer(i) \/ Request(i)
    \/ Cleanup

(***************************************************************************)
(* Timers fire, the functions they start get the mutex, and the actors     *)
(* work their inboxes off.                                                 *)
(***************************************************************************)
Fairness == WF_vars(Cleanup) /\ \A i \in Ids : WF_vars(Timer(i)) /\ WF_vars(Request(i))

Spec == Init /\ [][Next]_vars /\ Fairness
-----------------------------------------------------------------------------
(* The state is well formed, and an info is filed under its own key. *)
TypeOK == KeyStoreTypeOK /\ RequestsTypeOK

Empty ==
    /\ \A k \in Keys : keyToInfo[k] = None
    /\ \A d \in Dests : toInfo[d] = None /\ buffer[d] = None
    /\ \A kind \in Kinds, k \in Keys : pending[kind][k] = None

(***************************************************************************)
(* Nothing is kept for ever: once traffic and calls end, every entry,      *)
(* every waiting packet and every pending request goes, whichever timers   *)
(* were stopped, renewed or overtaken on the way.                          *)
(***************************************************************************)
EverythingExpires == <>[]Empty
=============================================================================
