----------------------------- MODULE TunPromise -----------------------------
(***************************************************************************)
(* What the TUN adapter promises its callers: at most one device carries   *)
(* the traffic of the node and it changes hands in one step, once for each *)
(* call that succeeds; a device is detached only by a call or after it has *)
(* failed itself; and once the adapter has stopped nothing is attached.    *)
(***************************************************************************)
CONSTANTS Devices, NoDevice, Clients, NoCall

VARIABLES owner,    \* the device that carries the traffic
          mode,     \* "detached", "attached" or "stopped"
          failed,   \* whether that device has failed
          call      \* the call each client is waiting for

vars == <<owner, mode, failed, call>>

Calls == [op : {"attach", "replace", "detach", "stop"}, dev : Devices \cup {NoDevice}]

Init ==
    /\ owner \in Devices \cup {NoDevice} /\ failed = FALSE
    /\ mode = IF owner = NoDevice THEN "detached" ELSE "attached"
    /\ call = [c \in Clients |-> NoCall]

Invoke(c, k) ==
    /\ call[c] = NoCall
    /\ call' = [call EXCEPT ![c] = k]
    /\ UNCHANGED <<owner, mode, failed>>

(* A call that takes effect. *)
Effect(c) ==
    /\ call[c] # NoCall
    /\ call' = [call EXCEPT ![c] = NoCall]
    /\ CASE call[c].op = "stop" -> owner' = NoDevice /\ mode' = "stopped"
         [] call[c].op = "detach" -> /\ mode # "stopped"
                                     /\ owner' = NoDevice /\ mode' = "detached"
         [] call[c].op = "replace" -> /\ mode # "stopped"
                                      /\ owner' = call[c].dev /\ mode' = "attached"
         [] call[c].op = "attach" -> /\ mode # "stopped" /\ owner = NoDevice
                                     /\ owner' = call[c].dev /\ mode' = "attached"
    /\ failed' = FALSE

(* A call that is refused, or has nothing to do any more. *)
Refuse(c) ==
    /\ call[c] # NoCall
    /\ mode = "stopped" \/ (call[c].op = "attach" /\ owner # NoDevice)
    /\ call' = [call EXCEPT ![c] = NoCall]
    /\ UNCHANGED <<owner, mode, failed>>

Fail == owner # NoDevice /\ failed' = TRUE /\ UNCHANGED <<owner, mode, call>>

DropFailed ==
    /\ failed /\ failed' = FALSE
    /\ owner' = NoDevice /\ mode' = "detached"
    /\ UNCHANGED call

Next ==
    \/ \E c \in Clients : Effect(c) \/ Refuse(c) \/ \E k \in Calls : Invoke(c, k)
    \/ Fail \/ DropFailed

Spec == Init /\ [][Next]_vars
=============================================================================
