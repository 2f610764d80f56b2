------------------------------ MODULE KeyStore ------------------------------
(***************************************************************************)
(* The key store of the IPv6 read-write core: which key a mesh address or  *)
(* subnet belongs to, and the one packet that waits for each of those      *)
(* whose key is still being looked up.  Entries and buffers are deleted by *)
(* timers (time.AfterFunc), whose functions take the mutex: a function     *)
(* that has already been started is not stopped by Timer.Stop.             *)
(*                                                                         *)
(* An info or buffer object is known by the value that `inputs' had when   *)
(* it was made, since identity is all that the timers compare.             *)
(***************************************************************************)
EXTENDS Integers

CONSTANTS
    Keys,            \* keys of remote nodes
    Addrs, Subnets,  \* mesh addresses and subnets
    AddrForKey, SubnetForKey,
    None,
    MaxInputs        \* bound on packets, path notifications and calls

Dests == Addrs \cup Subnets
Ids == 1 .. MaxInputs

ASSUME KeyStoreAssumption ==
    /\ AddrForKey \in [Keys -> Addrs] /\ SubnetForKey \in [Keys -> Subnets]
    /\ MaxInputs \in Nat /\ None \notin Ids /\ None \notin Keys \cup Dests

VARIABLES
    keyToInfo,       \* key -> info
    toInfo,          \* addrToInfo and subnetToInfo: destination -> info
    buffer,          \* addrBuffer and subnetBuffer: destination -> buffer
    owner,           \* the key of an info, the destination of a buffer
    armed, fired,    \* objects whose timer runs; whose function awaits the mutex
    inputs

keyStoreVars == <<keyToInfo, toInfo, buffer, owner, armed, fired>>

KeyStoreInit ==
    /\ keyToInfo = [k \in Keys |-> None]
    /\ toInfo = [d \in Dests |-> None] /\ buffer = [d \in Dests |-> None]
    /\ owner = [i \in Ids |-> None] /\ armed = {} /\ fired = {}

Input == inputs > 0 /\ inputs' = inputs - 1
new == inputs

resetTimeout_Stops(i) == armed' = armed \ {i}

resetTimeout(i) == armed' = armed \cup {i}

(* A packet for a destination whose key is known is written to that key;   *)
(* any other replaces the one that waits, and a lookup is sent.            *)
send(d) ==
    IF toInfo[d] # None
    THEN resetTimeout(toInfo[d]) /\ UNCHANGED <<buffer, owner>>
    ELSE LET b == IF buffer[d] = None THEN new ELSE buffer[d] IN
         /\ buffer' = [buffer EXCEPT ![d] = b] /\ owner' = [owner EXCEPT ![b] = d]
         /\ resetTimeout(b)

sendToAddress(a) == a \in Addrs /\ send(a) /\ UNCHANGED <<keyToInfo, toInfo, fired>>
sendToSubnet(s) == s \in Subnets /\ send(s) /\ UNCHANGED <<keyToInfo, toInfo, fired>>

(* The destinations of a key, and update's first half for an unknown key. *)
Of(k) == {AddrForKey[k], SubnetForKey[k]}

learn_KeepsBuffers(k) ==
    /\ keyToInfo' = [keyToInfo EXCEPT ![k] = new]
    /\ toInfo' = [d \in Dests |-> IF d \in Of(k) THEN new ELSE toInfo[d]]
    /\ owner' = [owner EXCEPT ![new] = k] /\ resetTimeout(new) /\ UNCHANGED buffer

learn_BySubnet(k) ==
    /\ keyToInfo' = [q \in Keys |-> IF SubnetForKey[q] = SubnetForKey[k] THEN new ELSE keyToInfo[q]]
    /\ toInfo' = [d \in Dests |-> IF d \in Of(k) THEN new ELSE toInfo[d]]
    /\ buffer' = [d \in Dests |-> IF d \in Of(k) THEN None ELSE buffer[d]]
    /\ owner' = [owner EXCEPT ![new] = k] /\ resetTimeout(new)

learn(k) ==
    /\ keyToInfo' = [keyToInfo EXCEPT ![k] = new]
    /\ toInfo' = [d \in Dests |-> IF d \in Of(k) THEN new ELSE toInfo[d]]
    /\ buffer' = [d \in Dests |-> IF d \in Of(k) THEN None ELSE buffer[d]]
    /\ owner' = [owner EXCEPT ![new] = k] /\ resetTimeout(new)

update(k) ==
    /\ IF keyToInfo[k] = None THEN learn(k)
       ELSE resetTimeout(keyToInfo[k]) /\ UNCHANGED <<keyToInfo, toInfo, buffer, owner>>
    /\ UNCHANGED fired

(* writePC: a packet that is not IPv6, is not from this node's address or  *)
(* has no mesh destination changes nothing, and is no step here.           *)
writePC(d) == sendToAddress(d) \/ sendToSubnet(d)

(* readPC: likewise for what is not addressed to this node.  A packet      *)
(* larger than the MTU is answered with one to its source; any other       *)
(* refreshes the key it came from, even if its source is not the key's.    *)
readPC(k, src, large) == IF large THEN writePC(src) ELSE update(k)

(* The functions that resetTimeout and the sends gave to time.AfterFunc. *)
fires(i) ==
    /\ i \in armed /\ armed' = armed \ {i} /\ fired' = fired \cup {i}
    /\ UNCHANGED <<keyToInfo, toInfo, buffer, owner, inputs>>

expireInfo_Blind(i) ==
    /\ owner[i] \in Keys
    /\ keyToInfo' = [keyToInfo EXCEPT ![owner[i]] = None]
    /\ toInfo' = [d \in Dests |-> IF d \in Of(owner[i]) THEN None ELSE toInfo[d]]
    /\ UNCHANGED buffer

expireInfo(i) ==
    /\ owner[i] \in Keys
    /\ keyToInfo' = [keyToInfo EXCEPT ![owner[i]] = IF @ = i THEN None ELSE @]
    /\ toInfo' = [d \in Dests |->
          IF d \in Of(owner[i]) /\ toInfo[d] = i THEN None ELSE toInfo[d]]
    /\ UNCHANGED buffer

expireBuffer(i) ==
    /\ owner[i] \in Dests
    /\ buffer' = [buffer EXCEPT ![owner[i]] = IF @ = i THEN None ELSE @]
    /\ UNCHANGED <<keyToInfo, toInfo>>

expires(i) ==
    /\ i \in fired /\ fired' = fired \ {i}
    /\ expireInfo(i) \/ expireBuffer(i)
    /\ UNCHANGED <<owner, armed, inputs>>
-----------------------------------------------------------------------------
KeyStoreTypeOK ==
    /\ keyToInfo \in [Keys -> Ids \cup {None}]
    /\ toInfo \in [Dests -> Ids \cup {None}] /\ buffer \in [Dests -> Ids \cup {None}]
    /\ owner \in [Ids -> Keys \cup Dests \cup {None}]
    /\ armed \subseteq Ids /\ fired \subseteq Ids /\ inputs \in 0 .. MaxInputs
    /\ \A k \in Keys : keyToInfo[k] # None => owner[keyToInfo[k]] = k

(* A destination that no other key has: two keys may share a subnet. *)
Sole(k, d) == \A q \in Keys : d \in Of(q) => q = k

(***************************************************************************)
(* update flushes what waits for the address and for the subnet of the key *)
(* it learns, and nothing is buffered for them while they have an entry.   *)
(* So no packet waits for the address of a known key, nor for its subnet,  *)
(* however late the timers of older entries run: except for a subnet that  *)
(* several keys have, whose one entry may expire while the others are      *)
(* known and are not looked at.                                            *)
(***************************************************************************)
NoPacketWaits ==
    /\ \A d \in Dests : buffer[d] # None => toInfo[d] = None
    /\ \A k \in Keys : \A d \in Of(k) : keyToInfo[k] # None /\ Sole(k, d) => buffer[d] = None

(***************************************************************************)
(* The entry of a destination is only deleted by the timer of the info     *)
(* that holds it, though several keys may share a subnet and the timer     *)
(* functions of older infos are still to run.                              *)
(***************************************************************************)
OnlyOwnTimer ==
    [][\A d \in Dests : (toInfo[d] # None /\ toInfo'[d] = None) =>
           toInfo[d] \in fired \ fired']_<<keyStoreVars, inputs>>
=============================================================================
