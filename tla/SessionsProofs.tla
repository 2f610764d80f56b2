--------------------------- MODULE SessionsProofs ---------------------------
(***************************************************************************)
(* Proofs about Sessions, for every set of keys, addresses and subnets,    *)
(* every assignment of addresses and subnets to keys, shared ones          *)
(* included, and any number of inputs.                                     *)
(***************************************************************************)
EXTENDS Sessions, TLAPS

(* An object in use was made earlier than the one the next input makes, and *)
(* a buffer belongs to the destination it is filed under.                   *)
ObjectsInUse ==
    /\ \A k \in Keys : keyToInfo[k] # None => keyToInfo[k] > inputs
    /\ \A d \in Dests : buffer[d] # None => buffer[d] > inputs /\ owner[buffer[d]] = d

(* Nothing waits for a destination that has an entry, and the info of a     *)
(* known key is the entry of every destination that no other key has.       *)
EntriesFlush == \A d \in Dests : buffer[d] # None => toInfo[d] = None
KnownAreFiled ==
    \A k \in Keys : \A d \in Of(k) : keyToInfo[k] # None /\ Sole(k, d) => toInfo[d] = keyToInfo[k]

KeyInv == KeyStoreTypeOK /\ EntriesFlush /\ KnownAreFiled /\ ObjectsInUse

LEMMA InitKey == Init => KeyInv
BY KeyStoreAssumption DEF Init, KeyStoreInit, KeyInv, KeyStoreTypeOK, EntriesFlush, KnownAreFiled, Of, Sole, ObjectsInUse, Ids, Dests

LEMMA InputFacts ==
    ASSUME KeyStoreTypeOK, Input
    PROVE  /\ inputs \in Ids /\ inputs # None /\ inputs > inputs'
           /\ inputs' \in 0 .. MaxInputs
           /\ \A i \in Ids : i > inputs => i > inputs'
BY KeyStoreAssumption DEF KeyStoreTypeOK, Input, Ids

LEMMA InUseStays ==
    ASSUME KeyInv, Input
    PROVE  /\ \A k \in Keys : keyToInfo[k] # None => keyToInfo[k] > inputs'
           /\ \A d \in Dests : buffer[d] # None => buffer[d] > inputs'
<1>1. \A i \in Ids : i > inputs => i > inputs'
    BY InputFacts DEF KeyInv
<1>2. \A k \in Keys : keyToInfo[k] # None => keyToInfo[k] \in Ids /\ keyToInfo[k] > inputs
    BY DEF KeyInv, KeyStoreTypeOK, ObjectsInUse
<1>3. \A d \in Dests : buffer[d] # None => buffer[d] \in Ids /\ buffer[d] > inputs
    BY DEF KeyInv, KeyStoreTypeOK, ObjectsInUse
<1> QED
    BY <1>1, <1>2, <1>3

(* What does not touch the key store keeps its invariant. *)
LEMMA KeyFrame ==
    ASSUME KeyInv, UNCHANGED keyStoreVars, Input \/ UNCHANGED inputs
    PROVE  KeyInv'
<1>1. /\ inputs' \in 0 .. MaxInputs
      /\ \A i \in Ids : i > inputs => i > inputs'
    BY InputFacts DEF KeyInv, KeyStoreTypeOK
<1>2. KeyStoreTypeOK' /\ EntriesFlush' /\ KnownAreFiled'
    BY <1>1 DEF KeyInv, KeyStoreTypeOK, EntriesFlush, KnownAreFiled, Of, Sole, keyStoreVars
<1>3. ObjectsInUse'
    BY <1>1 DEF KeyInv, KeyStoreTypeOK, ObjectsInUse, keyStoreVars
<1> QED
    BY <1>2, <1>3 DEF KeyInv

LEMMA SendKeeps ==
    ASSUME KeyInv, Input, NEW d \in Dests, send(d), UNCHANGED <<keyToInfo, toInfo, fired>>
    PROVE  KeyInv'
<1> USE KeyStoreAssumption
<1>0. /\ inputs \in Ids /\ inputs # None /\ inputs > inputs'
      /\ inputs' \in 0 .. MaxInputs
      /\ \A i \in Ids : i > inputs => i > inputs'
    BY InputFacts DEF KeyInv
<1>1. CASE toInfo[d] # None
    <2>1. toInfo[d] \in Ids /\ armed' = armed \cup {toInfo[d]} /\ UNCHANGED <<buffer, owner>>
        BY <1>1 DEF send, resetTimeout, KeyInv, KeyStoreTypeOK
    <2>2. KeyStoreTypeOK'
        BY <2>1, <1>0 DEF KeyInv, KeyStoreTypeOK
    <2>3. EntriesFlush' /\ KnownAreFiled'
        BY <2>1 DEF KeyInv, EntriesFlush, KnownAreFiled, Of, Sole
    <2>4. ObjectsInUse'
        BY <2>1, InUseStays DEF KeyInv, ObjectsInUse
    <2> QED
        BY <2>2, <2>3, <2>4 DEF KeyInv
<1>2. CASE toInfo[d] = None
    <2> DEFINE b == IF buffer[d] = None THEN inputs ELSE buffer[d]
    <2>1. /\ b \in Ids /\ b # None /\ b > inputs'
          /\ buffer' = [buffer EXCEPT ![d] = b] /\ owner' = [owner EXCEPT ![b] = d]
          /\ armed' = armed \cup {b}
        BY <1>0, <1>2 DEF send, resetTimeout, new, KeyInv, KeyStoreTypeOK, ObjectsInUse, Ids
    <2>3. ASSUME NEW k \in Keys, keyToInfo[k] # None
          PROVE  owner'[keyToInfo[k]] = k
        <3>1. keyToInfo[k] \in Ids /\ keyToInfo[k] > inputs /\ owner[keyToInfo[k]] = k
            BY <2>3 DEF KeyInv, KeyStoreTypeOK, ObjectsInUse
        <3>2. keyToInfo[k] = b => owner[b] = d
            BY <3>1, <1>0 DEF KeyInv, ObjectsInUse, Ids
        <3> HIDE DEF b
        <3> QED
            BY <3>1, <3>2, <2>1 DEF KeyInv, KeyStoreTypeOK
    <2>4. ASSUME NEW e \in Dests, buffer'[e] # None
          PROVE  buffer'[e] > inputs' /\ owner'[buffer'[e]] = e
        <3>1. CASE e = d
            <4> HIDE DEF b
            <4> QED
                BY <3>1, <2>1 DEF KeyInv, KeyStoreTypeOK
        <3>2. CASE e # d
            <4>1. buffer'[e] = buffer[e]
                BY <3>2, <2>1 DEF KeyInv, KeyStoreTypeOK
            <4>2. buffer[e] \in Ids /\ buffer[e] > inputs /\ owner[buffer[e]] = e
                BY <4>1, <2>4 DEF KeyInv, KeyStoreTypeOK, ObjectsInUse
            <4>3. buffer[e] = b => owner[b] = d
                BY <4>2, <1>0 DEF KeyInv, ObjectsInUse, Ids
            <4>4. buffer[e] # b
                BY <4>2, <4>3, <3>2
            <4> HIDE DEF b
            <4> QED
                BY <4>1, <4>2, <4>4, <2>1, <1>0 DEF KeyInv, KeyStoreTypeOK
        <3> QED
            BY <3>1, <3>2
    <2> HIDE DEF b
    <2>5. KeyStoreTypeOK'
        BY <2>1, <2>3, <1>0 DEF KeyInv, KeyStoreTypeOK
    <2>6. EntriesFlush' /\ KnownAreFiled'
        BY <2>1, <1>2 DEF KeyInv, KeyStoreTypeOK, EntriesFlush, KnownAreFiled, Of, Sole
    <2>7. ObjectsInUse'
        BY <2>4, InUseStays DEF ObjectsInUse
    <2> QED
        BY <2>5, <2>6, <2>7 DEF KeyInv
<1> QED
    BY <1>1, <1>2

LEMMA UpdateKeeps ==
    ASSUME KeyInv, Input, NEW k \in Keys, update(k)
    PROVE  KeyInv'
<1> USE KeyStoreAssumption
<1>0. /\ inputs \in Ids /\ inputs # None /\ inputs > inputs'
      /\ inputs' \in 0 .. MaxInputs
      /\ \A i \in Ids : i > inputs => i > inputs'
    BY InputFacts DEF KeyInv
<1>1. CASE keyToInfo[k] = None
    <2>1. /\ keyToInfo' = [keyToInfo EXCEPT ![k] = inputs]
          /\ toInfo' = [d \in Dests |-> IF d \in Of(k) THEN inputs ELSE toInfo[d]]
          /\ buffer' = [d \in Dests |-> IF d \in Of(k) THEN None ELSE buffer[d]]
          /\ owner' = [owner EXCEPT ![inputs] = k] /\ armed' = armed \cup {inputs}
          /\ UNCHANGED fired
        BY <1>1 DEF update, learn, new, resetTimeout
    <2>2. KeyStoreTypeOK'
        <3>1. \A q \in Keys : keyToInfo'[q] # None => owner'[keyToInfo'[q]] = q
            BY <2>1, <1>0 DEF KeyInv, KeyStoreTypeOK, ObjectsInUse, Ids
        <3> QED
            BY <3>1, <2>1, <1>0 DEF KeyInv, KeyStoreTypeOK
    <2>3. EntriesFlush' /\ KnownAreFiled'
        <3>1. EntriesFlush'
            BY <2>1, <1>0 DEF KeyInv, KeyStoreTypeOK, EntriesFlush
        <3>2. ASSUME NEW q \in Keys, NEW d \in Of(q), keyToInfo'[q] # None, Sole(q, d)
              PROVE  toInfo'[d] = keyToInfo'[q]
            <4>1. d \in Dests
                BY <3>2 DEF Of, Dests
            <4>2. CASE q = k
                BY <2>1, <3>2, <4>1, <4>2 DEF KeyInv, KeyStoreTypeOK
            <4>3. CASE q # k
                <5>1. d \notin Of(k)
                    BY <3>2, <4>3 DEF Sole
                <5> QED
                    BY <2>1, <3>2, <4>1, <4>3, <5>1 DEF KeyInv, KeyStoreTypeOK, KnownAreFiled
            <4> QED
                BY <4>2, <4>3
        <3> QED
            BY <3>1, <3>2 DEF KnownAreFiled, Of, Sole
    <2>4. ObjectsInUse'
        BY <2>1, <1>0 DEF KeyInv, KeyStoreTypeOK, ObjectsInUse, Ids
    <2> QED
        BY <2>2, <2>3, <2>4 DEF KeyInv
<1>2. CASE keyToInfo[k] # None
    <2>1. /\ keyToInfo[k] \in Ids /\ armed' = armed \cup {keyToInfo[k]}
          /\ UNCHANGED <<keyToInfo, toInfo, buffer, owner, fired>>
        BY <1>2 DEF update, resetTimeout, KeyInv, KeyStoreTypeOK
    <2>2. KeyStoreTypeOK'
        BY <2>1, <1>0 DEF KeyInv, KeyStoreTypeOK
    <2>3. EntriesFlush' /\ KnownAreFiled'
        BY <2>1 DEF KeyInv, EntriesFlush, KnownAreFiled, Of, Sole
    <2>4. ObjectsInUse'
        BY <2>1, InUseStays DEF KeyInv, ObjectsInUse
    <2> QED
        BY <2>2, <2>3, <2>4 DEF KeyInv
<1> QED
    BY <1>1, <1>2

LEMMA WriteKeeps ==
    ASSUME KeyInv, Input, NEW d, writePC(d)
    PROVE  KeyInv'
BY SendKeeps DEF writePC, sendToAddress, sendToSubnet, Dests

LEMMA FiresKeeps ==
    ASSUME KeyInv, NEW i \in Ids, fires(i)
    PROVE  KeyInv'
<1>1. KeyStoreTypeOK'
    BY DEF fires, KeyInv, KeyStoreTypeOK
<1>2. EntriesFlush' /\ KnownAreFiled' /\ ObjectsInUse'
    BY DEF fires, KeyInv, KeyStoreTypeOK, EntriesFlush, KnownAreFiled, Of, Sole, ObjectsInUse
<1> QED
    BY <1>1, <1>2 DEF KeyInv

LEMMA ExpiresKeeps ==
    ASSUME KeyInv, NEW i \in Ids, expires(i)
    PROVE  KeyInv'
<1> USE KeyStoreAssumption
<1>1. CASE expireInfo(i)
    <2>1. KeyStoreTypeOK'
        BY <1>1 DEF expires, expireInfo, KeyInv, KeyStoreTypeOK
    <2>2. EntriesFlush' /\ KnownAreFiled'
        <3>1. EntriesFlush'
            BY <1>1 DEF expires, expireInfo, KeyInv, KeyStoreTypeOK, EntriesFlush
        <3>2. ASSUME NEW q \in Keys, NEW d \in Of(q), keyToInfo'[q] # None, Sole(q, d)
              PROVE  toInfo'[d] = keyToInfo'[q]
            <4>1. d \in Dests
                BY <3>2 DEF Of, Dests
            <4>2. keyToInfo'[q] = keyToInfo[q] /\ (q = owner[i] => keyToInfo[q] # i)
                BY <1>1, <3>2 DEF expireInfo, KeyInv, KeyStoreTypeOK
            <4>3. toInfo[d] = keyToInfo[q]
                BY <3>2, <4>2 DEF KeyInv, KnownAreFiled
            <4>4. d \in Of(owner[i]) => q = owner[i]
                BY <1>1, <3>2 DEF expireInfo, Sole
            <4> QED
                BY <1>1, <4>1, <4>2, <4>3, <4>4 DEF expireInfo
        <3> QED
            BY <3>1, <3>2 DEF KnownAreFiled, Of, Sole
    <2>3. ObjectsInUse'
        BY <1>1 DEF expires, expireInfo, KeyInv, KeyStoreTypeOK, ObjectsInUse
    <2> QED
        BY <2>1, <2>2, <2>3 DEF KeyInv
<1>2. CASE expireBuffer(i)
    <2>1. KeyStoreTypeOK'
        BY <1>2 DEF expires, expireBuffer, KeyInv, KeyStoreTypeOK
    <2>2. EntriesFlush' /\ KnownAreFiled'
        BY <1>2 DEF expires, expireBuffer, KeyInv, KeyStoreTypeOK, EntriesFlush, KnownAreFiled, Of, Sole
    <2>3. ObjectsInUse'
        BY <1>2 DEF expires, expireBuffer, KeyInv, KeyStoreTypeOK, ObjectsInUse
    <2> QED
        BY <2>1, <2>2, <2>3 DEF KeyInv
<1> QED
    BY <1>1, <1>2 DEF expires
-----------------------------------------------------------------------------
(* The requests.                                                           *)

(* Calls, timers, channels and messages belong to inputs of the past, a     *)
(* channel holds something only after its request was sent, and a pending   *)
(* request is filed under the kind and the key it asks for.                 *)
RequestsInUse ==
    /\ \A r \in Ids : call[r].at # "none" => r > inputs
    /\ \A r \in Ids : call[r].at # "none" => call[r].kind \in Kinds /\ call[r].key \in Keys
    /\ \A r \in Ids : age[r] # "none" => call[r].at # "none"
    /\ \A r \in Ids : chan[r] # {} => age[r] # "none"
    /\ \A r \in Ids : \A m \in chan[r] : m.nth > inputs

PendingFiled ==
    \A kind \in Kinds, k \in Keys :
        LET r == pending[kind][k] IN
        r # None => age[r] # "none" /\ call[r].kind = kind /\ call[r].key = k

InputsTyped == inputs \in 0 .. MaxInputs

RequestInv ==
    /\ InputsTyped /\ RequestsTypeOK /\ RequestsInUse /\ PendingFiled
    /\ AnswersReachTheirRequest

LEMMA InitRequest == Init => RequestInv
<1> SUFFICES ASSUME Init PROVE RequestInv
    OBVIOUS
<1> USE KeyStoreAssumption DEF Init, RequestsInit
<1>1. InputsTyped /\ RequestsTypeOK
    BY DEF InputsTyped, RequestsTypeOK, CallRecord, Responses
<1>2. RequestsInUse
    BY DEF RequestsInUse
<1>3. PendingFiled
    BY DEF PendingFiled
<1>4. AnswersReachTheirRequest
    BY DEF AnswersReachTheirRequest
<1> QED
    BY <1>1, <1>2, <1>3, <1>4 DEF RequestInv

LEMMA InputFacts2 ==
    ASSUME InputsTyped, Input
    PROVE  /\ inputs \in Ids /\ inputs # None /\ inputs > inputs' /\ InputsTyped'
           /\ ~(inputs > inputs)
           /\ \A i \in Ids : i > inputs => i > inputs'
BY KeyStoreAssumption DEF InputsTyped, Input, Ids

LEMMA RequestFrame ==
    ASSUME RequestInv, UNCHANGED requestVars, Input \/ UNCHANGED inputs
    PROVE  RequestInv'
<1>1. InputsTyped' /\ \A i \in Ids : i > inputs => i > inputs'
    BY InputFacts2 DEF RequestInv, InputsTyped
<1>2. RequestsTypeOK'
    BY DEF RequestInv, RequestsTypeOK, requestVars
<1>3. RequestsInUse'
    <2>1. \A r \in Ids : \A m \in chan[r] : m.nth \in Ids
        BY DEF RequestInv, RequestsTypeOK, Responses
    <2> QED
        BY <1>1, <2>1 DEF RequestInv, RequestsInUse, requestVars
<1>4. PendingFiled'
    BY DEF RequestInv, PendingFiled, requestVars
<1>5. AnswersReachTheirRequest'
    BY DEF RequestInv, AnswersReachTheirRequest, requestVars
<1> QED
    BY <1>1, <1>2, <1>3, <1>4, <1>5 DEF RequestInv

LEMMA AskKeeps ==
    ASSUME RequestInv, Input, NEW kind \in Kinds, NEW k \in Keys, ask(kind, k)
    PROVE  RequestInv'
<1> USE KeyStoreAssumption DEF RequestInv
<1>0. /\ inputs \in Ids /\ inputs # None /\ inputs > inputs' /\ InputsTyped'
      /\ ~(inputs > inputs)
      /\ \A i \in Ids : i > inputs => i > inputs'
    BY InputFacts2
<1>1. /\ call' = [call EXCEPT ![inputs] = [at |-> "posted", kind |-> kind, key |-> k]]
      /\ UNCHANGED <<pending, age, chan, asked>>
    BY DEF ask, new
<1>2. [at |-> "posted", kind |-> kind, key |-> k] \in CallRecord
    BY DEF CallRecord
<1>3. call' \in [Ids -> CallRecord]
    BY <1>0, <1>1, <1>2 DEF RequestsTypeOK
<1>4. RequestsTypeOK'
    BY <1>1, <1>3 DEF RequestsTypeOK
<1>5. call[inputs].at = "none" /\ age[inputs] = "none" /\ chan[inputs] = {}
    BY <1>0 DEF RequestsInUse
<1>6. \A r \in Ids : r # inputs => call'[r] = call[r]
    BY <1>1 DEF RequestsTypeOK
<1>7. RequestsInUse'
    <2>1. \A r \in Ids : \A m \in chan[r] : m.nth \in Ids
        BY DEF RequestsTypeOK, Responses
    <2>2. /\ call'[inputs].at = "posted"
          /\ call'[inputs].kind = kind /\ call'[inputs].key = k
        BY <1>0, <1>1 DEF RequestsTypeOK
    <2>6. \A r \in Ids : call'[r].at # "none" => call'[r].kind \in Kinds /\ call'[r].key \in Keys
        BY <1>6, <2>2 DEF RequestsInUse
    <2>3. \A r \in Ids : call'[r].at # "none" => r > inputs'
        BY <1>0, <1>6 DEF RequestsInUse
    <2>4. \A r \in Ids : age[r] # "none" => call'[r].at # "none"
        BY <1>5, <1>6, <2>2 DEF RequestsInUse
    <2>5. \A r \in Ids : \A m \in chan[r] : m.nth > inputs'
        BY <1>0, <2>1 DEF RequestsInUse
    <2> QED
        BY <1>1, <2>3, <2>4, <2>5, <2>6 DEF RequestsInUse
<1>8. PendingFiled'
    <2>1. \A q \in Kinds, j \in Keys : pending[q][j] # None => pending[q][j] \in Ids /\ pending[q][j] # inputs
        BY <1>5 DEF RequestsTypeOK, PendingFiled
    <2> QED
        BY <1>1, <1>6, <2>1 DEF PendingFiled
<1>9. AnswersReachTheirRequest'
    BY <1>1, <1>5, <1>6 DEF AnswersReachTheirRequest
<1> QED
    BY <1>0, <1>4, <1>7, <1>8, <1>9

(* Steps of the callers and the timers change only where a call is, or drop *)
(* a pending request, or make a timer older.                                *)
LEMMA CallerKeeps ==
    ASSUME RequestInv, NEW r \in Ids, UNCHANGED inputs,
           answered(r) \/ timesOut(r)
    PROVE  RequestInv'
<1> USE DEF RequestInv
<1>0. call \in [Ids -> CallRecord]
    BY DEF RequestsTypeOK
<1>1. PICK p \in {"left", "gone"} :
          /\ call' = [call EXCEPT ![r].at = p] /\ UNCHANGED <<pending, age, chan, asked>>
    BY <1>0 DEF answered, timesOut, CallRecord
<1>2. \A q \in Ids : /\ call'[q] \in CallRecord
                     /\ call'[q].kind = call[q].kind /\ call'[q].key = call[q].key
                     /\ call'[q].at = IF q = r THEN p ELSE call[q].at
    BY <1>0, <1>1 DEF CallRecord
<1>3. call' \in [Ids -> CallRecord]
    BY <1>0, <1>1, <1>2
<1>4. call[r].at # "none"
    BY DEF answered, timesOut
<1>5. InputsTyped' /\ RequestsTypeOK'
    BY <1>1, <1>3 DEF InputsTyped, RequestsTypeOK
<1>6. RequestsInUse'
    BY <1>1, <1>2, <1>4 DEF RequestsInUse
<1>7. PendingFiled'
    BY <1>1, <1>2 DEF PendingFiled, RequestsTypeOK
<1>8. AnswersReachTheirRequest'
    BY <1>1, <1>2 DEF AnswersReachTheirRequest
<1> QED
    BY <1>5, <1>6, <1>7, <1>8

LEMMA SendRequestKeeps ==
    ASSUME RequestInv, NEW r \in Ids, sendRequest(r)
    PROVE  RequestInv'
<1> USE KeyStoreAssumption DEF RequestInv
<1> DEFINE kind == call[r].kind
           k == call[r].key
           next == IF call[r].at = "posted" THEN "waiting" ELSE "gone"
<1>0. call \in [Ids -> CallRecord] /\ pending \in [Kinds -> [Keys -> Ids \cup {None}]]
    BY DEF RequestsTypeOK
<1>1. /\ call[r].at \in {"posted", "left"} /\ age[r] = "none"
      /\ call' = [call EXCEPT ![r].at = next]
      /\ pending' = [pending EXCEPT ![kind][k] = r]
      /\ UNCHANGED <<chan, inputs>>
    BY <1>0 DEF sendRequest
<1>2. \A q \in Ids : /\ call'[q] \in CallRecord
                     /\ call'[q].kind = call[q].kind /\ call'[q].key = call[q].key
                     /\ call'[q].at = IF q = r THEN next ELSE call[q].at
    BY <1>0, <1>1 DEF CallRecord
<1>3. call' \in [Ids -> CallRecord]
    BY <1>0, <1>1, <1>2
<1>4. /\ age' \in [Ids -> {"none", "young", "old", "stopped"}]
      /\ age'[r] = "young"
      /\ \A q \in Ids : q # r => (age'[q] = "none") = (age[q] = "none")
    BY DEF sendRequest, RequestsTypeOK
<1>5. chan[r] = {}
    BY <1>1 DEF RequestsInUse
<1>6. /\ pending' \in [Kinds -> [Keys -> Ids \cup {None}]]
      /\ \A q \in Kinds, j \in Keys :
            pending'[q][j] = IF q = kind /\ j = k THEN r ELSE pending[q][j]
    BY <1>0, <1>1
<1> HIDE DEF next
<1>7. InputsTyped'
    BY <1>1 DEF InputsTyped
<1>8. RequestsTypeOK'
    <2>1. kind \in Kinds /\ k \in Keys
        BY <1>1 DEF RequestsInUse
    <2>2. asked' \subseteq Kinds \X Keys
        BY <2>1 DEF sendRequest, RequestsTypeOK
    <2> QED
        BY <1>1, <1>3, <1>4, <1>6, <2>2 DEF RequestsTypeOK
<1>9. RequestsInUse'
    BY <1>1, <1>2, <1>4 DEF RequestsInUse, next
<1>10. PendingFiled'
    <2> SUFFICES ASSUME NEW q \in Kinds, NEW j \in Keys, pending'[q][j] # None
                 PROVE  /\ age'[pending'[q][j]] # "none"
                        /\ call'[pending'[q][j]].kind = q /\ call'[pending'[q][j]].key = j
        BY DEF PendingFiled
    <2>1. CASE q = kind /\ j = k
        BY <2>1, <1>2, <1>4, <1>6
    <2>2. CASE ~(q = kind /\ j = k)
        <3>1. pending'[q][j] = pending[q][j] /\ pending[q][j] \in Ids
            BY <2>2, <1>6, <1>0
        <3>2. age[pending[q][j]] # "none" /\ call[pending[q][j]].kind = q /\ call[pending[q][j]].key = j
            BY <3>1 DEF PendingFiled
        <3> QED
            BY <3>1, <3>2, <1>1, <1>2, <1>4
    <2> QED
        BY <2>1, <2>2
<1>11. AnswersReachTheirRequest'
    <2>1. \A q \in Ids : \A m \in chan'[q] : m.kind = call'[q].kind /\ m.from = call'[q].key
        BY <1>1, <1>2 DEF AnswersReachTheirRequest
    <2>2. \A q \in Kinds, j \in Keys : pending'[q][j] # None => chan'[pending'[q][j]] = {}
        BY <1>1, <1>5, <1>6, ZenonT(30) DEF AnswersReachTheirRequest
    <2> QED
        BY <1>1, <2>1, <2>2 DEF AnswersReachTheirRequest
<1> QED
    BY <1>7, <1>8, <1>9, <1>10, <1>11

LEMMA TimersKeep ==
    ASSUME RequestInv, UNCHANGED <<call, chan, asked, inputs>>,
           age' \in [Ids -> {"none", "young", "old", "stopped"}],
           \A q \in Ids : (age'[q] = "none") = (age[q] = "none"),
           pending' \in [Kinds -> [Keys -> Ids \cup {None}]],
           \A q \in Kinds, j \in Keys : pending'[q][j] \in {None, pending[q][j]}
    PROVE  RequestInv'
<1> USE DEF RequestInv
<1>1. InputsTyped' /\ RequestsTypeOK'
    BY DEF InputsTyped, RequestsTypeOK
<1>2. RequestsInUse'
    BY DEF RequestsInUse
<1>3. PendingFiled'
    BY DEF PendingFiled, RequestsTypeOK
<1>4. AnswersReachTheirRequest'
    BY DEF AnswersReachTheirRequest
<1> QED
    BY <1>1, <1>2, <1>3, <1>4

LEMMA GrowsKeeps ==
    ASSUME RequestInv, NEW r \in Ids, grows(r)
    PROVE  RequestInv'
<1>1. /\ age' \in [Ids -> {"none", "young", "old", "stopped"}]
      /\ \A q \in Ids : (age'[q] = "none") = (age[q] = "none")
    BY DEF grows, RequestInv, RequestsTypeOK
<1>2. /\ pending' \in [Kinds -> [Keys -> Ids \cup {None}]]
      /\ \A q \in Kinds, j \in Keys : pending'[q][j] \in {None, pending[q][j]}
    BY DEF grows, RequestInv, RequestsTypeOK
<1> QED
    BY <1>1, <1>2, TimersKeep DEF grows

LEMMA TimerDeletesKeeps ==
    ASSUME RequestInv, NEW r \in Ids, timerDeletes(r)
    PROVE  RequestInv'
<1> USE KeyStoreAssumption
<1>1. /\ age' \in [Ids -> {"none", "young", "old", "stopped"}]
      /\ \A q \in Ids : (age'[q] = "none") = (age[q] = "none")
    BY DEF timerDeletes, RequestInv, RequestsTypeOK
<1>2. /\ pending' \in [Kinds -> [Keys -> Ids \cup {None}]]
      /\ \A q \in Kinds, j \in Keys : pending'[q][j] \in {None, pending[q][j]}
    BY ZenonT(30) DEF timerDeletes, dropPending, RequestInv, RequestsTypeOK
<1> QED
    BY <1>1, <1>2, TimersKeep DEF timerDeletes

LEMMA CleanupKeeps ==
    ASSUME RequestInv, cleanup
    PROVE  RequestInv'
<1> USE KeyStoreAssumption
<1>1. /\ age' \in [Ids -> {"none", "young", "old", "stopped"}]
      /\ \A q \in Ids : (age'[q] = "none") = (age[q] = "none")
    BY DEF cleanup, RequestInv, RequestsTypeOK
<1>2. /\ pending' \in [Kinds -> [Keys -> Ids \cup {None}]]
      /\ \A q \in Kinds, j \in Keys : pending'[q][j] \in {None, pending[q][j]}
    BY DEF cleanup, RequestInv, RequestsTypeOK
<1> QED
    BY <1>1, <1>2, TimersKeep DEF cleanup

LEMMA ProtoKeeps ==
    ASSUME RequestInv, Input, NEW kind \in Kinds, NEW k \in Keys, handleProto(kind, k)
    PROVE  RequestInv'
<1> USE KeyStoreAssumption
<1>0. /\ inputs \in Ids /\ inputs # None /\ inputs > inputs' /\ InputsTyped'
      /\ ~(inputs > inputs)
      /\ \A i \in Ids : i > inputs => i > inputs'
    BY InputFacts2 DEF RequestInv
<1>1. CASE UNCHANGED <<chan, pending, age>>
    BY <1>1, RequestFrame DEF handleProto, requestVars
<1>2. CASE handleResponse(kind, k)
    <2> USE DEF RequestInv
    <2> DEFINE r == pending[kind][k]
               m == [kind |-> kind, from |-> k, nth |-> inputs]
    <2>1. /\ r \in Ids /\ r # None /\ age[r] # "none"
          /\ call[r].kind = kind /\ call[r].key = k /\ chan[r] = {}
        BY <1>2 DEF handleResponse, RequestsTypeOK, PendingFiled, AnswersReachTheirRequest
    <2>2. /\ chan' = [chan EXCEPT ![r] = @ \cup {m}]
          /\ pending' = [pending EXCEPT ![kind][k] = None]
          /\ age' = [age EXCEPT ![r] = IF @ = "young" THEN "stopped" ELSE @]
          /\ UNCHANGED <<call, asked>>
        BY <1>2 DEF handleResponse, handleProto, new
    <2>3. m \in Responses /\ m.kind = kind /\ m.from = k /\ m.nth = inputs
        BY <1>0 DEF Responses
    <2>4. /\ chan' \in [Ids -> SUBSET Responses]
          /\ chan'[r] = {m} /\ \A q \in Ids : q # r => chan'[q] = chan[q]
        BY <2>1, <2>2, <2>3 DEF RequestsTypeOK
    <2>5. /\ age' \in [Ids -> {"none", "young", "old", "stopped"}]
          /\ \A q \in Ids : (age'[q] = "none") = (age[q] = "none")
        BY <2>2 DEF RequestsTypeOK
    <2>6. /\ pending' \in [Kinds -> [Keys -> Ids \cup {None}]]
          /\ \A q \in Kinds, j \in Keys :
                pending'[q][j] = IF q = kind /\ j = k THEN None ELSE pending[q][j]
        BY <2>2 DEF RequestsTypeOK
    <2>7. \A q \in Ids : m \notin chan[q]
        BY <1>0, <2>3 DEF RequestsInUse
    <2> HIDE DEF m
    <2>8. RequestsTypeOK'
        BY <2>2, <2>4, <2>5, <2>6 DEF RequestsTypeOK
    <2>9. RequestsInUse'
        <3>1. \A q \in Ids : \A x \in chan[q] : x.nth \in Ids /\ x.nth > inputs
            BY DEF RequestsTypeOK, RequestsInUse, Responses
        <3>2. \A q \in Ids : \A x \in chan'[q] : x.nth > inputs'
            BY <1>0, <3>1, <2>3, <2>4
        <3>3. \A q \in Ids : call'[q].at # "none" => q > inputs'
            BY <1>0, <2>2 DEF RequestsInUse
        <3>4. \A q \in Ids : chan'[q] # {} => age'[q] # "none"
            BY <2>1, <2>4, <2>5 DEF RequestsInUse
        <3>5. \A q \in Ids : age'[q] # "none" => call'[q].at # "none"
            BY <2>2, <2>5 DEF RequestsInUse
        <3> QED
            BY <2>2, <3>2, <3>3, <3>4, <3>5 DEF RequestsInUse
    <2>10. PendingFiled'
        BY <2>2, <2>5, <2>6 DEF PendingFiled, RequestsTypeOK
    <2>11. AnswersReachTheirRequest'
        <3>1. \A q \in Ids : \A x \in chan'[q] : x.kind = call'[q].kind /\ x.from = call'[q].key
            BY <2>1, <2>2, <2>3, <2>4 DEF AnswersReachTheirRequest
        <3>2. \A p \in Ids, q \in Ids : p # q => chan'[p] \cap chan'[q] = {}
            BY <2>4, <2>7 DEF AnswersReachTheirRequest
        <3>3. ASSUME NEW q \in Kinds, NEW j \in Keys, pending'[q][j] # None
              PROVE  chan'[pending'[q][j]] = {}
            <4>1. pending'[q][j] = pending[q][j] /\ ~(q = kind /\ j = k)
                BY <3>3, <2>6
            <4>2. /\ pending[q][j] \in Ids /\ chan[pending[q][j]] = {}
                  /\ call[pending[q][j]].kind = q /\ call[pending[q][j]].key = j
                BY <4>1, <3>3 DEF RequestsTypeOK, PendingFiled, AnswersReachTheirRequest
            <4> QED
                BY <4>1, <4>2, <2>1, <2>4
        <3> QED
            BY <3>1, <3>2, <3>3 DEF AnswersReachTheirRequest
    <2> QED
        BY <1>0, <2>8, <2>9, <2>10, <2>11
<1> QED
    BY <1>1, <1>2 DEF handleProto

-----------------------------------------------------------------------------
(* Both halves together.                                                   *)

IInv == KeyInv /\ RequestInv

LEMMA InitInv == Init => IInv
BY InitKey, InitRequest DEF IInv

LEMMA StepInv == IInv /\ [Next]_vars => IInv'
<1> SUFFICES ASSUME IInv, [Next]_vars PROVE IInv'
    OBVIOUS
<1> USE DEF IInv
<1>1. ASSUME NEW d \in Dests, WriteTo(d) PROVE IInv'
    BY <1>1, WriteKeeps, RequestFrame DEF WriteTo, InputOf
<1>2. ASSUME NEW k \in Keys, PathNotify(k) PROVE IInv'
    BY <1>2, UpdateKeeps, RequestFrame DEF PathNotify, InputOf
<1>3. ASSUME NEW k \in Keys, NEW src \in Dests, NEW large \in BOOLEAN, ReadTraffic(k, src, large)
      PROVE  IInv'
    BY <1>3, WriteKeeps, UpdateKeeps, RequestFrame DEF ReadTraffic, readPC, InputOf
<1>4. ASSUME NEW kind \in Kinds, NEW k \in Keys, ReadProto(kind, k) PROVE IInv'
    BY <1>4, ProtoKeeps, KeyFrame DEF ReadProto, InputOf
<1>5. ASSUME NEW kind \in Kinds, NEW k \in Keys, Ask(kind, k) PROVE IInv'
    BY <1>5, AskKeeps, KeyFrame DEF Ask, InputOf
<1>6. ASSUME NEW i \in Ids, Timer(i) PROVE IInv'
    <2>1. UNCHANGED inputs
        BY <1>6 DEF Timer, fires, expires
    <2> QED
        BY <1>6, <2>1, FiresKeeps, ExpiresKeeps, RequestFrame DEF Timer
<1>7. ASSUME NEW i \in Ids, Request(i) PROVE IInv'
    <2>1. UNCHANGED inputs
        BY <1>7 DEF Request, sendRequest, grows, timerDeletes, answered, timesOut
    <2>2. KeyInv'
        BY <1>7, <2>1, KeyFrame DEF Request
    <2> QED
        BY <1>7, <2>1, <2>2, SendRequestKeeps, GrowsKeeps, TimerDeletesKeeps, CallerKeeps DEF Request
<1>8. ASSUME Cleanup PROVE IInv'
    <2>1. UNCHANGED inputs
        BY <1>8 DEF Cleanup, cleanup
    <2> QED
        BY <1>8, <2>1, CleanupKeeps, KeyFrame DEF Cleanup
<1>9. CASE UNCHANGED vars
    BY <1>9, KeyFrame, RequestFrame DEF vars
<1> QED
    BY <1>1, <1>2, <1>3, <1>4, <1>5, <1>6, <1>7, <1>8, <1>9 DEF Next

LEMMA Invariance == Spec => []IInv
BY InitInv, StepInv, PTL DEF Spec

(* The state is well formed, and an info of the key store is filed under    *)
(* its own key, in every behaviour of every instance.                       *)
THEOREM TypeCorrect == Spec => []TypeOK
<1>1. IInv => TypeOK
    BY DEF IInv, KeyInv, RequestInv, TypeOK
<1> QED
    BY <1>1, Invariance, PTL

(* No packet waits for a destination that has an entry, nor for the address *)
(* of a known key or a subnet that it alone has, whichever keys share their *)
(* subnet and however update, sends and timers interleave.                  *)
THEOREM NothingWaits == Spec => []NoPacketWaits
<1>1. IInv => NoPacketWaits
    <2>1. \A k \in Keys : Of(k) \subseteq Dests
        BY KeyStoreAssumption DEF Of, Dests
    <2> QED
        BY <2>1 DEF IInv, KeyInv, EntriesFlush, KnownAreFiled, NoPacketWaits
<1> QED
    BY <1>1, Invariance, PTL

(* A response goes to one request, of its kind and key, and the channel of  *)
(* a pending request is empty, so the callback never blocks the actor.      *)
THEOREM AnswersGoHome == Spec => []AnswersReachTheirRequest
<1>1. IInv => AnswersReachTheirRequest
    BY DEF IInv, RequestInv
<1> QED
    BY <1>1, Invariance, PTL

(* An entry of the key store is only deleted by the timer function of the   *)
(* info that holds it.                                                      *)
THEOREM TimersKeepToTheirOwn == Spec => OnlyOwnTimer
<1> DEFINE Own == \A d \in Dests : (toInfo[d] # None /\ toInfo'[d] = None) =>
                      toInfo[d] \in fired \ fired'
<1>1. ASSUME IInv, [Next]_vars PROVE [Own]_<<keyStoreVars, inputs>>
    <2>1. UNCHANGED toInfo => Own
        BY KeyStoreAssumption
    <2>2. ASSUME NEW i \in Ids, Timer(i) PROVE Own
        BY <2>2 DEF Timer, fires, expires, expireInfo, expireBuffer
    <2>3. ASSUME NEW k \in Keys, Input, update(k) PROVE Own
        BY <1>1, <2>3, InputFacts DEF update, learn, new, IInv, KeyInv
    <2>4. ASSUME NEW d, writePC(d) PROVE Own
        BY <2>4, <2>1 DEF writePC, sendToAddress, sendToSubnet
    <2>5. ASSUME UNCHANGED keyStoreVars PROVE Own
        BY <2>5, <2>1 DEF keyStoreVars
    <2> HIDE DEF Own
    <2>6. CASE Next
        BY <2>6, <2>2, <2>3, <2>4, <2>5
        DEF Next, WriteTo, PathNotify, ReadTraffic, readPC, ReadProto, Ask, Request, Cleanup, InputOf
    <2>7. CASE UNCHANGED vars
        BY <2>7, <2>5 DEF vars
    <2> QED
        BY <1>1, <2>6, <2>7
<1> QED
    BY <1>1, Invariance, PTL DEF Spec, OnlyOwnTimer
=============================================================================
