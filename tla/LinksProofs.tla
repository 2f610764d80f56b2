----------------------------- MODULE LinksProofs -----------------------------
(***************************************************************************)
(* Proofs about Links.  The first part holds for every Addr; the second    *)
(* for DialledApart: an accepted connection is not filed under a URI that  *)
(* is dialled.  Accepted connections may share their URIs with each other. *)
(***************************************************************************)
EXTENDS Links, FiniteSetTheorems, TLAPS

\* An entry of _links is filed under the URI of its state.
EntryAtInfo == \A i \in Infos : _links[i] # None => link[_links[i]].info = i

\* The goroutine of an accepted connection that has got as far as the handshake
\* has a state, and the state has the URI of the connection.
InboundAtInfo ==
    \A c \in Conns :
        IF inbound[c].pc \in {"none", "accepted"}
        THEN inbound[c].st = None
        ELSE inbound[c].st # None /\ link[inbound[c].st].info = Addr[c]

OwnedInv == TypeOK /\ EntryAtInfo /\ InboundAtInfo /\ NoGhostEntry

-----------------------------------------------------------------------------

LEMMA Records ==
    /\ NoLink \in LinkRecord
    /\ NoInbound \in InboundRecord
BY DEF NoLink, LinkRecord, LinkTypes, NoInbound, InboundRecord

LEMMA InitOwned == Init => OwnedInv
<1> SUFFICES ASSUME Init PROVE OwnedInv
    OBVIOUS
<1> USE LinksAssumption DEF Init
<1>1. TypeOK
    BY Records DEF TypeOK, ListenerStates
<1>2. EntryAtInfo
    BY DEF EntryAtInfo
<1>3. InboundAtInfo
    BY DEF InboundAtInfo, NoInbound
<1>4. NoGhostEntry
    BY DEF NoGhostEntry
<1> QED
    BY <1>1, <1>2, <1>3, <1>4 DEF OwnedInv

\* The deferred block keeps the type of the map, removes the entry of the state,
\* if it is there, and touches no other.
LEMMA DeleteEntryEffect ==
    ASSUME NEW i, NEW k \in LinkStates, _links \in [Infos -> LinkStates \cup {None}],
           DeleteEntry(i, k)
    PROVE  /\ _links' \in [Infos -> LinkStates \cup {None}]
           /\ \A j \in Infos : _links'[j] = IF j = i /\ _links[j] = k THEN None ELSE _links[j]
BY DEF DeleteEntry

\* Kicking touches the place of the dialler only.
LEMMA KickedEffect ==
    ASSUME NEW k \in LinkStates, link \in [LinkStates -> LinkRecord]
    PROVE  /\ Kicked(k) \in LinkRecord
           /\ Kicked(k).info = link[k].info
           /\ Kicked(k).type = link[k].type
           /\ Kicked(k).conn = link[k].conn
           /\ Kicked(k).own = link[k].own
           /\ Kicked(k).cancelled = link[k].cancelled
           /\ Kicked(k).pc = IF link[k].pc = "backoff" THEN "top" ELSE link[k].pc
<1>1. link[k] \in LinkRecord
    OBVIOUS
<1> QED
    BY <1>1 DEF Kicked, LinkRecord

\* Removing cancels the context and touches nothing of the dialler's.
LEMMA RemovedEffect ==
    ASSUME NEW k \in LinkStates, link \in [LinkStates -> LinkRecord]
    PROVE  /\ Removed(k) \in LinkRecord
           /\ Removed(k).cancelled
           /\ Removed(k).info = link[k].info
           /\ Removed(k).type = link[k].type
           /\ Removed(k).conn = link[k].conn
           /\ Removed(k).own = link[k].own
           /\ Removed(k).pc = link[k].pc
<1>1. link[k] \in LinkRecord
    OBVIOUS
<1> QED
    BY <1>1 DEF Removed, InDial, LinkRecord

-----------------------------------------------------------------------------
(* The type invariant.                                                     *)

LEMMA TypeStep == TypeOK /\ InboundAtInfo /\ [Next]_vars => TypeOK'
<1> SUFFICES ASSUME TypeOK, InboundAtInfo, [Next]_vars PROVE TypeOK'
    OBVIOUS
<1> USE LinksAssumption, Records
<1>1. ASSUME NEW i \in DialInfos, NEW t \in {"persistent", "ephemeral"}, NEW k \in LinkStates,
             addNew(i, t, k)
      PROVE  TypeOK'
    <2>1. [NoLink EXCEPT !.type = t, !.info = i, !.pc = "top"] \in LinkRecord
        BY DEF NoLink, LinkRecord, LinkTypes, Infos
    <2> QED
        BY <1>1, <2>1 DEF addNew, TypeOK, Infos
<1>2. ASSUME NEW i \in DialInfos, addExisting(i)
      PROVE  TypeOK'
    <2>1. _links[i] \in LinkStates
        BY <1>2 DEF addExisting, TypeOK, Infos
    <2> QED
        BY <1>2, <2>1, KickedEffect DEF addExisting, TypeOK
<1>3. CASE RetryPeersNow
    BY <1>3, KickedEffect DEF RetryPeersNow, TypeOK
<1>4. ASSUME NEW i \in RemoveInfos, remove(i)
      PROVE  TypeOK'
    <2>1. _links[i] \in LinkStates
        BY <1>4 DEF remove, TypeOK, Infos
    <2>2. Removed(_links[i]) \in LinkRecord
        BY <2>1, RemovedEffect DEF TypeOK
    <2> QED
        BY <1>4, <2>1, <2>2 DEF remove, TypeOK
<1>5. ASSUME NEW i \in RemoveInfos, removeIncoming(i)
      PROVE  TypeOK'
    BY <1>5 DEF removeIncoming, TypeOK
<1>6. CASE listenOpens \/ listenFails \/ listenRegisters \/ StopListener \/ Cancel \/ AcceptLoopEnds \/ ClosePacketConn
    BY <1>6 DEF listenOpens, listenFails, listenRegisters, StopListener, Cancel, AcceptLoopEnds,
        ClosePacketConn, TypeOK, ListenerStates
<1>7. CASE shutdown
    BY <1>7 DEF shutdown, TypeOK, ListenerStates
<1>8. ASSUME NEW k \in LinkStates, Dialler(k)
      PROVE  TypeOK'
    <2>0. link[k] \in LinkRecord
        BY DEF TypeOK
    <2>1. CASE LoopTop(k)
        BY <2>1 DEF LoopTop, TypeOK, LinkRecord
    <2>2. CASE DialFails(k)
        <3>1. link'[k] \in LinkRecord
            BY <2>2, <2>0 DEF DialFails, AfterFailure, TypeOK, LinkRecord
        <3> QED
            BY <2>2, <3>1 DEF DialFails, TypeOK
    <2>3. CASE Install(k)
        <3>1. link'[k] \in LinkRecord
            BY <2>3, <2>0 DEF Install, TypeOK, LinkRecord
        <3> QED
            BY <2>3, <3>1 DEF Install, TypeOK
    <2>4. ASSUME NEW c \in Conns, DialSucceeds(k, c)
          PROVE  TypeOK'
        <3>1. link'[k] \in LinkRecord
            BY <2>4, <2>0 DEF DialSucceeds, TypeOK, LinkRecord
        <3> QED
            BY <2>4, <3>1 DEF DialSucceeds, TypeOK
    <2>5. CASE HandshakeDone(k)
        <3>1. link'[k] \in LinkRecord
            BY <2>5, <2>0 DEF HandshakeDone, TypeOK, LinkRecord
        <3> QED
            BY <2>5, <3>1 DEF HandshakeDone, TypeOK
    <2>6. ASSUME NEW self \in BOOLEAN, HandlerReturns(k, self)
          PROVE  TypeOK'
        <3>1. link'[k] \in LinkRecord
            BY <2>6, <2>0 DEF HandlerReturns, TypeOK, LinkRecord
        <3> QED
            BY <2>6, <3>1 DEF HandlerReturns, TypeOK
    <2>7. CASE DropConn(k)
        <3>1. link'[k] \in LinkRecord
            BY <2>7, <2>0 DEF DropConn, AfterFailure, TypeOK, LinkRecord
        <3> QED
            BY <2>7, <3>1 DEF DropConn, TypeOK
    <2>8. CASE BackoffTimeout(k) \/ BackoffCancelled(k)
        BY <2>8 DEF BackoffTimeout, BackoffCancelled, TypeOK, LinkRecord
    <2>9. CASE Exit(k)
        <3>1. [link[k] EXCEPT !.pc = "none"] \in LinkRecord
            BY DEF TypeOK, LinkRecord
        <3>2. _links' \in [Infos -> LinkStates \cup {None}]
            BY <2>9, DeleteEntryEffect DEF Exit, TypeOK
        <3> QED
            BY <2>9, <3>1, <3>2 DEF Exit, TypeOK
    <2> QED
        BY <1>8, <2>1, <2>2, <2>3, <2>4, <2>5, <2>6, <2>7, <2>8, <2>9 DEF Dialler
<1>9. ASSUME NEW c \in Conns, Inbound(c)
      PROVE  TypeOK'
    <2>1. CASE Accept(c)
        BY <2>1 DEF Accept, TypeOK, InboundRecord
    <2>2. ASSUME NEW k \in LinkStates, FileInbound(c, k)
          PROVE  TypeOK'
        <3>1. Addr[c] \in Infos
            OBVIOUS
        <3>2. link' \in [LinkStates -> LinkRecord]
            <4>1. [link[k] EXCEPT !.conn = c, !.info = Addr[c]] \in LinkRecord
                BY <3>1 DEF TypeOK, LinkRecord
            <4> QED
                BY <2>2, <4>1 DEF FileInbound, TypeOK
        <3>3. inbound' \in [Conns -> InboundRecord]
            BY <2>2 DEF FileInbound, TypeOK, InboundRecord
        <3> QED
            BY <2>2, <3>1, <3>2, <3>3 DEF FileInbound, TypeOK
    <2>3. CASE InboundHandshakeDone(c)
        BY <2>3 DEF InboundHandshakeDone, TypeOK, InboundRecord
    <2>4. CASE InboundHandlerReturns(c)
        BY <2>4 DEF InboundHandlerReturns, TypeOK, InboundRecord
    <2>5. CASE InboundExit(c)
        <3>1. inbound[c].st \in LinkStates
            BY <2>5 DEF InboundExit, InboundAtInfo, TypeOK, InboundRecord
        <3>2. _links' \in [Infos -> LinkStates \cup {None}]
            BY <2>5, <3>1, DeleteEntryEffect DEF InboundExit, TypeOK
        <3> QED
            BY <2>5, <3>1, <3>2 DEF InboundExit, TypeOK
    <2> QED
        BY <1>9, <2>1, <2>2, <2>3, <2>4, <2>5 DEF Inbound
<1>10. CASE UNCHANGED vars
    BY <1>10 DEF vars, TypeOK
<1> QED
    BY <1>1, <1>2, <1>3, <1>4, <1>5, <1>6, <1>7, <1>8, <1>9, <1>10 DEF Next, Api

-----------------------------------------------------------------------------
(* Entries and their owners.                                               *)

Owners == EntryAtInfo /\ InboundAtInfo /\ NoGhostEntry

\* A step that leaves the map and the accept goroutines alone, and neither renames a
\* state nor ends a dialler, keeps the owners.
LEMMA QuietStep ==
    ASSUME OwnedInv, UNCHANGED <<_links, inbound>>,
           \A k \in LinkStates : /\ link'[k].info = link[k].info
                                 /\ link[k].pc # "none" => link'[k].pc # "none"
    PROVE  Owners'
<1> USE LinksAssumption
<1>0. /\ TypeOK /\ EntryAtInfo /\ InboundAtInfo /\ NoGhostEntry
      /\ _links' = _links
      /\ inbound' = inbound
    BY DEF OwnedInv
<1>1. ASSUME NEW i \in Infos, _links[i] # None
      PROVE  _links[i] \in LinkStates
    BY <1>0, <1>1 DEF TypeOK
<1>2. ASSUME NEW i \in Infos, _links'[i] # None
      PROVE  link'[_links'[i]].info = i
    <2>1. _links[i] # None /\ _links'[i] = _links[i]
        BY <1>0, <1>2
    <2>2. link[_links[i]].info = i
        BY <1>0, <2>1 DEF EntryAtInfo
    <2> QED
        BY <1>1, <2>1, <2>2
<1>3. ASSUME NEW c \in Conns, inbound'[c].pc \notin {"none", "accepted"}
      PROVE  inbound'[c].st # None /\ link'[inbound'[c].st].info = Addr[c]
    <2>1. inbound[c].st # None /\ link[inbound[c].st].info = Addr[c]
        BY <1>0, <1>3 DEF InboundAtInfo
    <2>2. inbound[c].st \in LinkStates
        BY <1>0, <2>1 DEF TypeOK, InboundRecord
    <2> QED
        BY <1>0, <2>1, <2>2
<1>4. ASSUME NEW c \in Conns, inbound'[c].pc \in {"none", "accepted"}
      PROVE  inbound'[c].st = None
    BY <1>0, <1>4 DEF InboundAtInfo
<1>5. ASSUME NEW i \in Infos, _links'[i] # None
      PROVE  link'[_links'[i]].pc # "none" \/ \E c \in Conns : inbound'[c].st = _links'[i]
    <2>1. _links[i] # None /\ _links'[i] = _links[i]
        BY <1>0, <1>5
    <2>2. link[_links[i]].pc # "none" \/ \E c \in Conns : inbound[c].st = _links[i]
        BY <1>0, <2>1 DEF NoGhostEntry
    <2> QED
        BY <1>0, <1>1, <2>1, <2>2
<1> QED
    BY <1>2, <1>3, <1>4, <1>5 DEF Owners, EntryAtInfo, InboundAtInfo, NoGhostEntry

LEMMA OwnersStep == OwnedInv /\ [Next]_vars => Owners'
<1> SUFFICES ASSUME OwnedInv, [Next]_vars PROVE Owners'
    OBVIOUS
<1> USE LinksAssumption
<1>0. TypeOK /\ EntryAtInfo /\ InboundAtInfo /\ NoGhostEntry
    BY DEF OwnedInv
<1>1. ASSUME NEW i \in DialInfos, NEW t \in {"persistent", "ephemeral"}, NEW k \in LinkStates,
             addNew(i, t, k)
      PROVE  Owners'
    <2>1. i \in Infos
        BY DEF Infos
    <2>2. /\ _links' = [_links EXCEPT ![i] = k]
          /\ inbound' = inbound
          /\ link'[k].info = i
          /\ link'[k].pc = "top"
          /\ \A j \in LinkStates \ {k} : link'[j] = link[j]
        BY <1>0, <1>1 DEF addNew, NoLink, TypeOK
    <2>3. /\ \A j \in Infos : _links[j] # k
          /\ \A c \in Conns : inbound[c].st # k
        BY <1>1 DEF addNew, FreeLink, Referenced
    <2>4. EntryAtInfo'
        BY <1>0, <2>1, <2>2, <2>3 DEF EntryAtInfo, TypeOK
    <2>5. InboundAtInfo'
        BY <1>0, <2>2, <2>3 DEF InboundAtInfo, TypeOK, InboundRecord
    <2>6. NoGhostEntry'
        BY <1>0, <2>1, <2>2, <2>3 DEF NoGhostEntry, TypeOK
    <2> QED
        BY <2>4, <2>5, <2>6 DEF Owners
<1>2. ASSUME NEW i \in DialInfos, addExisting(i)
      PROVE  Owners'
    <2>1. _links[i] \in LinkStates
        BY <1>0, <1>2 DEF addExisting, TypeOK, Infos
    <2>2. /\ Kicked(_links[i]).info = link[_links[i]].info
          /\ link[_links[i]].pc # "none" => Kicked(_links[i]).pc # "none"
        BY <1>0, <2>1, KickedEffect DEF TypeOK
    <2>3. UNCHANGED <<_links, inbound>>
        BY <1>2 DEF addExisting
    <2>4. ASSUME NEW k \in LinkStates
          PROVE  /\ link'[k].info = link[k].info
                 /\ link[k].pc # "none" => link'[k].pc # "none"
        BY <1>0, <1>2, <2>1, <2>2 DEF addExisting, TypeOK
    <2> QED
        BY <2>3, <2>4, QuietStep
<1>3. CASE RetryPeersNow
    <2>1. UNCHANGED <<_links, inbound>>
        BY <1>3 DEF RetryPeersNow
    <2>2. ASSUME NEW k \in LinkStates
          PROVE  /\ link'[k].info = link[k].info
                 /\ link[k].pc # "none" => link'[k].pc # "none"
        BY <1>0, <1>3, KickedEffect DEF RetryPeersNow, TypeOK
    <2> QED
        BY <2>1, <2>2, QuietStep
<1>4. ASSUME NEW i \in RemoveInfos, remove(i)
      PROVE  Owners'
    <2>1. UNCHANGED <<_links, inbound>>
        BY <1>4 DEF remove
    <2>2. _links[i] \in LinkStates
        BY <1>0, <1>4 DEF remove, TypeOK, Infos
    <2>3. ASSUME NEW k \in LinkStates
          PROVE  link'[k].info = link[k].info /\ link'[k].pc = link[k].pc
        BY <1>0, <1>4, <2>2, RemovedEffect DEF remove, TypeOK
    <2> QED
        BY <2>1, <2>3, QuietStep
<1>5. ASSUME UNCHANGED <<_links, link, inbound>>
      PROVE  Owners'
    BY <1>5, QuietStep
<1>6. ASSUME NEW k \in LinkStates, Dialler(k), ~Exit(k)
      PROVE  Owners'
    <2>1. UNCHANGED <<_links, inbound>>
        BY <1>6 DEF Dialler, LoopTop, DialFails, Install, DialSucceeds, HandshakeDone,
            HandlerReturns, DropConn, BackoffTimeout, BackoffCancelled
    <2>0. link \in [LinkStates -> LinkRecord] /\ link[k] \in LinkRecord
        BY <1>0 DEF TypeOK
    <2>2. /\ link'[k].info = link[k].info
          /\ link'[k].pc # "none"
          /\ \A j \in LinkStates \ {k} : link'[j] = link[j]
        <3> USE <2>0 DEF LinkRecord
        <3>1. CASE LoopTop(k) \/ BackoffTimeout(k) \/ BackoffCancelled(k)
            BY <3>1 DEF LoopTop, BackoffTimeout, BackoffCancelled
        <3>2. CASE DialFails(k)
            BY <3>2 DEF DialFails, AfterFailure
        <3>3. CASE Install(k)
            BY <3>3 DEF Install
        <3>4. ASSUME NEW c \in Conns, DialSucceeds(k, c)
              PROVE  /\ link'[k].info = link[k].info
                     /\ link'[k].pc # "none"
                     /\ \A j \in LinkStates \ {k} : link'[j] = link[j]
            BY <3>4 DEF DialSucceeds
        <3>5. CASE HandshakeDone(k)
            BY <3>5 DEF HandshakeDone
        <3>6. ASSUME NEW self \in BOOLEAN, HandlerReturns(k, self)
              PROVE  /\ link'[k].info = link[k].info
                     /\ link'[k].pc # "none"
                     /\ \A j \in LinkStates \ {k} : link'[j] = link[j]
            BY <3>6 DEF HandlerReturns
        <3>7. CASE DropConn(k)
            BY <3>7 DEF DropConn, AfterFailure
        <3> QED
            BY <1>6, <3>1, <3>2, <3>3, <3>4, <3>5, <3>6, <3>7 DEF Dialler
    <2>3. ASSUME NEW j \in LinkStates
          PROVE  /\ link'[j].info = link[j].info
                 /\ link[j].pc # "none" => link'[j].pc # "none"
        BY <2>2
    <2> QED
        BY <2>1, <2>3, QuietStep
<1>7. ASSUME NEW k \in LinkStates, Exit(k)
      PROVE  Owners'
    <2>1. \A j \in Infos : _links'[j] = IF _links[j] = k THEN None ELSE _links[j]
        <3>1. \A j \in Infos : _links[j] = k => j = link[k].info
            BY <1>0 DEF EntryAtInfo, TypeOK
        <3> QED
            BY <1>0, <1>7, <3>1, DeleteEntryEffect DEF Exit, TypeOK
    <2>2. /\ inbound' = inbound
          /\ \A j \in LinkStates \ {k} : link'[j] = link[j]
          /\ (\E c \in Conns : inbound[c].st = k) => link'[k].info = link[k].info
        BY <1>0, <1>7 DEF Exit, TypeOK, LinkRecord
    <2>3. EntryAtInfo'
        BY <1>0, <2>1, <2>2 DEF EntryAtInfo, TypeOK
    <2>4. InboundAtInfo'
        BY <1>0, <2>2 DEF InboundAtInfo, TypeOK, InboundRecord
    <2>5. NoGhostEntry'
        BY <1>0, <2>1, <2>2 DEF NoGhostEntry, TypeOK
    <2> QED
        BY <2>3, <2>4, <2>5 DEF Owners
<1>8. ASSUME NEW c \in Conns, Accept(c) \/ InboundHandshakeDone(c) \/ InboundHandlerReturns(c)
      PROVE  Owners'
    <2>1. UNCHANGED <<_links, link>>
        BY <1>8 DEF Accept, InboundHandshakeDone, InboundHandlerReturns
    <2>2. /\ \A d \in Conns : inbound'[d].st = inbound[d].st
          /\ \A d \in Conns : inbound'[d].pc \in {"none", "accepted"} <=> inbound[d].pc \in {"none", "accepted"}
        <3>1. CASE Accept(c)
            BY <1>0, <3>1 DEF Accept, FreeConn, NoInbound, TypeOK, InboundRecord
        <3>2. CASE InboundHandshakeDone(c)
            BY <1>0, <3>2 DEF InboundHandshakeDone, TypeOK, InboundRecord
        <3>3. CASE InboundHandlerReturns(c)
            BY <1>0, <3>3 DEF InboundHandlerReturns, TypeOK, InboundRecord
        <3> QED
            BY <1>8, <3>1, <3>2, <3>3
    <2>3. EntryAtInfo'
        BY <1>0, <2>1 DEF EntryAtInfo
    <2>4. InboundAtInfo'
        BY <1>0, <2>1, <2>2 DEF InboundAtInfo
    <2>5. NoGhostEntry'
        BY <1>0, <2>1, <2>2 DEF NoGhostEntry
    <2> QED
        BY <2>3, <2>4, <2>5 DEF Owners
<1>9. ASSUME NEW c \in Conns, NEW k \in LinkStates, FileInbound(c, k)
      PROVE  Owners'
    <2>1. Addr[c] \in Infos
        OBVIOUS
    <2>2. /\ inbound'[c].st = k
          /\ inbound'[c].pc \notin {"none", "accepted"}
          /\ \A d \in Conns \ {c} : inbound'[d] = inbound[d]
          /\ inbound[c].st = None
        BY <1>0, <1>9 DEF FileInbound, InboundAtInfo, TypeOK
    <2>3. \A j \in LinkStates \ {k} : link'[j] = link[j]
        BY <1>0, <1>9 DEF FileInbound, TypeOK
    <2>4. CASE _links[Addr[c]] # None
        <3>1. k = _links[Addr[c]] /\ link[k].info = Addr[c]
            BY <1>0, <1>9, <2>1, <2>4 DEF FileInbound, EntryAtInfo
        <3>0. link \in [LinkStates -> LinkRecord] /\ link[k] \in LinkRecord
            BY <1>0 DEF TypeOK
        <3>2. _links' = _links /\ link'[k].info = Addr[c]
            <4>1. CASE link[k].conn # None
                BY <1>9, <3>1, <4>1 DEF FileInbound
            <4>2. CASE link[k].conn = None
                <5>1. _links' = [_links EXCEPT ![Addr[c]] = k]
                    BY <1>9, <4>2 DEF FileInbound
                <5>2. _links' = _links
                    BY <1>0, <2>1, <3>1, <5>1 DEF TypeOK
                <5>3. link' = [link EXCEPT ![k] = [@ EXCEPT !.conn = c, !.info = Addr[c]]]
                    BY <1>9, <4>2 DEF FileInbound
                <5>4. link'[k].info = Addr[c]
                    BY <3>0, <5>3 DEF LinkRecord
                <5> QED
                    BY <5>2, <5>4
            <4> QED
                BY <4>1, <4>2
        <3>3. EntryAtInfo'
            BY <1>0, <2>3, <3>1, <3>2 DEF EntryAtInfo, TypeOK
        <3>4. InboundAtInfo'
            BY <1>0, <2>2, <2>3, <3>1, <3>2 DEF InboundAtInfo, TypeOK, InboundRecord
        <3>5. ASSUME NEW j \in Infos, _links'[j] # None
              PROVE  link'[_links'[j]].pc # "none" \/ \E d \in Conns : inbound'[d].st = _links'[j]
            <4>1. CASE _links[j] = k
                BY <2>2, <3>2, <4>1
            <4>2. CASE _links[j] # k
                BY <1>0, <2>2, <2>3, <3>2, <3>5, <4>2 DEF NoGhostEntry, TypeOK
            <4> QED
                BY <4>1, <4>2
        <3> QED
            BY <3>3, <3>4, <3>5 DEF Owners, NoGhostEntry
    <2>5. CASE _links[Addr[c]] = None
        <3>1. link[k] = NoLink /\ ~Referenced(k)
            BY <1>9, <2>5 DEF FileInbound, FreeLink
        <3>2. link[k].conn = None
            BY <3>1 DEF NoLink
        <3>3. /\ _links' = [_links EXCEPT ![Addr[c]] = k]
              /\ link'[k].info = Addr[c]
            <4>1. /\ link' = [link EXCEPT ![k] = [@ EXCEPT !.conn = c, !.info = Addr[c]]]
                  /\ _links' = [_links EXCEPT ![Addr[c]] = k]
                BY <1>9, <3>2 DEF FileInbound
            <4>2. link \in [LinkStates -> LinkRecord] /\ link[k] \in LinkRecord
                BY <1>0 DEF TypeOK
            <4>3. link'[k].info = Addr[c]
                BY <4>1, <4>2 DEF LinkRecord
            <4> QED
                BY <4>1, <4>3
        <3>4. /\ \A j \in Infos : _links[j] # k
              /\ \A d \in Conns : inbound[d].st # k
            BY <3>1 DEF Referenced
        <3>5. EntryAtInfo'
            BY <1>0, <2>1, <2>3, <3>3, <3>4 DEF EntryAtInfo, TypeOK
        <3>6. InboundAtInfo'
            BY <1>0, <2>2, <2>3, <3>3, <3>4 DEF InboundAtInfo, TypeOK, InboundRecord
        <3>7. ASSUME NEW j \in Infos, _links'[j] # None
              PROVE  link'[_links'[j]].pc # "none" \/ \E d \in Conns : inbound'[d].st = _links'[j]
            <4>1. CASE j = Addr[c]
                BY <1>0, <2>2, <3>3, <4>1 DEF TypeOK
            <4>2. CASE j # Addr[c]
                BY <1>0, <2>2, <2>3, <3>3, <3>4, <3>7, <4>2 DEF NoGhostEntry, TypeOK
            <4> QED
                BY <4>1, <4>2
        <3> QED
            BY <3>5, <3>6, <3>7 DEF Owners, NoGhostEntry
    <2> QED
        BY <2>4, <2>5
<1>10. ASSUME NEW c \in Conns, InboundExit(c)
       PROVE  Owners'
    <2> DEFINE k == inbound[c].st
    <2>1. k \in LinkStates /\ link[k].info = Addr[c]
        BY <1>0, <1>10 DEF InboundExit, InboundAtInfo, TypeOK, InboundRecord
    <2>2. \A j \in Infos : _links'[j] = IF _links[j] = k THEN None ELSE _links[j]
        <3>1. \A j \in Infos : _links[j] = k => j = Addr[c]
            BY <1>0, <2>1 DEF EntryAtInfo, TypeOK
        <3> HIDE DEF k
        <3>2. DeleteEntry(Addr[c], k)
            BY <1>10 DEF InboundExit, k
        <3> QED
            BY <1>0, <2>1, <3>1, <3>2, DeleteEntryEffect DEF TypeOK
    <2>3. /\ inbound' = [inbound EXCEPT ![c] = NoInbound]
          /\ \A j \in LinkStates \ {k} : link'[j] = link[j]
          /\ (\E d \in Conns \ {c} : inbound[d].st = k) => link'[k] = link[k]
        BY <1>0, <1>10, <2>1 DEF InboundExit, TypeOK
    <2> HIDE DEF k
    <2>4. EntryAtInfo'
        BY <1>0, <2>1, <2>2, <2>3 DEF EntryAtInfo, TypeOK
    <2>5. InboundAtInfo'
        BY <1>0, <2>1, <2>3 DEF InboundAtInfo, TypeOK, InboundRecord, NoInbound
    <2>6. ASSUME NEW j \in Infos, _links'[j] # None
          PROVE  link'[_links'[j]].pc # "none" \/ \E d \in Conns : inbound'[d].st = _links'[j]
        <3>1. _links'[j] = _links[j] /\ _links[j] # k /\ _links[j] \in LinkStates
            BY <1>0, <2>2, <2>6 DEF TypeOK
        <3>2. link'[_links[j]] = link[_links[j]]
            BY <2>3, <3>1
        <3>3. CASE \E d \in Conns : inbound[d].st = _links[j]
            <4>1. PICK d \in Conns : inbound[d].st = _links[j]
                BY <3>3
            <4>2. d # c
                BY <3>1, <4>1 DEF k
            <4> QED
                BY <1>0, <2>3, <3>1, <4>1, <4>2 DEF TypeOK
        <3> QED
            BY <1>0, <3>1, <3>2, <3>3, <2>6 DEF NoGhostEntry
    <2> QED
        BY <2>4, <2>5, <2>6 DEF Owners, NoGhostEntry
<1>11. CASE UNCHANGED vars
    BY <1>5, <1>11 DEF vars
<1>12. ASSUME NEW c \in Conns, Inbound(c)
       PROVE  Owners'
    BY <1>8, <1>9, <1>10, <1>12 DEF Inbound
<1>13. ASSUME NEW k \in LinkStates, Dialler(k)
       PROVE  Owners'
    BY <1>6, <1>7, <1>13
<1>14. CASE Api
    <2>1. ASSUME NEW i \in RemoveInfos, removeIncoming(i)
          PROVE  Owners'
        BY <1>5, <2>1 DEF removeIncoming
    <2>2. CASE listenOpens \/ listenFails \/ listenRegisters \/ StopListener \/ Cancel
        BY <1>5, <2>2 DEF listenOpens, listenFails, listenRegisters, StopListener, Cancel
    <2> QED
        BY <1>1, <1>2, <1>3, <1>4, <1>14, <2>1, <2>2 DEF Api
<1>15. CASE AcceptLoopEnds \/ shutdown \/ ClosePacketConn
    BY <1>5, <1>15 DEF AcceptLoopEnds, shutdown, ClosePacketConn
<1> QED
    BY <1>11, <1>12, <1>13, <1>14, <1>15 DEF Next

\* OwnedInv is an invariant, whatever URIs accepted connections have.
LEMMA OwnedInvariance == Spec => []OwnedInv
<1>1. OwnedInv /\ [Next]_vars => OwnedInv'
    BY TypeStep, OwnersStep DEF OwnedInv, Owners
<1> QED
    BY <1>1, InitOwned, PTL DEF Spec

\* Type correctness of the links, their diallers and the accept goroutines.
THEOREM LinksTypeCorrect == Spec => []TypeOK
<1>1. OwnedInv => TypeOK
    BY DEF OwnedInv
<1> QED
    BY <1>1, OwnedInvariance, PTL

\* Every entry of _links has a goroutine that will delete it, also where accepted
\* connections share the URI of a peer that is dialled.
THEOREM EntriesAreOwned == Spec => []NoGhostEntry
<1>1. OwnedInv => NoGhostEntry
    BY DEF OwnedInv
<1> QED
    BY <1>1, OwnedInvariance, PTL

-----------------------------------------------------------------------------
(* Accepted connections apart from the dialled ones.                       *)

\* No accepted connection has the URI of a peer that is dialled.
DialledApart == \A c \in Conns : Addr[c] \notin DialInfos

\* A link that has a dialler was made by add and is listed, _conn is the dialler's own
\* connection from the block that installs it to the one that drops it, and a
\* persistent one ends only when its context has ended.
LinkOK(k) ==
    /\ link[k].pc = "none" => link[k].type = "incoming" /\ link[k].own = None
    /\ link[k].pc # "none" => link[k].info \in DialInfos /\ _links[link[k].info] = k
    /\ link[k].pc \in {"top", "dialing", "dialed", "backoff", "exit"} => link[k].conn = None
    /\ link[k].pc \in {"top", "dialing", "backoff", "exit"} => link[k].own = None
    /\ link[k].pc = "ended" => link[k].own \notin open
    /\ link[k].pc = "exit" /\ link[k].type = "persistent" => Done(k)

\* A connection that an accept goroutine has given to the handler is the one that its
\* state holds.
HandledIsHeld ==
    \A c \in Conns : inbound[c].pc \in {"handshake", "up"} => link[inbound[c].st].conn = c

ApartInv == OwnedInv /\ (\A k \in LinkStates : LinkOK(k)) /\ NoOrphanConn /\ HandledIsHeld

\* A step that leaves a link and its entry alone, does not open the connection it has
\* closed and does not undo the cancellation keeps LinkOK.
LEMMA LinkFrame ==
    ASSUME NEW k \in LinkStates, LinkOK(k),
           link'[k] = link[k],
           link[k].pc # "none" => _links'[link[k].info] = _links[link[k].info],
           link[k].pc = "ended" => link[k].own \notin open',
           stage # "running" => stage' # "running"
    PROVE  LinkOK(k)'
BY DEF LinkOK, Done

\* An accept goroutine never has the state of a link that is dialled.
LEMMA InboundHasNoDialler ==
    ASSUME DialledApart, ApartInv, NEW c \in Conns,
           inbound[c].st # None
    PROVE  inbound[c].st \in LinkStates /\ link[inbound[c].st].pc = "none"
<1>1. TypeOK /\ InboundAtInfo
    BY DEF ApartInv, OwnedInv
<1>2. inbound[c].st \in LinkStates
    BY <1>1 DEF TypeOK, InboundRecord
<1>3. link[inbound[c].st].info = Addr[c]
    BY <1>1 DEF InboundAtInfo
<1>4. LinkOK(inbound[c].st)
    BY <1>2 DEF ApartInv
<1> QED
    BY <1>2, <1>3, <1>4 DEF LinkOK, DialledApart

LEMMA LinksStep ==
    ASSUME DialledApart, ApartInv, [Next]_vars
    PROVE  \A k \in LinkStates : LinkOK(k)'
<1> USE LinksAssumption
<1>0. /\ TypeOK
      /\ EntryAtInfo
      /\ InboundAtInfo
      /\ \A k \in LinkStates : LinkOK(k)
    BY DEF ApartInv, OwnedInv
<1>a. /\ link \in [LinkStates -> LinkRecord]
      /\ \A k \in LinkStates : link[k] \in LinkRecord
      /\ _links \in [Infos -> LinkStates \cup {None}]
    BY <1>0 DEF TypeOK
<1>b. DialInfos \subseteq Infos
    BY DEF Infos
<1>1. ASSUME NEW i \in DialInfos, NEW t \in {"persistent", "ephemeral"}, NEW k \in LinkStates,
             addNew(i, t, k), NEW j \in LinkStates
      PROVE  LinkOK(j)'
    <2>1. /\ link'[k] = [NoLink EXCEPT !.type = t, !.info = i, !.pc = "top"]
          /\ \A m \in LinkStates \ {k} : link'[m] = link[m]
          /\ _links' = [_links EXCEPT ![i] = k]
          /\ _links[i] = None
          /\ UNCHANGED <<open, stage>>
        BY <1>1, <1>a DEF addNew
    <2>2. CASE j = k
        <3>1. /\ link'[k].pc = "top" /\ link'[k].info = i
              /\ link'[k].conn = None /\ link'[k].own = None
            BY <2>1 DEF NoLink
        <3>2. _links'[i] = k
            BY <1>a, <1>b, <2>1
        <3> QED
            BY <2>2, <3>1, <3>2 DEF LinkOK
    <2>3. CASE j # k
        <3>1. link[j].pc # "none" => link[j].info \in DialInfos /\ link[j].info # i
            BY <1>0, <2>1 DEF LinkOK
        <3>2. link[j].pc = "ended" => link[j].own \notin open
            BY <1>0 DEF LinkOK
        <3> QED
            BY <1>0, <1>a, <1>b, <2>1, <2>3, <3>1, <3>2, LinkFrame
    <2> QED
        BY <2>2, <2>3
<1>2. ASSUME NEW k \in LinkStates, UNCHANGED <<_links, open, stage>>,
             link'[k] = link[k] \/ link'[k] = Kicked(k)
      PROVE  LinkOK(k)'
    <2>1. link[k].pc = "ended" => link[k].own \notin open
        BY <1>0 DEF LinkOK
    <2>2. CASE link'[k] = link[k]
        BY <1>0, <1>2, <2>1, <2>2, LinkFrame
    <2>3. CASE link'[k] = Kicked(k)
        BY <1>0, <1>2, <1>a, <2>3, KickedEffect DEF LinkOK, Done
    <2> QED
        BY <1>2, <2>2, <2>3
<1>3. ASSUME NEW i \in DialInfos, addExisting(i), NEW k \in LinkStates
      PROVE  LinkOK(k)'
    <2>1. link'[k] = link[k] \/ link'[k] = Kicked(k)
        BY <1>3, <1>a DEF addExisting
    <2> QED
        BY <1>2, <1>3, <2>1 DEF addExisting
<1>4. ASSUME RetryPeersNow, NEW k \in LinkStates
      PROVE  LinkOK(k)'
    <2>1. link'[k] = link[k] \/ link'[k] = Kicked(k)
        BY <1>4 DEF RetryPeersNow
    <2> QED
        BY <1>2, <1>4, <2>1 DEF RetryPeersNow
<1>5. ASSUME UNCHANGED <<_links, link>>, open' \subseteq open,
             stage # "running" => stage' # "running", NEW k \in LinkStates
      PROVE  LinkOK(k)'
    <2>1. link[k].pc = "ended" => link[k].own \notin open'
        BY <1>0, <1>5 DEF LinkOK
    <2> QED
        BY <1>0, <1>5, <2>1, LinkFrame
<1>6. ASSUME NEW i \in RemoveInfos, remove(i), NEW k \in LinkStates
      PROVE  LinkOK(k)'
    <2>1. /\ UNCHANGED <<_links, stage>>
          /\ open' \subseteq open
        BY <1>6 DEF remove
    <2>2. link'[k] = link[k] \/ link'[k] = Removed(k)
        BY <1>6, <1>a DEF remove
    <2>3. link[k].pc = "ended" => link[k].own \notin open'
        BY <1>0, <2>1 DEF LinkOK
    <2>4. CASE link'[k] = link[k]
        BY <1>0, <2>1, <2>3, <2>4, LinkFrame
    <2>5. CASE link'[k] = Removed(k)
        <3>1. /\ link'[k].cancelled
              /\ link'[k].pc = link[k].pc /\ link'[k].type = link[k].type
              /\ link'[k].own = link[k].own /\ link'[k].conn = link[k].conn
              /\ link'[k].info = link[k].info
            BY <1>a, <2>5, RemovedEffect
        <3> QED
            BY <1>0, <2>1, <2>3, <3>1 DEF LinkOK, Done
    <2> QED
        BY <2>2, <2>4, <2>5
<1>7. ASSUME NEW k \in LinkStates, Dialler(k), ~Exit(k), NEW j \in LinkStates
      PROVE  LinkOK(j)'
    <2>0. LinkOK(k) /\ link[k] \in LinkRecord
        BY <1>0, <1>a
    <2>1. UNCHANGED <<_links, stage>>
        BY <1>7 DEF Dialler, LoopTop, DialFails, Install, DialSucceeds, HandshakeDone,
            HandlerReturns, DropConn, BackoffTimeout, BackoffCancelled
    <2>2. ASSUME NEW m \in LinkStates, link[m].pc = "ended"
          PROVE  link[m].own \notin open'
        <3>1. link[m].own \notin open
            BY <1>0, <2>2 DEF LinkOK
        <3>2. open' \subseteq open \/ \E c \in Conns : FreeConn(c) /\ open' = open \cup {c}
            BY <1>7 DEF Dialler, LoopTop, DialFails, Install, DialSucceeds, HandshakeDone,
                HandlerReturns, DropConn, BackoffTimeout, BackoffCancelled
        <3> QED
            BY <3>1, <3>2 DEF FreeConn
    <2>3. CASE j # k
        <3>1. link'[j] = link[j]
            BY <1>7, <1>a, <2>3 DEF Dialler, LoopTop, DialFails, Install, DialSucceeds,
                HandshakeDone, HandlerReturns, DropConn, BackoffTimeout, BackoffCancelled
        <3> QED
            BY <1>0, <2>1, <2>2, <3>1, LinkFrame
    <2>4. LinkOK(k)'
        <3>1. CASE LoopTop(k)
            BY <2>0, <2>1, <1>a, <3>1 DEF LoopTop, LinkOK, Done, LinkRecord
        <3>2. CASE DialFails(k)
            <4>1. link'[k] = [link[k] EXCEPT !.pc = AfterFailure(k),
                                 !.conn = IF link[k].type = "persistent" THEN None ELSE link[k].conn]
                BY <1>a, <3>2 DEF DialFails
            <4>2. /\ link'[k].pc = AfterFailure(k) /\ link'[k].type = link[k].type
                  /\ link'[k].own = link[k].own /\ link'[k].info = link[k].info
                  /\ link'[k].conn \in {None, link[k].conn}
                BY <2>0, <4>1 DEF LinkRecord
            <4> QED
                BY <2>0, <2>1, <3>2, <4>2 DEF DialFails, AfterFailure, LinkOK
        <3>3. CASE Install(k)
            <4>1. link'[k] = [link[k] EXCEPT !.conn = link[k].own, !.pc = "handshake"]
                BY <1>a, <2>0, <3>3 DEF Install, LinkOK
            <4>2. link'[k].pc = "handshake" /\ link'[k].info = link[k].info
                BY <2>0, <4>1 DEF LinkRecord
            <4> QED
                BY <2>0, <2>1, <3>3, <4>2 DEF Install, LinkOK
        <3>4. ASSUME NEW c \in Conns, DialSucceeds(k, c)
              PROVE  LinkOK(k)'
            <4>1. link'[k] = [link[k] EXCEPT !.pc = "dialed", !.own = c]
                BY <1>a, <3>4 DEF DialSucceeds
            <4>2. link'[k].pc = "dialed" /\ link'[k].info = link[k].info /\ link'[k].conn = link[k].conn
                BY <2>0, <4>1 DEF LinkRecord
            <4> QED
                BY <2>0, <2>1, <3>4, <4>2 DEF DialSucceeds, LinkOK
        <3>5. CASE HandshakeDone(k)
            <4>1. link'[k] = [link[k] EXCEPT !.pc = "up", !.self = FALSE]
                BY <1>a, <3>5 DEF HandshakeDone
            <4>2. link'[k].pc = "up" /\ link'[k].info = link[k].info
                BY <2>0, <4>1 DEF LinkRecord
            <4> QED
                BY <2>0, <2>1, <3>5, <4>2 DEF HandshakeDone, LinkOK
        <3>6. ASSUME NEW self \in BOOLEAN, HandlerReturns(k, self)
              PROVE  LinkOK(k)'
            <4>1. link'[k] = [link[k] EXCEPT !.pc = "ended", !.self = link[k].self \/ self]
                BY <1>a, <3>6 DEF HandlerReturns
            <4>2. link'[k].pc = "ended" /\ link'[k].info = link[k].info /\ link'[k].own = link[k].own
                BY <2>0, <4>1 DEF LinkRecord
            <4> QED
                BY <2>0, <2>1, <3>6, <4>2 DEF HandlerReturns, LinkOK
        <3>7. CASE DropConn(k)
            <4>1. link'[k] = [link[k] EXCEPT !.pc = AfterFailure(k), !.conn = None, !.own = None]
                BY <1>a, <3>7 DEF DropConn
            <4>2. /\ link'[k].pc = AfterFailure(k) /\ link'[k].type = link[k].type
                  /\ link'[k].own = None /\ link'[k].info = link[k].info /\ link'[k].conn = None
                BY <2>0, <4>1 DEF LinkRecord
            <4> QED
                BY <2>0, <2>1, <3>7, <4>2 DEF DropConn, AfterFailure, LinkOK
        <3>8. CASE BackoffTimeout(k) \/ BackoffCancelled(k)
            BY <2>0, <2>1, <1>a, <3>8 DEF BackoffTimeout, BackoffCancelled, LinkOK, Done, LinkRecord
        <3> QED
            BY <1>7, <3>1, <3>2, <3>3, <3>4, <3>5, <3>6, <3>7, <3>8 DEF Dialler
    <2> QED
        BY <2>3, <2>4
<1>8. ASSUME NEW k \in LinkStates, Exit(k), NEW j \in LinkStates
      PROVE  LinkOK(j)'
    <2>1. UNCHANGED <<open, stage>>
        BY <1>8 DEF Exit
    <2>2. CASE j = k
        <3>1. ~\E c \in Conns : inbound[c].st = k
            BY <1>8, InboundHasNoDialler DEF Exit
        <3>2. link'[k] = NoLink
            BY <1>8, <1>a, <3>1 DEF Exit
        <3> QED
            BY <2>2, <3>2 DEF LinkOK, NoLink
    <2>3. CASE j # k
        <3>1. link'[j] = link[j]
            BY <1>8, <1>a, <2>3 DEF Exit
        <3>2. \A i \in Infos : _links[i] # k => _links'[i] = _links[i]
            BY <1>8, <1>a, DeleteEntryEffect DEF Exit
        <3>3. link[j].pc # "none" => _links'[link[j].info] = _links[link[j].info]
            BY <1>0, <1>b, <2>3, <3>2 DEF LinkOK
        <3>4. link[j].pc = "ended" => link[j].own \notin open
            BY <1>0 DEF LinkOK
        <3> QED
            BY <1>0, <2>1, <3>1, <3>3, <3>4, LinkFrame
    <2> QED
        BY <2>2, <2>3
<1>9. ASSUME NEW c \in Conns, Accept(c), NEW k \in LinkStates
      PROVE  LinkOK(k)'
    <2>1. link[k].pc = "ended" => link[k].own \notin open'
        BY <1>0, <1>9 DEF Accept, FreeConn, LinkOK
    <2>2. UNCHANGED <<_links, link, stage>>
        BY <1>9 DEF Accept
    <2> QED
        BY <1>0, <2>1, <2>2, LinkFrame
<1>10. ASSUME NEW c \in Conns, NEW k \in LinkStates, FileInbound(c, k), NEW j \in LinkStates
       PROVE  LinkOK(j)'
    <2>1. Addr[c] \notin DialInfos /\ Addr[c] \in Infos
        BY DEF DialledApart
    <2>2. UNCHANGED <<open, stage>>
        BY <1>10 DEF FileInbound
    <2>3. link[k].pc = "none"
        <3>1. CASE _links[Addr[c]] # None
            BY <1>0, <1>10, <2>1, <3>1 DEF FileInbound, EntryAtInfo, LinkOK
        <3>2. CASE _links[Addr[c]] = None
            BY <1>10, <3>2 DEF FileInbound, FreeLink, NoLink
        <3> QED
            BY <3>1, <3>2
    <2>4. \A m \in LinkStates \ {k} : link'[m] = link[m]
        BY <1>10, <1>a DEF FileInbound
    <2>5. \A i \in DialInfos : _links'[i] = _links[i]
        BY <1>10, <1>a, <1>b, <2>1 DEF FileInbound
    <2>6. /\ link'[k].pc = "none" /\ link'[k].type = link[k].type /\ link'[k].own = link[k].own
        <3>1. link'[k] = link[k] \/ link'[k] = [link[k] EXCEPT !.conn = c, !.info = Addr[c]]
            BY <1>10, <1>a DEF FileInbound
        <3>2. link[k] \in LinkRecord
            BY <1>a
        <3> QED
            BY <2>3, <3>1, <3>2 DEF LinkRecord
    <2>7. CASE j = k
        BY <1>0, <2>3, <2>6, <2>7 DEF LinkOK
    <2>8. CASE j # k
        <3>1. link[j].pc # "none" => _links'[link[j].info] = _links[link[j].info]
            BY <1>0, <2>5 DEF LinkOK
        <3>2. link[j].pc = "ended" => link[j].own \notin open
            BY <1>0 DEF LinkOK
        <3> QED
            BY <1>0, <2>2, <2>4, <2>8, <3>1, <3>2, LinkFrame
    <2> QED
        BY <2>7, <2>8
<1>11. ASSUME NEW c \in Conns, InboundExit(c), NEW j \in LinkStates
       PROVE  LinkOK(j)'
    <2>1. inbound[c].st # None
        BY <1>0, <1>11 DEF InboundExit, InboundAtInfo
    <2>2. inbound[c].st \in LinkStates /\ link[inbound[c].st].pc = "none"
        BY <2>1, InboundHasNoDialler
    <2>3. link'[j] = link[j] \/ (link[j].pc = "none" /\ link'[j] = NoLink)
        BY <1>11, <1>a DEF InboundExit
    <2>4. \A i \in DialInfos : _links'[i] = _links[i]
        BY <1>11, <1>a, <1>b, <2>2, DeleteEntryEffect DEF InboundExit, DialledApart
    <2>5. stage' = stage /\ open' \subseteq open
        BY <1>11 DEF InboundExit
    <2>6. CASE link'[j] = link[j]
        <3>1. link[j].pc # "none" => _links'[link[j].info] = _links[link[j].info]
            BY <1>0, <2>4 DEF LinkOK
        <3>2. link[j].pc = "ended" => link[j].own \notin open'
            BY <1>0, <2>5 DEF LinkOK
        <3> QED
            BY <1>0, <2>5, <2>6, <3>1, <3>2, LinkFrame
    <2>7. CASE link'[j] = NoLink
        BY <2>7 DEF LinkOK, NoLink
    <2> QED
        BY <2>3, <2>6, <2>7
<1>12. ASSUME NEW k \in LinkStates, UNCHANGED vars
       PROVE  LinkOK(k)'
    BY <1>5, <1>12 DEF vars
<1>13. ASSUME Api, NEW k \in LinkStates
       PROVE  LinkOK(k)'
    <2>1. ASSUME NEW i \in RemoveInfos, removeIncoming(i)
          PROVE  LinkOK(k)'
        BY <1>5, <2>1 DEF removeIncoming
    <2>2. CASE listenOpens \/ listenFails \/ listenRegisters \/ StopListener \/ Cancel
        BY <1>5, <2>2 DEF listenOpens, listenFails, listenRegisters, StopListener, Cancel
    <2> QED
        BY <1>1, <1>3, <1>4, <1>6, <1>13, <2>1, <2>2 DEF Api
<1>14. ASSUME AcceptLoopEnds \/ shutdown \/ ClosePacketConn, NEW k \in LinkStates
       PROVE  LinkOK(k)'
    BY <1>5, <1>14 DEF AcceptLoopEnds, shutdown, ClosePacketConn
<1>15. ASSUME NEW c \in Conns, Inbound(c), NEW k \in LinkStates
       PROVE  LinkOK(k)'
    <2>1. CASE InboundHandshakeDone(c) \/ InboundHandlerReturns(c)
        BY <1>5, <2>1 DEF InboundHandshakeDone, InboundHandlerReturns
    <2> QED
        BY <1>9, <1>10, <1>11, <1>15, <2>1 DEF Inbound
<1>16. ASSUME NEW k \in LinkStates, Dialler(k), NEW j \in LinkStates
       PROVE  LinkOK(j)'
    BY <1>7, <1>8, <1>16
<1> QED
    BY <1>12, <1>13, <1>14, <1>15, <1>16 DEF Next

\* No step leaves an open connection without a goroutine that will close it.
LEMMA OrphanStep ==
    ASSUME DialledApart, ApartInv, [Next]_vars
    PROVE  NoOrphanConn'
<1> USE LinksAssumption
<1>0. /\ TypeOK
      /\ NoOrphanConn
      /\ \A k \in LinkStates : LinkOK(k)
    BY DEF ApartInv, OwnedInv
<1>a. /\ link \in [LinkStates -> LinkRecord]
      /\ \A k \in LinkStates : link[k] \in LinkRecord
      /\ inbound \in [Conns -> InboundRecord]
      /\ open \subseteq Conns
    BY <1>0 DEF TypeOK
\* Owner(c) and OwnerNext(c): the disjunction in NoOrphanConn, before and after.
<1> DEFINE Owner(c) ==
        \/ inbound[c].pc # "none"
        \/ \E k \in LinkStates : link[k].own = c /\ link[k].pc \in {"dialed", "handshake", "up"}
<1> DEFINE OwnerNext(c) ==
        \/ inbound'[c].pc # "none"
        \/ \E k \in LinkStates : link'[k].own = c /\ link'[k].pc \in {"dialed", "handshake", "up"}
<1>b. \A c \in open : Owner(c)
    BY <1>0 DEF NoOrphanConn
<1> SUFFICES ASSUME NEW c \in open' PROVE OwnerNext(c)
    BY DEF NoOrphanConn
<1> HIDE DEF Owner, OwnerNext
\* Steps after which the owners are the same, and no connection is opened.
<1>1. ASSUME open' \subseteq open, inbound' = inbound,
             \A k \in LinkStates :
                 link[k].own = c /\ link[k].pc \in {"dialed", "handshake", "up"} =>
                     link'[k].own = c /\ link'[k].pc \in {"dialed", "handshake", "up"}
      PROVE  OwnerNext(c)
    BY <1>b, <1>1 DEF Owner, OwnerNext
<1>2. ASSUME NEW i \in DialInfos, NEW t \in {"persistent", "ephemeral"}, NEW k \in LinkStates,
             addNew(i, t, k)
      PROVE  OwnerNext(c)
    <2>1. /\ UNCHANGED <<open, inbound>>
          /\ \A m \in LinkStates \ {k} : link'[m] = link[m]
          /\ link[k].pc = "none"
        BY <1>2, <1>a DEF addNew, FreeLink, NoLink
    <2> QED
        BY <1>1, <2>1
<1>3. ASSUME UNCHANGED <<open, inbound>>,
             \A k \in LinkStates : link'[k] = link[k] \/ link'[k] = Kicked(k)
      PROVE  OwnerNext(c)
    <2>1. ASSUME NEW k \in LinkStates, link[k].own = c, link[k].pc \in {"dialed", "handshake", "up"}
          PROVE  link'[k].own = c /\ link'[k].pc \in {"dialed", "handshake", "up"}
        BY <1>3, <1>a, <2>1, KickedEffect
    <2> QED
        BY <1>1, <1>3, <2>1
<1>4. ASSUME NEW i \in DialInfos, addExisting(i)
      PROVE  OwnerNext(c)
    BY <1>3, <1>4, <1>a DEF addExisting
<1>5. CASE RetryPeersNow
    BY <1>3, <1>5 DEF RetryPeersNow
<1>6. ASSUME UNCHANGED <<link, inbound>>, open' \subseteq open
      PROVE  OwnerNext(c)
    BY <1>1, <1>6
<1>7. ASSUME NEW i \in RemoveInfos, remove(i)
      PROVE  OwnerNext(c)
    <2>1. ASSUME NEW k \in LinkStates
          PROVE  link'[k].own = link[k].own /\ link'[k].pc = link[k].pc
        <3>1. link'[k] = link[k] \/ link'[k] = Removed(k)
            BY <1>7, <1>a DEF remove
        <3> QED
            BY <1>a, <3>1, RemovedEffect
    <2>2. inbound' = inbound /\ open' \subseteq open
        BY <1>7 DEF remove
    <2> QED
        BY <1>1, <2>1, <2>2
<1>8. ASSUME NEW k \in LinkStates, Dialler(k)
      PROVE  OwnerNext(c)
    <2>0. LinkOK(k) /\ link[k] \in LinkRecord
        BY <1>0, <1>a
    <2>1. /\ inbound' = inbound
          /\ \A m \in LinkStates \ {k} : link'[m] = link[m]
        BY <1>8, <1>a DEF Dialler, LoopTop, DialFails, Install, DialSucceeds, HandshakeDone,
            HandlerReturns, DropConn, BackoffTimeout, BackoffCancelled, Exit
    <2>2. ASSUME link[k].pc \notin {"dialed", "handshake", "up"}, open' \subseteq open
          PROVE  OwnerNext(c)
        BY <1>1, <2>1, <2>2
    <2>3. CASE LoopTop(k) \/ DialFails(k) \/ BackoffTimeout(k) \/ BackoffCancelled(k)
                   \/ DropConn(k) \/ Exit(k)
        BY <2>2, <2>3 DEF LoopTop, DialFails, BackoffTimeout, BackoffCancelled, DropConn, Exit
    <2>4. ASSUME NEW d \in Conns, DialSucceeds(k, d)
          PROVE  OwnerNext(c)
        <3>1. /\ link'[k] = [link[k] EXCEPT !.pc = "dialed", !.own = d]
              /\ link[k].pc = "dialing"
              /\ open' = open \cup {d}
            BY <1>a, <2>4 DEF DialSucceeds
        <3>2. link'[k].pc = "dialed" /\ link'[k].own = d
            BY <2>0, <3>1 DEF LinkRecord
        <3>3. CASE c = d
            BY <3>2, <3>3 DEF OwnerNext
        <3>4. CASE c # d
            <4>1. Owner(c)
                BY <1>b, <3>1, <3>4
            <4> QED
                BY <2>1, <3>1, <4>1 DEF Owner, OwnerNext
        <3> QED
            BY <3>3, <3>4
    <2>5. CASE Install(k)
        <3>1. link'[k] = [link[k] EXCEPT !.conn = link[k].own, !.pc = "handshake"]
            BY <1>a, <2>0, <2>5 DEF Install, LinkOK
        <3>2. link'[k].pc = "handshake" /\ link'[k].own = link[k].own
            BY <2>0, <3>1 DEF LinkRecord
        <3>3. open' = open
            BY <2>5 DEF Install
        <3> QED
            BY <1>1, <2>1, <3>2, <3>3
    <2>6. CASE HandshakeDone(k)
        <3>1. link'[k] = [link[k] EXCEPT !.pc = "up", !.self = FALSE]
            BY <1>a, <2>6 DEF HandshakeDone
        <3>2. link'[k].pc = "up" /\ link'[k].own = link[k].own
            BY <2>0, <3>1 DEF LinkRecord
        <3>3. open' = open
            BY <2>6 DEF HandshakeDone
        <3> QED
            BY <1>1, <2>1, <3>2, <3>3
    <2>7. ASSUME NEW self \in BOOLEAN, HandlerReturns(k, self)
          PROVE  OwnerNext(c)
        <3>1. open' = open \ {link[k].own}
            BY <2>7 DEF HandlerReturns
        <3>2. Owner(c) /\ link[k].own # c
            BY <1>b, <3>1
        <3> QED
            BY <2>1, <3>2 DEF Owner, OwnerNext
    <2> QED
        BY <1>8, <2>3, <2>4, <2>5, <2>6, <2>7 DEF Dialler
<1>9. ASSUME NEW d \in Conns, Accept(d)
      PROVE  OwnerNext(c)
    <2>1. /\ inbound'[d].pc = "accepted"
          /\ \A e \in Conns \ {d} : inbound'[e] = inbound[e]
          /\ link' = link
          /\ open' = open \cup {d}
        BY <1>9, <1>a DEF Accept, InboundRecord
    <2>2. CASE c = d
        BY <2>1, <2>2 DEF OwnerNext
    <2>3. CASE c # d
        BY <1>a, <1>b, <2>1, <2>3 DEF Owner, OwnerNext
    <2> QED
        BY <2>2, <2>3
<1>10. ASSUME NEW d \in Conns, NEW k \in LinkStates, FileInbound(d, k)
       PROVE  OwnerNext(c)
    <2>1. /\ inbound'[d].pc # "none"
          /\ \A e \in Conns \ {d} : inbound'[e] = inbound[e]
          /\ \A m \in LinkStates \ {k} : link'[m] = link[m]
          /\ open' = open
        BY <1>10, <1>a DEF FileInbound
    <2>2. link'[k].own = link[k].own /\ link'[k].pc = link[k].pc
        <3>1. link'[k] = link[k] \/ link'[k] = [link[k] EXCEPT !.conn = d, !.info = Addr[d]]
            BY <1>10, <1>a DEF FileInbound
        <3>2. link[k] \in LinkRecord
            BY <1>a
        <3> QED
            BY <3>1, <3>2 DEF LinkRecord
    <2>3. CASE c = d
        BY <2>1, <2>3 DEF OwnerNext
    <2>4. CASE c # d
        <3>1. c \in Conns /\ Owner(c)
            BY <1>a, <1>b, <2>1
        <3>2. CASE inbound[c].pc # "none"
            BY <2>1, <2>4, <3>1, <3>2 DEF OwnerNext
        <3>3. ASSUME NEW m \in LinkStates, link[m].own = c, link[m].pc \in {"dialed", "handshake", "up"}
              PROVE  OwnerNext(c)
            <4>1. link'[m].own = c /\ link'[m].pc \in {"dialed", "handshake", "up"}
                BY <2>1, <2>2, <3>3
            <4> QED
                BY <4>1 DEF OwnerNext
        <3> QED
            BY <3>1, <3>2, <3>3 DEF Owner
    <2> QED
        BY <2>3, <2>4
<1>11. ASSUME NEW d \in Conns, InboundHandshakeDone(d) \/ InboundHandlerReturns(d)
       PROVE  OwnerNext(c)
    <2>1. /\ \A e \in Conns : inbound[e].pc # "none" => inbound'[e].pc # "none"
          /\ link' = link
          /\ open' \subseteq open
        BY <1>11, <1>a DEF InboundHandshakeDone, InboundHandlerReturns, InboundRecord
    <2> QED
        BY <1>a, <1>b, <2>1 DEF Owner, OwnerNext
<1>12. ASSUME NEW d \in Conns, InboundExit(d)
       PROVE  OwnerNext(c)
    <2>1. /\ \A e \in Conns \ {d} : inbound'[e] = inbound[e]
          /\ open' = open \ {d}
        BY <1>12, <1>a DEF InboundExit
    <2>2. \A m \in LinkStates : link[m].pc # "none" => link'[m] = link[m]
        BY <1>12, <1>a DEF InboundExit
    <2>3. c \in Conns /\ c # d /\ Owner(c)
        BY <1>a, <1>b, <2>1
    <2>4. CASE inbound[c].pc # "none"
        BY <2>1, <2>3, <2>4 DEF OwnerNext
    <2>5. ASSUME NEW m \in LinkStates, link[m].own = c, link[m].pc \in {"dialed", "handshake", "up"}
          PROVE  OwnerNext(c)
        BY <2>2, <2>5 DEF OwnerNext
    <2> QED
        BY <2>3, <2>4, <2>5 DEF Owner
<1>13. CASE UNCHANGED vars
    BY <1>6, <1>13 DEF vars
<1>14. CASE Api
    <2>1. ASSUME NEW i \in RemoveInfos, removeIncoming(i)
          PROVE  OwnerNext(c)
        BY <1>6, <2>1 DEF removeIncoming
    <2>2. CASE listenOpens \/ listenFails \/ listenRegisters \/ StopListener \/ Cancel
        BY <1>6, <2>2 DEF listenOpens, listenFails, listenRegisters, StopListener, Cancel
    <2> QED
        BY <1>2, <1>4, <1>5, <1>7, <1>14, <2>1, <2>2 DEF Api
<1>15. CASE AcceptLoopEnds \/ shutdown \/ ClosePacketConn
    BY <1>6, <1>15 DEF AcceptLoopEnds, shutdown, ClosePacketConn
<1>16. ASSUME NEW d \in Conns, Inbound(d)
       PROVE  OwnerNext(c)
    BY <1>9, <1>10, <1>11, <1>12, <1>16 DEF Inbound
<1> QED
    BY <1>8, <1>13, <1>14, <1>15, <1>16 DEF Next

\* No step takes the connection of a handler away from its state.
LEMMA HeldStep ==
    ASSUME DialledApart, ApartInv, [Next]_vars
    PROVE  HandledIsHeld'
<1> USE LinksAssumption
<1>0. /\ TypeOK
      /\ InboundAtInfo
      /\ HandledIsHeld
    BY DEF ApartInv, OwnedInv
<1>a. /\ link \in [LinkStates -> LinkRecord]
      /\ \A k \in LinkStates : link[k] \in LinkRecord
      /\ inbound \in [Conns -> InboundRecord]
    BY <1>0 DEF TypeOK
\* A goroutine with the handler has a state, which has no dialler.
<1>b. ASSUME NEW c \in Conns, inbound[c].pc \in {"handshake", "up"}
      PROVE  /\ inbound[c].st \in LinkStates
             /\ link[inbound[c].st].pc = "none"
             /\ link[inbound[c].st].conn = c
    <2>1. inbound[c].st # None
        BY <1>0, <1>b DEF InboundAtInfo
    <2> QED
        BY <1>0, <1>b, <2>1, InboundHasNoDialler DEF HandledIsHeld
\* Steps that begin no handler and keep the connection of a state without a dialler
\* that a goroutine refers to.
<1>1. ASSUME \A c \in Conns : inbound'[c].pc \in {"handshake", "up"} =>
                 inbound[c].pc \in {"handshake", "up"} /\ inbound'[c].st = inbound[c].st,
             \A c \in Conns : inbound[c].pc \in {"handshake", "up"} /\ inbound'[c].pc \in {"handshake", "up"} =>
                 link'[inbound[c].st].conn = link[inbound[c].st].conn
      PROVE  HandledIsHeld'
    BY <1>b, <1>1 DEF HandledIsHeld
<1>2. ASSUME UNCHANGED inbound,
             \A k \in LinkStates : link[k].pc = "none" /\ (\E c \in Conns : inbound[c].st = k)
                                      => link'[k].conn = link[k].conn
      PROVE  HandledIsHeld'
    BY <1>1, <1>2, <1>b
<1>3. ASSUME NEW i \in DialInfos, NEW t \in {"persistent", "ephemeral"}, NEW k \in LinkStates,
             addNew(i, t, k)
      PROVE  HandledIsHeld'
    <2>1. /\ inbound' = inbound
          /\ \A m \in LinkStates \ {k} : link'[m] = link[m]
          /\ \A c \in Conns : inbound[c].st # k
        BY <1>3, <1>a DEF addNew, FreeLink, Referenced
    <2> QED
        BY <1>2, <2>1
<1>4. ASSUME UNCHANGED inbound, \A k \in LinkStates : link'[k] \in {link[k], Kicked(k), Removed(k)}
      PROVE  HandledIsHeld'
    BY <1>2, <1>4, <1>a, KickedEffect, RemovedEffect
<1>5. ASSUME NEW k \in LinkStates, Dialler(k)
      PROVE  HandledIsHeld'
    <2>1. /\ inbound' = inbound
          /\ link[k].pc # "none"
          /\ \A m \in LinkStates \ {k} : link'[m] = link[m]
        BY <1>5, <1>a DEF Dialler, LoopTop, DialFails, Install, DialSucceeds, HandshakeDone,
            HandlerReturns, DropConn, BackoffTimeout, BackoffCancelled, Exit
    <2> QED
        BY <1>2, <2>1
<1>6. ASSUME NEW d \in Conns, Accept(d) \/ InboundHandshakeDone(d) \/ InboundHandlerReturns(d)
      PROVE  HandledIsHeld'
    <2>1. /\ link' = link
          /\ \A c \in Conns \ {d} : inbound'[c] = inbound[c]
        BY <1>6, <1>a DEF Accept, InboundHandshakeDone, InboundHandlerReturns
    <2>2. inbound'[d].pc \in {"handshake", "up"} =>
              inbound[d].pc \in {"handshake", "up"} /\ inbound'[d].st = inbound[d].st
        BY <1>6, <1>a DEF Accept, InboundHandshakeDone, InboundHandlerReturns, InboundRecord
    <2> QED
        BY <1>1, <2>1, <2>2
<1>7. ASSUME NEW d \in Conns, NEW k \in LinkStates, FileInbound(d, k)
      PROVE  HandledIsHeld'
    <2>0. link[k] \in LinkRecord
        BY <1>a
    <2>1. /\ \A c \in Conns \ {d} : inbound'[c] = inbound[c]
          /\ \A m \in LinkStates \ {k} : link'[m] = link[m]
          /\ inbound[d].pc = "accepted"
        BY <1>7, <1>a DEF FileInbound
    <2>2. CASE link[k].conn # None
        <3>1. inbound'[d].pc = "closing" /\ link' = link
            BY <1>7, <1>a, <2>2 DEF FileInbound
        <3> QED
            BY <1>1, <2>1, <3>1
    <2>3. CASE link[k].conn = None
        <3>1. inbound'[d].st = k
            BY <1>7, <1>a, <2>3 DEF FileInbound
        <3>2. link' = [link EXCEPT ![k] = [@ EXCEPT !.conn = d, !.info = Addr[d]]]
            BY <1>7, <2>3 DEF FileInbound
        <3>3. link'[k].conn = d
            BY <1>a, <2>0, <3>2 DEF LinkRecord
        <3>4. ASSUME NEW c \in Conns, inbound'[c].pc \in {"handshake", "up"}
              PROVE  link'[inbound'[c].st].conn = c
            <4>1. CASE c = d
                BY <3>1, <3>3, <4>1
            <4>2. CASE c # d
                <5>1. /\ inbound[c].pc \in {"handshake", "up"}
                      /\ inbound'[c].st = inbound[c].st
                    BY <2>1, <3>4, <4>2
                <5>2. inbound[c].st \in LinkStates /\ inbound[c].st # k
                    BY <1>b, <2>3, <5>1
                <5> QED
                    BY <1>b, <2>1, <5>1, <5>2
            <4> QED
                BY <4>1, <4>2
        <3> QED
            BY <3>4 DEF HandledIsHeld
    <2> QED
        BY <2>2, <2>3
<1>8. ASSUME NEW d \in Conns, InboundExit(d)
      PROVE  HandledIsHeld'
    <2>1. /\ inbound'[d].pc = "none"
          /\ \A c \in Conns \ {d} : inbound'[c] = inbound[c]
          /\ \A c \in Conns \ {d} : inbound[c].st \in LinkStates =>
                 link'[inbound[c].st] = link[inbound[c].st]
        BY <1>8, <1>a DEF InboundExit, NoInbound
    <2> QED
        BY <1>1, <1>b, <2>1
<1>9. CASE Api
    <2>1. ASSUME NEW i \in DialInfos, addExisting(i)
          PROVE  HandledIsHeld'
        BY <1>4, <2>1, <1>a DEF addExisting
    <2>2. CASE RetryPeersNow
        BY <1>4, <2>2 DEF RetryPeersNow
    <2>3. ASSUME NEW i \in RemoveInfos, remove(i)
          PROVE  HandledIsHeld'
        BY <1>4, <2>3, <1>a DEF remove
    <2>4. ASSUME NEW i \in RemoveInfos, removeIncoming(i)
          PROVE  HandledIsHeld'
        BY <1>4, <2>4 DEF removeIncoming
    <2>5. CASE listenOpens \/ listenFails \/ listenRegisters \/ StopListener \/ Cancel
        BY <1>4, <2>5 DEF listenOpens, listenFails, listenRegisters, StopListener, Cancel
    <2> QED
        BY <1>3, <1>9, <2>1, <2>2, <2>3, <2>4, <2>5 DEF Api
<1>10. CASE AcceptLoopEnds \/ shutdown \/ ClosePacketConn
    BY <1>4, <1>10 DEF AcceptLoopEnds, shutdown, ClosePacketConn
<1>11. CASE UNCHANGED vars
    BY <1>4, <1>11 DEF vars
<1>12. ASSUME NEW d \in Conns, Inbound(d)
       PROVE  HandledIsHeld'
    BY <1>6, <1>7, <1>8, <1>12 DEF Inbound
<1> QED
    BY <1>5, <1>9, <1>10, <1>11, <1>12 DEF Next

LEMMA ApartInvariance == DialledApart => (Spec => []ApartInv)
<1> SUFFICES ASSUME DialledApart PROVE Spec => []ApartInv
    OBVIOUS
<1>1. Init => ApartInv
    <2> SUFFICES ASSUME Init PROVE ApartInv
        OBVIOUS
    <2>1. \A k \in LinkStates : LinkOK(k)
        BY DEF Init, LinkOK, NoLink
    <2>2. NoOrphanConn
        BY DEF Init, NoOrphanConn
    <2>3. HandledIsHeld
        BY DEF Init, HandledIsHeld, NoInbound
    <2> QED
        BY <2>1, <2>2, <2>3, InitOwned DEF ApartInv
<1>2. ApartInv /\ [Next]_vars => ApartInv'
    <2> SUFFICES ASSUME ApartInv, [Next]_vars PROVE ApartInv'
        OBVIOUS
    <2>1. OwnedInv'
        BY TypeStep, OwnersStep DEF ApartInv, OwnedInv, Owners
    <2>2. \A k \in LinkStates : LinkOK(k)'
        BY LinksStep
    <2>3. NoOrphanConn'
        BY OrphanStep
    <2>4. HandledIsHeld'
        BY HeldStep
    <2> QED
        BY <2>1, <2>2, <2>3, <2>4 DEF ApartInv
<1> QED
    BY <1>1, <1>2, PTL DEF Spec

\* Every open connection has a goroutine that will close it, where accepted connections
\* are apart from the dialled ones; they may share their URIs with each other, so
\* that the accept goroutines drop duplicates.
THEOREM ConnectionsAreOwned == DialledApart => (Spec => []NoOrphanConn)
<1>1. ApartInv => NoOrphanConn
    BY DEF ApartInv
<1> QED
    BY <1>1, ApartInvariance, PTL

\* A peer that was added is dialled and listed until it is removed or the node stops.
THEOREM PeersStayConfigured == DialledApart => (Spec => []PersistentStaysConfigured)
<1>1. ApartInv => PersistentStaysConfigured
    BY DEF ApartInv, LinkOK, PersistentStaysConfigured
<1> QED
    BY <1>1, ApartInvariance, PTL

\* A set of which any two elements are equal has at most one.
LEMMA AtMostOne ==
    ASSUME NEW S, \A c, d \in S : c = d
    PROVE  Cardinality(S) <= 1
<1>1. CASE S = {}
    BY <1>1, FS_EmptySet
<1>2. ASSUME NEW c \in S
      PROVE  Cardinality(S) <= 1
    <2>1. S = {c}
        BY <1>2
    <2>2. Cardinality({c}) = 1
        BY FS_Singleton
    <2> QED
        BY <2>1, <2>2
<1> QED
    BY <1>1, <1>2

\* A URI that is dialled, and a state that accepted connections are filed under, has at
\* most one connection with the handler.
THEOREM OneHandler == DialledApart => (Spec => []OneHandlerPerLink)
<1> SUFFICES ASSUME DialledApart PROVE Spec => []OneHandlerPerLink
    OBVIOUS
<1>1. ApartInv => OneHandlerPerLink
    <2> SUFFICES ASSUME ApartInv PROVE OneHandlerPerLink
        OBVIOUS
    <2>1. /\ \A k \in LinkStates : LinkOK(k)
          /\ HandledIsHeld
        BY DEF ApartInv
    <2>2. ASSUME NEW i \in DialInfos
          PROVE  Cardinality(Handled(i) \cap open) <= 1
        <3>1. \A k \in LinkStates : link[k].info = i /\ link[k].pc \in {"handshake", "up"}
                                        => k = _links[i]
            BY <2>1 DEF LinkOK
        <3>2. ~\E c \in Conns : Addr[c] = i
            BY DEF DialledApart
        <3>3. \A c, d \in Handled(i) \cap open : c = d
            BY <3>1, <3>2 DEF Handled
        <3> QED
            BY <3>3, AtMostOne
    <2>3. ASSUME NEW k \in LinkStates
          PROVE  Cardinality(HandledBy(k)) <= 1
        <3>1. \A c, d \in HandledBy(k) : c = d
            BY <2>1 DEF HandledIsHeld, HandledBy
        <3> QED
            BY <3>1, AtMostOne
    <2> QED
        BY <2>2, <2>3 DEF OneHandlerPerLink
<1> QED
    BY <1>1, ApartInvariance, PTL
=============================================================================
