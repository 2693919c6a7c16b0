----------------------- MODULE TcpListenerRefinement -----------------------
(***************************************************************************)
(* Proof that the listener of tcplistener.rs, with the network service,   *)
(* implements the abstract ListenerSockets under the mapping of           *)
(* TcpListener (OpenSockets, Holders, Retired), when the service sets the *)
(* valid length of every successful bind reply.  The invariant used is    *)
(* IInv /\ SocketOwned of TcpListenerProofs.                              *)
(***************************************************************************)
EXTENDS TcpListenerProofs

\* The invariant of the refinement.
RInv == IInv /\ SocketOwned

LEMMA RInvInvariant ==
    ASSUME ServiceSetsValid
    PROVE  Spec => []RInv
<1>1. Init => RInv
    BY InitIInv DEF Init, SocketOwned, RInv
<1>2. RInv /\ [Next]_vars => RInv'
    BY NextIInv, NextOwned DEF RInv
<1>. QED BY <1>1, <1>2, PTL DEF Spec

-----------------------------------------------------------------------------
(* Facts about the mapping.                                                *)

\* A step that keeps the live objects and their Arcs keeps the holders.
LEMMA HoldersFrame ==
    ASSUME live' = live, live \subseteq ObjId,
           \A o \in ObjId : lst'[o].arc = lst[o].arc
    PROVE  Holders' = Holders
<1>1. \A a : Aliases(a)' = Aliases(a)
    BY DEF Aliases
<1>. QED BY <1>1 DEF Holders

\* A step that keeps the sockets, the teardowns, the live objects and their
\* Arcs is a stuttering step of ListenerSockets.
LEMMA RefineFrame ==
    ASSUME lsock' = lsock, closes' = closes, live' = live, live \subseteq ObjId,
           \A o \in ObjId : lst'[o].arc = lst[o].arc
    PROVE  UNCHANGED Sockets!vars
<1>1. Holders' = Holders
    BY HoldersFrame
<1>. QED BY <1>1 DEF Sockets!vars, OpenSockets, Retired

LEMMA InitRefines == Init => Sockets!Init
<1>. SUFFICES ASSUME Init PROVE Sockets!Init
    OBVIOUS
<1>1. OpenSockets = {}
    BY DEF Init, OpenSockets
<1>2. Retired = {}
    BY DEF Init, Retired
<1>3. Holders = [a \in ObjId |-> 0]
    <2>1. \A a : Aliases(a) = {}
        BY DEF Init, Aliases
    <2>. QED BY <2>1, FS_EmptySet DEF Holders
<1>. QED BY <1>1, <1>2, <1>3 DEF Sockets!Init

\* The socket of a live alias is open: its handle belongs to its bind.
LEMMA AliasSocketOpen ==
    ASSUME IInv, NEW o \in live
    PROVE  lst[o].arc \in OpenSockets
<1>1. lst[o].fd \in LHandle /\ lsock[lst[o].fd] = lst[o].arc
    BY DEF IInv, AliasesReachTheirSocket
<1>2. lst[o].arc # 0
    BY DEF IInv, Bound
<1>. QED BY <1>1, <1>2 DEF OpenSockets

\* duplicate is Share of the socket of the object duplicated.
LEMMA DuplicateRefines ==
    ASSUME IInv, NEW o \in ObjId, Duplicate(o)
    PROVE  Sockets!Share(lst[o].arc)
<1>1. PICK n \in ObjId : n = nextObj
    BY DEF Duplicate, ObjId, IInv, TypeOK
<1>2. PICK a \in ObjId : a = lst[o].arc
    BY MaxObjAssumption DEF Duplicate, IInv, TypeOK, Bound, ObjId
<1>3. /\ o \in live /\ n \notin live /\ n # a
    BY <1>1, <1>2 DEF IInv, TypeOK, Duplicate, ObjId, Bound
<1>4. /\ live' = live \cup {n}
      /\ lst' = [lst EXCEPT ![n] = lst[o]]
      /\ lsock' = lsock /\ closes' = closes
    BY <1>1 DEF Duplicate, service
<1>5. a \in OpenSockets
    BY <1>2, <1>3, AliasSocketOpen
<1>6. Aliases(a)' = Aliases(a) \cup {n}
    <2>1. \A q \in live : lst'[q].arc = lst[q].arc
        BY <1>1, <1>3, <1>4 DEF IInv, TypeOK
    <2>. QED BY <1>1, <1>2, <1>4, <2>1 DEF Aliases, IInv, TypeOK
<1>7. ASSUME NEW b, b # a PROVE Aliases(b)' = Aliases(b)
    BY <1>1, <1>2, <1>3, <1>4, <1>7 DEF IInv, TypeOK, Aliases
<1>8. Cardinality(Aliases(a)') = Cardinality(Aliases(a)) + 1
    <2>1. n \notin Aliases(a) /\ IsFiniteSet(Aliases(a))
        BY <1>3, AliasesFinite DEF IInv, TypeOK, Aliases
    <2>. QED BY <1>6, <2>1, FS_AddElement
<1>9. Holders' = [Holders EXCEPT ![a] = @ + 1]
    BY <1>7, <1>8 DEF Holders
<1>. QED BY <1>2, <1>4, <1>5, <1>9 DEF Sockets!Share, OpenSockets, Retired

\* Drop is Release of the socket of the object dropped.
LEMMA DropRefines ==
    ASSUME IInv, SocketOwned, NEW o \in ObjId, Drop(o)
    PROVE  Sockets!Release(lst[o].arc)
<1>0. o \in live
    BY DEF Drop
<1>1. PICK a \in ObjId : a = lst[o].arc
    <2>1. lst[o].arc \in Bound
        BY <1>0 DEF IInv
    <2>2. Bound \subseteq ObjId
        BY MaxObjAssumption DEF IInv, TypeOK, Bound, ObjId
    <2>. QED BY <2>1, <2>2
<1>2. PICK h \in LHandle : h = lst[o].fd
    BY <1>0 DEF IInv
<1>3. /\ a \in Bound /\ o \in Aliases(a) /\ lsock[h] = a /\ a \in OpenSockets
    BY <1>0, <1>1, <1>2, AliasSocketOpen DEF IInv, Aliases, AliasesReachTheirSocket
<1>4. /\ live' = live \ {o}
      /\ UNCHANGED lst
    BY DEF Drop
<1>5. Aliases(a)' = Aliases(a) \ {o}
    BY <1>1, <1>4 DEF Aliases
<1>6. ASSUME NEW b, b # a PROVE Aliases(b)' = Aliases(b)
    BY <1>1, <1>4, <1>6 DEF Aliases
<1>7. /\ Cardinality(Aliases(a)') = Cardinality(Aliases(a)) - 1
      /\ Cardinality(Aliases(a)) = count[a]
    <2>1. IsFiniteSet(Aliases(a))
        BY AliasesFinite DEF IInv, TypeOK
    <2>2. count[a] = Cardinality(Aliases(a))
        BY <1>3 DEF IInv, RefCountExact
    <2>. QED BY <1>3, <1>5, <2>1, <2>2, FS_RemoveElement
<1>8. Holders' = [Holders EXCEPT ![a] = @ - 1] /\ Holders[a] = count[a]
    BY <1>6, <1>7 DEF Holders
<1>9. CASE count[a] = 1
    <2>1. /\ lsock' = [lsock EXCEPT ![h] = 0]
          /\ closes' = [closes EXCEPT ![a] = @ + 1]
        BY <1>1, <1>2, <1>9 DEF Drop
    <2>2. \A g \in LHandle : lsock[g] = a => g = h
        BY <1>3 DEF SocketOwned, Bound, ObjId
    <2>3. OpenSockets' = OpenSockets \ {a}
        BY <1>3, <2>1, <2>2 DEF OpenSockets, IInv, TypeOK
    <2>4. closes[a] = 0
        BY <1>3 DEF IInv, TeardownExactlyOnce
    <2>5. Retired' = Retired \cup {a}
        BY <2>1, <2>4 DEF Retired, IInv, TypeOK
    <2>. QED BY <1>1, <1>3, <1>8, <1>9, <2>3, <2>5 DEF Sockets!Release
<1>10. CASE count[a] # 1
    <2>1. lsock' = lsock /\ closes' = closes
        BY <1>1, <1>10 DEF Drop
    <2>. QED BY <1>1, <1>3, <1>8, <1>10, <2>1 DEF Sockets!Release, OpenSockets, Retired
<1>. QED BY <1>9, <1>10

\* bind either opens the fresh socket nextObj or changes no socket.
LEMMA BindRefines ==
    ASSUME ServiceSetsValid, IInv, NEW ad \in Addr, Bind(ad)
    PROVE  (nextObj \in ObjId /\ Sockets!Open(nextObj)) \/ UNCHANGED Sockets!vars
<1>1. PICK r \in BindReplies(ad) :
        /\ (r.memret /\ r.status = 0) => nextObj <= MaxObj
        /\ ServiceOpens(r, nextObj)
        /\ IF (r.memret /\ r.status = 0) /\ r.valid
           THEN /\ live' = live \cup {nextObj}
                /\ lst' = [lst EXCEPT ![nextObj] = [fd |-> r.b1, local |-> ad,
                                        arc |-> nextObj, nonblocking |-> FALSE]]
           ELSE UNCHANGED <<live, lst>>
    BY DEF Bind
<1>2. closes' = closes
    BY DEF Bind
<1>3. CASE ~(r.memret /\ r.status = 0)
    BY <1>1, <1>2, <1>3, RefineFrame DEF ServiceOpens, IInv, TypeOK
<1>4. CASE r.memret /\ r.status = 0
    <2>1. r.valid
        <3>1. r \in BindOk(ad)
            BY <1>4 DEF BindReplies, BindErr, SendFailed
        <3>2. PICK hh \in FreeFor(ad), v \in ValidFlags :
                  r = [memret |-> TRUE, status |-> 0, b1 |-> hh, valid |-> v]
            BY <3>1 DEF BindOk
        <3>. QED BY <3>2 DEF ValidFlags
    <2>2. r.b1 \in LHandle /\ lsock[r.b1] = 0
        BY <1>4, BindReplyFacts
    <2>3. PICK o \in ObjId : o = nextObj
        BY <1>1, <1>4 DEF IInv, TypeOK, ObjId
    <2>4. /\ lsock' = [lsock EXCEPT ![r.b1] = o]
          /\ live' = live \cup {o}
          /\ lst' = [lst EXCEPT ![o] = [fd |-> r.b1, local |-> ad,
                                        arc |-> o, nonblocking |-> FALSE]]
        BY <1>1, <1>4, <2>1, <2>3 DEF ServiceOpens
    <2>5. /\ o \notin live /\ o \notin Bound /\ closes[o] = 0
          /\ \A q \in live : lst[q].arc # o
        <3>1. lst[o] = Unused
            BY <2>3, MaxObjAssumption DEF IInv, TypeOK, ObjId
        <3>. QED BY <3>1, <2>3 DEF IInv, TypeOK, Bound, ObjId, Unused
    <2>6. o \notin OpenSockets \cup Retired
        <3>1. \A g \in LHandle : lsock[g] \in 0..(o - 1)
            BY <2>3 DEF IInv
        <3>. QED BY <2>5, <3>1 DEF OpenSockets, Retired
    <2>7. OpenSockets' = OpenSockets \cup {o}
        BY <2>2, <2>3, <2>4 DEF OpenSockets, IInv, TypeOK
    <2>8. Aliases(o)' = {o}
        BY <2>4, <2>5 DEF IInv, TypeOK, Aliases
    <2>9. ASSUME NEW b, b # o PROVE Aliases(b)' = Aliases(b)
        BY <2>4, <2>5, <2>9 DEF IInv, TypeOK, Aliases
    <2>10. Holders' = [Holders EXCEPT ![o] = 1]
        BY <2>8, <2>9, FS_Singleton DEF Holders
    <2>11. Retired' = Retired
        BY <1>2 DEF Retired
    <2>. QED BY <2>3, <2>6, <2>7, <2>10, <2>11 DEF Sockets!Open
<1>. QED BY <1>3, <1>4

\* Every step of the listener is a step of ListenerSockets or leaves the
\* sockets, their holders and the teardowns as they were.
LEMMA NextRefines ==
    ASSUME ServiceSetsValid, RInv, [Next]_vars
    PROVE  [Sockets!Next]_Sockets!vars
<1>0. IInv /\ SocketOwned
    BY DEF RInv
<1>1. CASE \E a \in Addr : Bind(a)
    <2>1. PICK ad \in Addr : Bind(ad)
        BY <1>1
    <2>. QED BY <1>0, <2>1, BindRefines DEF Sockets!Next
<1>2. CASE \E o \in ObjId : Duplicate(o)
    <2>1. PICK o \in ObjId : Duplicate(o)
        BY <1>2
    <2>2. lst[o].arc \in ObjId
        <3>1. lst[o].arc \in Bound
            BY <1>0, <2>1 DEF Duplicate, IInv
        <3>2. Bound \subseteq ObjId
            BY <1>0, MaxObjAssumption DEF IInv, TypeOK, Bound, ObjId
        <3>. QED BY <3>1, <3>2
    <2>. QED BY <1>0, <2>1, <2>2, DuplicateRefines DEF Sockets!Next
<1>3. CASE \E o \in ObjId : Drop(o)
    <2>1. PICK o \in ObjId : Drop(o)
        BY <1>3
    <2>2. lst[o].arc \in ObjId
        <3>1. lst[o].arc \in Bound
            BY <1>0, <2>1 DEF Drop, IInv
        <3>2. Bound \subseteq ObjId
            BY <1>0, MaxObjAssumption DEF IInv, TypeOK, Bound, ObjId
        <3>. QED BY <3>1, <3>2
    <2>. QED BY <1>0, <2>1, <2>2, DropRefines DEF Sockets!Next
<1>4. CASE \E o \in ObjId, b \in BOOLEAN : SetNonblocking(o, b)
    <2>1. PICK o \in ObjId, b \in BOOLEAN : SetNonblocking(o, b)
        BY <1>4
    <2>2. \A q \in ObjId : lst'[q].arc = lst[q].arc
        BY <1>0, <2>1 DEF SetNonblocking, IInv, TypeOK
    <2>. QED BY <1>0, <2>1, <2>2, RefineFrame DEF SetNonblocking, service, IInv, TypeOK
<1>5. CASE \/ \E o \in ObjId : AcceptCall(o) \/ Ttl(o)
           \/ \E o \in ObjId, t \in TTL : SetTtl(o, t)
           \/ AcceptReply
           \/ \E h \in LHandle : PeerConnect(h)
           \/ UNCHANGED vars
    BY <1>0, <1>5, RefineFrame
       DEF AcceptCall, Ttl, SetTtl, AcceptReply, PeerConnect, vars, service,
           client, IInv, TypeOK
<1>. QED BY <1>1, <1>2, <1>3, <1>4, <1>5 DEF Next

-----------------------------------------------------------------------------
\* When the network service sets the valid length of every successful
\* StdTcpListen reply, the listener objects of tcplistener.rs and the
\* service implement ListenerSockets (SocketsRefined): bind opens a fresh
\* socket with one holder, duplicate's fetch_add adds a holder, and Drop's
\* fetch_sub closes the socket exactly when the last holder goes.
THEOREM ListenerRefinesSockets ==
    ASSUME ServiceSetsValid
    PROVE  Spec => SocketsRefined
<1>1. Init => Sockets!Init
    BY InitRefines
<1>2. RInv /\ [Next]_vars => [Sockets!Next]_Sockets!vars
    BY NextRefines
<1>. QED BY <1>1, <1>2, RInvInvariant, PTL DEF Spec, SocketsRefined, Sockets!Spec

=============================================================================
