------------------------- MODULE TcpListenerProofs -------------------------
(***************************************************************************)
(* Proofs about the TcpListener lifecycle: the reference count of the     *)
(* aliases of a bind, the handles they hold and the one teardown message. *)
(***************************************************************************)
EXTENDS TcpListener, FiniteSetTheorems, TLAPS

\* The record of an object that has not been created.
Unused == [fd |-> 0, local |-> NoAddr, arc |-> 0, nonblocking |-> FALSE]

(***************************************************************************)
(* The inductive invariant.  Besides the properties it records how the     *)
(* identities are handed out: objects and binds below nextObj, fresh ones  *)
(* above it untouched; every live alias holds a handle and the Arc of a    *)
(* bind; a bind that no alias shares any more has a zero counter.          *)
(***************************************************************************)
IInv ==
    /\ TypeOK
    /\ live \subseteq 1..(nextObj - 1)
    /\ \A o \in ObjId : o >= nextObj => lst[o] = Unused
    /\ \A o \in live : lst[o].fd \in LHandle /\ lst[o].arc \in Bound
    /\ accepting # 0 => accepting \in live
    /\ \A a \in ObjId \ Bound : count[a] = 0 /\ closes[a] = 0
    /\ \A h \in LHandle : lsock[h] \in 0..(nextObj - 1)
    /\ RefCountExact
    /\ AliasesReachTheirSocket
    /\ TeardownExactlyOnce

-----------------------------------------------------------------------------
(* Facts about the sets the invariant counts.                              *)

\* The aliases of a bind are a finite set of objects.
LEMMA AliasesFinite ==
    ASSUME live \subseteq ObjId, NEW a
    PROVE  IsFiniteSet(Aliases(a))
<1>1. IsFiniteSet(ObjId)
    <2>1. MaxObj \in Int /\ 1 \in Int
        BY MaxObjAssumption
    <2>. QED BY <2>1, FS_Interval DEF ObjId
<1>. QED BY <1>1, FS_Subset DEF Aliases

\* A step that keeps the live objects, their Arcs and nextObj keeps the
\* aliases of every bind and the set of binds.
LEMMA SameArcs ==
    ASSUME live' = live, nextObj' = nextObj,
           \A o \in ObjId : lst'[o].arc = lst[o].arc,
           live \subseteq ObjId, nextObj \in 1..(MaxObj + 1)
    PROVE  /\ \A a : Aliases(a)' = Aliases(a)
           /\ Bound' = Bound
<1>1. 1..(nextObj - 1) \subseteq ObjId
    BY MaxObjAssumption DEF ObjId
<1>. QED BY <1>1 DEF Aliases, Bound

-----------------------------------------------------------------------------
LEMMA InitIInv == Init => IInv
<1>. SUFFICES ASSUME Init PROVE IInv
    OBVIOUS
<1>1. TypeOK
    BY MaxObjAssumption, MaxPendingAssumption, TTLAssumption
    DEF Init, TypeOK, ListenerRec, ObjId, Returned, ErrorKind
<1>2. Bound = {}
    BY DEF Init, Bound
<1>3. \A a : Aliases(a) = {}
    BY DEF Init, Aliases
<1>. QED BY <1>1, <1>2, <1>3 DEF Init, IInv, Unused, RefCountExact,
              AliasesReachTheirSocket, TeardownExactlyOnce

\* The steps that leave live, the Arcs, the counters and the teardowns alone.
LEMMA AcceptCallIInv ==
    ASSUME IInv, NEW o \in ObjId, AcceptCall(o)
    PROVE  IInv'
<1>1. TypeOK'
    BY DEF IInv, TypeOK, AcceptCall, service
<1>2. /\ \A a : Aliases(a)' = Aliases(a)
      /\ Bound' = Bound
    BY SameArcs DEF IInv, TypeOK, AcceptCall
<1>. QED BY <1>1, <1>2 DEF IInv, AcceptCall, service, RefCountExact,
              AliasesReachTheirSocket, TeardownExactlyOnce

LEMMA SetNonblockingIInv ==
    ASSUME IInv, NEW o \in ObjId, NEW b \in BOOLEAN, SetNonblocking(o, b)
    PROVE  IInv'
<1>1. TypeOK'
    BY DEF IInv, TypeOK, SetNonblocking, service, ListenerRec, Returned, ErrorKind
<1>2. /\ \A a : Aliases(a)' = Aliases(a)
      /\ Bound' = Bound
    BY SameArcs DEF IInv, TypeOK, SetNonblocking
<1>3. \A q \in ObjId : q >= nextObj => lst'[q] = Unused
    BY DEF IInv, TypeOK, SetNonblocking
<1>. QED BY <1>1, <1>2, <1>3 DEF IInv, SetNonblocking, service, RefCountExact,
              AliasesReachTheirSocket, TeardownExactlyOnce

LEMMA SetTtlIInv ==
    ASSUME IInv, NEW o \in ObjId, NEW t \in TTL, SetTtl(o, t)
    PROVE  IInv'
<1>1. TypeOK'
    BY DEF IInv, TypeOK, SetTtl, Returned, Failed, ErrorKind
<1>2. /\ \A a : Aliases(a)' = Aliases(a)
      /\ Bound' = Bound
    BY SameArcs DEF IInv, TypeOK, SetTtl
<1>. QED BY <1>1, <1>2 DEF IInv, SetTtl, RefCountExact,
              AliasesReachTheirSocket, TeardownExactlyOnce

LEMMA TtlIInv ==
    ASSUME IInv, NEW o \in ObjId, Ttl(o)
    PROVE  IInv'
<1>1. TypeOK'
    BY DEF IInv, TypeOK, Ttl, service, Returned, Failed, ErrorKind
<1>2. /\ \A a : Aliases(a)' = Aliases(a)
      /\ Bound' = Bound
    BY SameArcs DEF IInv, TypeOK, Ttl
<1>. QED BY <1>1, <1>2 DEF IInv, Ttl, service, RefCountExact,
              AliasesReachTheirSocket, TeardownExactlyOnce

LEMMA PeerConnectIInv ==
    ASSUME IInv, NEW h \in LHandle, PeerConnect(h)
    PROVE  IInv'
<1>1. TypeOK'
    BY MaxPendingAssumption DEF IInv, TypeOK, PeerConnect, client
<1>2. /\ \A a : Aliases(a)' = Aliases(a)
      /\ Bound' = Bound
    BY SameArcs DEF IInv, TypeOK, PeerConnect, client
<1>. QED BY <1>1, <1>2 DEF IInv, PeerConnect, client, RefCountExact,
              AliasesReachTheirSocket, TeardownExactlyOnce

\* The error kinds the mapper yields.
LEMMA ErrorKindsTyped ==
    \A e : BindErrorKind(e) \in ErrorKind /\ AcceptErrorKind(e) \in ErrorKind
BY DEF BindErrorKind, AcceptErrorKind, ErrorKind

LEMMA AcceptReplyIInv ==
    ASSUME IInv, AcceptReply
    PROVE  IInv'
<1>. DEFINE h == lst[accepting].fd
<1>1. h \in LHandle
    BY DEF IInv, AcceptReply
<1>2. ret' \in [kind : ErrorKind \cup {"ok"}, val : TTL \cup {0}]
    BY ErrorKindsTyped DEF AcceptReply, Returned, Failed, ErrorKind
<1>3. pending' \in [LHandle -> 0..MaxPending]
    <2>1. \/ pending' = pending
          \/ pending[h] > 0 /\ pending' = [pending EXCEPT ![h] = @ - 1]
        BY DEF AcceptReply
    <2>. QED BY <1>1, <2>1, MaxPendingAssumption DEF IInv, TypeOK
<1>4. conns' \subseteq CHandle /\ streams' \subseteq conns'
    BY DEF IInv, TypeOK, AcceptReply
<1>5. TypeOK'
    BY <1>2, <1>3, <1>4 DEF IInv, TypeOK, AcceptReply
<1>6. /\ \A a : Aliases(a)' = Aliases(a)
      /\ Bound' = Bound
    BY SameArcs DEF IInv, TypeOK, AcceptReply
<1>. QED BY <1>5, <1>6 DEF IInv, AcceptReply, RefCountExact,
              AliasesReachTheirSocket, TeardownExactlyOnce

-----------------------------------------------------------------------------
(* duplicate adds an alias to the Arc of o and counts it.                  *)

LEMMA DuplicateIInv ==
    ASSUME IInv, NEW o \in ObjId, Duplicate(o)
    PROVE  IInv'
<1>1. PICK n \in ObjId : n = nextObj
    BY DEF Duplicate, ObjId, IInv, TypeOK
<1>2. PICK a \in ObjId : a = lst[o].arc
    BY MaxObjAssumption DEF Duplicate, IInv, TypeOK, Bound, ObjId
<1>3. /\ o \in live /\ n \notin live /\ a \in Bound
      /\ a \in 1..(n - 1) /\ lst[a].arc = a
    BY <1>1, <1>2 DEF IInv, TypeOK, Duplicate, ObjId, Bound
<1>4. /\ live' = live \cup {n}
      /\ lst' = [lst EXCEPT ![n] = lst[o]]
      /\ count' = [count EXCEPT ![a] = @ + 1]
      /\ nextObj' = n + 1
      /\ UNCHANGED <<accepting, lsock, pending, lttl, conns, streams, closes>>
    BY <1>1, <1>2 DEF Duplicate, service
<1>5. TypeOK'
    <2>1. lst' \in [ObjId -> ListenerRec]
        BY <1>1, <1>3, <1>4 DEF IInv, TypeOK
    <2>2. count' \in [ObjId -> Nat]
        BY <1>2, <1>4 DEF IInv, TypeOK
    <2>3. live' \subseteq ObjId /\ nextObj' \in 1..(MaxObj + 1)
        BY <1>1, <1>4, MaxObjAssumption DEF IInv, TypeOK, ObjId
    <2>4. ret' \in [kind : ErrorKind \cup {"ok"}, val : TTL \cup {0}]
        BY DEF Duplicate, Returned
    <2>. QED BY <1>4, <2>1, <2>2, <2>3, <2>4 DEF IInv, TypeOK
<1>6. Bound' = Bound
    BY <1>1, <1>3, <1>4 DEF IInv, TypeOK, Bound
<1>7. Aliases(a)' = Aliases(a) \cup {n}
    <2>1. lst'[n].arc = a
        BY <1>1, <1>2, <1>4 DEF IInv, TypeOK
    <2>2. \A q \in live : lst'[q].arc = lst[q].arc
        BY <1>1, <1>3, <1>4 DEF IInv, TypeOK
    <2>. QED BY <1>4, <2>1, <2>2 DEF Aliases
<1>8. ASSUME NEW b, b # a PROVE Aliases(b)' = Aliases(b)
    BY <1>1, <1>2, <1>3, <1>4, <1>8 DEF IInv, TypeOK, Aliases
<1>9. RefCountExact'
    <2>1. n \notin Aliases(a) /\ IsFiniteSet(Aliases(a))
        BY <1>3, AliasesFinite DEF IInv, TypeOK, Aliases
    <2>2. Cardinality(Aliases(a)') = Cardinality(Aliases(a)) + 1
        BY <1>7, <2>1, FS_AddElement
    <2>. QED BY <1>3, <1>4, <1>6, <1>8, <2>2 DEF IInv, TypeOK, RefCountExact
<1>10. AliasesReachTheirSocket'
    BY <1>1, <1>2, <1>3, <1>4 DEF IInv, TypeOK, AliasesReachTheirSocket
<1>11. TeardownExactlyOnce'
    <2>1. o \in Aliases(a)
        BY <1>2, <1>3 DEF Aliases
    <2>. QED BY <1>4, <1>6, <1>7, <1>8, <2>1 DEF IInv, TeardownExactlyOnce
<1>12. \A q \in ObjId : q >= nextObj' => lst'[q] = Unused
    BY <1>1, <1>4 DEF IInv, TypeOK
<1>13. \A q \in live' : lst'[q].fd \in LHandle /\ lst'[q].arc \in Bound'
    BY <1>1, <1>3, <1>4, <1>6 DEF IInv, TypeOK
<1>14. \A b \in ObjId \ Bound' : count'[b] = 0 /\ closes'[b] = 0
    BY <1>3, <1>4, <1>6 DEF IInv, TypeOK
<1>15. \A g \in LHandle : lsock'[g] \in 0..(nextObj' - 1)
    BY <1>1, <1>4 DEF IInv, TypeOK
<1>16. /\ live' \subseteq 1..(nextObj' - 1)
       /\ accepting' # 0 => accepting' \in live'
    BY <1>1, <1>4 DEF IInv, TypeOK, Duplicate
<1>. QED BY <1>5, <1>9, <1>10, <1>11, <1>12, <1>13, <1>14, <1>15, <1>16
         DEF IInv

-----------------------------------------------------------------------------
(* Drop removes an alias; the alias that saw 1 closes the socket.          *)

LEMMA DropIInv ==
    ASSUME IInv, NEW o \in ObjId, Drop(o)
    PROVE  IInv'
<1>0. o \in live /\ accepting = 0
    BY DEF Drop
<1>1. PICK a \in ObjId : a = lst[o].arc
    BY <1>0, MaxObjAssumption DEF IInv, TypeOK, Bound, ObjId
<1>2. PICK h \in LHandle : h = lst[o].fd
    BY <1>0 DEF IInv
<1>3. /\ o \in live /\ a \in Bound /\ o \in Aliases(a) /\ lsock[h] = a
    BY <1>1, <1>2 DEF Drop, IInv, Aliases, AliasesReachTheirSocket
<1>4. /\ live' = live \ {o}
      /\ count' = [count EXCEPT ![a] = @ - 1]
      /\ UNCHANGED <<lst, nextObj, accepting, ret, lttl, conns, streams>>
    BY <1>1 DEF Drop
<1>5. Bound' = Bound
    BY <1>4 DEF Bound
<1>6. Aliases(a)' = Aliases(a) \ {o}
    BY <1>4 DEF Aliases
<1>7. ASSUME NEW b, b # a PROVE Aliases(b)' = Aliases(b)
    BY <1>1, <1>4, <1>7 DEF Aliases
<1>8. /\ IsFiniteSet(Aliases(a)')
      /\ Cardinality(Aliases(a)') = count[a] - 1
      /\ count[a] \in Nat \ {0}
    <2>1. IsFiniteSet(Aliases(a))
        BY AliasesFinite DEF IInv, TypeOK
    <2>2. Cardinality(Aliases(a)) \in Nat /\ Cardinality(Aliases(a)) # 0
        BY <1>3, <2>1, FS_EmptySet, FS_CardinalityType
    <2>3. count[a] = Cardinality(Aliases(a))
        BY <1>3 DEF IInv, RefCountExact
    <2>. QED BY <1>3, <1>6, <2>1, <2>2, <2>3, FS_RemoveElement
<1>9. count' \in [ObjId -> Nat]
    BY <1>4, <1>8 DEF IInv, TypeOK
<1>10. RefCountExact'
    BY <1>4, <1>5, <1>7, <1>8 DEF IInv, TypeOK, RefCountExact
<1>11. closes[a] = 0
    BY <1>3 DEF IInv, TeardownExactlyOnce
<1>14. /\ live' \subseteq 1..(nextObj' - 1)
       /\ \A q \in ObjId : q >= nextObj' => lst'[q] = Unused
       /\ \A q \in live' : lst'[q].fd \in LHandle /\ lst'[q].arc \in Bound'
       /\ accepting' # 0 => accepting' \in live'
    BY <1>0, <1>4, <1>5 DEF IInv
<1>12. CASE count[a] = 1
    <2>1. /\ lsock' = [lsock EXCEPT ![h] = 0]
          /\ pending' = [pending EXCEPT ![h] = 0]
          /\ closes' = [closes EXCEPT ![a] = @ + 1]
        BY <1>1, <1>2, <1>12 DEF Drop
    <2>2. Aliases(a)' = {}
        BY <1>8, <1>12, FS_EmptySet
    <2>3. TypeOK'
        BY <1>4, <1>9, <2>1, MaxPendingAssumption DEF IInv, TypeOK
    <2>4. TeardownExactlyOnce'
        BY <1>5, <1>7, <1>11, <2>1, <2>2 DEF IInv, TypeOK, TeardownExactlyOnce
    <2>5. AliasesReachTheirSocket'
        <3>1. SUFFICES ASSUME NEW q \in live'
                       PROVE  lsock'[lst'[q].fd] = lst'[q].arc
            BY DEF AliasesReachTheirSocket
        <3>2. lst[q].arc # a /\ q \in live
            BY <1>4, <2>2 DEF Aliases
        <3>3. lst[q].fd # h
            BY <1>3, <3>2 DEF IInv, AliasesReachTheirSocket
        <3>. QED BY <1>4, <2>1, <3>2, <3>3 DEF IInv, TypeOK, AliasesReachTheirSocket
    <2>6. /\ \A b \in ObjId \ Bound' : count'[b] = 0 /\ closes'[b] = 0
          /\ \A g \in LHandle : lsock'[g] \in 0..(nextObj' - 1)
        BY <1>3, <1>4, <1>5, <2>1 DEF IInv, TypeOK
    <2>. QED BY <1>10, <1>14, <2>3, <2>4, <2>5, <2>6 DEF IInv
<1>13. CASE count[a] # 1
    <2>1. UNCHANGED <<lsock, pending, closes>>
        BY <1>1, <1>13 DEF Drop
    <2>2. Aliases(a)' # {}
        BY <1>8, <1>13, FS_EmptySet
    <2>3. TypeOK'
        BY <1>4, <1>9, <2>1 DEF IInv, TypeOK
    <2>4. TeardownExactlyOnce'
        BY <1>5, <1>7, <1>11, <2>1, <2>2 DEF IInv, TeardownExactlyOnce
    <2>5. AliasesReachTheirSocket'
        BY <1>4, <2>1 DEF IInv, AliasesReachTheirSocket
    <2>6. /\ \A b \in ObjId \ Bound' : count'[b] = 0 /\ closes'[b] = 0
          /\ \A g \in LHandle : lsock'[g] \in 0..(nextObj' - 1)
        BY <1>3, <1>4, <1>5, <2>1 DEF IInv, TypeOK
    <2>. QED BY <1>10, <1>14, <2>3, <2>4, <2>5, <2>6 DEF IInv
<1>. QED BY <1>12, <1>13

-----------------------------------------------------------------------------
(* bind: a success creates a fresh object and Arc on a free handle; a      *)
(* status-0 reply without a valid length opens a socket no object holds;   *)
(* an error changes nothing but the result.                                *)

\* The free handle of a status-0 reply is not held by any live alias.
LEMMA FreeHandleUnheld ==
    ASSUME IInv, NEW g \in LHandle, lsock[g] = 0
    PROVE  \A q \in live : lst[q].fd # g
BY DEF IInv, AliasesReachTheirSocket, Bound

\* What a reply to StdTcpListen carries.
LEMMA BindReplyFacts ==
    ASSUME NEW ad, NEW r \in BindReplies(ad)
    PROVE  (r.memret /\ r.status = 0) => r.b1 \in LHandle /\ lsock[r.b1] = 0
<1>1. CASE r \in BindOk(ad)
    <2>1. PICK h \in FreeFor(ad), v \in ValidFlags :
              r = [memret |-> TRUE, status |-> 0, b1 |-> h, valid |-> v]
        BY <1>1 DEF BindOk
    <2>. QED BY <2>1 DEF FreeFor
<1>2. CASE r \in BindErr
    <2>1. PICK e \in NetError, v \in BOOLEAN :
              r = [memret |-> TRUE, status |-> 1, b1 |-> e, valid |-> v]
        BY <1>2 DEF BindErr
    <2>. QED BY <2>1
<1>3. CASE r = SendFailed
    BY <1>3 DEF SendFailed
<1>. QED BY <1>1, <1>2, <1>3 DEF BindReplies

LEMMA BindIInv ==
    ASSUME IInv, NEW ad \in Addr, Bind(ad)
    PROVE  IInv'
<1>0. /\ accepting = 0
      /\ UNCHANGED <<accepting, pending, conns, streams, closes>>
    BY DEF Bind
<1>1. PICK r \in BindReplies(ad) :
        /\ (r.memret /\ r.status = 0) => nextObj <= MaxObj
        /\ ServiceOpens(r, nextObj)
        /\ nextObj' = IF r.memret /\ r.status = 0 THEN nextObj + 1 ELSE nextObj
        /\ IF (r.memret /\ r.status = 0) /\ r.valid
           THEN /\ live' = live \cup {nextObj}
                /\ lst' = [lst EXCEPT ![nextObj] = [fd |-> r.b1, local |-> ad,
                                        arc |-> nextObj, nonblocking |-> FALSE]]
                /\ count' = [count EXCEPT ![nextObj] = 1]
                /\ ret' = Returned(0)
           ELSE /\ ret' = Failed(IF r.memret THEN BindErrorKind(r.b1)
                                 ELSE "InvalidInput")
                /\ UNCHANGED <<live, lst, count>>
    BY DEF Bind
<1>2. (r.memret /\ r.status = 0) => r.b1 \in LHandle /\ lsock[r.b1] = 0
    BY BindReplyFacts
<1>3. ret' \in [kind : ErrorKind \cup {"ok"}, val : TTL \cup {0}]
    BY <1>1, ErrorKindsTyped DEF Returned, Failed, ErrorKind
<1>4. CASE r.memret /\ r.status = 0 /\ r.valid
    <2>1. PICK o \in ObjId : o = nextObj
        BY <1>1, <1>4 DEF IInv, TypeOK, ObjId
    <2>2. /\ live' = live \cup {o}
          /\ lst' = [lst EXCEPT ![o] = [fd |-> r.b1, local |-> ad,
                                        arc |-> o, nonblocking |-> FALSE]]
          /\ count' = [count EXCEPT ![o] = 1]
          /\ nextObj' = o + 1
          /\ lsock' = [lsock EXCEPT ![r.b1] = o]
          /\ lttl' = [lttl EXCEPT ![r.b1] = DefaultTTL]
        BY <1>1, <1>4, <2>1 DEF ServiceOpens
    <2>3. /\ o \notin live /\ o \notin Bound /\ lst[o] = Unused
          /\ \A q \in live : lst[q].arc # o /\ lst[q].fd # r.b1
        <3>1. \A q \in live : lst[q].fd # r.b1
            BY <1>2, <1>4, FreeHandleUnheld
        <3>. QED BY <2>1, <3>1 DEF IInv, TypeOK, Bound, Unused
    <2>4. count[o] = 0 /\ closes[o] = 0
        BY <2>3 DEF IInv
    <2>5. Bound' = Bound \cup {o}
        BY <2>1, <2>2, <2>3 DEF IInv, TypeOK, Bound, Unused
    <2>6. Aliases(o)' = {o}
        BY <2>2, <2>3 DEF IInv, TypeOK, Aliases
    <2>7. ASSUME NEW b, b # o PROVE Aliases(b)' = Aliases(b)
        BY <2>2, <2>3, <2>7 DEF IInv, TypeOK, Aliases
    <2>8. TypeOK'
        <3>1. lst' \in [ObjId -> ListenerRec]
            BY <1>2, <1>4, <2>1, <2>2 DEF IInv, TypeOK, ListenerRec
        <3>2. lsock' \in [LHandle -> ObjId \cup {0}] /\ lttl' \in [LHandle -> TTL]
            BY <1>2, <1>4, <2>1, <2>2, TTLAssumption DEF IInv, TypeOK
        <3>3. /\ live' \subseteq ObjId /\ count' \in [ObjId -> Nat]
              /\ nextObj' \in 1..(MaxObj + 1)
            BY <2>1, <2>2, MaxObjAssumption DEF IInv, TypeOK, ObjId
        <3>. QED BY <1>0, <1>3, <3>1, <3>2, <3>3 DEF IInv, TypeOK
    <2>9. RefCountExact'
        <3>1. SUFFICES ASSUME NEW b \in Bound'
                       PROVE  count'[b] = Cardinality(Aliases(b)')
            BY DEF RefCountExact
        <3>2. CASE b = o
            BY <2>1, <2>2, <2>6, <3>2, FS_Singleton DEF IInv, TypeOK
        <3>3. CASE b # o
            <4>1. b \in Bound
                BY <2>5, <3>3
            <4>. QED BY <2>1, <2>2, <2>7, <3>3, <4>1 DEF IInv, TypeOK, RefCountExact
        <3>. QED BY <3>2, <3>3
    <2>10. AliasesReachTheirSocket'
        BY <1>2, <1>4, <2>1, <2>2, <2>3 DEF IInv, TypeOK, AliasesReachTheirSocket
    <2>11. TeardownExactlyOnce'
        BY <1>0, <2>4, <2>5, <2>6, <2>7 DEF IInv, TeardownExactlyOnce
    <2>12. /\ live' \subseteq 1..(nextObj' - 1)
           /\ \A q \in ObjId : q >= nextObj' => lst'[q] = Unused
           /\ \A q \in live' : lst'[q].fd \in LHandle /\ lst'[q].arc \in Bound'
           /\ accepting' # 0 => accepting' \in live'
           /\ \A b \in ObjId \ Bound' : count'[b] = 0 /\ closes'[b] = 0
           /\ \A g \in LHandle : lsock'[g] \in 0..(nextObj' - 1)
        BY <1>0, <1>2, <1>4, <2>1, <2>2, <2>5 DEF IInv, TypeOK
    <2>. QED BY <2>8, <2>9, <2>10, <2>11, <2>12 DEF IInv
<1>5. CASE r.memret /\ r.status = 0 /\ ~r.valid
    <2>1. PICK o \in ObjId : o = nextObj
        BY <1>1, <1>5 DEF IInv, TypeOK, ObjId
    <2>2. /\ UNCHANGED <<live, lst, count>>
          /\ nextObj' = o + 1
          /\ lsock' = [lsock EXCEPT ![r.b1] = o]
          /\ lttl' = [lttl EXCEPT ![r.b1] = DefaultTTL]
        BY <1>1, <1>5, <2>1 DEF ServiceOpens
    <2>3. lst[o] = Unused /\ \A q \in live : lst[q].fd # r.b1
        BY <1>2, <1>5, <2>1, FreeHandleUnheld DEF IInv, TypeOK
    <2>4. Bound' = Bound
        BY <2>1, <2>2, <2>3 DEF IInv, TypeOK, Bound, Unused
    <2>5. \A b : Aliases(b)' = Aliases(b)
        BY <2>2 DEF Aliases
    <2>6. TypeOK'
        BY <1>0, <1>2, <1>3, <1>5, <2>1, <2>2, MaxObjAssumption, TTLAssumption
        DEF IInv, TypeOK, ObjId
    <2>7. AliasesReachTheirSocket'
        BY <2>2, <2>3 DEF IInv, TypeOK, AliasesReachTheirSocket
    <2>8. /\ live' \subseteq 1..(nextObj' - 1)
          /\ \A q \in ObjId : q >= nextObj' => lst'[q] = Unused
          /\ \A q \in live' : lst'[q].fd \in LHandle /\ lst'[q].arc \in Bound'
          /\ accepting' # 0 => accepting' \in live'
          /\ \A b \in ObjId \ Bound' : count'[b] = 0 /\ closes'[b] = 0
          /\ \A g \in LHandle : lsock'[g] \in 0..(nextObj' - 1)
        <3>1. live' \subseteq 1..(nextObj' - 1)
            BY <2>1, <2>2 DEF IInv, TypeOK
        <3>2. \A q \in ObjId : q >= nextObj' => lst'[q] = Unused
            BY <2>1, <2>2 DEF IInv, TypeOK
        <3>3. \A q \in live' : lst'[q].fd \in LHandle /\ lst'[q].arc \in Bound'
            BY <2>2, <2>4 DEF IInv
        <3>4. \A b \in ObjId \ Bound' : count'[b] = 0 /\ closes'[b] = 0
            BY <1>0, <2>2, <2>4 DEF IInv
        <3>5. \A g \in LHandle : lsock'[g] \in 0..(nextObj' - 1)
            BY <1>2, <1>5, <2>1, <2>2 DEF IInv, TypeOK
        <3>. QED BY <1>0, <3>1, <3>2, <3>3, <3>4, <3>5
    <2>. QED BY <1>0, <2>2, <2>4, <2>5, <2>6, <2>7, <2>8
             DEF IInv, RefCountExact, TeardownExactlyOnce
<1>6. CASE ~(r.memret /\ r.status = 0)
    <2>1. /\ UNCHANGED <<live, lst, count, nextObj, lsock, lttl>>
        BY <1>1, <1>6 DEF ServiceOpens
    <2>2. /\ \A b : Aliases(b)' = Aliases(b)
          /\ Bound' = Bound
        BY <2>1 DEF Aliases, Bound
    <2>3. TypeOK'
        BY <1>0, <1>3, <2>1 DEF IInv, TypeOK
    <2>. QED BY <1>0, <2>1, <2>2, <2>3
             DEF IInv, RefCountExact, AliasesReachTheirSocket, TeardownExactlyOnce
<1>. QED BY <1>4, <1>5, <1>6
-----------------------------------------------------------------------------
(* Every step of the client or of the service keeps the invariant.        *)

LEMMA StutterIInv ==
    ASSUME IInv, UNCHANGED vars
    PROVE  IInv'
BY DEF IInv, vars, TypeOK, ListenerRec, Aliases, Bound, InUse,
       RefCountExact, AliasesReachTheirSocket, TeardownExactlyOnce

LEMMA NextIInv == IInv /\ [Next]_vars => IInv'
<1>. SUFFICES ASSUME IInv, [Next]_vars PROVE IInv'
    OBVIOUS
<1>1. CASE \E a \in Addr : Bind(a)
    BY <1>1, BindIInv
<1>2. CASE \E o \in ObjId : AcceptCall(o)
    BY <1>2, AcceptCallIInv
<1>3. CASE \E o \in ObjId : Duplicate(o)
    BY <1>3, DuplicateIInv
<1>4. CASE \E o \in ObjId : Drop(o)
    BY <1>4, DropIInv
<1>5. CASE \E o \in ObjId : Ttl(o)
    BY <1>5, TtlIInv
<1>6. CASE \E o \in ObjId, b \in BOOLEAN : SetNonblocking(o, b)
    BY <1>6, SetNonblockingIInv
<1>7. CASE \E o \in ObjId, t \in TTL : SetTtl(o, t)
    BY <1>7, SetTtlIInv
<1>8. CASE AcceptReply
    BY <1>8, AcceptReplyIInv
<1>9. CASE \E h \in LHandle : PeerConnect(h)
    BY <1>9, PeerConnectIInv
<1>10. CASE UNCHANGED vars
    BY <1>10, StutterIInv
<1>. QED BY <1>1, <1>2, <1>3, <1>4, <1>5, <1>6, <1>7, <1>8, <1>9, <1>10
         DEF Next

-----------------------------------------------------------------------------
(* The theorems.                                                           *)

\* Every reachable state of the listener lifecycle satisfies the inductive
\* invariant, whatever the handles, addresses and bounds.
THEOREM ListenerInvariant == Spec => []IInv
BY InitIInv, NextIInv, PTL DEF Spec

\* The objects, counters, handles and results of bind, accept, duplicate,
\* set_ttl, ttl and drop always have their types (TypeOK).
THEOREM ListenerTypeOK == Spec => []TypeOK
<1>1. IInv => TypeOK
    BY DEF IInv
<1>. QED BY <1>1, ListenerInvariant, PTL

\* The shared AtomicUsize of a bind always equals the number of live
\* objects (the bound listener and its duplicates) sharing it
\* (RefCountExact): duplicate's fetch_add and drop's fetch_sub keep it exact.
THEOREM ListenerRefCountExact == Spec => []RefCountExact
<1>1. IInv => RefCountExact
    BY DEF IInv
<1>. QED BY <1>1, ListenerInvariant, PTL

\* Every live alias holds a handle of a socket the service still keeps
\* open for its bind (AliasesReachTheirSocket): no drop of one alias
\* closes the socket under another.
THEOREM ListenerAliasesReachSocket == Spec => []AliasesReachTheirSocket
<1>1. IInv => AliasesReachTheirSocket
    BY DEF IInv
<1>. QED BY <1>1, ListenerInvariant, PTL

\* Drop sends StdTcpListenerClose for a bind exactly once, and only when its
\* last alias is gone (TeardownExactlyOnce).
THEOREM ListenerTeardownOnce == Spec => []TeardownExactlyOnce
<1>1. IInv => TeardownExactlyOnce
    BY DEF IInv
<1>. QED BY <1>1, ListenerInvariant, PTL
-----------------------------------------------------------------------------
(* A socket the service keeps open for the client.  When the service      *)
(* always sets the valid length of a successful bind reply, every open     *)
(* socket belongs to one bind that has not been torn down, and no other    *)
(* socket belongs to the same bind.                                        *)
(***************************************************************************)
SocketOwned ==
    \A h \in LHandle : lsock[h] # 0 =>
        /\ lsock[h] \in Bound
        /\ closes[lsock[h]] = 0
        /\ \A g \in LHandle : lsock[g] = lsock[h] => g = h

\* A step that changes neither the sockets, the teardowns, the identities
\* handed out nor the Arc of any object keeps SocketOwned.
LEMMA OwnedFrame ==
    ASSUME IInv, SocketOwned,
           lsock' = lsock, closes' = closes, nextObj' = nextObj,
           \A a \in ObjId : lst'[a].arc = lst[a].arc
    PROVE  SocketOwned'
<1>1. Bound' = Bound
    BY MaxObjAssumption DEF IInv, TypeOK, Bound, ObjId
<1>. QED BY <1>1 DEF SocketOwned

LEMMA BindOwned ==
    ASSUME ServiceSetsValid, IInv, SocketOwned, NEW ad \in Addr, Bind(ad)
    PROVE  SocketOwned'
<1>1. PICK r \in BindReplies(ad) :
        /\ (r.memret /\ r.status = 0) => nextObj <= MaxObj
        /\ ServiceOpens(r, nextObj)
        /\ nextObj' = IF r.memret /\ r.status = 0 THEN nextObj + 1 ELSE nextObj
        /\ IF (r.memret /\ r.status = 0) /\ r.valid
           THEN /\ live' = live \cup {nextObj}
                /\ lst' = [lst EXCEPT ![nextObj] = [fd |-> r.b1, local |-> ad,
                                        arc |-> nextObj, nonblocking |-> FALSE]]
                /\ count' = [count EXCEPT ![nextObj] = 1]
                /\ ret' = Returned(0)
           ELSE /\ ret' = Failed(IF r.memret THEN BindErrorKind(r.b1)
                                 ELSE "InvalidInput")
                /\ UNCHANGED <<live, lst, count>>
    BY DEF Bind
<1>2. closes' = closes
    BY DEF Bind
<1>3. CASE ~(r.memret /\ r.status = 0)
    BY <1>1, <1>2, <1>3, OwnedFrame DEF ServiceOpens
<1>4. CASE r.memret /\ r.status = 0
    <2>1. r.valid
        <3>1. r \in BindOk(ad)
            BY <1>4 DEF BindReplies, BindErr, SendFailed
        <3>2. PICK hh \in FreeFor(ad), v \in ValidFlags :
                  r = [memret |-> TRUE, status |-> 0, b1 |-> hh, valid |-> v]
            BY <3>1 DEF BindOk
        <3>. QED BY <3>2 DEF ValidFlags
    <2>2. r.b1 \in LHandle /\ lsock[r.b1] = 0
        BY <1>4, BindReplyFacts
    <2>3. PICK o \in ObjId : o = nextObj
        BY <1>1, <1>4 DEF IInv, TypeOK, ObjId
    <2>4. /\ lsock' = [lsock EXCEPT ![r.b1] = o]
          /\ nextObj' = o + 1
          /\ lst' = [lst EXCEPT ![o] = [fd |-> r.b1, local |-> ad,
                                        arc |-> o, nonblocking |-> FALSE]]
        BY <1>1, <1>4, <2>1, <2>3 DEF ServiceOpens
    <2>5. o \notin Bound /\ closes[o] = 0
        <3>1. lst[o].arc = 0
            BY <2>3 DEF IInv, TypeOK, Unused
        <3>. QED BY <3>1, <2>3 DEF IInv, Bound, ObjId
    <2>6. \A a \in Bound : a \in Bound' /\ a < o
        BY <2>3, <2>4, MaxObjAssumption DEF IInv, TypeOK, Bound, ObjId
    <2>7. o \in Bound'
        BY <2>3, <2>4, MaxObjAssumption DEF IInv, TypeOK, Bound, ObjId
    <2>8. \A g \in LHandle : lsock[g] \in 0..(o - 1)
        BY <2>3 DEF IInv
    <2>. QED BY <1>2, <2>2, <2>4, <2>5, <2>6, <2>7, <2>8
             DEF SocketOwned, IInv, TypeOK
<1>. QED BY <1>3, <1>4

LEMMA DuplicateOwned ==
    ASSUME IInv, SocketOwned, NEW o \in ObjId, Duplicate(o)
    PROVE  SocketOwned'
<1>1. PICK n \in ObjId : n = nextObj
    BY DEF Duplicate, IInv, TypeOK, ObjId
<1>2. /\ lst' = [lst EXCEPT ![n] = lst[o]]
      /\ nextObj' = n + 1
      /\ lsock' = lsock /\ closes' = closes
    BY <1>1 DEF Duplicate, service
<1>3. Bound \subseteq Bound'
    BY <1>1, <1>2, MaxObjAssumption DEF IInv, TypeOK, Bound, ObjId
<1>. QED BY <1>2, <1>3 DEF SocketOwned

LEMMA DropOwned ==
    ASSUME IInv, SocketOwned, NEW o \in ObjId, Drop(o)
    PROVE  SocketOwned'
<1>0. o \in live
    BY DEF Drop
<1>1. PICK a \in ObjId : a = lst[o].arc
    <2>1. lst[o].arc \in Bound
        BY <1>0 DEF IInv
    <2>2. Bound \subseteq ObjId
        BY MaxObjAssumption DEF IInv, TypeOK, Bound, ObjId
    <2>. QED BY <2>1, <2>2
<1>2. PICK h \in LHandle : h = lst[o].fd
    BY DEF Drop, IInv
<1>3. /\ o \in live
      /\ lsock[h] = a
      /\ UNCHANGED <<lst, nextObj>>
    BY <1>1, <1>2 DEF Drop, IInv, AliasesReachTheirSocket
<1>4. CASE count[a] # 1
    <2>1. lsock' = lsock /\ closes' = closes
        BY <1>1, <1>4 DEF Drop
    <2>. QED BY <1>3, <2>1, OwnedFrame
<1>5. CASE count[a] = 1
    <2>1. /\ lsock' = [lsock EXCEPT ![h] = 0]
          /\ closes' = [closes EXCEPT ![a] = @ + 1]
        BY <1>1, <1>2, <1>5 DEF Drop
    <2>2. \A g \in LHandle : lsock[g] = a => g = h
        BY <1>3 DEF SocketOwned, Bound, ObjId
    <2>3. Bound' = Bound
        BY <1>3 DEF Bound
    <2>. QED BY <2>1, <2>2, <2>3 DEF SocketOwned, IInv, TypeOK
<1>. QED BY <1>4, <1>5

LEMMA NextOwned ==
    ASSUME ServiceSetsValid, IInv, SocketOwned, [Next]_vars
    PROVE  SocketOwned'
<1>1. CASE \E a \in Addr : Bind(a)
    BY <1>1, BindOwned
<1>2. CASE \E o \in ObjId : Duplicate(o)
    BY <1>2, DuplicateOwned
<1>3. CASE \E o \in ObjId : Drop(o)
    BY <1>3, DropOwned
<1>4. CASE \E o \in ObjId, b \in BOOLEAN : SetNonblocking(o, b)
    <2>1. PICK o \in ObjId, b \in BOOLEAN : SetNonblocking(o, b)
        BY <1>4
    <2>2. \A a \in ObjId : lst'[a].arc = lst[a].arc
        BY <2>1 DEF SetNonblocking, IInv, TypeOK
    <2>. QED BY <2>1, <2>2, OwnedFrame DEF SetNonblocking, service
<1>5. CASE \/ \E o \in ObjId : AcceptCall(o) \/ Ttl(o)
           \/ \E o \in ObjId, t \in TTL : SetTtl(o, t)
           \/ AcceptReply
           \/ \E h \in LHandle : PeerConnect(h)
           \/ UNCHANGED vars
    BY <1>5, OwnedFrame
       DEF AcceptCall, Ttl, SetTtl, AcceptReply, PeerConnect, vars, service,
           client
<1>. QED BY <1>1, <1>2, <1>3, <1>4, <1>5 DEF Next

\* When the network service always sets the valid length of a successful
\* StdTcpListen reply, no socket it keeps open for the client is left
\* without a live TcpListener object to drop it (NoOrphanListener): bind,
\* duplicate and drop never lose the last owner of a listening socket.
THEOREM ListenerNoOrphan ==
    ASSUME ServiceSetsValid
    PROVE  Spec => []NoOrphanListener
<1>1. Init => IInv /\ SocketOwned
    BY InitIInv DEF Init, SocketOwned
<1>2. IInv /\ SocketOwned /\ [Next]_vars => (IInv /\ SocketOwned)'
    BY NextIInv, NextOwned
<1>3. IInv /\ SocketOwned => NoOrphanListener
    BY DEF IInv, SocketOwned, TeardownExactlyOnce, NoOrphanListener
<1>. QED BY <1>1, <1>2, <1>3, PTL DEF Spec

=============================================================================
