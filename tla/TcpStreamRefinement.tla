------------------------ MODULE TcpStreamRefinement ------------------------
(***************************************************************************)
(* Proofs that the streams of net/mod.rs, with the network service,        *)
(* implement the abstract StreamChannels under the mapping of TcpStream    *)
(* (ChannelPeer, the receive queues, got, the end-of-stream flags), and    *)
(* that every read or peek reply stays within its request                  *)
(* (ReplyWithinRequest), when the service keeps its valid lengths within   *)
(* the request.  Both rest on the invariant IInv of TcpStreamProofs.       *)
(***************************************************************************)
EXTENDS TcpStreamProofs

\* The service opens a connection only to a peer.
OpenToPeer == \A c \in CHandle : conn[c].open => conn[c].peer \in Peer

\* The invariant of the refinement.
RInv == IInv /\ OpenToPeer

-----------------------------------------------------------------------------
(* Facts about the mapping.                                                *)

\* A step that keeps, for every handle, whether the connection is open, its
\* peer, its queue and its end-of-stream flag, and that copies no byte, is a
\* stuttering step of StreamChannels.
LEMMA ChannelFrame ==
    ASSUME \A c \in CHandle : /\ conn'[c].open = conn[c].open
                              /\ conn'[c].peer = conn[c].peer
                              /\ conn'[c].rx = conn[c].rx
                              /\ conn'[c].eof = conn[c].eof,
           got' = got
    PROVE  UNCHANGED Channels!vars
<1>1. ChannelPeer' = ChannelPeer
    BY DEF ChannelPeer
<1>2. /\ [c \in CHandle |-> conn'[c].rx] = [c \in CHandle |-> conn[c].rx]
      /\ [c \in CHandle |-> conn'[c].eof] = [c \in CHandle |-> conn[c].eof]
    OBVIOUS
<1>. QED BY <1>1, <1>2 DEF Channels!vars

\* The service's scalar handling changes only shut, ttl and nodelay.
LEMMA ServiceUpdateKeeps ==
    ASSUME conn \in [CHandle -> ConnRec], NEW c \in CHandle, NEW op, NEW x
    PROVE  /\ ServiceUpdate(c, op, x).open = conn[c].open
           /\ ServiceUpdate(c, op, x).peer = conn[c].peer
           /\ ServiceUpdate(c, op, x).rx = conn[c].rx
           /\ ServiceUpdate(c, op, x).eof = conn[c].eof
BY DEF ServiceUpdate, ConnRec

\* What an update of one field of one connection record leaves of the
\* table: the fields the mapping reads, handle by handle.
LEMMA FieldUpdate ==
    ASSUME NEW f \in [CHandle -> ConnRec], NEW c \in CHandle, NEW v
    PROVE  /\ \A d \in CHandle :
                 /\ [f EXCEPT ![c].rx = v][d].open = f[d].open
                 /\ [f EXCEPT ![c].rx = v][d].peer = f[d].peer
                 /\ [f EXCEPT ![c].rx = v][d].eof = f[d].eof
                 /\ [f EXCEPT ![c].rx = v][d].rx = IF d = c THEN v ELSE f[d].rx
           /\ \A d \in CHandle :
                 /\ [f EXCEPT ![c].eof = v][d].open = f[d].open
                 /\ [f EXCEPT ![c].eof = v][d].peer = f[d].peer
                 /\ [f EXCEPT ![c].eof = v][d].rx = f[d].rx
                 /\ [f EXCEPT ![c].eof = v][d].eof = IF d = c THEN v ELSE f[d].eof
<1>1. f[c] \in ConnRec
    OBVIOUS
<1>. QED BY <1>1 DEF ConnRec

\* The mapped peers are those of the open records.
LEMMA PeerFrame ==
    ASSUME \A d \in CHandle : /\ conn'[d].open = conn[d].open
                              /\ conn'[d].peer = conn[d].peer
    PROVE  ChannelPeer' = ChannelPeer
BY DEF ChannelPeer

LEMMA InitRefines == Init => Channels!Init
<1>. SUFFICES ASSUME Init PROVE Channels!Init
    OBVIOUS
<1>1. ChannelPeer = [c \in CHandle |-> NoPeer]
    BY DEF Init, ChannelPeer, ClosedConn, FreshConn
<1>2. /\ [c \in CHandle |-> conn[c].rx] = [c \in CHandle |-> 0]
      /\ [c \in CHandle |-> conn[c].eof] = [c \in CHandle |-> FALSE]
    BY DEF Init, ClosedConn, FreshConn
<1>. QED BY <1>1, <1>2 DEF Init, Channels!Init

-----------------------------------------------------------------------------
(* One lemma per action that changes the mapped state.                     *)

\* connect: the service's new connection is Open of a handle that had none.
LEMMA ConnectRefines ==
    ASSUME IInv, NEW p \in Peer, Connect(p)
    PROVE  (\E c \in CHandle : Channels!Open(c, p)) \/ UNCHANGED Channels!vars
<1>0. got' = got
    BY DEF Connect
<1>1. CASE \E c \in CHandle : ~conn[c].open /\ OpenConn(c, p)
    <2>1. PICK c \in CHandle : ~conn[c].open /\ OpenConn(c, p)
        BY <1>1
    <2>2. /\ conn' = [conn EXCEPT ![c] = FreshConn(TRUE, p)]
          /\ conn[c] = ClosedConn
        BY <2>1 DEF OpenConn, IInv
    <2>3. /\ ChannelPeer[c] = NoPeer
          /\ ChannelPeer' = [ChannelPeer EXCEPT ![c] = p]
        BY <2>1, <2>2 DEF ChannelPeer, FreshConn, IInv, TypeOK
    <2>4. /\ [d \in CHandle |-> conn'[d].rx] = [d \in CHandle |-> conn[d].rx]
          /\ [d \in CHandle |-> conn'[d].eof] = [d \in CHandle |-> conn[d].eof]
        <3>1. conn \in [CHandle -> ConnRec]
            BY DEF IInv, TypeOK
        <3>2. /\ conn'[c].rx = 0 /\ conn'[c].eof = FALSE
              /\ conn[c].rx = 0 /\ conn[c].eof = FALSE
            BY <2>2, <3>1 DEF FreshConn, ClosedConn
        <3>3. \A d \in CHandle \ {c} : conn'[d] = conn[d]
            BY <2>2, <3>1
        <3>4. \A d \in CHandle : conn'[d].rx = conn[d].rx /\ conn'[d].eof = conn[d].eof
            BY <3>2, <3>3
        <3>. QED BY <3>4
    <2>. QED BY <1>0, <2>3, <2>4 DEF Channels!Open
<1>2. CASE conn' = conn
    BY <1>0, <1>2, ChannelFrame
<1>. QED BY <1>1, <1>2 DEF Connect

\* A read or peek reply that returns bytes is Deliver of exactly those
\* bytes: the service keeps them within the request, which read and peek
\* clamp to the buffer, so the client copies all that was taken.
LEMMA RxReplyRefines ==
    ASSUME IInv, OpenToPeer, ServiceTrusted, RxReply
    PROVE  \/ \E c \in CHandle : \E k \in 1..conn[c].rx : Channels!Deliver(c, k)
           \/ UNCHANGED Channels!vars
<1>0. /\ call # NoCall
      /\ call.size <= call.len /\ call.len \in 0..MaxLen
      /\ call.size \in 0..BufCap
    BY DEF RxReply, IInv, TypeOK
<1>1. CASE /\ st[call.o].fd \in CHandle /\ conn[st[call.o].fd].open
           /\ \E k \in 1..MinNat(conn[st[call.o].fd].rx, ReplyBound(call.size)) :
                /\ conn' = [conn EXCEPT ![st[call.o].fd].rx = @ - k]
                /\ got' = [got EXCEPT ![st[call.o].fd] = @ + MinNat(k, call.len)]
    <2>1. PICK c \in CHandle : c = st[call.o].fd
        BY <1>1
    <2>2. PICK k \in 1..MinNat(conn[c].rx, ReplyBound(call.size)) :
                /\ conn' = [conn EXCEPT ![c].rx = @ - k]
                /\ got' = [got EXCEPT ![c] = @ + MinNat(k, call.len)]
        BY <1>1, <2>1
    <2>3. /\ conn[c].open /\ conn[c].rx \in 0..MaxSent
        BY <1>1, <2>1 DEF IInv, TypeOK, ConnRec
    <2>4. k \in 1..conn[c].rx /\ k <= call.len
        BY <1>0, <2>2, <2>3 DEF MinNat, ReplyBound
    <2>5. got' = [got EXCEPT ![c] = @ + k]
        BY <1>0, <2>2, <2>4 DEF MinNat
    <2>6. \A d \in CHandle :
             /\ conn'[d].open = conn[d].open /\ conn'[d].peer = conn[d].peer
             /\ conn'[d].eof = conn[d].eof
             /\ conn'[d].rx = IF d = c THEN conn[c].rx - k ELSE conn[d].rx
        BY <2>2, FieldUpdate DEF IInv, TypeOK
    <2>7. ChannelPeer[c] # NoPeer /\ ChannelPeer' = ChannelPeer
        <3>1. conn[c].peer \in Peer
            BY <2>3 DEF OpenToPeer
        <3>2. ChannelPeer' = ChannelPeer
            BY <2>6, PeerFrame
        <3>3. ChannelPeer[c] # NoPeer
            BY <2>3, <3>1, PeerAssumption DEF ChannelPeer
        <3>. QED BY <3>2, <3>3
    <2>8. /\ [d \in CHandle |-> conn'[d].rx]
               = [[d \in CHandle |-> conn[d].rx] EXCEPT ![c] = @ - k]
          /\ [d \in CHandle |-> conn'[d].eof] = [d \in CHandle |-> conn[d].eof]
        BY <2>6
    <2>9. Channels!Deliver(c, k)
        BY <2>5, <2>7, <2>8 DEF Channels!Deliver
    <2>. QED BY <2>4, <2>9
<1>2. CASE conn' = conn /\ got' = got
    BY <1>2, ChannelFrame
<1>. QED BY <1>1, <1>2 DEF RxReply

\* A peer's byte is Send, a peer's close is End.
LEMMA PeerRefines ==
    ASSUME IInv, OpenToPeer, NEW c \in CHandle, PeerSend(c) \/ PeerClose(c)
    PROVE  Channels!Send(c) \/ Channels!End(c)
<1>0. /\ conn[c].open /\ ~conn[c].eof /\ got' = got
      /\ \/ conn' = [conn EXCEPT ![c].rx = conn[c].rx + 1]
         \/ conn' = [conn EXCEPT ![c].eof = TRUE]
    BY DEF PeerSend, PeerClose
<1>1. ChannelPeer[c] # NoPeer /\ ChannelPeer' = ChannelPeer
    <2>0. conn \in [CHandle -> ConnRec]
        BY DEF IInv, TypeOK
    <2>1. \A d \in CHandle : conn'[d].open = conn[d].open /\ conn'[d].peer = conn[d].peer
        <3>1. CASE conn' = [conn EXCEPT ![c].rx = conn[c].rx + 1]
            BY <2>0, <3>1, FieldUpdate
        <3>2. CASE conn' = [conn EXCEPT ![c].eof = TRUE]
            BY <2>0, <3>2, FieldUpdate
        <3>. QED BY <1>0, <3>1, <3>2
    <2>2. ChannelPeer' = ChannelPeer
        BY <2>1, PeerFrame
    <2>3. ChannelPeer[c] # NoPeer
        BY <1>0, PeerAssumption DEF OpenToPeer, ChannelPeer
    <2>. QED BY <2>2, <2>3
<1>2. CASE PeerSend(c)
    <2>1. \A d \in CHandle :
             /\ conn'[d].eof = conn[d].eof
             /\ conn'[d].rx = IF d = c THEN conn[c].rx + 1 ELSE conn[d].rx
        BY <1>2, FieldUpdate DEF PeerSend, IInv, TypeOK
    <2>2. /\ [d \in CHandle |-> conn'[d].rx]
               = [[d \in CHandle |-> conn[d].rx] EXCEPT ![c] = @ + 1]
          /\ [d \in CHandle |-> conn'[d].eof] = [d \in CHandle |-> conn[d].eof]
        BY <2>1
    <2>. QED BY <1>0, <1>1, <2>2 DEF Channels!Send
<1>3. CASE PeerClose(c)
    <2>1. \A d \in CHandle :
             /\ conn'[d].rx = conn[d].rx
             /\ conn'[d].eof = IF d = c THEN TRUE ELSE conn[d].eof
        BY <1>3, FieldUpdate DEF PeerClose, IInv, TypeOK
    <2>2. /\ [d \in CHandle |-> conn'[d].rx] = [d \in CHandle |-> conn[d].rx]
          /\ [d \in CHandle |-> conn'[d].eof]
               = [[d \in CHandle |-> conn[d].eof] EXCEPT ![c] = TRUE]
        BY <2>1
    <2>. QED BY <1>0, <1>1, <2>2 DEF Channels!End
<1>. QED BY <1>2, <1>3

\* The service's scalar handling keeps the mapped fields of every record.
LEMMA ScalarFrame ==
    ASSUME IInv, NEW o \in ObjId, NEW name, NEW op, NEW x, Scalar(o, name, op, x)
    PROVE  /\ \A d \in CHandle : /\ conn'[d].open = conn[d].open
                                 /\ conn'[d].peer = conn[d].peer
                                 /\ conn'[d].rx = conn[d].rx
                                 /\ conn'[d].eof = conn[d].eof
           /\ got' = got
<1>0. conn \in [CHandle -> ConnRec]
    BY DEF IInv, TypeOK
<1>1. CASE /\ st[o].fd \in CHandle
           /\ conn' = [conn EXCEPT ![st[o].fd] = ServiceUpdate(st[o].fd, op, x)]
    <2>1. PICK c \in CHandle : c = st[o].fd
        BY <1>1
    <2>2. \A d \in CHandle \ {c} : conn'[d] = conn[d]
        BY <1>0, <1>1, <2>1
    <2>3. /\ conn'[c].open = conn[c].open /\ conn'[c].peer = conn[c].peer
          /\ conn'[c].rx = conn[c].rx /\ conn'[c].eof = conn[c].eof
        BY <1>0, <1>1, <2>1, ServiceUpdateKeeps
    <2>. QED BY <2>2, <2>3 DEF Scalar
<1>2. CASE conn' = conn
    BY <1>2 DEF Scalar
<1>. QED BY <1>1, <1>2 DEF Scalar

\* The service opens a connection only to a peer (connect is given one),
\* and nothing else changes a record's peer or open flag.
LEMMA OpenToPeerStep ==
    ASSUME IInv, OpenToPeer, [Next]_vars
    PROVE  OpenToPeer'
<1>0. conn \in [CHandle -> ConnRec]
    BY DEF IInv, TypeOK
<1>1. ASSUME \A d \in CHandle : /\ conn'[d].open = conn[d].open
                                /\ conn'[d].peer = conn[d].peer
      PROVE  OpenToPeer'
    BY <1>1 DEF OpenToPeer
<1>2. CASE \E p \in Peer : Connect(p)
    <2>1. PICK p \in Peer : Connect(p)
        BY <1>2
    <2>2. CASE \E c \in CHandle : OpenConn(c, p)
        <3>1. PICK c \in CHandle : OpenConn(c, p)
            BY <2>2
        <3>2. /\ conn'[c].open /\ conn'[c].peer = p
              /\ \A d \in CHandle \ {c} : conn'[d] = conn[d]
            BY <1>0, <3>1 DEF OpenConn, FreshConn
        <3>. QED BY <3>2 DEF OpenToPeer
    <2>3. CASE conn' = conn
        BY <2>3, <1>1
    <2>. QED BY <2>1, <2>2, <2>3 DEF Connect
<1>3. CASE RxReply
    <2>1. CASE /\ st[call.o].fd \in CHandle
               /\ \E k \in Nat : conn' = [conn EXCEPT ![st[call.o].fd].rx = @ - k]
        <3>1. PICK c \in CHandle : c = st[call.o].fd
            BY <2>1
        <3>2. PICK k \in Nat : conn' = [conn EXCEPT ![c].rx = conn[c].rx - k]
            BY <2>1, <3>1
        <3>. QED BY <1>0, <3>2, FieldUpdate, <1>1
    <2>2. CASE conn' = conn
        BY <2>2, <1>1
    <2>3. \/ /\ st[call.o].fd \in CHandle
             /\ \E k \in Nat : conn' = [conn EXCEPT ![st[call.o].fd].rx = @ - k]
          \/ conn' = conn
        <3>1. CASE /\ st[call.o].fd \in CHandle
                   /\ \E k \in 1..MinNat(conn[st[call.o].fd].rx, ReplyBound(call.size)) :
                         conn' = [conn EXCEPT ![st[call.o].fd].rx = @ - k]
            <4>1. PICK k \in 1..MinNat(conn[st[call.o].fd].rx, ReplyBound(call.size)) :
                         conn' = [conn EXCEPT ![st[call.o].fd].rx = @ - k]
                BY <3>1
            <4>2. k \in Nat
                <5>1. /\ conn[st[call.o].fd].rx \in Nat
                      /\ ReplyBound(call.size) \in Nat
                    BY <3>1, CapAssumption DEF IInv, TypeOK, ConnRec, ReplyBound, NoCall
                <5>. QED BY <4>1, <5>1 DEF MinNat
            <4>. QED BY <3>1, <4>1, <4>2
        <3>. QED BY <1>3, <3>1, Zenon DEF RxReply
    <2>. QED BY <2>1, <2>2, <2>3
<1>4. ASSUME NEW c \in CHandle, PeerSend(c) \/ PeerClose(c)
      PROVE  OpenToPeer'
    <2>1. CASE conn' = [conn EXCEPT ![c].rx = conn[c].rx + 1]
        BY <1>0, <2>1, FieldUpdate, <1>1
    <2>2. CASE conn' = [conn EXCEPT ![c].eof = TRUE]
        BY <1>0, <2>2, FieldUpdate, <1>1
    <2>. QED BY <1>4, <2>1, <2>2 DEF PeerSend, PeerClose
<1>5. ASSUME NEW o \in ObjId, NEW name, NEW op, NEW x, Scalar(o, name, op, x)
      PROVE  OpenToPeer'
    BY <1>5, ScalarFrame, <1>1
<1>6. CASE conn' = conn
    BY <1>6, <1>1
<1>. QED
    <2>1. CASE \E o \in ObjId :
                 \/ Shutdown(o) \/ Nodelay(o) \/ Ttl(o)
                 \/ \E b \in BOOLEAN : SetNodelay(o, b)
                 \/ \E t \in TTL : SetTtl(o, t)
        BY <2>1, <1>5 DEF Shutdown, Nodelay, Ttl, SetNodelay, SetTtl
    <2>. QED
        BY <1>2, <1>3, <1>4, <1>6, <2>1
        DEF Next, vars, ReadCall, PeekCall, RxRequest, Write, SetReadTimeout,
            SetWriteTimeout, ReadTimeout, Drop

LEMMA RInvInvariant == Spec => []RInv
<1>1. Init => RInv
    BY InitIInv DEF Init, RInv, OpenToPeer, ClosedConn, FreshConn
<1>2. RInv /\ [Next]_vars => RInv'
    BY NextIInv, OpenToPeerStep DEF RInv
<1>. QED BY <1>1, <1>2, PTL DEF Spec

-----------------------------------------------------------------------------
(* Steps other than a read or peek reply never take bytes off a queue.     *)

\* Every step but a reply is Open, Send, End or a stutter of StreamChannels.
LEMMA OtherRefines ==
    ASSUME RInv, [Next]_vars, ~RxReply
    PROVE  \/ UNCHANGED Channels!vars
           \/ \E c \in CHandle : \/ \E p \in Peer : Channels!Open(c, p)
                                 \/ Channels!Send(c) \/ Channels!End(c)
<1>1. CASE \E p \in Peer : Connect(p)
    BY <1>1, ConnectRefines DEF RInv
<1>2. ASSUME NEW c \in CHandle, PeerSend(c) \/ PeerClose(c)
      PROVE  Channels!Send(c) \/ Channels!End(c)
    BY <1>2, PeerRefines DEF RInv
<1>3. ASSUME NEW o \in ObjId, NEW name, NEW op, NEW x, Scalar(o, name, op, x)
      PROVE  UNCHANGED Channels!vars
    BY <1>3, ScalarFrame, ChannelFrame DEF RInv
<1>4. CASE conn' = conn /\ got' = got
    BY <1>4, ChannelFrame
<1>. QED
    <2>1. CASE \E o \in ObjId :
                 \/ Shutdown(o) \/ Nodelay(o) \/ Ttl(o)
                 \/ \E b \in BOOLEAN : SetNodelay(o, b)
                 \/ \E t \in TTL : SetTtl(o, t)
        BY <2>1, <1>3 DEF Shutdown, Nodelay, Ttl, SetNodelay, SetTtl
    <2>. QED
        BY <1>1, <1>2, <1>4, <2>1
        DEF Next, vars, ReadCall, PeekCall, RxRequest, Write, SetReadTimeout,
            SetWriteTimeout, ReadTimeout, Drop

\* Hence outside a reply no queue shrinks.
LEMMA QueueGrowsOutsideReply ==
    ASSUME RInv, [Next]_vars, ~RxReply
    PROVE  \A d \in CHandle : conn'[d].rx >= conn[d].rx
<1>0. \A d \in CHandle : conn[d].rx \in Nat
    BY DEF RInv, IInv, TypeOK, ConnRec
<1>1. CASE UNCHANGED Channels!vars
    <2>1. [d \in CHandle |-> conn'[d].rx] = [d \in CHandle |-> conn[d].rx]
        BY <1>1 DEF Channels!vars
    <2>. QED BY <1>0, <2>1
<1>2. ASSUME NEW c \in CHandle, NEW p \in Peer, Channels!Open(c, p)
      PROVE  \A d \in CHandle : conn'[d].rx >= conn[d].rx
    <2>1. [d \in CHandle |-> conn'[d].rx] = [d \in CHandle |-> conn[d].rx]
        BY <1>2 DEF Channels!Open
    <2>. QED BY <1>0, <2>1
<1>3. ASSUME NEW c \in CHandle, Channels!Send(c)
      PROVE  \A d \in CHandle : conn'[d].rx >= conn[d].rx
    <2>1. [d \in CHandle |-> conn'[d].rx]
            = [[d \in CHandle |-> conn[d].rx] EXCEPT ![c] = @ + 1]
        BY <1>3 DEF Channels!Send
    <2>2. \A d \in CHandle : conn'[d].rx = IF d = c THEN conn[c].rx + 1 ELSE conn[d].rx
        BY <2>1
    <2>. QED BY <1>0, <2>2
<1>4. ASSUME NEW c \in CHandle, Channels!End(c)
      PROVE  \A d \in CHandle : conn'[d].rx >= conn[d].rx
    <2>1. [d \in CHandle |-> conn'[d].rx] = [d \in CHandle |-> conn[d].rx]
        BY <1>4 DEF Channels!End
    <2>. QED BY <1>0, <2>1
<1>. QED BY <1>1, <1>2, <1>3, <1>4, OtherRefines

\* A reply takes bytes off the queue of the stream that asked only, and no
\* more than its buffer holds.
LEMMA ReplyStep ==
    ASSUME IInv, ServiceTrusted, RxReply
    PROVE  \A c \in CHandle :
               conn'[c].rx < conn[c].rx =>
                   /\ call # NoCall /\ st[call.o].fd = c
                   /\ conn[c].rx - conn'[c].rx <= call.len
<1>0. /\ call # NoCall
      /\ call.size <= call.len /\ call.len \in 0..MaxLen
      /\ call.size \in 0..BufCap
      /\ conn \in [CHandle -> ConnRec]
    BY DEF RxReply, IInv, TypeOK
<1>00. \A d \in CHandle : conn[d].rx \in Nat
    BY <1>0 DEF ConnRec
<1>1. CASE /\ st[call.o].fd \in CHandle /\ conn[st[call.o].fd].open
           /\ \E k \in 1..MinNat(conn[st[call.o].fd].rx, ReplyBound(call.size)) :
                conn' = [conn EXCEPT ![st[call.o].fd].rx = @ - k]
    <2>1. PICK c \in CHandle : c = st[call.o].fd
        BY <1>1
    <2>2. PICK k \in 1..MinNat(conn[c].rx, ReplyBound(call.size)) :
                conn' = [conn EXCEPT ![c].rx = @ - k]
        BY <1>1, <2>1
    <2>3. conn[c].rx \in 0..MaxSent
        BY <1>0 DEF ConnRec
    <2>4. k \in 1..conn[c].rx /\ k <= call.len
        BY <1>0, <2>2, <2>3 DEF MinNat, ReplyBound
    <2>5. \A d \in CHandle : conn'[d].rx = IF d = c THEN conn[c].rx - k ELSE conn[d].rx
        BY <1>0, <2>2, FieldUpdate
    <2>6. ASSUME NEW d \in CHandle, conn'[d].rx < conn[d].rx
          PROVE  d = c
        BY <1>00, <2>5, <2>6
    <2>7. call # NoCall /\ st[call.o].fd = c /\ conn[c].rx - conn'[c].rx <= call.len
        BY <1>0, <1>00, <2>1, <2>4, <2>5
    <2>. QED BY <2>6, <2>7
<1>2. CASE conn' = conn
    BY <1>00, <1>2
<1>. QED BY <1>1, <1>2 DEF RxReply

-----------------------------------------------------------------------------
\* With a service that keeps its valid lengths within the request, the
\* streams of net/mod.rs and the service implement StreamChannels
\* (ChannelsRefined): connect opens only a handle with no connection, a
\* peer's bytes and its close are queued, and every read or peek reply
\* hands its caller exactly the bytes the service took off the queue.
THEOREM StreamRefinesChannels ==
    ASSUME ServiceTrusted
    PROVE  Spec => ChannelsRefined
<1>1. Init => Channels!Init
    BY InitRefines
<1>2. RInv /\ [Next]_vars => UNCHANGED Channels!vars \/ Channels!Next
    <2>. SUFFICES ASSUME RInv, [Next]_vars
                  PROVE  UNCHANGED Channels!vars \/ Channels!Next
        OBVIOUS
    <2>1. CASE RxReply
        <3>1. \/ \E c \in CHandle : \E k \in 1..conn[c].rx : Channels!Deliver(c, k)
              \/ UNCHANGED Channels!vars
            BY <2>1, RxReplyRefines DEF RInv
        <3>. QED BY <3>1 DEF Channels!Next
    <2>2. CASE ~RxReply
        BY <2>2, OtherRefines DEF Channels!Next
    <2>. QED BY <2>1, <2>2
<1>. QED BY <1>1, <1>2, RInvInvariant, PTL DEF Spec, ChannelsRefined

\* The same, stated as the abstract specification itself.
THEOREM StreamImplementsChannels ==
    ASSUME ServiceTrusted
    PROVE  Spec => Channels!Spec
<1>0. [UNCHANGED Channels!vars \/ Channels!Next]_vars => [Channels!Next]_Channels!vars
    <2>1. UNCHANGED vars => UNCHANGED Channels!vars
        <3>. SUFFICES ASSUME UNCHANGED vars PROVE UNCHANGED Channels!vars
            OBVIOUS
        <3>1. conn' = conn /\ got' = got
            BY DEF vars
        <3>. QED BY <3>1, ChannelFrame
    <2>. QED BY <2>1
<1>1. ChannelsRefined => Channels!Spec
    BY <1>0, PTL DEF ChannelsRefined, Channels!Spec
<1>. QED BY <1>1, StreamRefinesChannels

\* With a service that keeps its valid lengths within the request, a read
\* or peek reply takes off a receive queue no more bytes than the caller's
\* buffer holds, and only off the queue of the stream that asked: read and
\* peek clamp the MemorySize to the buffer (ReplyWithinRequest).
THEOREM StreamReplyWithinRequest ==
    ASSUME ServiceTrusted
    PROVE  Spec => ReplyWithinRequest
<1>1. RInv /\ [Next]_vars =>
        \A c \in CHandle :
            conn'[c].rx < conn[c].rx =>
                /\ call # NoCall /\ st[call.o].fd = c
                /\ conn[c].rx - conn'[c].rx <= call.len
    <2>. SUFFICES ASSUME RInv, [Next]_vars
                  PROVE  \A c \in CHandle :
                            conn'[c].rx < conn[c].rx =>
                                /\ call # NoCall /\ st[call.o].fd = c
                                /\ conn[c].rx - conn'[c].rx <= call.len
        OBVIOUS
    <2>1. CASE RxReply
        BY <2>1, ReplyStep DEF RInv
    <2>2. CASE ~RxReply
        <3>1. \A d \in CHandle : conn'[d].rx >= conn[d].rx
            BY <2>2, QueueGrowsOutsideReply
        <3>2. \A d \in CHandle : conn[d].rx \in Nat /\ conn'[d].rx \in Nat
            <4>1. IInv'
                BY NextIInv DEF RInv
            <4>. QED BY <4>1 DEF RInv, IInv, TypeOK, ConnRec
        <3>. QED BY <3>1, <3>2
    <2>. QED BY <2>1, <2>2
<1>. QED BY <1>1, RInvInvariant, PTL DEF Spec, ReplyWithinRequest

=============================================================================
