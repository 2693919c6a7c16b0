------------------------ MODULE TcpStreamTimeoutProofs ------------------------
(***************************************************************************)
(* Proof that a read waits without a timeout only when its caller asked    *)
(* for none or for less than a millisecond (ReadUnboundedOnlyIfAsked).     *)
(* set_read_timeout keeps in the Cell the saturated millisecond count of   *)
(* the duration it was given (TimeoutCells), and read forwards that Cell   *)
(* in the offset of its request while peek forwards 0 (ForwardedTimeout).  *)
(***************************************************************************)
EXTENDS TcpStreamProofs

\* Every object's read-timeout Cell holds what set_read_timeout made of the
\* duration it was last given.
TimeoutCells == \A o \in ObjId : st[o].rt = TimeoutMillis(st[o].rtAsked)

\* The pending request carries the read Cell if it is a read, 0 if a peek.
ForwardedTimeout ==
    call # NoCall => call.tmo = IF call.op = "read" THEN st[call.o].rt ELSE 0

TInv == TimeoutCells /\ ForwardedTimeout

-----------------------------------------------------------------------------
\* A Cell of 0 stands for no duration or for one below a millisecond: the
\* saturation at u32::MAX (at least 1) never gives 0.
LEMMA ZeroMillis ==
    ASSUME NEW d \in Micros \cup {NoDuration}, TimeoutMillis(d) = 0
    PROVE  d = NoDuration \/ d < 1000
<1>1. CASE d = NoDuration
    BY <1>1
<1>2. CASE d # NoDuration
    <2>1. d \in Nat /\ TimeoutMax \in Nat \ {0}
        BY <1>2, TimeoutAssumption
    <2>2. MinNat(d \div 1000, TimeoutMax) = 0
        BY <1>2 DEF TimeoutMillis
    <2>3. d \div 1000 = 0
        BY <2>1, <2>2 DEF MinNat
    <2>. QED BY <2>1, <2>3
<1>. QED BY <1>1, <1>2

LEMMA InitTInv == Init => TInv
BY DEF Init, TInv, TimeoutCells, ForwardedTimeout, UnusedStream, NewStream,
       TimeoutMillis

\* A step that leaves the objects' fields and the pending request alone.
LEMMA ClientFrameTInv ==
    ASSUME TInv, st' = st, call' = call
    PROVE  TInv'
BY DEF TInv, TimeoutCells, ForwardedTimeout

LEMMA ConnectTInv ==
    ASSUME IInv, TInv, NEW p \in Peer, Connect(p)
    PROVE  TInv'
<1>1. call = NoCall /\ call' = NoCall
    BY DEF Connect
<1>2. CASE st' = st
    BY <1>1, <1>2 DEF TInv, TimeoutCells, ForwardedTimeout
<1>3. CASE \E n \in ObjId, fd \in CHandle : st' = [st EXCEPT ![n] = NewStream(fd, p)]
    <2>1. PICK n \in ObjId, fd \in CHandle : st' = [st EXCEPT ![n] = NewStream(fd, p)]
        BY <1>3
    <2>2. st \in [ObjId -> StreamRec]
        BY DEF IInv, TypeOK
    <2>3. TimeoutMillis(NewStream(fd, p).rtAsked) = NewStream(fd, p).rt
        BY DEF NewStream, TimeoutMillis
    <2>4. TimeoutCells'
        BY <2>1, <2>2, <2>3 DEF TInv, TimeoutCells
    <2>. QED BY <1>1, <2>4 DEF TInv, ForwardedTimeout
<1>. QED
    <2>1. nextObj <= MaxObj => nextObj \in ObjId
        BY DEF IInv, TypeOK, ObjId
    <2>. QED BY <1>2, <1>3, <2>1 DEF Connect, ConnectWords

\* read forwards its Cell, peek forwards 0, and a request that fails at
\* once leaves no call pending.
LEMMA RxRequestTInv ==
    ASSUME TInv, NEW o \in ObjId, NEW len \in 0..MaxLen,
           ReadCall(o, len) \/ PeekCall(o, len)
    PROVE  TInv'
<1>1. st' = st
    BY DEF ReadCall, PeekCall, RxRequest
<1>2. CASE ReadCall(o, len)
    BY <1>1, <1>2 DEF ReadCall, RxRequest, TInv, TimeoutCells,
                      ForwardedTimeout, NoCall
<1>3. CASE PeekCall(o, len)
    BY <1>1, <1>3 DEF PeekCall, RxRequest, TInv, TimeoutCells,
                      ForwardedTimeout, NoCall
<1>. QED BY <1>2, <1>3

\* set_read_timeout stores the count and the duration it came from
\* together; set_write_timeout touches the other Cell only.
LEMMA TimeoutTInv ==
    ASSUME IInv, TInv, NEW o \in ObjId, NEW d \in Micros \cup {NoDuration},
           SetReadTimeout(o, d) \/ SetWriteTimeout(o, d)
    PROVE  TInv'
<1>1. call = NoCall /\ call' = NoCall
    BY DEF SetReadTimeout, SetWriteTimeout
<1>2. st \in [ObjId -> StreamRec]
    BY DEF IInv, TypeOK
<1>3. CASE SetReadTimeout(o, d)
    <2>1. st' = [st EXCEPT ![o].rt = TimeoutMillis(d), ![o].rtAsked = d]
        BY <1>3 DEF SetReadTimeout
    <2>2. \A q \in ObjId : st'[q].rt = TimeoutMillis(st'[q].rtAsked)
        BY <1>2, <2>1 DEF TInv, TimeoutCells
    <2>. QED BY <1>1, <2>2 DEF TInv, TimeoutCells, ForwardedTimeout
<1>4. CASE SetWriteTimeout(o, d)
    <2>1. st' = [st EXCEPT ![o].wt = TimeoutMillis(d)]
        BY <1>4 DEF SetWriteTimeout
    <2>2. \A q \in ObjId : st'[q].rt = st[q].rt /\ st'[q].rtAsked = st[q].rtAsked
        BY <1>2, <2>1
    <2>. QED BY <1>1, <2>2 DEF TInv, TimeoutCells, ForwardedTimeout
<1>. QED BY <1>3, <1>4

LEMMA NextTInv ==
    ASSUME IInv, TInv, [Next]_vars
    PROVE  TInv'
<1>1. CASE \E p \in Peer : Connect(p)
    BY <1>1, ConnectTInv
<1>2. CASE RxReply
    BY <1>2 DEF RxReply, TInv, TimeoutCells, ForwardedTimeout
<1>3. ASSUME NEW o \in ObjId, NEW len \in 0..MaxLen,
             ReadCall(o, len) \/ PeekCall(o, len)
      PROVE  TInv'
    BY <1>3, RxRequestTInv
<1>4. ASSUME NEW o \in ObjId, NEW len \in 0..MaxLen, Write(o, len)
      PROVE  TInv'
    BY <1>4, ClientFrameTInv DEF Write
<1>5. ASSUME NEW o \in ObjId, NEW d \in Micros \cup {NoDuration},
             SetReadTimeout(o, d) \/ SetWriteTimeout(o, d)
      PROVE  TInv'
    BY <1>5, TimeoutTInv
<1>6. ASSUME NEW o \in ObjId,
             \/ ReadTimeout(o) \/ Shutdown(o) \/ Nodelay(o) \/ Ttl(o)
             \/ \E b \in BOOLEAN : SetNodelay(o, b)
             \/ \E t \in TTL : SetTtl(o, t)
      PROVE  TInv'
    <2>1. st' = st /\ call' = call
        BY <1>6 DEF ReadTimeout, Shutdown, Nodelay, Ttl, SetNodelay, SetTtl,
                    Scalar
    <2>. QED BY <2>1, ClientFrameTInv
<1>7. ASSUME NEW o \in ObjId, Drop(o)
      PROVE  TInv'
    BY <1>7, ClientFrameTInv DEF Drop
<1>8. ASSUME NEW c \in CHandle, PeerSend(c) \/ PeerClose(c)
      PROVE  TInv'
    BY <1>8, ClientFrameTInv DEF PeerSend, PeerClose, client
<1>9. CASE UNCHANGED vars
    BY <1>9, ClientFrameTInv DEF vars
<1>. QED BY <1>1, <1>2, <1>3, <1>4, <1>5, <1>6, <1>7, <1>8, <1>9 DEF Next

\* Every reachable state satisfies TInv.
THEOREM TimeoutInvariant == Spec => []TInv
<1>1. IInv /\ TInv /\ [Next]_vars => TInv'
    BY NextTInv
<1>. QED BY <1>1, InitTInv, StreamInvariant, PTL DEF Spec

\* A read waits in the service with no timeout only when its caller set
\* none, or one below a millisecond: set_read_timeout saturates the count
\* at u32::MAX before `as u32`, so no duration of a millisecond or more is
\* stored, or forwarded by read, as the 0 that means no timeout.
THEOREM StreamReadUnboundedOnlyIfAsked == Spec => []ReadUnboundedOnlyIfAsked
<1>1. IInv /\ TInv => ReadUnboundedOnlyIfAsked
    <2>. SUFFICES ASSUME IInv, TInv, call.op = "read", call.tmo = 0
                  PROVE  st[call.o].rtAsked = NoDuration \/ st[call.o].rtAsked < 1000
        BY DEF ReadUnboundedOnlyIfAsked
    <2>1. call # NoCall
        BY DEF NoCall
    <2>2. call.o \in ObjId /\ st \in [ObjId -> StreamRec]
        BY <2>1 DEF IInv, TypeOK
    <2>3. st[call.o].rtAsked \in Micros \cup {NoDuration}
        BY <2>2 DEF StreamRec
    <2>4. TimeoutMillis(st[call.o].rtAsked) = 0
        BY <2>1, <2>2 DEF TInv, TimeoutCells, ForwardedTimeout
    <2>. QED BY <2>3, <2>4, ZeroMillis
<1>. QED BY <1>1, TimeoutInvariant, StreamInvariant, PTL

=============================================================================
