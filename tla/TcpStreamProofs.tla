-------------------------- MODULE TcpStreamProofs --------------------------
(***************************************************************************)
(* Proofs about TcpStream (net/mod.rs): the bytes of a connection are     *)
(* conserved between the service's receive queue and the callers'        *)
(* buffers, results stay within the caller's buffer, and every live      *)
(* stream holds an open connection to its peer.                          *)
(***************************************************************************)
EXTENDS TcpStream, TLAPS

(***************************************************************************)
(* The inductive invariant.  Besides the properties it records that a      *)
(* connection the service never opened has seen no byte, that a receive   *)
(* queue never holds more than was sent, and that the blocked read or     *)
(* peek belongs to a live object and asks for no more than its buffer.    *)
(***************************************************************************)
IInv ==
    /\ TypeOK
    /\ \A c \in CHandle : ~conn[c].open =>
          conn[c] = ClosedConn /\ sent[c] = 0 /\ got[c] = 0
    /\ \A c \in CHandle : conn[c].rx <= sent[c]
    /\ call # NoCall => call.o \in live /\ call.size <= call.len
    /\ ConnectedToPeer
    /\ ServiceTrusted => DataConserved /\ ReturnsWithinBuffer

-----------------------------------------------------------------------------
(* Arithmetic of the clamps.                                               *)

LEMMA MinNatFacts ==
    ASSUME NEW a \in Nat, NEW b \in Nat
    PROVE  MinNat(a, b) \in Nat /\ MinNat(a, b) <= a /\ MinNat(a, b) <= b
BY DEF MinNat

\* A stored timeout fits the u32 Cell.
LEMMA TimeoutMillisType ==
    ASSUME NEW d \in Micros \cup {NoDuration}
    PROVE  TimeoutMillis(d) \in 0..TimeoutMax
BY TimeoutAssumption DEF TimeoutMillis, MinNat

\* The request of a read or peek is clamped to the caller's buffer.
LEMMA RxSizeFacts ==
    ASSUME NEW len \in 0..MaxLen
    PROVE  RxSize(len) \in 0..BufCap /\ RxSize(len) <= len
BY CapAssumption DEF RxSize, MinNat

\* Updating one connection record keeps the table typed.
LEMMA ConnTableUpdate ==
    ASSUME NEW f \in [CHandle -> ConnRec], NEW c \in CHandle, NEW r \in ConnRec
    PROVE  [f EXCEPT ![c] = r] \in [CHandle -> ConnRec]
OBVIOUS

-----------------------------------------------------------------------------
LEMMA InitIInv == Init => IInv
<1>. SUFFICES ASSUME Init PROVE IInv
    OBVIOUS
<1>1. TypeOK
    BY ObjAssumption, TTLAssumption, TimeoutAssumption, PeerAssumption,
       CapAssumption
    DEF Init, TypeOK, OpName, StreamRec, ConnRec, UnusedStream, NewStream, ClosedConn, FreshConn, NoCall,
        Result, ObjId
<1>. QED BY <1>1 DEF Init, IInv, ConnectedToPeer, DataConserved,
              ReturnsWithinBuffer, Result, ClosedConn, FreshConn, NoCall

-----------------------------------------------------------------------------
(* The steps of the client that change no connection.                      *)

\* set_read_timeout and set_write_timeout store a Cell; read_timeout reads it.
LEMMA TimeoutIInv ==
    ASSUME IInv, NEW o \in ObjId, NEW d \in Micros \cup {NoDuration},
           SetReadTimeout(o, d) \/ SetWriteTimeout(o, d) \/ ReadTimeout(o)
    PROVE  IInv'
<1>1. TimeoutMillis(d) \in 0..TimeoutMax
    BY TimeoutMillisType
<1>2. UNCHANGED <<live, nextObj, call, conn, sent, got>>
    BY DEF SetReadTimeout, SetWriteTimeout, ReadTimeout
<1>3. /\ \A q \in ObjId : st'[q].fd = st[q].fd /\ st'[q].peer = st[q].peer
      /\ st' \in [ObjId -> StreamRec]
    BY <1>1 DEF SetReadTimeout, SetWriteTimeout, ReadTimeout, IInv, TypeOK, StreamRec
<1>4. /\ ret' \in [op : OpName, kind : {"ok", "InvalidInput"},
                   fd : CHandle \cup LPort \cup {0}, val : Nat, len : 0..MaxLen]
      /\ ret'.op \notin {"read", "peek", "write"}
    BY CapAssumption, TimeoutAssumption
    DEF SetReadTimeout, SetWriteTimeout, ReadTimeout, IInv, TypeOK, StreamRec,
        Result, OpName
<1>. QED BY <1>2, <1>3, <1>4 DEF IInv, TypeOK, ConnectedToPeer, DataConserved,
              ReturnsWithinBuffer

\* Dropping a stream removes the object and sends nothing.
LEMMA DropIInv ==
    ASSUME IInv, NEW o \in ObjId, Drop(o)
    PROVE  IInv'
BY DEF Drop, IInv, TypeOK, ConnectedToPeer, DataConserved, ReturnsWithinBuffer

-----------------------------------------------------------------------------
(* The remote peer.                                                        *)

LEMMA PeerSendIInv ==
    ASSUME IInv, NEW c \in CHandle, PeerSend(c)
    PROVE  IInv'
<1>1. /\ conn' = [conn EXCEPT ![c].rx = @ + 1]
      /\ sent' = [sent EXCEPT ![c] = @ + 1]
      /\ conn[c].open /\ sent[c] < MaxSent
      /\ UNCHANGED <<live, st, nextObj, call, ret, got>>
    BY DEF PeerSend, client
<1>2. conn[c].rx + 1 \in 0..MaxSent
    BY <1>1, CapAssumption DEF IInv, TypeOK, ConnRec
<1>3. TypeOK'
    <2>1. [conn[c] EXCEPT !.rx = conn[c].rx + 1] \in ConnRec
        BY <1>2 DEF IInv, TypeOK, ConnRec
    <2>2. conn' \in [CHandle -> ConnRec]
        BY <1>1, <2>1, ConnTableUpdate DEF IInv, TypeOK
    <2>3. sent' \in [CHandle -> 0..MaxSent]
        BY <1>1, CapAssumption DEF IInv, TypeOK
    <2>. QED BY <1>1, <2>2, <2>3 DEF IInv, TypeOK
<1>. QED BY <1>1, <1>3 DEF IInv, TypeOK, ConnRec, ConnectedToPeer, DataConserved,
              ReturnsWithinBuffer

LEMMA PeerCloseIInv ==
    ASSUME IInv, NEW c \in CHandle, PeerClose(c)
    PROVE  IInv'
<1>1. /\ conn' = [conn EXCEPT ![c].eof = TRUE]
      /\ conn[c].open
      /\ UNCHANGED <<live, st, nextObj, call, ret, sent, got>>
    BY DEF PeerClose, client
<1>2. TypeOK'
    <2>0. conn[c] \in ConnRec
        BY DEF IInv, TypeOK
    <2>1. [conn[c] EXCEPT !.eof = TRUE] \in ConnRec
        BY <2>0 DEF ConnRec
    <2>. QED BY <1>1, <2>1, ConnTableUpdate DEF IInv, TypeOK
<1>. QED BY <1>1, <1>2 DEF IInv, TypeOK, ConnRec, ConnectedToPeer, DataConserved,
              ReturnsWithinBuffer

-----------------------------------------------------------------------------
(* read, peek and write requests.                                          *)

\* A read or peek blocks with a request clamped to the buffer, or fails.
LEMMA RxRequestIInv ==
    ASSUME IInv, NEW o \in ObjId, NEW r \in {"read", "peek"},
           NEW len \in 0..MaxLen, NEW tmo \in 0..TimeoutMax,
           RxRequest(o, r, len, tmo)
    PROVE  IInv'
<1>0. /\ o \in live /\ call = NoCall
      /\ UNCHANGED <<live, st, nextObj, conn, sent, got>>
      /\ st[o].fd \in CHandle \cup LPort \cup {0}
    BY DEF RxRequest, IInv, TypeOK, StreamRec
<1>1. RxSize(len) \in 0..BufCap /\ RxSize(len) <= len
    BY RxSizeFacts
<1>2. CASE /\ call' = [op |-> r, o |-> o, len |-> len, size |-> RxSize(len),
                      tmo |-> tmo]
           /\ UNCHANGED ret
    BY <1>0, <1>1, <1>2 DEF IInv, TypeOK, ConnectedToPeer, DataConserved,
          ReturnsWithinBuffer, NoCall
<1>3. CASE /\ ret' = Result(r, "InvalidInput", st[o].fd, 0, len)
           /\ UNCHANGED call
    BY <1>0, <1>3 DEF IInv, TypeOK, ConnectedToPeer, DataConserved,
          ReturnsWithinBuffer, Result, OpName
<1>. QED BY <1>2, <1>3 DEF RxRequest

\* write returns the count the service reports, or fails.
LEMMA WriteIInv ==
    ASSUME IInv, NEW o \in ObjId, NEW len \in 0..MaxLen, Write(o, len)
    PROVE  IInv'
<1>0. /\ o \in live
      /\ UNCHANGED <<live, st, nextObj, call, conn, sent, got>>
      /\ st[o].fd \in CHandle \cup LPort \cup {0}
    BY DEF Write, IInv, TypeOK, StreamRec
<1>1. ServiceTrusted => ReplyBound(TxSize(len)) <= len
    BY CapAssumption DEF ReplyBound, TxSize, MinNat
<1>2. ReplyBound(TxSize(len)) \in Nat
    BY CapAssumption DEF ReplyBound, TxSize, MinNat
<1>3. CASE \E n \in 0..ReplyBound(TxSize(len)) :
               ret' = Result("write", "ok", st[o].fd, n, len)
    BY <1>0, <1>1, <1>2, <1>3 DEF IInv, TypeOK, ConnectedToPeer, DataConserved,
          ReturnsWithinBuffer, Result, OpName
<1>4. CASE ret' = Result("write", "InvalidInput", st[o].fd, 0, len)
    BY <1>0, <1>4 DEF IInv, TypeOK, ConnectedToPeer, DataConserved,
          ReturnsWithinBuffer, Result, OpName
<1>. QED BY <1>3, <1>4 DEF Write

-----------------------------------------------------------------------------
(* Blocking scalars.                                                       *)

\* The network service's scalar handlers keep a record's connection fields
\* and answer a number.
LEMMA ServiceScalarFacts ==
    ASSUME conn \in [CHandle -> ConnRec], NEW c \in CHandle,
           NEW op \in {34, 36, 37, 38, 39}, NEW x \in Nat, op = 37 => x \in TTL
    PROVE  /\ ServiceUpdate(c, op, x) \in ConnRec
           /\ ServiceUpdate(c, op, x).open = conn[c].open
           /\ ServiceUpdate(c, op, x).peer = conn[c].peer
           /\ ServiceUpdate(c, op, x).rx = conn[c].rx
           /\ ServiceAnswer(c, op) \in Nat
<1>1. conn[c] \in ConnRec
    OBVIOUS
<1>2. ServiceUpdate(c, op, x) \in ConnRec
    BY <1>1 DEF ServiceUpdate, ConnRec
<1>3. /\ ServiceUpdate(c, op, x).open = conn[c].open
      /\ ServiceUpdate(c, op, x).peer = conn[c].peer
      /\ ServiceUpdate(c, op, x).rx = conn[c].rx
    BY <1>1 DEF ServiceUpdate, ConnRec
<1>4. ServiceAnswer(c, op) \in Nat
    BY <1>1, TTLAssumption DEF ServiceAnswer, ConnRec
<1>. QED BY <1>2, <1>3, <1>4

\* The calls decode a Scalar1 into a number.
LEMMA DecodeNat ==
    ASSUME NEW name, NEW y \in Nat
    PROVE  Decode(name, y) \in Nat
BY DEF Decode, AsBool, AsU32, Unit

\* shutdown, set_nodelay, nodelay, set_ttl and ttl keep every connection
\* open with its peer and bytes.
LEMMA ScalarIInv ==
    ASSUME IInv, NEW o \in ObjId,
           NEW name \in {"shutdown", "set_nodelay", "nodelay", "set_ttl", "ttl"},
           NEW op \in {34, 36, 37, 38, 39}, NEW x \in Nat, op = 37 => x \in TTL,
           Scalar(o, name, op, x)
    PROVE  IInv'
<1>0. /\ o \in live
      /\ UNCHANGED <<live, st, nextObj, call, sent, got>>
      /\ st[o].fd \in CHandle \cup LPort \cup {0}
    BY DEF Scalar, IInv, TypeOK, StreamRec
<1>1. name \in OpName /\ name \notin {"read", "peek", "write"}
    BY DEF OpName
<1>2. CASE /\ st[o].fd = NetCid /\ st[o].fd \in CHandle /\ conn[st[o].fd].open
           /\ conn' = [conn EXCEPT ![st[o].fd] = ServiceUpdate(st[o].fd, op, x)]
           /\ ret' = Result(name, "ok", st[o].fd,
                            Decode(name, ServiceAnswer(st[o].fd, op)), 0)
    <2>1. PICK c \in CHandle : c = st[o].fd
        BY <1>2
    <2>2. /\ ServiceUpdate(c, op, x) \in ConnRec
          /\ ServiceUpdate(c, op, x).open = conn[c].open
          /\ ServiceUpdate(c, op, x).peer = conn[c].peer
          /\ ServiceUpdate(c, op, x).rx = conn[c].rx
          /\ ServiceAnswer(c, op) \in Nat
        BY ServiceScalarFacts DEF IInv, TypeOK
    <2>3. Decode(name, ServiceAnswer(c, op)) \in Nat
        BY <2>2, DecodeNat
    <2>4. TypeOK'
        BY <1>0, <1>1, <1>2, <2>1, <2>2, <2>3, CapAssumption, ConnTableUpdate
        DEF IInv, TypeOK, Result
    <2>5. \A d \in CHandle : /\ conn'[d].open = conn[d].open
                             /\ conn'[d].peer = conn[d].peer
                             /\ conn'[d].rx = conn[d].rx
        BY <1>2, <2>1, <2>2 DEF IInv, TypeOK
    <2>6. \A d \in CHandle : ~conn'[d].open => conn'[d] = conn[d]
        BY <1>2, <2>1, <2>2 DEF IInv, TypeOK
    <2>. QED BY <1>0, <1>1, <1>2, <2>4, <2>5, <2>6
             DEF IInv, ConnectedToPeer, DataConserved, ReturnsWithinBuffer, Result
<1>3. CASE /\ \E y \in Scalars : ret' = Result(name, "ok", st[o].fd, Decode(name, y), 0)
           /\ UNCHANGED conn
    <2>1. Scalars \subseteq Nat
        BY TTLAssumption DEF Scalars
    <2>2. TypeOK'
        BY <1>0, <1>1, <1>3, <2>1, DecodeNat, CapAssumption DEF IInv, TypeOK, Result
    <2>. QED BY <1>0, <1>1, <1>3, <2>2
             DEF IInv, ConnectedToPeer, DataConserved, ReturnsWithinBuffer, Result
<1>4. CASE /\ ret' = Result(name, "InvalidInput", st[o].fd, 0, 0)
           /\ UNCHANGED conn
    <2>1. TypeOK'
        BY <1>0, <1>1, <1>4, CapAssumption DEF IInv, TypeOK, Result
    <2>. QED BY <1>0, <1>1, <1>4, <2>1
             DEF IInv, ConnectedToPeer, DataConserved, ReturnsWithinBuffer, Result
<1>. QED BY <1>2, <1>3, <1>4 DEF Scalar

-----------------------------------------------------------------------------
(* connect opens a connection the service never opened before.             *)

LEMMA ConnectIInv ==
    ASSUME IInv, NEW p \in Peer, Connect(p)
    PROVE  IInv'
<1>0. call = NoCall /\ UNCHANGED <<call, sent, got>>
    BY DEF Connect
<1>1. CASE /\ ret' = Result("connect", "InvalidInput", 0, 0, 0)
           /\ UNCHANGED <<live, st, nextObj, conn>>
    <2>1. TypeOK'
        BY <1>0, <1>1, CapAssumption DEF IInv, TypeOK, Result, OpName
    <2>. QED BY <1>0, <1>1, <2>1 DEF IInv, ConnectedToPeer, DataConserved,
                ReturnsWithinBuffer, Result
<1>2. CASE \E c \in CHandle, lp \in LPort, v \in ValidFlags :
            LET w == ConnectWords(c, lp) IN
            /\ ~conn[c].open
            /\ OpenConn(c, p)
            /\ IF v /\ nextObj <= MaxObj
               THEN /\ live' = live \cup {nextObj}
                    /\ st' = [st EXCEPT ![nextObj] =
                                 NewStream(w[2], p)]
                    /\ nextObj' = nextObj + 1
                    /\ ret' = Result("connect", "ok", w[2], 0, 0)
               ELSE /\ ~v
                    /\ ret' = Result("connect", "InvalidInput", 0, 0, 0)
                    /\ UNCHANGED <<live, st, nextObj>>
    <2>1. PICK c \in CHandle, lp \in LPort, v \in ValidFlags :
            /\ ~conn[c].open
            /\ conn' = [conn EXCEPT ![c] = FreshConn(TRUE, p)]
            /\ IF v /\ nextObj <= MaxObj
               THEN /\ live' = live \cup {nextObj}
                    /\ st' = [st EXCEPT ![nextObj] =
                                 NewStream(c, p)]
                    /\ nextObj' = nextObj + 1
                    /\ ret' = Result("connect", "ok", c, 0, 0)
               ELSE /\ ret' = Result("connect", "InvalidInput", 0, 0, 0)
                    /\ UNCHANGED <<live, st, nextObj>>
        BY <1>2 DEF ConnectWords, OpenConn
    <2>2. conn[c] = ClosedConn /\ sent[c] = 0 /\ got[c] = 0
        BY <2>1 DEF IInv
    <2>3. FreshConn(TRUE, p) \in ConnRec
        BY TTLAssumption, CapAssumption DEF FreshConn, ConnRec
    <2>4. /\ conn' \in [CHandle -> ConnRec]
          /\ conn'[c].open /\ conn'[c].peer = p /\ conn'[c].rx = 0
          /\ \A d \in CHandle \ {c} : conn'[d] = conn[d]
        BY <2>1, <2>3, ConnTableUpdate DEF IInv, TypeOK, FreshConn
    <2>5. \A o \in live : st[o].fd # c
        BY <2>1 DEF IInv, ConnectedToPeer
    <2>6. /\ \A d \in CHandle : ~conn'[d].open =>
                conn'[d] = ClosedConn /\ sent'[d] = 0 /\ got'[d] = 0
          /\ \A d \in CHandle : conn'[d].rx <= sent'[d]
          /\ ServiceTrusted => DataConserved'
        BY <1>0, <2>2, <2>4 DEF IInv, DataConserved
    <2>7. CASE v /\ nextObj <= MaxObj
        <3>1. /\ live' = live \cup {nextObj}
              /\ st' = [st EXCEPT ![nextObj] = NewStream(c, p)]
              /\ nextObj' = nextObj + 1
              /\ ret' = Result("connect", "ok", c, 0, 0)
            BY <2>1, <2>7
        <3>2. nextObj \in ObjId
            BY <2>7 DEF IInv, TypeOK, ObjId
        <3>3. NewStream(c, p) \in StreamRec
            BY TimeoutAssumption DEF NewStream, StreamRec
        <3>4. TypeOK'
            <4>1. st' \in [ObjId -> StreamRec]
                BY <3>1, <3>2, <3>3 DEF IInv, TypeOK
            <4>2. nextObj <= MaxObj
                BY <2>7
            <4>3. live' \subseteq ObjId /\ nextObj' \in 1..(MaxObj + 1)
                BY <4>2, <3>1, ObjAssumption DEF IInv, TypeOK, ObjId
            <4>4. ret' \in [op : OpName, kind : {"ok", "InvalidInput"},
                            fd : CHandle \cup LPort \cup {0}, val : Nat,
                            len : 0..MaxLen]
                BY <3>1, CapAssumption DEF Result, OpName
            <4>. QED BY <1>0, <2>4, <4>1, <4>3, <4>4 DEF IInv, TypeOK
        <3>5. ConnectedToPeer'
            BY <2>4, <2>5, <3>1, <3>2 DEF IInv, TypeOK, ConnectedToPeer, NewStream
        <3>6. ReturnsWithinBuffer'
            BY <3>1 DEF ReturnsWithinBuffer, Result
        <3>. QED BY <1>0, <2>6, <3>4, <3>5, <3>6 DEF IInv
    <2>8. CASE ~(v /\ nextObj <= MaxObj)
        <3>1. /\ ret' = Result("connect", "InvalidInput", 0, 0, 0)
              /\ UNCHANGED <<live, st, nextObj>>
            BY <2>1, <2>8
        <3>2. TypeOK'
            BY <1>0, <2>4, <3>1, CapAssumption DEF IInv, TypeOK, Result, OpName
        <3>3. ConnectedToPeer'
            BY <2>4, <2>5, <3>1 DEF IInv, TypeOK, ConnectedToPeer
        <3>4. ReturnsWithinBuffer'
            BY <3>1 DEF ReturnsWithinBuffer, Result
        <3>. QED BY <1>0, <2>6, <3>2, <3>3, <3>4 DEF IInv
    <2>. QED BY <2>7, <2>8
<1>. QED BY <1>1, <1>2 DEF Connect

-----------------------------------------------------------------------------
(* The reply to a read or peek.                                            *)

LEMMA RxReplyIInv ==
    ASSUME IInv, RxReply
    PROVE  IInv'
<1>0. /\ call # NoCall /\ call' = NoCall
      /\ UNCHANGED <<live, st, nextObj, sent>>
    BY DEF RxReply
<1>1. /\ call.o \in live /\ call.size <= call.len
      /\ call.op \in {"read", "peek"} /\ call.len \in 0..MaxLen
      /\ call.size \in 0..BufCap
    BY <1>0 DEF IInv, TypeOK
<1>2. PICK c \in CHandle \cup LPort \cup {0} : c = st[call.o].fd
    BY <1>1 DEF IInv, TypeOK, StreamRec
<1>3. call.op \in OpName /\ call.op \notin {"write"}
    BY <1>1 DEF OpName
<1>4. CASE /\ c \in CHandle /\ conn[c].open
           /\ \E k \in 1..MinNat(conn[c].rx, ReplyBound(call.size)) :
                /\ conn' = [conn EXCEPT ![c].rx = @ - k]
                /\ got' = [got EXCEPT ![c] = @ + MinNat(k, call.len)]
                /\ ret' = Result(call.op, "ok", c, k, call.len)
    <2>1. PICK k \in 1..MinNat(conn[c].rx, ReplyBound(call.size)) :
                /\ conn' = [conn EXCEPT ![c].rx = @ - k]
                /\ got' = [got EXCEPT ![c] = @ + MinNat(k, call.len)]
                /\ ret' = Result(call.op, "ok", c, k, call.len)
        BY <1>4
    <2>2. /\ c \in CHandle /\ conn[c].open
          /\ conn[c].rx \in 0..MaxSent /\ conn[c].rx <= sent[c]
        BY <1>4 DEF IInv, TypeOK, ConnRec
    <2>3. /\ k \in 1..conn[c].rx
          /\ ServiceTrusted => k <= call.len
        BY <1>1, <2>1, <2>2, CapAssumption DEF MinNat, ReplyBound
    <2>4. ServiceTrusted => MinNat(k, call.len) = k
        BY <1>1, <2>3 DEF MinNat
    <2>5. [conn[c] EXCEPT !.rx = conn[c].rx - k] \in ConnRec
        <3>1. conn[c].rx - k \in 0..MaxSent
            BY <2>2, <2>3, CapAssumption
        <3>2. conn[c] \in ConnRec
            BY <2>2 DEF IInv, TypeOK
        <3>. QED BY <3>1, <3>2 DEF ConnRec
    <2>6. /\ conn' \in [CHandle -> ConnRec]
          /\ conn'[c].rx = conn[c].rx - k
          /\ conn'[c].open /\ conn'[c].peer = conn[c].peer
          /\ \A d \in CHandle \ {c} : conn'[d] = conn[d]
        BY <2>1, <2>2, <2>5, ConnTableUpdate DEF IInv, TypeOK
    <2>7. /\ got' \in [CHandle -> Nat]
          /\ got'[c] = got[c] + MinNat(k, call.len)
          /\ \A d \in CHandle \ {c} : got'[d] = got[d]
        BY <1>1, <2>1, <2>2 DEF IInv, TypeOK, MinNat
    <2>8. TypeOK'
        <3>1. ret' \in [op : OpName, kind : {"ok", "InvalidInput"},
                        fd : CHandle \cup LPort \cup {0}, val : Nat,
                        len : 0..MaxLen]
            BY <1>1, <1>3, <2>1, <2>2, <2>3 DEF Result
        <3>. QED BY <1>0, <2>6, <2>7, <3>1 DEF IInv, TypeOK, NoCall
    <2>9. /\ \A d \in CHandle : ~conn'[d].open =>
                conn'[d] = ClosedConn /\ sent'[d] = 0 /\ got'[d] = 0
          /\ \A d \in CHandle : conn'[d].rx <= sent'[d]
        <3>1. conn'[c].rx <= sent'[c]
            BY <1>0, <2>2, <2>3, <2>6 DEF IInv, TypeOK
        <3>2. ASSUME NEW d \in CHandle \ {c}
              PROVE  /\ ~conn'[d].open =>
                          conn'[d] = ClosedConn /\ sent'[d] = 0 /\ got'[d] = 0
                     /\ conn'[d].rx <= sent'[d]
            BY <1>0, <2>6, <2>7 DEF IInv
        <3>. QED BY <2>6, <3>1, <3>2
    <2>10. ConnectedToPeer'
        BY <1>0, <2>6 DEF IInv, ConnectedToPeer
    <2>11. ServiceTrusted => DataConserved'
        BY <1>0, <2>2, <2>3, <2>4, <2>6, <2>7 DEF IInv, TypeOK, DataConserved
    <2>12. ServiceTrusted => ReturnsWithinBuffer'
        BY <2>1, <2>3 DEF ReturnsWithinBuffer, Result
    <2>. QED BY <1>0, <2>8, <2>9, <2>10, <2>11, <2>12 DEF IInv, NoCall
<1>5. CASE /\ ret' \in {Result(call.op, "ok", c, 0, call.len),
                        Result(call.op, "InvalidInput", c, 0, call.len)}
           /\ UNCHANGED <<conn, got>>
    <2>1. TypeOK'
        BY <1>0, <1>1, <1>2, <1>3, <1>5 DEF IInv, TypeOK, Result, NoCall
    <2>2. ReturnsWithinBuffer'
        BY <1>1, <1>5 DEF ReturnsWithinBuffer, Result
    <2>. QED BY <1>0, <1>5, <2>1, <2>2
             DEF IInv, ConnectedToPeer, DataConserved, NoCall
<1>. QED BY <1>2, <1>4, <1>5 DEF RxReply

-----------------------------------------------------------------------------
(* The invariant and the properties it carries.                            *)

LEMMA StutterIInv ==
    ASSUME IInv, UNCHANGED vars
    PROVE  IInv'
BY DEF vars, client, IInv, TypeOK, ConnectedToPeer, DataConserved,
       ReturnsWithinBuffer

LEMMA NextIInv ==
    ASSUME IInv, [Next]_vars
    PROVE  IInv'
<1>1. CASE \E p \in Peer : Connect(p)
    BY <1>1, ConnectIInv
<1>2. CASE RxReply
    BY <1>2, RxReplyIInv
<1>3. ASSUME NEW o \in ObjId, NEW len \in 0..MaxLen,
             ReadCall(o, len) \/ PeekCall(o, len) \/ Write(o, len)
      PROVE  IInv'
    <2>1. st[o].rt \in 0..TimeoutMax
        BY DEF IInv, TypeOK, StreamRec
    <2>2. 0 \in 0..TimeoutMax
        BY TimeoutAssumption
    <2>. QED BY <1>3, <2>1, <2>2, RxRequestIInv, WriteIInv DEF ReadCall, PeekCall
<1>4. ASSUME NEW o \in ObjId, NEW d \in Micros \cup {NoDuration},
             SetReadTimeout(o, d) \/ SetWriteTimeout(o, d)
      PROVE  IInv'
    BY <1>4, TimeoutIInv
<1>5. ASSUME NEW o \in ObjId, ReadTimeout(o)
      PROVE  IInv'
    BY <1>5, TimeoutIInv, TimeoutAssumption
<1>6. ASSUME NEW o \in ObjId,
             \/ Shutdown(o) \/ Nodelay(o) \/ Ttl(o)
             \/ \E b \in BOOLEAN : SetNodelay(o, b)
             \/ \E t \in TTL : SetTtl(o, t)
      PROVE  IInv'
    <2>1. CASE Shutdown(o)
        BY <2>1, ScalarIInv DEF Shutdown
    <2>2. CASE Nodelay(o)
        BY <2>2, ScalarIInv DEF Nodelay
    <2>3. CASE Ttl(o)
        BY <2>3, ScalarIInv DEF Ttl
    <2>4. CASE \E b \in BOOLEAN : SetNodelay(o, b)
        <3>1. PICK b \in BOOLEAN : SetNodelay(o, b)
            BY <2>4
        <3>2. (IF b THEN 1 ELSE 0) \in Nat
            OBVIOUS
        <3>. QED BY <3>1, <3>2, ScalarIInv DEF SetNodelay
    <2>5. CASE \E t \in TTL : SetTtl(o, t)
        <3>1. PICK t \in TTL : SetTtl(o, t)
            BY <2>5
        <3>. QED BY <3>1, TTLAssumption, ScalarIInv DEF SetTtl
    <2>. QED BY <1>6, <2>1, <2>2, <2>3, <2>4, <2>5
<1>7. ASSUME NEW o \in ObjId, Drop(o)
      PROVE  IInv'
    BY <1>7, DropIInv
<1>8. ASSUME NEW c \in CHandle, PeerSend(c) \/ PeerClose(c)
      PROVE  IInv'
    BY <1>8, PeerSendIInv, PeerCloseIInv
<1>9. CASE UNCHANGED vars
    BY <1>9, StutterIInv
<1>. QED BY <1>1, <1>2, <1>3, <1>4, <1>5, <1>6, <1>7, <1>8, <1>9 DEF Next

\* Every reachable state satisfies the inductive invariant IInv.
THEOREM StreamInvariant == Spec => []IInv
BY InitIInv, NextIInv, PTL DEF Spec

\* The stream objects, the service's connection records and the results
\* keep their types; a stored timeout fits the u32 Cell.
THEOREM StreamTypeOK == Spec => []TypeOK
<1>1. IInv => TypeOK
    BY DEF IInv
<1>. QED BY <1>1, StreamInvariant, PTL

\* A live TcpStream's fd names an open connection of the service to the
\* peer connect was given: no later connect reuses the handle, and nothing
\* a stream or a peer does (shutdown, options, end of stream) closes it.
THEOREM StreamConnectedToPeer == Spec => []ConnectedToPeer
<1>1. IInv => ConnectedToPeer
    BY DEF IInv
<1>. QED BY <1>1, StreamInvariant, PTL

\* With a service that keeps its replies within the request, read and peek
\* copy every byte the service takes off a receive queue: no byte a peer
\* sent is lost or counted twice.
THEOREM StreamDataConserved ==
    ASSUME ServiceTrusted
    PROVE  Spec => []DataConserved
<1>1. IInv => DataConserved
    BY DEF IInv
<1>. QED BY <1>1, StreamInvariant, PTL

\* With a service that keeps its replies within the request, a read, peek
\* or write never reports more bytes than the caller's buffer holds.
THEOREM StreamReturnsWithinBuffer ==
    ASSUME ServiceTrusted
    PROVE  Spec => []ReturnsWithinBuffer
<1>1. IInv => ReturnsWithinBuffer
    BY DEF IInv
<1>. QED BY <1>1, StreamInvariant, PTL

=============================================================================
