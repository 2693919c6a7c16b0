------------------------------ MODULE TcpStream ------------------------------
(***************************************************************************)
(* The TcpStream of the Xous standard library (net/mod.rs) and the part   *)
(* of the network service it talks to.  Every operation is one blocking    *)
(* send_message: connect, read, peek and write lend a 4096-byte page       *)
(* (MemoryReturned(offset, valid) carries the reply), shutdown and the     *)
(* option calls are blocking scalars sent to the connection id `fd`.  A    *)
(* read waits in the service until data, the end of the stream or its      *)
(* timeout, so it is a request and a reply between which the remote peer   *)
(* may send or close.  Byte contents are abstracted to counts.             *)
(***************************************************************************)
EXTENDS Naturals, FiniteSets

CONSTANTS
    Peer,             \* remote socket addresses a caller connects to
    NoPeer,           \* the peer of an unused record
    CHandle,          \* connection handles the network service hands out
    LPort,            \* local ports the service assigns
    NetCid,           \* the connection id of the network service
    BufCap,           \* bytes of the lent page (4096)
    MaxLen,           \* the longest caller buffer considered
    MaxSent,          \* bytes one peer sends at most
    MaxObj,           \* TcpStream objects created at most
    Micros,           \* durations, in microseconds, a caller passes
    NoDuration,       \* Option::<Duration>::None
    TimeoutMax,       \* u32::MAX, the cap of a stored millisecond timeout
    TTL, DefaultTTL,  \* time-to-live values and the service's default
    ServiceSetsValid, \* does a status-0 connect reply always carry valid?
    ServiceTrusted    \* does the service keep its replies within the request?

ASSUME PeerAssumption == NoPeer \notin Peer
ASSUME HandleAssumption == CHandle \subseteq 1..65535 /\ LPort \subseteq 0..65535
ASSUME CapAssumption == BufCap \in Nat \ {0} /\ MaxLen \in Nat /\ MaxSent \in Nat
ASSUME ObjAssumption == MaxObj \in Nat \ {0}
ASSUME TimeoutAssumption ==
    Micros \subseteq Nat /\ NoDuration \notin Nat /\ TimeoutMax \in Nat \ {0}
ASSUME TTLAssumption == TTL \subseteq Nat /\ DefaultTTL \in TTL
ASSUME ValidAssumption == ServiceSetsValid \in BOOLEAN /\ ServiceTrusted \in BOOLEAN

ObjId == 1..MaxObj
MinNat(a, b) == IF a <= b THEN a ELSE b

\* Values a server other than the network service may answer a scalar with.
Scalars == {0, 1} \cup TTL

StreamRec == [fd : CHandle \cup LPort \cup {0}, peer : Peer \cup {NoPeer},
              rt : 0..TimeoutMax, wt : 0..TimeoutMax,
              rtAsked : Micros \cup {NoDuration}]
ConnRec == [open : BOOLEAN, peer : Peer \cup {NoPeer}, rx : 0..MaxSent,
            eof : BOOLEAN, ttl : TTL, nodelay : BOOLEAN, shut : BOOLEAN]

\* The fields connect gives a new TcpStream: its fd and peer, no timeouts.
NewStream(fd, p) == [fd |-> fd, peer |-> p, rt |-> 0, wt |-> 0,
                     rtAsked |-> NoDuration]
UnusedStream == NewStream(0, NoPeer)

\* A connection record of the service as connect creates it.
FreshConn(isOpen, p) == [open |-> isOpen, peer |-> p, rx |-> 0, eof |-> FALSE,
                         ttl |-> DefaultTTL, nodelay |-> FALSE, shut |-> FALSE]
ClosedConn == FreshConn(FALSE, NoPeer)

\* A result: the operation, "ok" or the io::ErrorKind, the handle it used,
\* the value returned and the length of the caller's buffer.
Result(op, kind, fd, val, len) ==
    [op |-> op, kind |-> kind, fd |-> fd, val |-> val, len |-> len]
NoCall == [op |-> "none", o |-> 0, len |-> 0, size |-> 0, tmo |-> 0]

\* The operations a result can come from.
OpName == {"none", "connect", "read", "peek", "write", "set_read_timeout",
           "set_write_timeout", "read_timeout", "shutdown", "set_nodelay",
           "nodelay", "set_ttl", "ttl"}

VARIABLES
    live,     \* TcpStream objects not yet dropped
    st,       \* st[o]: fd, peer_addr, read/write timeout Cells of object o
    nextObj,  \* the next object identity
    call,     \* the read or peek the thread is blocked in, or NoCall
    ret,      \* the result of the last operation
    conn,     \* the network service's connection records
    sent,     \* ghost: bytes each peer has sent
    got       \* ghost: bytes copied into callers' buffers, per connection

client == <<live, st, nextObj, call, ret>>
vars == <<live, st, nextObj, call, ret, conn, sent, got>>

\* Mutation: the .min(u32::MAX) is dropped and `as u32` wraps the count.
TimeoutMillisWrapped(d) ==
    IF d = NoDuration THEN 0 ELSE (d \div 1000) % (TimeoutMax + 1)

\* Duration::as_millis().min(u32::MAX as u128) as u32, None giving 0.
TimeoutMillis(d) == IF d = NoDuration THEN 0 ELSE MinNat(d \div 1000, TimeoutMax)

Init ==
    /\ live = {}
    /\ st = [o \in ObjId |-> UnusedStream]
    /\ nextObj = 1
    /\ call = NoCall
    /\ ret = Result("none", "ok", 0, 0, 0)
    /\ conn = [c \in CHandle |-> ClosedConn]
    /\ sent = [c \in CHandle |-> 0]
    /\ got = [c \in CHandle |-> 0]

-----------------------------------------------------------------------------
(* connect: StdTcpConnect (30).  The reply's u16 words are the status, the *)
(* handle, the local port and the remote port.  A status-0 reply opened a  *)
(* connection in the service, whether or not the client accepts it.        *)

\* The words of a successful reply: <<status, fd, local_port>>.
ConnectWords(c, lp) == <<0, c, lp>>

\* Whether a status-0 reply carries a valid length.
ValidFlags == IF ServiceSetsValid THEN {TRUE} ELSE BOOLEAN

OpenConn(c, p) ==
    /\ conn' = [conn EXCEPT ![c] = FreshConn(TRUE, p)]

Connect(p) ==
    /\ call = NoCall
    /\ \/ \E c \in CHandle, lp \in LPort, v \in ValidFlags :
            LET w == ConnectWords(c, lp) IN
            /\ ~conn[c].open
            /\ OpenConn(c, p)
            /\ IF v /\ nextObj <= MaxObj
               THEN /\ live' = live \cup {nextObj}
                    /\ st' = [st EXCEPT ![nextObj] =
                                 NewStream(w[2], p)]
                    /\ nextObj' = nextObj + 1
                    /\ ret' = Result("connect", "ok", w[2], 0, 0)
               ELSE /\ ~v
                    /\ ret' = Result("connect", "InvalidInput", 0, 0, 0)
                    /\ UNCHANGED <<live, st, nextObj>>
       \/ /\ ret' = Result("connect", "InvalidInput", 0, 0, 0)
          /\ UNCHANGED <<live, st, nextObj, conn>>
    /\ UNCHANGED <<call, sent, got>>

-----------------------------------------------------------------------------
(* read and peek: StdTcpRx (33 | fd << 16) with MemorySize min(len, 4096)  *)
(* (None when 0).  read passes its timeout as the offset, peek passes      *)
(* None, which is also what read passes with no timeout.                   *)

\* Mutation: the request is not clamped to the caller's buffer.
RxSizeUnclamped(len) == BufCap

\* Mutation: the request is not clamped to the 4096-byte page.
RxSizeUnpaged(len) == len

\* The bytes requested of the service for a caller buffer of len bytes.
RxSize(len) == MinNat(len, BufCap)

\* The thread blocks in StdTcpRx until the service replies, or the
\* send_message fails at once (InvalidInput).
RxRequest(o, r, len, tmo) ==
    /\ call = NoCall /\ o \in live
    /\ \/ /\ call' = [op |-> r, o |-> o, len |-> len, size |-> RxSize(len),
                      tmo |-> tmo]
          /\ UNCHANGED ret
       \/ /\ ret' = Result(r, "InvalidInput", st[o].fd, 0, len)
          /\ UNCHANGED call
    /\ UNCHANGED <<live, st, nextObj, conn, sent, got>>

\* Mutation: read passes no timeout in the offset.
ReadCallNoTimeout(o, len) == RxRequest(o, "read", len, 0)

ReadCall(o, len) == RxRequest(o, "read", len, st[o].rt)

PeekCall(o, len) == RxRequest(o, "peek", len, 0)

\* The most a reply's valid length may say for a request of size bytes: a
\* service that keeps to the protocol returns at most the request, any
\* other may declare up to the whole page valid.
ReplyBound(size) == IF ServiceTrusted THEN size ELSE BufCap

\* The service answers a StdTcpRx: k buffered bytes (a short read allowed),
\* or no valid length when the peer has closed or the timeout passed with
\* nothing buffered; a handle it has no open connection for is an error.
\* It cannot tell a peek from a read with no timeout, which waits for data.
\* The client copies min(k, len) bytes and returns k unchecked.
RxReply ==
    LET c == st[call.o].fd
        r == call.op IN
    /\ call # NoCall
    /\ call' = NoCall
    /\ \/ /\ c \in CHandle /\ conn[c].open
          /\ \E k \in 1..MinNat(conn[c].rx, ReplyBound(call.size)) :
                /\ conn' = [conn EXCEPT ![c].rx = @ - k]
                /\ got' = [got EXCEPT ![c] = @ + MinNat(k, call.len)]
                /\ ret' = Result(r, "ok", c, k, call.len)
       \/ /\ c \in CHandle /\ conn[c].open
          /\ conn[c].rx = 0 \/ call.size = 0
          /\ conn[c].eof \/ call.tmo # 0 \/ call.size = 0
          /\ ret' = Result(r, "ok", c, 0, call.len)
          /\ UNCHANGED <<conn, got>>
       \/ /\ ~(c \in CHandle /\ conn[c].open)
          /\ ret' = Result(r, "InvalidInput", c, 0, call.len)
          /\ UNCHANGED <<conn, got>>
    /\ UNCHANGED <<live, st, nextObj, sent>>

-----------------------------------------------------------------------------
(* write: StdTcpTx (31 | fd << 16); the reply's u32 words are a status and *)
(* the bytes the service took.                                             *)

\* Mutation: the whole page is declared valid.
TxSizeUnclamped(len) == BufCap

\* The MemorySize of a write of a len-byte buffer.
TxSize(len) == MinNat(len, BufCap)

Write(o, len) ==
    LET c == st[o].fd IN
    /\ call = NoCall /\ o \in live
    /\ \/ /\ c \in CHandle /\ conn[c].open /\ ~conn[c].shut
          /\ \E n \in 0..ReplyBound(TxSize(len)) :
                ret' = Result("write", "ok", c, n, len)
       \/ ret' = Result("write", "InvalidInput", c, 0, len)
    /\ UNCHANGED <<live, st, nextObj, call, conn, sent, got>>

-----------------------------------------------------------------------------
(* Timeouts: Cells of the object, never sent on their own.                 *)

SetReadTimeout(o, d) ==
    /\ call = NoCall /\ o \in live
    /\ st' = [st EXCEPT ![o].rt = TimeoutMillis(d), ![o].rtAsked = d]
    /\ ret' = Result("set_read_timeout", "ok", st[o].fd, 0, 0)
    /\ UNCHANGED <<live, nextObj, call, conn, sent, got>>

SetWriteTimeout(o, d) ==
    /\ call = NoCall /\ o \in live
    /\ st' = [st EXCEPT ![o].wt = TimeoutMillis(d)]
    /\ ret' = Result("set_write_timeout", "ok", st[o].fd, 0, 0)
    /\ UNCHANGED <<live, nextObj, call, conn, sent, got>>

\* read_timeout(): 0 is None, any other value Some(t ms).
ReadTimeout(o) ==
    /\ call = NoCall /\ o \in live
    /\ ret' = Result("read_timeout", "ok", st[o].fd, st[o].rt, 0)
    /\ UNCHANGED <<live, st, nextObj, call, conn, sent, got>>

-----------------------------------------------------------------------------
(* Blocking scalars, sent to the connection id `fd as _`.  When that id is *)
(* the network service's, it applies opcode op to connection fd; any other *)
(* id fails or reaches a server that answers with some scalar.             *)

\* The network service's handling of scalar op on connection c with arg x:
\* the record it leaves and the Scalar1 it answers.
ServiceUpdate(c, op, x) ==
    CASE op = 34 -> [conn[c] EXCEPT !.shut = TRUE]
      [] op = 37 -> [conn[c] EXCEPT !.ttl = x]
      [] op = 39 -> [conn[c] EXCEPT !.nodelay = (x = 1)]
      [] OTHER   -> conn[c]

ServiceAnswer(c, op) ==
    CASE op = 36 -> conn[c].ttl
      [] op = 38 -> IF conn[c].nodelay THEN 1 ELSE 0
      [] OTHER   -> 0

Unit(y) == 0
AsBool(y) == IF y # 0 THEN 1 ELSE 0
AsU32(y) == y

\* How each call turns the reply's Scalar1 into its result.
Decode(name, y) ==
    CASE name = "nodelay" -> AsBool(y)
      [] name = "ttl"     -> AsU32(y)
      [] OTHER            -> Unit(y)

\* The whole round trip of scalar op with argument x for object o.
Scalar(o, name, op, x) ==
    LET c == st[o].fd IN
    /\ call = NoCall /\ o \in live
    /\ \/ /\ c = NetCid /\ c \in CHandle /\ conn[c].open
          /\ conn' = [conn EXCEPT ![c] = ServiceUpdate(c, op, x)]
          /\ ret' = Result(name, "ok", c, Decode(name, ServiceAnswer(c, op)), 0)
       \/ /\ c # NetCid
          /\ \E y \in Scalars : ret' = Result(name, "ok", c, Decode(name, y), 0)
          /\ UNCHANGED conn
       \/ /\ ret' = Result(name, "InvalidInput", c, 0, 0)
          /\ UNCHANGED conn
    /\ UNCHANGED <<live, st, nextObj, call, sent, got>>

Shutdown(o) == Scalar(o, "shutdown", 34, 0)
SetNodelay(o, b) == Scalar(o, "set_nodelay", 39, IF b THEN 1 ELSE 0)
Nodelay(o) == Scalar(o, "nodelay", 38, 0)
SetTtl(o, t) == Scalar(o, "set_ttl", 37, t)
Ttl(o) == Scalar(o, "ttl", 38, 0)

\* Dropping a TcpStream frees the object; nothing is sent.
Drop(o) ==
    /\ call = NoCall /\ o \in live
    /\ live' = live \ {o}
    /\ UNCHANGED <<st, nextObj, call, ret, conn, sent, got>>

-----------------------------------------------------------------------------
(* The remote peer of an open connection sends a byte or closes.           *)

PeerSend(c) ==
    /\ conn[c].open /\ ~conn[c].eof /\ sent[c] < MaxSent
    /\ conn' = [conn EXCEPT ![c].rx = @ + 1]
    /\ sent' = [sent EXCEPT ![c] = @ + 1]
    /\ UNCHANGED <<client, got>>

PeerClose(c) ==
    /\ conn[c].open /\ ~conn[c].eof
    /\ conn' = [conn EXCEPT ![c].eof = TRUE]
    /\ UNCHANGED <<client, sent, got>>

Next ==
    \/ \E p \in Peer : Connect(p)
    \/ RxReply
    \/ \E o \in ObjId :
          \/ \E len \in 0..MaxLen : ReadCall(o, len) \/ PeekCall(o, len)
                                    \/ Write(o, len)
          \/ \E d \in Micros \cup {NoDuration} :
                SetReadTimeout(o, d) \/ SetWriteTimeout(o, d)
          \/ ReadTimeout(o) \/ Shutdown(o) \/ Nodelay(o) \/ Ttl(o) \/ Drop(o)
          \/ \E b \in BOOLEAN : SetNodelay(o, b)
          \/ \E t \in TTL : SetTtl(o, t)
    \/ \E c \in CHandle : PeerSend(c) \/ PeerClose(c)

Spec == Init /\ [][Next]_vars

\* A service that answers every StdTcpRx it can answer: the transport
\* delivers or fails every synchronous call, but whether the service
\* honours a forwarded timeout is its own choice (spec section 5), so this
\* is an assumption about the service, used only by ReadWithTimeoutReturns.
\* The peers and the caller get no fairness: nothing obliges them to send,
\* close or call.
FairSpec == Spec /\ WF_vars(RxReply)

-----------------------------------------------------------------------------
(* Properties.                                                             *)

\* The objects, the connection records and the results keep their types; a
\* stored timeout fits the u32 Cell.
TypeOK ==
    /\ live \subseteq ObjId /\ nextObj \in 1..(MaxObj + 1)
    /\ st \in [ObjId -> StreamRec]
    /\ call \in {NoCall} \cup [op : {"read", "peek"}, o : ObjId, len : 0..MaxLen,
                               size : 0..BufCap, tmo : 0..TimeoutMax]
    /\ ret \in [op : OpName, kind : {"ok", "InvalidInput"},
                fd : CHandle \cup LPort \cup {0}, val : Nat, len : 0..MaxLen]
    /\ conn \in [CHandle -> ConnRec]
    /\ sent \in [CHandle -> 0..MaxSent] /\ got \in [CHandle -> Nat]

\* No byte a peer sent is lost or duplicated between the service's receive
\* queue and the callers' buffers: read and peek copy into the buffer every
\* byte the service took off the queue for them.
DataConserved == \A c \in CHandle : got[c] + conn[c].rx = sent[c]

\* A read, peek or write that succeeds never reports more bytes than the
\* caller's buffer holds (the MemorySize sent is clamped to it).
ReturnsWithinBuffer ==
    ret.op \in {"read", "peek", "write"} /\ ret.kind = "ok" => ret.val <= ret.len

\* Every live TcpStream's fd names an open connection of the service to the
\* peer the stream was connected to: connect decodes the handle from the
\* right word of the reply and no other object's connection is reused.
ConnectedToPeer ==
    \A o \in live :
        /\ st[o].fd \in CHandle
        /\ conn[st[o].fd].open
        /\ conn[st[o].fd].peer = st[o].peer

\* peek never consumes: a peek that returns leaves the service's receive
\* queues as they were (spec: peek must not advance any read cursor).
PeekLeavesData == [][call.op = "peek" /\ call' = NoCall => UNCHANGED conn]_vars

\* ttl() returns the TTL the service holds for the connection.
TtlReadsBack ==
    ret.op = "ttl" /\ ret.kind = "ok" /\ ret.fd \in CHandle =>
        ret.val = conn[ret.fd].ttl

\* A shutdown that returns Ok has shut the connection in the service.
ShutdownTakesEffect ==
    ret.op = "shutdown" /\ ret.kind = "ok" =>
        ret.fd \in CHandle /\ conn[ret.fd].shut

\* A read on a stream whose stored read timeout is nonzero returns, however
\* long the peer stays silent: read forwards the Cell in the offset and the
\* service replies when it expires.
ReadWithTimeoutReturns ==
    (call.op = "read" /\ st[call.o].rt # 0) ~> (call = NoCall)

\* A read on a stream whose read timeout was last set to Some(d) forwards a
\* timeout to the service, never the 0 that means "no timeout" (spec: the
\* timeout is read back exactly as last set, 0 is reserved for unset, and
\* read passes the current read timeout).
ReadForwardsTimeout ==
    call.op = "read" /\ st[call.o].rtAsked # NoDuration => call.tmo # 0

\* A read waits without a timeout only when its caller asked for none, or
\* for less than a millisecond: set_read_timeout saturates the millisecond
\* count at u32::MAX before `as u32` (a wrap could give 0), and read
\* forwards the Cell it stored.
ReadUnboundedOnlyIfAsked ==
    call.op = "read" /\ call.tmo = 0 =>
        st[call.o].rtAsked = NoDuration \/ st[call.o].rtAsked < 1000

\* A read into a non-empty buffer returns Ok(0) only at the end of the
\* stream (the std::io::Read contract).
ReadZeroMeansEof ==
    ret.op = "read" /\ ret.kind = "ok" /\ ret.val = 0 /\ ret.len > 0 =>
        ret.fd \in CHandle /\ conn[ret.fd].eof

\* Every connection the service keeps open is held by a live TcpStream that
\* can still shut it (spec section 9: streams send no close on drop).
NoOrphanConnection ==
    \A c \in CHandle : conn[c].open => \E o \in live : st[o].fd = c

\* A read or peek reply takes off a receive queue no more bytes than the
\* caller's buffer holds, and only off the queue of the stream that asked:
\* read and peek clamp the MemorySize they lend to the buffer, so the bytes
\* the service removes are bytes the client copies.
ReplyWithinRequest ==
    [][\A c \in CHandle :
          conn'[c].rx < conn[c].rx =>
              /\ call # NoCall /\ st[call.o].fd = c
              /\ conn[c].rx - conn'[c].rx <= call.len]_vars

-----------------------------------------------------------------------------
(* Refinement: the connections implement StreamChannels.  A handle is open *)
(* to its peer while the service's record is open; the queued bytes are    *)
(* the record's receive queue, the delivered ones those copied into        *)
(* callers' buffers, and the stream has ended once the peer closed.        *)

ChannelPeer == [c \in CHandle |-> IF conn[c].open THEN conn[c].peer ELSE NoPeer]

Channels == INSTANCE StreamChannels
               WITH Conn <- CHandle, peer <- ChannelPeer,
                    queued <- [c \in CHandle |-> conn[c].rx], delivered <- got,
                    ended <- [c \in CHandle |-> conn[c].eof]

\* Every behaviour of the streams and the service is one of the abstract
\* connections: connect opens only a handle with no connection, a peer's
\* bytes are queued, and every read or peek reply hands its caller exactly
\* the bytes the service removed from the queue.
ChannelsRefined ==
    Channels!Init /\ [][UNCHANGED Channels!vars \/ Channels!Next]_vars

=============================================================================
