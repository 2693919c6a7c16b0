---------------------------- MODULE TcpListener ----------------------------
(***************************************************************************)
(* The Xous listening socket (library/std/src/sys/xous/net/tcplistener.rs) *)
(* together with the part of the network service it talks to.              *)
(*                                                                         *)
(* Client side: TcpListener objects of the one application thread.  Every  *)
(* object holds the remote handle `fd`, the bound address, a shared        *)
(* Arc<AtomicUsize> `handle_count` and its own Cell<bool> `nonblocking`.   *)
(* bind creates an object and its counter, duplicate creates an alias that *)
(* shares the counter, Drop decrements the counter and sends               *)
(* StdTcpListenerClose when it was the last alias.                         *)
(*                                                                         *)
(* Service side (the network service is not part of this repository; its  *)
(* behaviour is the protocol of the spec): the table of open listening     *)
(* sockets, the peers waiting in each backlog and the open connections.    *)
(* Every client call is one synchronous round trip; accept is split into   *)
(* its request and its reply because a blocking accept waits in the       *)
(* service while peers arrive.                                             *)
(***************************************************************************)
EXTENDS Naturals, FiniteSets

CONSTANTS
    Addr,          \* local socket addresses a caller may bind
    NoAddr,        \* the address of an object that does not exist yet
    LHandle,       \* listener handles the service may assign (one byte)
    CHandle,       \* connection handles the service may assign on accept
    MaxObj,        \* number of TcpListener objects a behaviour may create
    MaxPending,    \* backlog length of a listening socket
    TTL,           \* time-to-live values a caller may set
    DefaultTTL,    \* TTL of a freshly bound socket
    \* NetError codes of the service's replies
    SocketInUse, Invalid, LibraryError, TimedOut, WouldBlock, Unaddressable,
    ServiceSetsValid   \* every successful lend reply carries a valid length

NetError == {SocketInUse, Invalid, LibraryError, TimedOut, WouldBlock, Unaddressable}

ASSUME AddrAssumption == NoAddr \notin Addr
ASSUME HandleAssumption == LHandle \subseteq 1..255 /\ CHandle \subseteq 1..65535
ASSUME MaxObjAssumption == MaxObj \in Nat \ {0}
ASSUME MaxPendingAssumption == MaxPending \in Nat
ASSUME TTLAssumption == DefaultTTL \in TTL
ASSUME NetErrorAssumption == NetError \cap Nat = {}
ASSUME ValidAssumption == ServiceSetsValid \in BOOLEAN

ObjId == 1..MaxObj

\* The local error kinds the mapper produces.
ErrorKind == {"ResourceBusy", "InvalidInput", "Other", "TimedOut", "WouldBlock"}

\* A call's result: Ok(v) (v is 0 where the call returns no number) or an
\* io::Error of kind k.
Returned(v) == [kind |-> "ok", val |-> v]
Failed(k) == [kind |-> k, val |-> 0]

VARIABLES
    live,        \* TcpListener objects that have not been dropped
    lst,         \* lst[o]: the fields fd, local, nonblocking of object o and
                 \*   arc, the bind that created the Arc its handle_count is
    count,       \* count[a]: the AtomicUsize of the Arc created by bind a
    nextObj,     \* identity of the next object created
    accepting,   \* the object whose accept call is in flight, 0 if none
    ret,         \* what the last completed call returned to the caller
    lsock,       \* service: lsock[h] is the bind that opened handle h, 0 if free
    pending,     \* service: peers waiting in the backlog of handle h
    lttl,        \* service: TTL of listening socket h
    conns,       \* service: open connection handles
    streams,     \* connection handles of the TcpStreams accept returned
    closes       \* closes[a]: StdTcpListenerClose messages sent for bind a

client == <<live, lst, count, nextObj, accepting, ret>>
service == <<lsock, pending, lttl, conns>>
vars == <<live, lst, count, nextObj, accepting, ret, lsock, pending, lttl,
          conns, streams, closes>>

ListenerRec == [fd : LHandle \cup {0}, local : Addr \cup {NoAddr},
                arc : ObjId \cup {0}, nonblocking : BOOLEAN]

\* The objects that share the handle_count of bind a.
Aliases(a) == {o \in live : lst[o].arc = a}

\* The binds that succeeded: the objects that created an Arc.
Bound == {a \in 1..(nextObj - 1) : lst[a].arc = a}

\* Addresses held by an open listening socket of the service.
InUse == {lst[lsock[h]].local : h \in {g \in LHandle : lsock[g] # 0}}

-----------------------------------------------------------------------------
(* Error mapping of bind and accept (tcplistener.rs 77-92 and 135-146).    *)

BindErrorKind(e) ==
    CASE e = SocketInUse  -> "ResourceBusy"
      [] e = Invalid      -> "InvalidInput"
      [] OTHER            -> "Other"

AcceptErrorKind(e) ==
    CASE e = TimedOut   -> "TimedOut"
      [] e = WouldBlock -> "WouldBlock"
      [] OTHER          -> "Other"

\* Byte 0 of the accept request: 0 asks the service not to wait.
AcceptFlag(o) == IF lst[o].nonblocking THEN 0 ELSE 1

-----------------------------------------------------------------------------
Init ==
    /\ live = {}
    /\ lst = [o \in ObjId |-> [fd |-> 0, local |-> NoAddr, arc |-> 0,
                               nonblocking |-> FALSE]]
    /\ count = [a \in ObjId |-> 0]
    /\ nextObj = 1
    /\ accepting = 0
    /\ ret = Returned(0)
    /\ lsock = [h \in LHandle |-> 0]
    /\ pending = [h \in LHandle |-> 0]
    /\ lttl = [h \in LHandle |-> DefaultTTL]
    /\ conns = {}
    /\ streams = {}
    /\ closes = [a \in ObjId |-> 0]

\* The replies the service may give to StdTcpListen for address a: a fresh
\* handle when a is free, or an error code, each with or without a valid
\* length (a success always has one when ServiceSetsValid); SendFailed is a
\* send_message that fails (memret: it did not return the memory).
FreeFor(a) == {g \in LHandle : lsock[g] = 0 /\ a \notin InUse}

ValidFlags == IF ServiceSetsValid THEN {TRUE} ELSE BOOLEAN

BindOk(a) ==
    {[memret |-> TRUE, status |-> 0, b1 |-> h, valid |-> v] :
        h \in FreeFor(a), v \in ValidFlags}

BindErr ==
    {[memret |-> TRUE, status |-> 1, b1 |-> e, valid |-> v] :
        e \in NetError, v \in BOOLEAN}

SendFailed == [memret |-> FALSE, status |-> 0, b1 |-> 0, valid |-> FALSE]

BindReplies(a) == BindOk(a) \cup BindErr \cup {SendFailed}

\* The service's side of a reply: a status-0 reply opened the socket.
ServiceOpens(r, o) ==
    IF r.memret /\ r.status = 0
    THEN /\ lsock' = [lsock EXCEPT ![r.b1] = o]
         /\ lttl' = [lttl EXCEPT ![r.b1] = DefaultTTL]
    ELSE UNCHANGED <<lsock, lttl>>

\* Mutation: the reply's status and valid length are not checked.
BindUnchecked(a) ==
    LET o == nextObj IN
    /\ accepting = 0 /\ nextObj <= MaxObj
    /\ \E r \in {q \in BindReplies(a) : q.memret} :
          /\ ServiceOpens(r, o)
          /\ live' = live \cup {o}
          /\ lst' = [lst EXCEPT ![o] = [fd |-> r.b1, local |-> a, arc |-> o,
                                        nonblocking |-> FALSE]]
          /\ count' = [count EXCEPT ![o] = 1]
          /\ nextObj' = nextObj + 1
          /\ ret' = Returned(0)
    /\ UNCHANGED <<accepting, pending, conns, streams, closes>>

\* TcpListener::bind: StdTcpListen for address a.  A status-0 reply with a
\* valid length creates object nextObj with a counter of 1; any other reply
\* is an error, mapped from byte 1 of the reply.  A status-0 reply opened a
\* socket in the service whatever the client makes of it, so it uses up the
\* identity nextObj.
Bind(a) ==
    LET o == nextObj IN
    /\ accepting = 0
    /\ \E r \in BindReplies(a) :
          LET opened == r.memret /\ r.status = 0 IN
          /\ opened => nextObj <= MaxObj
          /\ ServiceOpens(r, o)
          /\ nextObj' = IF opened THEN nextObj + 1 ELSE nextObj
          /\ IF opened /\ r.valid
             THEN /\ live' = live \cup {o}
                  /\ lst' = [lst EXCEPT ![o] = [fd |-> r.b1, local |-> a,
                                                arc |-> o, nonblocking |-> FALSE]]
                  /\ count' = [count EXCEPT ![o] = 1]
                  /\ ret' = Returned(0)
             ELSE /\ ret' = Failed(IF r.memret THEN BindErrorKind(r.b1)
                                   ELSE "InvalidInput")
                  /\ UNCHANGED <<live, lst, count>>
    /\ UNCHANGED <<accepting, pending, conns, streams, closes>>

\* TcpListener::accept, the request: byte 0 carries the nonblocking flag and
\* the thread blocks in send_message until the service replies.
AcceptCall(o) ==
    /\ accepting = 0 /\ o \in live
    /\ accepting' = o
    /\ UNCHANGED <<live, lst, count, nextObj, ret, service, streams, closes>>

\* TcpListener::accept, the reply to the request of object `accepting` on
\* handle h: a waiting peer with a fresh connection handle, the same with an
\* IP version other than 4 or 6 (an error, the connection already created),
\* WouldBlock when the request asked not to wait and nobody waits, or an
\* error code.
AcceptReply ==
    LET o == accepting
        h == lst[o].fd IN
    /\ accepting # 0
    /\ accepting' = 0
    /\ \/ /\ lsock[h] # 0 /\ pending[h] > 0
          /\ \E c \in CHandle \ conns :
                /\ conns' = conns \cup {c}
                /\ streams' = streams \cup {c}
          /\ pending' = [pending EXCEPT ![h] = @ - 1]
          /\ ret' = Returned(0)
       \/ /\ lsock[h] # 0 /\ pending[h] > 0
          /\ \E c \in CHandle \ conns : conns' = conns \cup {c}
          /\ pending' = [pending EXCEPT ![h] = @ - 1]
          /\ ret' = Failed("Other")
          /\ UNCHANGED streams
       \/ /\ AcceptFlag(o) = 0 /\ pending[h] = 0
          /\ ret' = Failed(AcceptErrorKind(WouldBlock))
          /\ UNCHANGED <<pending, conns, streams>>
       \/ /\ \E e \in NetError \ {WouldBlock} : ret' = Failed(AcceptErrorKind(e))
          /\ UNCHANGED <<pending, conns, streams>>
       \/ /\ ret' = Failed("InvalidInput")
          /\ UNCHANGED <<pending, conns, streams>>
    /\ UNCHANGED <<live, lst, count, nextObj, lsock, lttl, closes>>

\* Mutation: the derived Clone without the fetch_add.
DuplicateNoCount(o) ==
    LET n == nextObj IN
    /\ accepting = 0 /\ o \in live /\ nextObj <= MaxObj
    /\ live' = live \cup {n}
    /\ lst' = [lst EXCEPT ![n] = lst[o]]
    /\ nextObj' = nextObj + 1
    /\ ret' = Returned(0)
    /\ UNCHANGED <<count, accepting, service, streams, closes>>

\* TcpListener::duplicate: fetch_add on the shared counter, then a clone
\* that copies fd, local, the Arc and the current nonblocking flag.
Duplicate(o) ==
    LET n == nextObj IN
    /\ accepting = 0 /\ o \in live /\ nextObj <= MaxObj
    /\ count' = [count EXCEPT ![lst[o].arc] = @ + 1]
    /\ live' = live \cup {n}
    /\ lst' = [lst EXCEPT ![n] = lst[o]]
    /\ nextObj' = nextObj + 1
    /\ ret' = Returned(0)
    /\ UNCHANGED <<accepting, service, streams, closes>>

\* TcpListener::set_nonblocking: the Cell of this object only.
SetNonblocking(o, b) ==
    /\ accepting = 0 /\ o \in live
    /\ lst' = [lst EXCEPT ![o].nonblocking = b]
    /\ ret' = Returned(0)
    /\ UNCHANGED <<live, count, nextObj, accepting, service, streams, closes>>

\* TcpListener::set_ttl: StdSetTtl on the object's handle; a send_message
\* that fails reaches no service and is InvalidInput.
SetTtl(o, t) ==
    /\ accepting = 0 /\ o \in live
    /\ \/ /\ lttl' = [lttl EXCEPT ![lst[o].fd] = t]
          /\ ret' = Returned(0)
       \/ /\ ret' = Failed("InvalidInput")
          /\ UNCHANGED lttl
    /\ UNCHANGED <<live, lst, count, nextObj, accepting, lsock, pending, conns,
                   streams, closes>>

\* TcpListener::ttl: StdGetTtl on the object's handle; a failed send or a
\* reply other than Scalar1 is InvalidInput.
Ttl(o) ==
    /\ accepting = 0 /\ o \in live
    /\ ret' \in {Returned(lttl[lst[o].fd]), Failed("InvalidInput")}
    /\ UNCHANGED <<live, lst, count, nextObj, accepting, service, streams, closes>>

\* Mutation: the close message goes out on every drop.
DropAlways(o) ==
    LET a == lst[o].arc
        h == lst[o].fd IN
    /\ accepting = 0 /\ o \in live
    /\ live' = live \ {o}
    /\ count' = [count EXCEPT ![a] = @ - 1]
    /\ lsock' = [lsock EXCEPT ![h] = 0]
    /\ pending' = [pending EXCEPT ![h] = 0]
    /\ closes' = [closes EXCEPT ![a] = @ + 1]
    /\ UNCHANGED <<lst, nextObj, accepting, ret, lttl, conns, streams>>

\* Mutation: the decremented value, not the previous one, is compared with 1.
DropAfterDecrement(o) ==
    LET a == lst[o].arc
        h == lst[o].fd IN
    /\ accepting = 0 /\ o \in live
    /\ live' = live \ {o}
    /\ count' = [count EXCEPT ![a] = @ - 1]
    /\ IF count[a] - 1 = 1
       THEN /\ lsock' = [lsock EXCEPT ![h] = 0]
            /\ pending' = [pending EXCEPT ![h] = 0]
            /\ closes' = [closes EXCEPT ![a] = @ + 1]
       ELSE UNCHANGED <<lsock, pending, closes>>
    /\ UNCHANGED <<lst, nextObj, accepting, ret, lttl, conns, streams>>

\* Mutation: fetch_sub's result is compared with 0.
DropNever(o) ==
    LET a == lst[o].arc IN
    /\ accepting = 0 /\ o \in live
    /\ live' = live \ {o}
    /\ count' = [count EXCEPT ![a] = @ - 1]
    /\ UNCHANGED <<lst, nextObj, accepting, ret, lsock, pending, lttl, conns,
                   streams, closes>>

\* Drop for TcpListener: fetch_sub on the shared counter; the alias that
\* saw 1 sends StdTcpListenerClose, and the service closes the socket and
\* its backlog.  The reply is only printed, so it changes nothing here.
Drop(o) ==
    LET a == lst[o].arc
        h == lst[o].fd IN
    /\ accepting = 0 /\ o \in live
    /\ live' = live \ {o}
    /\ count' = [count EXCEPT ![a] = @ - 1]
    /\ IF count[a] = 1
       THEN /\ lsock' = [lsock EXCEPT ![h] = 0]
            /\ pending' = [pending EXCEPT ![h] = 0]
            /\ closes' = [closes EXCEPT ![a] = @ + 1]
       ELSE UNCHANGED <<lsock, pending, closes>>
    /\ UNCHANGED <<lst, nextObj, accepting, ret, lttl, conns, streams>>

\* The service: a remote peer connects to listening socket h.
PeerConnect(h) ==
    /\ lsock[h] # 0 /\ pending[h] < MaxPending
    /\ pending' = [pending EXCEPT ![h] = @ + 1]
    /\ UNCHANGED <<client, lsock, lttl, conns, streams, closes>>

Next ==
    \/ \E a \in Addr : Bind(a)
    \/ \E o \in ObjId :
          \/ AcceptCall(o)
          \/ Duplicate(o)
          \/ Drop(o)
          \/ Ttl(o)
          \/ \E b \in BOOLEAN : SetNonblocking(o, b)
          \/ \E t \in TTL : SetTtl(o, t)
    \/ AcceptReply
    \/ \E h \in LHandle : PeerConnect(h)

Spec == Init /\ [][Next]_vars

-----------------------------------------------------------------------------
(* Properties.                                                             *)

TypeOK ==
    /\ live \subseteq ObjId
    /\ lst \in [ObjId -> ListenerRec]
    /\ count \in [ObjId -> Nat]
    /\ nextObj \in 1..(MaxObj + 1)
    /\ accepting \in ObjId \cup {0}
    /\ ret \in [kind : ErrorKind \cup {"ok"}, val : TTL \cup {0}]
    /\ lsock \in [LHandle -> ObjId \cup {0}]
    /\ pending \in [LHandle -> 0..MaxPending]
    /\ lttl \in [LHandle -> TTL]
    /\ conns \subseteq CHandle
    /\ streams \subseteq conns
    /\ closes \in [ObjId -> Nat]

\* The handle_count shared by the aliases of a bind equals the number of
\* aliases alive (duplicate's fetch_add and Drop's fetch_sub keep it exact).
RefCountExact ==
    \A a \in Bound : count[a] = Cardinality(Aliases(a))

\* Every live TcpListener's fd names, in the service, the socket its own bind
\* opened: no alias is left holding a handle that was closed, or that the
\* service has since given to another bind (Drop closes only at the last).
AliasesReachTheirSocket ==
    \A o \in live : lsock[lst[o].fd] = lst[o].arc

\* StdTcpListenerClose goes out exactly once for every bind whose aliases
\* are all dropped, and never while an alias is alive.
TeardownExactlyOnce ==
    \A a \in Bound : closes[a] = IF Aliases(a) = {} THEN 1 ELSE 0

\* Every socket the service keeps listening has a live TcpListener: neither
\* a bind the client saw fail nor a dropped listener leaves one open.
NoOrphanListener ==
    \A h \in LHandle : lsock[h] # 0 => Aliases(lsock[h]) # {}

-----------------------------------------------------------------------------
(* Refinement: the listener implements ListenerSockets.  A socket is the   *)
(* bind that opened it; it is open while a listening handle of the service *)
(* belongs to it, its holders are the live aliases sharing its Arc, and it *)
(* is closed once a StdTcpListenerClose went out for it.                   *)

OpenSockets == {lsock[h] : h \in {g \in LHandle : lsock[g] # 0}}
Holders == [a \in ObjId |-> Cardinality(Aliases(a))]
Retired == {a \in ObjId : closes[a] # 0}

Sockets == INSTANCE ListenerSockets
              WITH Sock <- ObjId, open <- OpenSockets, holders <- Holders,
                   closed <- Retired

\* Every behaviour of the listener objects and the service is one of the
\* abstract listener: bind opens a fresh socket with one holder, duplicate
\* adds a holder of an open socket, Drop removes one and the drop that saw
\* the counter at 1 (and only that one) tears the socket down for good.
SocketsRefined == Sockets!Spec

=============================================================================
