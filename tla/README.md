# TLA+ models of the Xous TCP sockets

This directory models the Xous port of the Rust standard library's TCP
sockets. Sources live under `src/library/std/src/sys/xous/`:

| File | What it is |
|---|---|
| `net/tcplistener.rs` | `TcpListener`: bind, accept, duplicate, options, Drop |
| `net/mod.rs` | `TcpStream`, plus uninhabited stubs `TcpListener(!)` and `UdpSocket(!)` |
| `thread.rs` | thread stubs (`Thread::new` is unsupported) |
| `path.rs` | path helpers |

## The system

The sockets are thin clients of the Xous network service, a separate server
process. Every socket operation is one blocking `xous::send_message` to that
service:

- `connect`, `bind`, `accept`, `read`, `peek` and `write` lend a 4096-byte
  page. The service writes its reply into the page and returns
  `MemoryReturned(offset, valid)`.
- `shutdown` and the option getters and setters are blocking scalar messages.

`Thread::new` is unsupported (`thread.rs`), so a program has one application
thread. That thread is suspended for the whole round trip of each call. The
only concurrency is therefore between the client and the service with its
remote peers: while a read or an accept waits, peers send, close and connect.

`TcpListener` objects share an `Arc<AtomicUsize>` counter:

- `duplicate` increments it and clones the object.
- `Drop` decrements it. Only the object that saw the value 1 sends
  StdTcpListenerClose (46).

A `TcpStream` has no `Drop` impl, so nothing is sent when it is dropped.

In this snapshot, `net/mod.rs` does not declare `tcplistener` as a module.
It still contains the `TcpListener(!)` stub, and `tcplistener.rs` calls
`TcpStream::from_listener`, which `mod.rs` does not define. The real listener
is modelled anyway, because it is the listener the spec describes.

## Modules

| Module | Models |
|---|---|
| `TcpListener` | Listener objects, the shared counter, and the service's listening sockets and backlogs |
| `MCTcpListener` | TLC instance of `TcpListener` |
| `TcpListenerProofs` | TLAPS proofs for `TcpListener` |
| `ListenerSockets` | Abstract specification of the listening sockets: atomic open, share and release |
| `TcpListenerRefinement` | TLAPS proof that `TcpListener` implements `ListenerSockets` |
| `TcpStream` | Stream objects and their timeout Cells, the service's connection records and receive queues, and the remote peers |
| `MCTcpStream` | TLC instance of `TcpStream` |
| `TcpStreamProofs` | TLAPS proofs for `TcpStream` |
| `TcpStreamTimeoutProofs` | TLAPS proof that a read waits without a timeout only when its caller asked for none or for less than 1 ms |
| `StreamChannels` | Abstract specification of the connections: open to a peer, queue bytes, end, deliver queued bytes to a read |
| `TcpStreamRefinement` | TLAPS proof that `TcpStream` implements `StreamChannels` |

### TcpListener

State:

- `live` holds the objects not yet dropped.
- `lst[o]` is the object itself: `fd`, `local`, the identity `arc` of its
  `Arc`, and the `nonblocking` Cell.
- `count[a]` is the AtomicUsize of Arc `a`.
- `accepting` is the object blocked in accept.
- `ret` is the last result.
- On the service side: `lsock[h]` is the bind that listening handle `h`
  belongs to, `pending[h]` is its backlog, `lttl` holds the TTLs, and `conns`
  holds the accepted connections.
- Ghosts: `streams` (the connections handed to a TcpStream) and `closes[a]`
  (the StdTcpListenerClose messages sent for `a`).

Actions:

- `Bind`: the whole of `bind`, with the status and `valid` checks and the
  error mapping `BindErrorKind`.
- `AcceptCall` and `AcceptReply`: `accept`. The nonblocking byte is
  `AcceptFlag`. The reply is one of: success; an IP version other than 4 or 6
  (an error after the service has created the connection); WouldBlock; another
  error; a failed send.
  No property is stated about the bad-IP-version path. Only a service that
  breaks the protocol takes it, and the code then fails closed, as spec
  section 7 asks.
- `Duplicate`: fetch_add, then the clone.
- `SetNonblocking`, and `SetTtl` and `Ttl`, each with its InvalidInput path.
- `Drop`: fetch_sub and the close.
- `PeerConnect`: a peer connects, as seen by the service.

### ListenerSockets and the refinement

`ListenerSockets` says what the listener promises, with every operation
atomic (spec section 3): a socket is opened with one holder (`Open`), gains
holders (`Share`) and loses them (`Release`); releasing the last holder
closes it, and a closed socket never reopens.

`TcpListener` maps onto it (`Sockets == INSTANCE ListenerSockets WITH ...`):

- a socket is a bind, i.e. the identity of its `Arc`;
- `open` is the set of binds that still own a listening handle
  (`OpenSockets`);
- `holders[a]` is the number of live aliases of bind `a` (`Holders`);
- `closed` is the set of binds a close was sent for (`Retired`).

Under this mapping, `Bind` is `Open` or a stutter (a failed bind), `Duplicate`
is `Share`, `Drop` is `Release`, and accept, options and peers stutter.
`SocketsRefined` (`Sockets!Spec`) is checked as a temporal property by the
`listener` run and proved by `ListenerRefinesSockets`.

### TcpStream

State:

- `live` holds the stream objects, and `st[o]` their fields.
- `call` is the read or peek the thread is blocked in.
- `ret` is the last result.
- `conn[c]` is the service's record: open, peer, buffered bytes `rx`, end of
  stream, ttl, nodelay, shut.
- Ghosts: `sent` (bytes the peers sent) and `got` (bytes copied into callers'
  buffers).

Actions:

- `Connect` covers `connect` and `connect_timeout`. The handle is decoded
  from word 1 of the reply (`ConnectWords`).
- `ReadCall`, `PeekCall` (both `RxRequest`) and `RxReply` cover `read` and
  `peek`. The
  MemorySize is `RxSize`, i.e. min(len, 4096), and `read` passes its timeout
  as the offset. The service cannot tell a peek from a read that has no
  timeout.
- `Write`, with MemorySize `TxSize`.
- `SetReadTimeout`, `SetWriteTimeout` and `ReadTimeout`, using
  `TimeoutMillis`, i.e. `as_millis().min(u32::MAX)`.
- `Shutdown`, `SetNodelay`, `Nodelay`, `SetTtl` and `Ttl`, all through
  `Scalar`. Each is sent to connection id `fd`, with the opcode the code uses.
  When that id is the network service's, `ServiceUpdate` and `ServiceAnswer`
  give its effect and its answer.
- `Drop`: the object disappears and nothing is sent.
- `PeerSend` and `PeerClose`: the peer's side.

### StreamChannels and the refinement

`StreamChannels` says what the connections behind the streams promise, with
every operation atomic and bytes counted (spec sections 3 and 4): `Open(c, p)`
gives a handle with no connection one to peer `p`; `Send(c)` queues a byte and
`End(c)` ends the stream, both only while the connection is open and not
ended; `Deliver(c, k)` takes `k` of the queued bytes (1 to all of them) and
hands exactly those to a caller.

`TcpStream` maps onto it (`Channels == INSTANCE StreamChannels WITH ...`):

- `peer[c]` is `conn[c].peer` while `conn[c].open`, else `NoPeer`
  (`ChannelPeer`);
- `queued[c]` is `conn[c].rx`, `delivered` is the ghost `got`, `ended[c]` is
  `conn[c].eof`.

Under this mapping `Connect` is `Open` or a stutter (a failed connect),
`PeerSend` is `Send`, `PeerClose` is `End`, an `RxReply` that takes `k > 0`
bytes is `Deliver(c, k)` for the asking stream's connection, and everything
else stutters. `ChannelsRefined` is stated as
`Channels!Init /\ [][UNCHANGED Channels!vars \/ Channels!Next]_vars`, which
implies `Channels!Spec` (theorem `StreamImplementsChannels`). It is proved,
not run. With one object, and connections that never close, TLC could only
show the read-size clamp that `DataConserved` already checks. The proof
holds for any number of objects, peers and handles.

### Abstractions

- Byte contents are counts.
- Addresses, ports and peers are model values.
- io::Error messages are left out. Only the ErrorKind is kept.

Two consequences:

- A bind reply's error byte is mapped with `BindErrorKind`. Handle numbers and
  NetError codes are disjoint in the model (`NetErrorAssumption`), while in
  the code a handle byte that equals a NetError code would map to that kind.
- The network service is outside this repository. Its behaviour (marked
  `spec_modelled` in `PROJECT.json`) follows the opcode table of the spec. It
  may reply with a short read, a timeout (only when the read passed a nonzero
  timeout), an error or a failed send at any reply.

### Fault model

- The service may fail any send (`InvalidInput`) and may reply short.
- `ServiceSetsValid = FALSE` lets a status-0 bind or connect reply come
  without a valid length.
- `ServiceTrusted = FALSE` lets a read or write reply declare up to the
  whole page valid, whatever was requested (`ReplyBound`). The spec assumes
  the service honours the protocol; this constant asks what the client does
  when it does not.
- Peers may stay silent, send, or close at any time.
- The client persists nothing, so no crash or restart is modelled.

## Runs

| Run | cfg | Result | Meaning |
|---|---|---|---|
| listener | `MCTcpListener.cfg` | pass | See below |
| listener_leak | `MCTcpListenerLeak.cfg` | violation of `NoOrphanListener` | A status-0 bind reply without a valid length leaks the socket |
| stream | `MCTcpStream.cfg` | pass | See below |
| stream_peek | `MCTcpStreamPeek.cfg` | violation of `PeekLeavesData` | peek sends the read message and consumes data |
| stream_ttl | `MCTcpStreamTtl.cfg` | violation of `TtlReadsBack` | `ttl()` sends opcode 38 and returns the nodelay flag |
| stream_shutdown | `MCTcpStreamShutdown.cfg` | violation of `ShutdownTakesEffect` | shutdown goes to connection id `fd`; another server can answer Ok |
| stream_timeout | `MCTcpStreamTimeout.cfg` | violation of `ReadForwardsTimeout` | After `set_read_timeout(Some(500 µs))`, 0 ms is stored and read forwards 0, the value reserved for no timeout |
| stream_liveness | `MCTcpStreamLive.cfg` | pass | `ReadWithTimeoutReturns`: a read whose stored timeout is nonzero always returns |
| stream_untrusted | `MCTcpStreamUntrusted.cfg` | violation of `ReturnsWithinBuffer` | With a service that answers beyond the request, write returns the bytes-written word unchecked (mod.rs:265). The trace is a write of an empty buffer reported as 1 byte. read and peek return the valid length just as unchecked (mod.rs:213) |
| stream_read_zero | `MCTcpStreamReadZero.cfg` | violation of `ReadZeroMeansEof` | A read that times out returns Ok(0) |
| stream_orphan | `MCTcpStreamOrphan.cfg` | violation of `NoOrphanConnection` | A dropped stream's connection stays open |

The `listener` run checks:

- `TypeOK`.
- `RefCountExact`: the counter equals the number of live aliases.
- `AliasesReachTheirSocket`: every live alias's handle is a socket still open
  for its bind.
- `TeardownExactlyOnce`: one close per bind, after its last alias.
- `NoOrphanListener`: no open socket is without an alias.
- `SocketsRefined`: the listener implements `ListenerSockets`.

Each of these takes a bind, duplicates and drops in some order to break.

The `stream` run checks:

- `TypeOK`.
- `DataConserved`: the bytes a peer sent are either still buffered or were
  copied into a caller's buffer.
- `ReturnsWithinBuffer`.
- `ReadUnboundedOnlyIfAsked`: a read waits in the service with no timeout
  only if its caller set none, or one below a millisecond. Breaking it takes
  a `set_read_timeout` and then a read. Its mutant drops the `.min(u32::MAX)`,
  so `as u32` wraps 3 ms to 0 when u32::MAX is scaled to 2.

`TypeOK`'s mutant drops the clamp of the read request to the page
(`data_to_read = buf.len()`), and a 3-byte buffer then asks for more than
the 2-byte page.

Every property of a passing run has a mutant in `PROJECT.json`: a plausible
bug in the mapped code that TLC catches.

### Bounds

Listener run:

- 3 objects, 2 addresses, 2 listening handles, 1 connection handle, backlog 1.
- This is enough for a bind with two aliases, a second bind, failed binds
  that still open a socket, and accepts racing drops and peer connects.
- One TTL value (64). TTLs touch neither the counter, the sockets nor the
  refinement mapping. A second value only multiplied the states (1.1
  million), which left no time for the temporal check of `SocketsRefined`.
- 300 thousand states.

Stream run:

- 1 object, 2 connection handles (the first is also the network service's
  connection id), a 2-byte page, buffers of 0 to 3 bytes, 2 bytes per peer,
  and durations of 500 µs and 3 ms with u32::MAX scaled to 2 ms.
- So empty buffers (MemorySize None), clamping, short reads, sub-millisecond
  timeouts, saturation, and scalars reaching the service or another server
  all happen.
- With two handles, an orphaned connection coexists with the live stream.
- A second object adds nothing the client shares between objects (each has
  its own fd and Cells) and multiplies the state space past what TLC covers
  in minutes.
- 1.8 million states, about 40 s.


### Fairness

Only `stream_liveness` assumes fairness:
`FairSpec == Spec /\ WF_vars(RxReply)`. The IPC transport delivers or fails
every synchronous call (spec line 7). Whether the service honours a
forwarded timeout is, per spec line 76, "entirely at the remote service's
discretion". So `WF_vars(RxReply)` is an assumption about the service: it
eventually gives any reply it can give (data buffered, end of stream, a
passed timeout, or an error). The code does not guarantee it.
`ReadWithTimeoutReturns` therefore says what the client contributes: it
forwards a nonzero timeout, and a service that honours it ends the read.

The peers and the caller get no fairness. Nothing obliges a peer to send or
close, so a read with no timeout may wait forever, and `ReadWithTimeoutReturns`
is stated only for a nonzero stored timeout. A timeout the caller set to
less than a millisecond is stored as 0. The safety property
`ReadForwardsTimeout` (run `stream_timeout`) shows this with no fairness at
all: read then forwards 0, which means no timeout.

## Proofs (TLAPS)

`TcpListenerProofs` proves the following for all values of the constants,
under the `ASSUME`s of `TcpListener`:

- `ListenerInvariant`: `Spec => []IInv`.
- `ListenerTypeOK`, `ListenerRefCountExact`, `ListenerAliasesReachSocket` and
  `ListenerTeardownOnce`: `TypeOK` and the three counter properties.
- `ListenerNoOrphan`: `NoOrphanListener`, under the hypothesis
  `ServiceSetsValid`.

The listener properties are not inductive as stated. `IInv` strengthens them
with how identities are handed out:

- Objects and binds lie below `nextObj`. Records above it are untouched.
- Every live alias holds a handle and the Arc of a bind.
- A bind with no alias record left has counter 0 and no close.
- Every listening handle belongs to a bind below `nextObj`.

TLC checked `IInv` as an invariant of the instance with `ServiceSetsValid`
both TRUE and FALSE before the proof.

`ListenerNoOrphan` adds `SocketOwned` to `IInv`: the bind of an open socket
is Bound, has had no close, and no other socket belongs to it. `SocketOwned`
plus `TeardownExactlyOnce` gives `NoOrphanListener`.

The proof has one lemma per action and one step per conjunct the action can
disturb. The counting facts use `FiniteSetTheorems`.

`TcpListenerRefinement` proves `ListenerRefinesSockets`:
`Spec => Sockets!Spec`, under `ServiceSetsValid`. Its invariant is
`IInv /\ SocketOwned`. The argument:

- `Init` maps to `Sockets!Init`: no handle is bound, no alias lives, no
  close was sent.
- Each step maps to a step of `ListenerSockets` or a stutter:
  `DuplicateRefines`, `DropRefines`, `BindRefines` and the frame lemmas for
  the other actions. `DropRefines` needs `SocketOwned`: the socket that
  disappears from `OpenSockets` is exactly the dropped alias's bind.
- The last step combines these with `PTL`.

`TcpStreamProofs` proves, for all values of the constants:

- `StreamInvariant`: `Spec => []IInv`, trusted service or not.
- `StreamTypeOK`.
- `StreamConnectedToPeer`: every live stream's fd is an open connection of
  the service to its peer. This is proved, not run: in the TLC instance it
  reduces to the fixed-index decode of connect.
- `StreamDataConserved` and `StreamReturnsWithinBuffer`, under the
  hypothesis `ServiceTrusted`.

Its `IInv` adds to the properties:

- a closed connection record is the initial one, with nothing sent or got;
- a connection never buffers more than its peer sent;
- a pending read belongs to a live object and asks for at most its buffer.

The last fact is what makes `MinNat(k, len) = k` in `RxReply`, and so keeps
`DataConserved`. TLC checked this `IInv` as an invariant of the stream
instance with `ServiceTrusted` TRUE and FALSE before the proof.

`TcpStreamTimeoutProofs` proves `StreamReadUnboundedOnlyIfAsked`:
`Spec => []ReadUnboundedOnlyIfAsked`, for every u32::MAX of at least 1
(`TimeoutAssumption`). It rests on `TimeoutInvariant`, `Spec => []TInv`,
where `TInv` holds two facts:

- every read Cell holds `TimeoutMillis` of the duration last given to
  `set_read_timeout`;
- a pending read carries its Cell in the offset, and a peek carries 0.

`ZeroMillis` shows that `TimeoutMillis(d) = 0` only for no duration or
`d < 1000` µs. The saturation is what makes this hold: a wrap would not.

`TcpStreamRefinement` proves, under the hypothesis `ServiceTrusted`:

- `StreamRefinesChannels`: `Spec => ChannelsRefined`.
- `StreamImplementsChannels`: `Spec => Channels!Spec`, from the former by
  `PTL`, since an unchanged `vars` leaves the mapped variables unchanged.
- `StreamReplyWithinRequest`: `Spec => ReplyWithinRequest` (an action
  property). A step that shrinks a receive queue is the reply to a pending
  read or peek of a stream on that connection, and takes at most the
  caller's buffer length off it.

Its invariant is `RInv == IInv /\ OpenToPeer`, and `OpenToPeer` (an open
connection's peer is a member of `Peer`, never `NoPeer`) is the
strengthening the refinement needs: without it a `PeerSend` on an open
connection could not be shown to satisfy `Send`'s guard `peer[c] # NoPeer`.
`RInvInvariant` proves `Spec => []RInv` (`OpenToPeerStep`: connect only opens
a record with a peer taken from `Peer`, nothing else changes `open` or
`peer`). The argument:

- `Init` maps to `Channels!Init` (`InitRefines`).
- `ConnectRefines`: a successful connect opens a handle that had no
  connection, which is `Open`.
- `RxReplyRefines`: the reply takes `k` with
  `1 <= k <= MinNat(rx, size) <= rx` bytes, and `got` grows by the same `k`
  (this is where `ServiceTrusted` and `IInv`'s bound on a pending call are
  needed), which is `Deliver(c, k)`.
- `PeerRefines` and `OtherRefines`: the peer's steps are `Send` and `End`,
  all other actions leave `conn` and `got`, hence the mapped variables,
  unchanged (`ChannelFrame`, `ScalarFrame`).
- `ReplyStep` and `QueueGrowsOutsideReply` give the action property: only
  `RxReply` shrinks a queue, and only the asking stream's, by at most its
  buffer length.

The function equalities of the mapping are proved pointwise (`FieldUpdate`,
`PeerFrame`), then combined.

## Not modelled, and what stays with TLC

- The liveness property `ReadWithTimeoutReturns` is model-checked only. It
  needs the weak fairness of `RxReply` and reasons about `ENABLED RxReply`,
  which the installed provers cannot handle. The refinements prove safety only
  (`[][Next]_vars`); the abstract specifications have no fairness.
- `thread.rs` and `path.rs`: the spec (line 7) puts thread and path
  primitives out of scope as stubs and passthroughs with no algorithmic
  content. `Thread::new` returns unsupported, and the path helpers are pure
  byte predicates that touch no state. The one consequence for the sockets,
  a single application thread, is built into both models.
- The `TcpListener(!)` and `UdpSocket(!)` stubs have no state.
- `dns` is not in this snapshot.
- Byte layouts (ports, IP octets, the u64 millisecond field of connect) are
  not modelled bit by bit.

## Plan

1. Compose listener and stream: an accepted connection becomes a TcpStream
   object of the stream module. In this snapshot `from_listener` does not
   exist in `mod.rs`, so the composition would be modelled from the spec.
2. Add a codec module that checks the request and reply layouts (port, IP
   version, octets, little-endian words) against a reference decoder over
   bounded inputs.
