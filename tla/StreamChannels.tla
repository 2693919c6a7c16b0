--------------------------- MODULE StreamChannels ---------------------------
(***************************************************************************)
(* What the connections behind Xous TcpStreams promise, with every         *)
(* operation atomic and bytes counted (spec section 3, Stream Socket, and  *)
(* section 4, read): the network service opens a connection to a peer on   *)
(* a handle that has none; the peer queues bytes until it ends its stream; *)
(* a read hands the caller some of the queued bytes and removes exactly    *)
(* those.  A connection, once open, keeps its peer: no later connect takes *)
(* its handle over.                                                        *)
(***************************************************************************)
EXTENDS Naturals

CONSTANTS
    Conn,      \* connection handles of the service
    Peer,      \* remote peers
    NoPeer     \* the peer of a handle with no connection

VARIABLES
    peer,      \* peer[c]: the remote end of connection c, or NoPeer
    queued,    \* queued[c]: bytes the peer sent that no read has taken
    delivered, \* delivered[c]: bytes reads have handed to callers
    ended      \* ended[c]: the peer has ended its stream

vars == <<peer, queued, delivered, ended>>

Init ==
    /\ peer = [c \in Conn |-> NoPeer]
    /\ queued = [c \in Conn |-> 0]
    /\ delivered = [c \in Conn |-> 0]
    /\ ended = [c \in Conn |-> FALSE]

\* connect: a handle with no connection is given one to peer p.
Open(c, p) ==
    /\ peer[c] = NoPeer
    /\ peer' = [peer EXCEPT ![c] = p]
    /\ UNCHANGED <<queued, delivered, ended>>

\* The peer of an open connection sends one byte.
Send(c) ==
    /\ peer[c] # NoPeer /\ ~ended[c]
    /\ queued' = [queued EXCEPT ![c] = @ + 1]
    /\ UNCHANGED <<peer, delivered, ended>>

\* The peer ends its stream.
End(c) ==
    /\ peer[c] # NoPeer /\ ~ended[c]
    /\ ended' = [ended EXCEPT ![c] = TRUE]
    /\ UNCHANGED <<peer, queued, delivered>>

\* A read takes k of the queued bytes and hands exactly those to its caller.
Deliver(c, k) ==
    /\ peer[c] # NoPeer
    /\ queued' = [queued EXCEPT ![c] = @ - k]
    /\ delivered' = [delivered EXCEPT ![c] = @ + k]
    /\ UNCHANGED <<peer, ended>>

Next ==
    \E c \in Conn :
        \/ \E p \in Peer : Open(c, p)
        \/ Send(c)
        \/ End(c)
        \/ \E k \in 1..queued[c] : Deliver(c, k)

Spec == Init /\ [][Next]_vars

=============================================================================
