--------------------------- MODULE ListenerSockets ---------------------------
(***************************************************************************)
(* What a Xous TcpListener promises about the listening sockets of the     *)
(* network service, with every operation atomic (spec section 3, Listener  *)
(* Socket: all duplicates share one count and one remote handle; the       *)
(* remote socket is torn down exactly once, when the count goes from 1 to  *)
(* 0).                                                                     *)
(*                                                                         *)
(* A socket s is opened with one holder, gains holders by duplication and  *)
(* loses them by destruction; the release of the last holder closes it,    *)
(* and a closed socket is never opened again.                              *)
(***************************************************************************)
EXTENDS Naturals

CONSTANT Sock      \* identities of the sockets a behaviour may open

VARIABLES
    open,          \* the sockets the service keeps listening
    holders,       \* holders[s]: the listener objects that refer to s
    closed         \* the sockets that have been torn down

vars == <<open, holders, closed>>

Init ==
    /\ open = {}
    /\ holders = [s \in Sock |-> 0]
    /\ closed = {}

\* bind: a fresh socket with its first holder.
Open(s) ==
    /\ s \notin open \cup closed
    /\ open' = open \cup {s}
    /\ holders' = [holders EXCEPT ![s] = 1]
    /\ UNCHANGED closed

\* duplicate: one more holder of an open socket.
Share(s) ==
    /\ s \in open
    /\ holders' = [holders EXCEPT ![s] = @ + 1]
    /\ UNCHANGED <<open, closed>>

\* Drop: one holder fewer; the last one tears the socket down.
Release(s) ==
    /\ s \in open
    /\ holders' = [holders EXCEPT ![s] = @ - 1]
    /\ IF holders[s] = 1
       THEN /\ open' = open \ {s}
            /\ closed' = closed \cup {s}
       ELSE UNCHANGED <<open, closed>>

Next == \E s \in Sock : Open(s) \/ Share(s) \/ Release(s)

Spec == Init /\ [][Next]_vars

=============================================================================
