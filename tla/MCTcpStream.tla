----------------------------- MODULE MCTcpStream -----------------------------
(* A small instance of TcpStream for TLC: two peers, two connection       *)
(* handles of which the first is also the network service's connection id, *)
(* a two-byte page and buffers of up to three bytes, so that clamping,     *)
(* short reads and timeouts below a millisecond all occur.                 *)
EXTENDS TcpStream

CONSTANTS p1, nopeer, noduration

MCPeer == {p1}
MCCHandle == {1, 2}
MCLPort == {2}
MCMicros == {500, 3000}
MCTTL == {64, 1}

\* A single connection handle, the network service's own connection id.
MCOneHandle == {1}
=============================================================================
