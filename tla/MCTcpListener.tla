--------------------------- MODULE MCTcpListener ---------------------------
(* Model-checking instance of TcpListener: two addresses, two listener    *)
(* handles, two connection handles, four TcpListener objects.             *)
EXTENDS TcpListener

CONSTANTS a1, a2, noaddr

MCAddr == {a1, a2}
MCLHandle == {1, 2}
MCCHandle == {1}
MCTTL == {64, 1}

\* One TTL value: the refinement run has no use for option values.
MCOneTTL == {64}
=============================================================================
