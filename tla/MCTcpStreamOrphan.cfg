CONSTANTS
    p1 = p1
    nopeer = nopeer
    noduration = noduration
    Peer <- MCPeer
    NoPeer = nopeer
    CHandle <- MCCHandle
    LPort <- MCLPort
    NetCid = 1
    BufCap = 2
    MaxLen = 3
    MaxSent = 2
    MaxObj = 1
    Micros <- MCMicros
    NoDuration = noduration
    TimeoutMax = 2
    TTL <- MCTTL
    DefaultTTL = 64
    ServiceSetsValid = TRUE
    ServiceTrusted = TRUE

SPECIFICATION Spec

INVARIANT NoOrphanConnection
