CONSTANTS
    a1 = a1
    a2 = a2
    noaddr = noaddr
    Addr <- MCAddr
    NoAddr = noaddr
    LHandle <- MCLHandle
    CHandle <- MCCHandle
    MaxObj = 3
    MaxPending = 1
    TTL <- MCOneTTL
    DefaultTTL = 64
    SocketInUse = SocketInUse
    Invalid = Invalid
    LibraryError = LibraryError
    TimedOut = TimedOut
    WouldBlock = WouldBlock
    Unaddressable = Unaddressable
    ServiceSetsValid = TRUE

SPECIFICATION Spec

INVARIANTS
    TypeOK
    RefCountExact
    AliasesReachTheirSocket
    TeardownExactlyOnce
    NoOrphanListener

PROPERTY
    SocketsRefined
