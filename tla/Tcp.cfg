\* Two clients, one after the other; stop() at any time, peers that never read.
CONSTANTS
    c1 = c1
    c2 = c2
    Conns = {c1, c2}
    NONE = NONE
    Overlap = FALSE
SPECIFICATION FairSpec
INVARIANTS
    TypeOK
    OneReader
    ToldMatchesClient
    NoGhostConnection
    PortFreed
    StopIsFinal
PROPERTIES
    NoLateDisconnect
    StopReturns
    ClientIsServed
CHECK_DEADLOCK FALSE
