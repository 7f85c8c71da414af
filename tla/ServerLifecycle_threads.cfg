\* Two connections at a time come and go, the environment may exit at any time,
\* and calls of the threadsafe function, and its acquisition, may fail.
\* The server really stops: freed, or closed and never finalized.
CONSTANTS
    ConnectionCapacity = 2
    MaxConnections = 2
    Capacity = 8
    TsfnMayFail = TRUE
    MaxTraffic = 6
SPECIFICATION FairSpec
INVARIANTS
    NoUseAfterFree
    HookWhileAlive
    NoReferenceLeak
    ToldBeforeFree
    EventOrder
PROPERTIES
    KeepsChannelProtocol
    CloseIsReported
    JoinReturns
    ExitFrees
CHECK_DEADLOCK FALSE
