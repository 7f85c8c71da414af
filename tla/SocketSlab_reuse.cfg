\* Two slots and a limit of one connection: slots are refused, and used again.
CONSTANTS
    Connections = 2
    MaxConnections = 1
    RingCapacity = 2
    Uint32 = 4
    MaxOpened = 2
SPECIFICATION FairSpec
INVARIANTS
    LiveHandleWorks
    BufferedExact
    MirrorsPool
    ClosedExactlyOnce
PROPERTIES
    ImplementsLife
    OperationReturns
\* The server may come to rest: no peer has to connect, JavaScript need not call.
CHECK_DEADLOCK FALSE
