\* One connection slot recycled while the main thread does not dispatch.
\* The server really stops: freed, or closed and never finalized.
CONSTANTS
    ConnectionCapacity = 1
    MaxConnections = 1
    Capacity = 4
    TsfnMayFail = FALSE
    MaxTraffic = 6
SPECIFICATION Spec
INVARIANT CloseNeverRefused
CHECK_DEADLOCK FALSE
