\* A ring of four slots that wraps around, with events of every tier. Both
\* threads run; a call of the threadsafe function may fail at any time.
CONSTANTS
    Capacity = 4
    TerminalReserve = 3
    ShutdownReserve = 2
    Kind = {"connection_open", "connection_close", "server_closed"}
    TsfnMayFail = TRUE
    MaxEmits = 5
SPECIFICATION FairSpec
INVARIANTS
    PendingExact
    ShutdownNeverRefused
    NoSlotReused
PROPERTIES
    ImplementsQueue
    AcceptedIsHandled
    ShutdownArrives
