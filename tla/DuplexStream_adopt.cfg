\* A record, and the stream over it, that adopts a connection of the engine,
\* with a ring of two, or a transport. It may rest: closed, or never called.
CONSTANTS
    RingCapacity = 2
    CloseCode = {1999, 2000, 2008, 2009}
    MaxBuffered = 2
SPECIFICATION FairStreamSpec
INVARIANTS
    CloseToldOnce
    LatchedByFinalizeOnly
    StreamGoneWhenClosed
    ClosedIsLast
    NothingWaitsForClose
PROPERTIES
    DyingStreamCloses
    DestroyedCloses
CHECK_DEADLOCK FALSE
