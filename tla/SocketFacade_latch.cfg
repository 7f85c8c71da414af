\* A close() of a connection whose server was finalized.
CONSTANTS
    RingCapacity = 2
    CloseCode = {1999, 2000, 2008, 2009}
    MaxBuffered = 3
SPECIFICATION Spec
INVARIANT NotLatched
CHECK_DEADLOCK FALSE
