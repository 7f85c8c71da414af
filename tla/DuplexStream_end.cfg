\* The same record and stream: both sides end, and nothing closes the stream.
CONSTANTS
    RingCapacity = 2
    CloseCode = {1999, 2000, 2008, 2009}
    MaxBuffered = 2
SPECIFICATION FairStreamSpec
PROPERTY EndedCloses
CHECK_DEADLOCK FALSE
