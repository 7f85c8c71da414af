\* Two upgrades and two calls of close(), in every mode of the server.
\* The server comes to rest: closed, or running and not asked for anything.
CONSTANTS
    Stream = {s1, s2}
    Callback = {c1, c2}
    MaxAnswers = 2
SPECIFICATION FairSpec
INVARIANTS
    ClosedMeansDrained
    ClientsAreOpenSockets
PROPERTIES
    ImplementsPromise
    CloseAnswered
CHECK_DEADLOCK FALSE
