\* Three requests, or two and a restart; one reconnection or expiry.
SPECIFICATION FairSpec
CONSTANTS
    MaxRequests = 3
    MaxBinds = 2
    MaxRestarts = 1
    MaxInFlight = 1
INVARIANTS
    GetsItsOwnSoFar
    WaitersAreReachable
PROPERTIES
    CallsEndOnce
    InterruptedStreamStops
\* Handlers need ask for nothing, and the page may stay away.
CHECK_DEADLOCK FALSE
