\* The process is restarted once; one reconnection or expiry.
SPECIFICATION Spec
CONSTANTS
    MaxRequests = 3
    MaxBinds = 2
    MaxRestarts = 1
    MaxInFlight = 1
INVARIANTS
    GetsItsOwn
\* Handlers need ask for nothing, and the page may stay away.
CHECK_DEADLOCK FALSE
