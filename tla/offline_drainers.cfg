\* The page and a worker drain two mutations, requests stray, drainers die; or
\* the page alone drains three.
SPECIFICATION FairSpec
CONSTANTS
    Page = page
    Workers = {w1}
    MaxAttempts = 2
    MaxRows = 3
    BusyRows = 2
    MaxCrashes = 1
    Habits = {{}, {"syncs", "strays"}}
INVARIANTS
    NothingIsLost
PROPERTIES
    SettledStaysSettled
    NeverWedges
    DeliversInOrder
\* All mutations may be sent and nothing left to do.
CHECK_DEADLOCK FALSE
