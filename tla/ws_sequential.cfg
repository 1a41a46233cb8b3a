\* A browser reconnects only after the server let go of its last socket, and
\* a resumed scene reaches it.
SPECIFICATION FairSpec
CONSTANTS
    s1 = s1
    s2 = s2
    s3 = s3
    alice = alice
    bob = bob
    id1 = id1
    None = None
    NoId = NoId
    Sockets = {s1, s2, s3}
    Ids = {id1}
    Cred <- CredOnePrincipal
    Cap = 3
    Resumable = TRUE
    MaxFrames = 1
    OverlappingSockets = FALSE
    ResyncMayFail = FALSE
INVARIANTS
    LiveIsExact
PROPERTIES
    ClaimVoidsWindows
    NothingStaysPinned
    KeepsThePromise
\* Every socket is used once: the model stops when all are spent.
CHECK_DEADLOCK FALSE
