\* The native bridge of a resumed session.
SPECIFICATION Spec
CONSTANTS
    s1 = s1
    s2 = s2
    s3 = s3
    alice = alice
    bob = bob
    id1 = id1
    None = None
    NoId = NoId
    Sockets = {s1, s2}
    Ids = {id1}
    Cred <- CredOnePrincipal
    Cap = 3
    Resumable = TRUE
    MaxFrames = 1
    OverlappingSockets = FALSE
    ResyncMayFail = FALSE
INVARIANTS
    HandlerHasItsBridge
\* Every socket is used once: the model stops when all are spent.
CHECK_DEADLOCK FALSE
