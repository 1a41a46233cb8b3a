\* Everything the environment can do: overlapping sockets, two principals,
\* failing resyncs.
SPECIFICATION Spec
CONSTANTS
    s1 = s1
    s2 = s2
    s3 = s3
    alice = alice
    bob = bob
    id1 = id1
    None = None
    NoId = NoId
    Sockets = {s1, s2, s3}
    Ids = {id1}
    Cred <- CredTwoPrincipals
    Cap = 3
    Resumable = TRUE
    MaxFrames = 1
    OverlappingSockets = TRUE
    ResyncMayFail = TRUE
INVARIANTS
    ServedToItsOwner
    RegisteredIsOpen
    LiveNeverOvercounts
\* Every socket is used once: the model stops when all are spent.
CHECK_DEADLOCK FALSE
