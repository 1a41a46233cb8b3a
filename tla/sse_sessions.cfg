\* One page with three streams: everything the environment can do to it; or it
\* comes back before its drop is noticed and keeps up.
SPECIFICATION EitherSpec
CONSTANTS
    id1 = id1
    id2 = id2
    MaxStreams = 3
    Cap = 1
    ReplayBuffer = 1
    MaxTicks = 2
    MaxClicks = 0
    SendWindow = 2
    PromptReconnect = FALSE
    FirstFrameArrives = FALSE
    PromptUnwind = FALSE
    AuthSuspends = TRUE
    AbortBeforeBody = TRUE
    ViewMayRaise = TRUE
    Ids = {id1}
INVARIANTS
    StreamsHold
PROPERTIES
    PromptIsKept
    PromptCatchesUp
    MirrorsTheScene
\* Every request is used once: the model stops when all are spent.
CHECK_DEADLOCK FALSE
