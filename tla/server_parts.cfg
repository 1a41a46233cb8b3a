\* Two widgets, three events and one reconnection between handlers; two workers,
\* two streams and two clicks; two events allowed in a window of two.
SPECIFICATION ServerSpec
CONSTANTS
    Keys = {k1, k2}
    MaxEvents = 3
    MaxBinds = 2
    MayTakeOver = FALSE
    CleanupSpawns = FALSE
    Workers = {w1, w2}
    MaxStreams = 2
    MaxClicks = 2
    MaxOutbox = 1
    Habits = {{}, {"roams"}, {"hasty"}, {"fails"}, {"aborts"}, {"hasty", "aborts"}}
    Addresses = {a1, a2}
    Limit = 2
    Window = 2
    SweepEvery = 2
    MaxTime = 4
    MaxCalls = 5
INVARIANTS
    InTurn
    TasksAreCounted
    RoutesHold
    LimiterIsExact
PROPERTIES
    TasksEnd
    ClicksArrive
    LeftIsDropped
\* The client may fall silent.
CHECK_DEADLOCK FALSE
