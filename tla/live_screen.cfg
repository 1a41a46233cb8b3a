\* Ticks, dialogs, clicks, undecodable frames, a scene that cannot be encoded,
\* failing connections, a session that is resumed or has expired.
SPECIFICATION FairSpec
CONSTANTS
    MaxTicks = 3
    MaxClicks = 3
    MaxCuts = 2
    MaxGarbled = 2
    MaxSpoilt = 2
    MaxOutbox = 2
INVARIANTS
    RepairIsComing
    EventsKept
PROPERTIES
    Converges
CHECK_DEADLOCK FALSE
