\* One change and one restart, under a hasty application that reads one key and
\* under a careful one that reads two.
SPECIFICATION FairHastySpec
CONSTANTS
    Keys <- TwoKeys
    Prefixes <- TwoPrefixes
    Mutations = {m1}
    Readers = {r1}
    StaleMs = 1
    CacheMs = 2
    Windows = {1}
    MaxReloads = 1
    MayDrop = TRUE
    Habits <- TwoHabits
    Nothing = Nothing
INVARIANTS
    CarefulReadsTrue
PROPERTIES
    AllAreAnswered
    ScreenEndsCurrent
