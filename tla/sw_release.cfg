\* The worker alone, through two more releases in one tab.
SPECIFICATION FairSpec
CONSTANTS
    Part = {"shell"}
    Tabs = {t1}
    Pages = {p1}
    MaxReleases = 2
    MaxCount = 7
    WindowSize = 3
    MaxRebuilds = 1
    NoKey = NoKey
    Nodes <- MCNodes
    Height <- MCHeight
    Befores <- MCBefores
    Afters <- MCAfters
    Ids = {a, b}
    MaxClock = 4
    MaxErrors = 2
    ErrorsAnswer = "first"
    LocalEdits = TRUE
    PendingWired = TRUE
PROPERTIES NewestReleaseRuns
CHECK_DEADLOCK FALSE
