\* The worker through two more releases in one tab, a list of seven items and
\* windows of three, lists of up to three children, one tab that pulls.
SPECIFICATION FairSpec
CONSTANTS
    Part = {"shell", "list", "tree", "pull"}
    Tabs = {t1}
    Pages = {p1}
    MaxReleases = 2
    MaxCount = 7
    WindowSize = 3
    MaxRebuilds = 1
    NoKey = NoKey
    Nodes <- MCNodes
    Height <- MCHeight
    Befores <- MCBefores
    Afters <- MCAfters
    Ids = {a, b}
    MaxClock = 4
    MaxErrors = 2
    ErrorsAnswer = "first"
    LocalEdits = TRUE
    PendingWired = TRUE
INVARIANTS
    WindowIsTrue
    PatchesFit
    NothingSkipped
PROPERTIES
    UnrushedBoots
    UpdateIsTaken
    ReleasesArrive
    NeverStranded
    CatchesUp
\* A batch ends, and the user may leave.
CHECK_DEADLOCK FALSE
