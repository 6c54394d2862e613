SPECIFICATION SearchingSpec
CONSTANTS
    SearchRuns = {1}
    MaxTargets = 2
    MaxSearchCrashes = 1
    Day = 2
    HalfDay = 1
    Caps = {0, 5}
    InteractiveDivisor = 3
    InteractiveMost = 1
    RSSMost = 1
    SearchMost = 2
    MaxCalls = 6
    MaxDelay = 1
    Horizon = 2
    Seasons = {1}
    Indexers = {x}
    SeasonEps = {e}
    MaxPresses = 1
    ScopeFailures = 2
    MaxReplans = 1
    MaxEdits = 1
    Episodes = {1, 2}
    Releases <- TheReleases
    Foreign <- TheForeign
    Profiles <- TheProfiles
    Runtime = 45
    RegrabLimit = 2
    MaxDownloads = 3
    MaxFiles = 3
    MaxTouches = 1
INVARIANTS
    ForecastIsMet
    NotParkedWhileOwed
PROPERTIES
    NoGrabAfterCancelled
    PlanFromCurrentEvidence
    ReplacedByBetter
CHECK_DEADLOCK FALSE
