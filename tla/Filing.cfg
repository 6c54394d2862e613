SPECIFICATION FilingSpec
CONSTANTS
    w1 = w1
    s1 = s1
    s2 = s2
    t1 = t1
    Workers = {w1}
    Sweeps = {}
    Sources = {s1, s2}
    Tickets = {t1}
    MaxEpoch = 1
    MaxCrashes = 0
    old1 = old1
    old12 = old12
    e1 = e1
    e2 = e2
    Ops = {1}
    Old = {old1, old12}
    Episodes = {e1, e2}
    EpisodesOf <- SharedEpisodes
    NamedEpisodes <- BothNamed
    Foreign = {}
    MaxRepFaults = 2
    Works = {1, 2}
    TitleOf <- SameTitle
    Folders <- OneFolder
    AddRequests <- EitherProvider
    Stocked <- EmptyOrOne
    Callers = {c1, c2}
    MaxItems = 2
    MaxLibraryCalls = 2
    n = n
    Names = {n}
    NamesSaying = {n}
    MaxSize = 1
    MaxDiskChanges = 1
    MaxSweeps = 1
    MaxImports = 1
INVARIANTS
    OneItemPerIdentity
    PendingBelongsToLiveAttempt
    CommittedFileInLibrary
    CompletedImportIsWhole
    ImportAttributionWins
PROPERTIES
    UsableKeptUntilReplaced
    OnlyReviewedBytesGo
    HandedOutIndexIsCurrent
    ImplementsLifecycle
CHECK_DEADLOCK FALSE
