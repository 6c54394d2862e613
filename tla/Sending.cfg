SPECIFICATION SendingSpec
CONSTANTS
    Grabs = {1, 2}
    Titles = {ta, tb}
    Refused = {tb}
    MaxHandles = 2
    MaxRevision = 2
    MaxSubFaults = 1
    PlanEps = {1, 2}
    PlanRows = {1, 2}
    PlanIds = {1, 2}
    MaxPlanEvents = 1
    LegacyClient = TRUE
    PayloadRows = {1, 2}
    PayloadPaths = {1}
    LibraryPaths = {}
    MaxGens = 2
    MaxPayloadFaults = 1
INVARIANTS
    OneJobPerRequest
    OneDownloadPerWant
    OutcomeIsItsOwn
    OneProviderPerEpisode
    SentKeepsCustody
    PayloadOwned
PROPERTIES
    CleanupTakesItsOwn
CHECK_DEADLOCK FALSE
