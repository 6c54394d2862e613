SPECIFICATION FairSpec
CONSTANTS
    t1 = t1
    r1 = r1
    l1 = l1
    o1 = o1
    o2 = o2
    Tasks = {t1}
    Requests = {r1}
    Loops = {l1}
    Owners = {o1, o2}
    MaxDrains = 2
INVARIANTS
    TokensAccounted
    DrainHolds
    SleepersHaveReason
PROPERTIES
    DrainCompletes
    TriggerRuns
CHECK_DEADLOCK FALSE
