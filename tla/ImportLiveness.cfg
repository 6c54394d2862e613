SPECIFICATION FairSpec
CONSTANTS
    w1 = w1
    w2 = w2
    r1 = r1
    s1 = s1
    s2 = s2
    t1 = t1
    t2 = t2
    Workers = {w1}
    Sweeps = {}
    Sources = {s1}
    Tickets = {t1}
    MaxEpoch = 1
    MaxCrashes = 1
PROPERTIES
    CancelSettles
    JobsEnd
CHECK_DEADLOCK FALSE
