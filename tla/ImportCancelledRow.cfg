SPECIFICATION Spec
CONSTANTS
    w1 = w1
    w2 = w2
    r1 = r1
    s1 = s1
    s2 = s2
    t1 = t1
    t2 = t2
    Workers = {w1}
    Sweeps = {r1}
    Sources = {s1}
    Tickets = {t1}
    MaxEpoch = 0
    MaxCrashes = 0
PROPERTIES
    CancelledRowStays
CHECK_DEADLOCK FALSE
