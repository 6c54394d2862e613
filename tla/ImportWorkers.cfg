SPECIFICATION Spec
CONSTANTS
    w1 = w1
    w2 = w2
    r1 = r1
    s1 = s1
    s2 = s2
    t1 = t1
    t2 = t2
    Workers = {w1, w2}
    Sweeps = {r1}
    Sources = {s1}
    Tickets = {t1, t2}
    MaxEpoch = 1
    MaxCrashes = 1
SYMMETRY Symmetry
CONSTRAINT SweepOnFirstAttempt
INVARIANTS
    LibraryMatchesDisk
PROPERTIES
    NoPublicationAfterFinal
CHECK_DEADLOCK FALSE
