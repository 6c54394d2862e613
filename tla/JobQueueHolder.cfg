SPECIFICATION Spec
CONSTANTS
    a = a
    b = b
    r = r
    j1 = j1
    j2 = j2
    j3 = j3
    k1 = k1
    k2 = k2
    k3 = k3
    Workers = {a, b}
    Reserved = {r}
    NodeOf <- TwoNodes
    Ids = {j1}
    Keys = {k1}
    MaxAttempts = 2
    MaxDefers = 0
    MaxStalls = 1
    MaxCrashes = 0
PROPERTIES
    ResultOnlyFromHolder
CHECK_DEADLOCK FALSE
