SPECIFICATION Spec
CONSTANTS
    a = a
    b = b
    r = r
    j1 = j1
    j2 = j2
    j3 = j3
    k1 = k1
    k2 = k2
    k3 = k3
    Workers = {a, b}
    Reserved = {r}
    NodeOf <- TwoNodes
    Ids = {j1, j2}
    Keys = {k1, k2}
    MaxAttempts = 2
    MaxDefers = 1
    MaxStalls = 2
    MaxCrashes = 2
SYMMETRY JobSymmetry
INVARIANTS
    OneActivePerKey
    OneRunnerPerJob
CHECK_DEADLOCK FALSE
