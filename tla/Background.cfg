SPECIFICATION BackgroundSpec
CONSTANTS
    w1 = w1
    w2 = w2
    j1 = j1
    j2 = j2
    j3 = j3
    k1 = k1
    k2 = k2
    k3 = k3
    Workers = {w1}
    Reserved = {w2}
    NodeOf <- OneNode
    Ids = {j1, j2, j3}
    Keys = {k1, k2, k3}
    MaxAttempts = 2
    MaxDefers = 1
    MaxStalls = 1
    MaxCrashes = 1
    Imports = {1}
    MaxNotifiers = 1
    MaxDeliveries = 1
    BusBuffer = 1
    MaxEvents = 2
    MaxEdits = 1
    MaxRestarts = 1
PROPERTIES
    NothingStranded
    InteractiveServed
    DeliverySettles
CHECK_DEADLOCK FALSE
