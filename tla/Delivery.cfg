SPECIFICATION HandoverSpec
CONSTANTS
    m = m
    x = x
    c1 = c1
    c2 = c2
    b1 = b1
    b2 = b2
    NoConsumer = NoConsumer
    Files = {m, x}
    Excess = {x}
    Batches = {b1, b2}
    Consumers = {c1, c2}
    MaxEvents = 2
    StagedFiles = {1}
    MaxRepublish = 2
    MaxTroubles = 2
SYMMETRY Ids
INVARIANTS
    RemovedIsGone
    OneEventPerReviewedFile
    RunnerKnowsOurReceipt
    EndsAgree
PROPERTIES
    RemovalIsCovered
CHECK_DEADLOCK FALSE
