SPECIFICATION FairSpec
CONSTANTS
    e1 = e1
    e2 = e2
    e3 = e3
    l1 = l1
    l2 = l2
    None = None
    Events <- ThreeEvents
    Loaders <- TwoLoaders
    MaxFaults = 1
    MaxCrashes = 1
INVARIANTS
    OneLossPerTear
    FoldInOrder
    CacheCurrent
PROPERTIES
    Answered
CHECK_DEADLOCK FALSE
