SPECIFICATION FairSpec
CONSTANTS
    Timer = Timer
    m1 = m1
    e1 = e1
    r1 = r1
    r2 = r2
    None = None
    Kinds <- AllKinds
    Manual <- OneCall
    Editors <- OneEditor
    Runs <- TwoRuns
    MaxHistory = 1
    MaxTime = 1
    MaxRequests = 1
    MaxFaults = 1
    MaxCrashes = 1
INVARIANTS
    NoOverlap
PROPERTIES
    MarkAnsweredOnce
    DueIsAnswered
    FlagReleased
    
CHECK_DEADLOCK FALSE
