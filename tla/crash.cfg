SPECIFICATION Spec
CONSTANTS
    Nodes = {1, 2, 3, 4}
    Edges <- DiamondEdges
    Approval = {}
    GateTarget <- NoGate
    GateMax <- One
    GateAuto = {}
    Cap = 2
    MayFail = {2}
    CommitsPerPhase = TRUE
    GitMayFail = FALSE
    MayConflict = FALSE
    MayOverspend = FALSE
    Ops = {"resume"}
    MaxOps = 1
    MaxCrashes = 1
PROPERTIES
    CompletedSurvives
    NoRunWithoutConsent
