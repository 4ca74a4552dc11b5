SPECIFICATION Spec
CONSTANTS
    Nodes = {1, 2, 3, 4}
    Edges <- ForkEdges
    Approval = {}
    GateTarget <- NoGate
    GateMax <- One
    GateAuto = {}
    Cap = 2
    MayFail = {}
    CommitsPerPhase = TRUE
    GitMayFail = FALSE
    MayConflict = FALSE
    MayOverspend = FALSE
    Ops = {}
    MaxOps = 0
    MaxCrashes = 0
PROPERTIES
    UpstreamMerged
