SPECIFICATION Spec
CONSTANTS
    Nodes = {1, 2, 3}
    Edges <- ChainEdges
    Approval = {}
    GateTarget <- NoGate
    GateMax <- One
    GateAuto = {}
    Cap = 2
    MayFail = {}
    CommitsPerPhase = TRUE
    GitMayFail = TRUE
    MayConflict = FALSE
    MayOverspend = FALSE
    Ops = {"rerun"}
    MaxOps = 1
    MaxCrashes = 0
INVARIANTS
    VersionsIncrease
