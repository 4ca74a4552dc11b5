SPECIFICATION Spec
CONSTANTS
    Nodes = {1, 2, 3}
    Edges <- JoinEdges
    Approval = {1}
    GateTarget <- NoGate
    GateMax <- One
    GateAuto = {}
    Cap = 2
    MayFail = {}
    CommitsPerPhase = TRUE
    GitMayFail = TRUE
    MayConflict = TRUE
    MayOverspend = TRUE
    Ops = {"resume", "approve"}
    MaxOps = 3
    MaxCrashes = 0
INVARIANTS
    FreshInputs
PROPERTIES
    BudgetStops
    WaveSeesMergedTree
