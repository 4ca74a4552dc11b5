SPECIFICATION FairSpec
CONSTANTS
    Nodes = {1, 2, 3}
    Edges <- ChainEdges
    Approval = {}
    GateTarget <- GateAtTwo
    GateMax <- Two
    GateAuto = {2}
    Cap = 2
    MayFail = {3}
    CommitsPerPhase = FALSE
    GitMayFail = FALSE
    MayConflict = FALSE
    MayOverspend = TRUE
    Ops = {"approve", "pause", "resume"}
    MaxOps = 3
    MaxCrashes = 0
INVARIANTS
    AutoLoopBounded
PROPERTIES
    VerdictFirst
    SupersededForGood
    Settles
