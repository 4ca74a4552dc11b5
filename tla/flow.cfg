SPECIFICATION Spec
CONSTANTS
    Nodes = {1, 2, 3, 4}
    Edges <- WideEdges
    Approval = {}
    GateTarget <- NoGate
    GateMax <- One
    GateAuto = {}
    Cap = 2
    MayFail = {1}
    CommitsPerPhase = TRUE
    GitMayFail = TRUE
    MayConflict = FALSE
    MayOverspend = FALSE
    Ops = {"pause", "resume", "cancel", "delete"}
    MaxOps = 2
    MaxCrashes = 0
INVARIANTS
    NoLostWakeup
    RegistryKnowsRuns
    CapRespected
    RestIsSettled
    MergeAlone
    ClaimHasOneHolder
PROPERTIES
    NoRunWithoutConsent
    DeletedStartsNothing
