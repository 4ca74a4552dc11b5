SPECIFICATION FairSpec
CONSTANTS
    node1 = node1
    node2 = node2
    gitUi = gitUi
    autoCommit = autoCommit
    Callers <- FourCallers
PROPERTIES
    LockSpec
    HandOffFifo
    Served
