SPECIFICATION FairSpec
CONSTANTS
    timer = timer
    caller = caller
    None = None
    Flushes <- TwoFlushes
    MaxEdits = 3
    MaxExternal = 1
    MaxFaults = 1
    MaxCrashes = 1
    MaxLosses = 0
INVARIANTS
    OneWriter
    AckedOnDisk
PROPERTIES
    NeverOlder
    SavedInTheEnd
CHECK_DEADLOCK FALSE
