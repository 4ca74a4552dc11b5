SPECIFICATION Spec
CONSTANTS
    timer = timer
    caller = caller
    None = None
    Flushes <- OneFlush
    MaxEdits = 5
    MaxExternal = 0
    MaxFaults = 1
    MaxCrashes = 1
    MaxLosses = 1
PROPERTIES
    TranscriptKept
CHECK_DEADLOCK FALSE
