SPECIFICATION Spec
CONSTANTS
    Clips = {}
    MaxRecords = 6
    MaxSessions = 1
    MaxOdd = 1
INVARIANT
    EngineAgrees
CHECK_DEADLOCK FALSE
