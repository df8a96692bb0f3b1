SPECIFICATION Spec
CONSTANTS
    Clips = {"c1"}
    MaxRecords = 7
    MaxSessions = 3
    MaxOdd = 1
INVARIANTS
    AwayIsParking
    RunningIsTrip
    TileAgrees
    MediaShownOnce
PROPERTIES
    HistoryStands
CHECK_DEADLOCK FALSE
