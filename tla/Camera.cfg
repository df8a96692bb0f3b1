SPECIFICATION FairSpec
CONSTANTS
    c1 = c1
    c2 = c2
    Callers = {c1, c2}
    Kinds <- TwoCallers
    Bands = {0, 2, 3}
    MaxChanges = 1
    MaxFaults = 1
INVARIANTS
    OneCamera
    StateHasRecorder
PROPERTIES
    Drained
    StopsForGood
    StreamEnds
    PowerStarts
CHECK_DEADLOCK FALSE
