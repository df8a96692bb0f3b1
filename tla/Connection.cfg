SPECIFICATION FairSpec
CONSTANTS
    Msg = {m1, m2}
    MaxLinks = 3
CHECK_DEADLOCK FALSE
INVARIANTS
    OneOfEach
    InitFirst
    NeverResent
    StaysDown
PROPERTIES
    Reconnects
    Resubscribes
