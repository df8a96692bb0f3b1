SPECIFICATION FairSpec
CONSTANTS
    Client = {c1, c2}
    Topic = {x}
    Msg = {m1, m2}
    TTL = 1
    Period = 1
    MaxBreaks = 1
    Nobody = Nobody
INVARIANTS
    NoStranded
    AtMostOnce
    NothingLost
PROPERTIES
    HandlersReturn
    WaitingDrains
