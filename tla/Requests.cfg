SPECIFICATION FairSpec
CONSTANTS
    p1 = p1
    k1 = k1
    k2 = k2
    Own <- PluginOnce
    Again <- CliTwice
    MaxFaults = 1
INVARIANTS
    OutcomeIsTrue
PROPERTIES
    CallsEnd
CHECK_DEADLOCK FALSE
