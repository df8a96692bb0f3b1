SPECIFICATION Spec
CONSTANTS
    p1 = p1
    k1 = k1
    k2 = k2
    Own <- None
    Again <- CliTwice
    MaxFaults = 1
INVARIANT
    CliOnce
CHECK_DEADLOCK FALSE
