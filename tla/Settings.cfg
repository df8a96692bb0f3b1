SPECIFICATION Spec
CONSTANTS
    MaxInputs <- Inputs
    MaxFaults = 1
INVARIANTS
    Agreement
    OneSaver
    FlagsHeld
CHECK_DEADLOCK FALSE
