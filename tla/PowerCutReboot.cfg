SPECIFICATION Spec
CONSTANTS
    UnitDelay = 1
    HookDelay = 2
    OldDelay = 3
    Margin = 1
    SampleCount = 2
    MaxFaults = 0
    NoByte = NoByte
INVARIANT
    RebootCancelsCut
