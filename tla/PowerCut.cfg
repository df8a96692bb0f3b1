SPECIFICATION FairSpec
CONSTANTS
    UnitDelay = 1
    HookDelay = 2
    OldDelay = 3
    Margin = 1
    SampleCount = 2
    MaxFaults = 1
    NoByte = NoByte
INVARIANTS
    ForcedCutNeverReboots
    VerifiedCutNeverStrands
    RebootUndoesVerifiedCut
    BootClearsCut
PROPERTIES
    ShutdownEnds
    BatteryPoweroffCuts
    OutcomeSpec
