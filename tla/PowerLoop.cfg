SPECIFICATION FairSpec
CONSTANTS
    Plugins = {p}
    Modes = {"disabled", "short", "long"}
    Wake <- WakeOf
    MaxWake = 3
    LoopDelay = 1
    RetryGap = 1
    InitialKeep = 2
    BeaconKeep = 1
    KeepTimes = {2}
    AlarmNear = 1
    MaxCalls = 1
    MaxChanges = 2
    MaxFaults = 1
INVARIANTS
    TargetFollows
    LossWasReal
    MarkerMeansBeacon
    SleepIsArmed
PROPERTIES
    AttemptsSpaced
    PowerLossHalts
