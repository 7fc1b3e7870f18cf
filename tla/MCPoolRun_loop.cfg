CONSTANTS
    PoolSize = 1
    Survivors = 0
    MaxGenerations = 3
    Keys = {k1}
    NoKey = NoKey
    GenZeroTargets = 0
    ReserveBudget = 1
    DefaultReserve = 1
    TargetAccepted = 1
    BarrenLimit = 2
    MaxBackfills = 1
    MaxCrashes = 0
SPECIFICATION Spec
INVARIANT ResultsReachFile
PROPERTIES SilenceStopsTheRun RunEnds
CHECK_DEADLOCK FALSE
