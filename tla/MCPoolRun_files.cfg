CONSTANTS
    PoolSize = 1
    Survivors = 0
    MaxGenerations = 2
    Keys = {k1}
    NoKey = NoKey
    GenZeroTargets = 0
    ReserveBudget = 1
    DefaultReserve = 1
    TargetAccepted = 1
    BarrenLimit = 2
    MaxBackfills = 0
    MaxCrashes = 1
SPECIFICATION Spec
INVARIANTS CertifiedOnce CountMatchesFile StoreFollowsRefs
CHECK_DEADLOCK FALSE
