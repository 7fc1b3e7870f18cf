SPECIFICATION Spec
CONSTANTS
    s1 = s1
    s2 = s2
    s3 = s3
    Seeds <- ThreeSeeds
    Survivors = 1
    CrossoverCounts = {0, 2}
    TargetAccepted = 1
    ReserveBudget = 1
    OffspringCap = 2
    MaxGenerations = 2
    MaxWorked = 1
    MaxAdopted = 1
INVARIANTS
    TypeOK
    
    CrossoverBudgetSpent
    LockHoldsTheArm
    PlanFailsOnlyWhen
    CapWithholds
CHECK_DEADLOCK FALSE
