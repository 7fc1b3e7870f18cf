SPECIFICATION FairSpec
CONSTANTS
    States = {s0, s1, s2}
    Root = s0
    MaxTactics = 2
    K = 2
INVARIANTS
    TypeOK
    StatusIsTruth
    DistanceIsShortest
    ProofReplays
PROPERTY
    SearchEnds
CHECK_DEADLOCK FALSE
