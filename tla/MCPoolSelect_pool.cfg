CONSTANTS
    p1 = p1
    p2 = p2
    c1 = c1
    g1 = g1
    g2 = g2
    g3 = g3
    Unknown = Unknown
    Ids <- TheIds
    Archive <- TheArchive
    Signatures <- TheSignatures
    SignatureOf <- TheSignatureOf
    PoolSize = 2
    NumResults = 2
    Eligible = {p2}
    OneSurface = TRUE
    MaxDecisions = 3
SPECIFICATION Spec
INVARIANTS NoDuplicateId EligibleRowsArePool PartialIsForced
CHECK_DEADLOCK FALSE
