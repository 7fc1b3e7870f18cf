CONSTANTS
    c1 = c1
    c2 = c2
    c3 = c3
    c4 = c4
    c5 = c5
    k1 = k1
    k2 = k2
    k3 = k3
    None = None
    Calls <- TheCalls
    Keys <- TheKeys
    KeyOf <- TheKeyOf
    Direct = {}
    MayCancel = {c1, c2}
    CacheMax = 2
SPECIFICATION Spec
INVARIANTS OneProcessPerKey NoOrphans CacheKeepsRecent
PROPERTIES ServiceSpec EveryCallEnds
CHECK_DEADLOCK FALSE
