CONSTANTS
    Parents = {p1, p2}
    Signatures = {e1, e2}
    MaxRetries = 3
    DefaultRetries = 3
SPECIFICATION SlotSpec
INVARIANTS ReplanIsTried RepetitionReplans
SYMMETRY SlotSymmetry
CHECK_DEADLOCK FALSE
