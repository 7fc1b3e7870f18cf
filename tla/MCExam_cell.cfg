CONSTANTS
    Rows = {r1, r2, r3}
    Attempts = 2
    Concurrency = 2
    EmptyRunAbort = 2
    MaxAttempts = 2
    MaxSteps = 1
    TokenBudget = 1
    Headroom = 1
    MaxStarts = 2
SPECIFICATION Spec
INVARIANTS OneRowPerPair FinishedIsComplete WasteIsBounded OutcomeSeparatesFaults
SYMMETRY RowSymmetry
CHECK_DEADLOCK FALSE
