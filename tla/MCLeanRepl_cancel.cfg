CONSTANTS
    Calls = {c1, c2, c3}
    MayWall = {}
    MayCancel = {c1}
    Workers = 2
    Closer = closer
    None = None
SPECIFICATION Spec
INVARIANT VerdictIsOwn
CHECK_DEADLOCK FALSE
