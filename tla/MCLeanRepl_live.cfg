CONSTANTS
    Calls = {c1, c2, c3}
    MayWall = {c1, c2, c3}
    MayCancel = {c2}
    Workers = 2
    Closer = closer
    None = None
SPECIFICATION Spec
INVARIANT MathlibsAreBounded
PROPERTY EveryCallReturns
CHECK_DEADLOCK FALSE
