CONSTANTS
    Calls = {c1, c2, c3}
    MayWall = {}
    MayCancel = {}
    Workers = 2
    Closer = closer
    None = None
SPECIFICATION Spec
INVARIANTS VerdictIsOwn ClosedMeansQuiet
PROPERTY ServiceSpec
CHECK_DEADLOCK FALSE
