SPECIFICATION Spec
CONSTANTS
    Goroutines = {g1, g2}
    IsolateIds = {i1, i2}
    ContextIds = {c1, c2}
    Usage = {"terminate"}
    None = None
CHECK_DEADLOCK FALSE
INVARIANTS TerminateIsSafe
