SPECIFICATION FairSpec
CONSTANTS
    None = None
    Isolates = {i1}
    Goroutines = {g1, g2}
    UserContexts = {u1}
    FreshContexts = {n1, n2, n3}
    Releasers = {}
    MaxFrames = 2
    MaxDepth = 1
    Usage = {"shareContext", "detached"}
INVARIANTS NoHoldAndWait
PROPERTIES EveryCallReturns
CHECK_DEADLOCK FALSE
