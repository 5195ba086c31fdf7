SPECIFICATION FairSpec
CONSTANTS
    Goroutines = {g1, g2, g3}
    IsolateIds = {i1, i2}
    ContextIds = {c1, c2}
    Usage = {"terminate", "joinToTerminate"}
    None = None
CHECK_DEADLOCK FALSE
INVARIANTS InitializedFirst StarterAnswersItsCaller ContextsDieFirst FoundIsLive
PROPERTIES EveryNewIsolateReturns
