SPECIFICATION Spec
CONSTANTS
    None = None
    Isolates = {i1, i2}
    Goroutines = {g1, g2}
    UserContexts = {u1, u2}
    FreshContexts = {n1}
    Releasers = {}
    MaxFrames = 3
    MaxDepth = 2
    Usage = {"crossIsolate", "shareContext", "detached", "hookPanics"}
SYMMETRY Symmetry
INVARIANTS CallbackFindsSession SessionInv NothingLeftBehind
PROPERTIES NoTakeover
CHECK_DEADLOCK FALSE
