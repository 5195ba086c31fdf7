SPECIFICATION Spec
CONSTANTS
    None = None
    Isolates = {i1, i2}
    Goroutines = {g1, g2, g3}
    UserContexts = {u1, u2, u3}
    FreshContexts = {n1}
    Releasers = {r1, r2}
    MaxFrames = 3
    MaxDepth = 1
    Usage = {}
SYMMETRY Symmetry
INVARIANTS MutualExclusion EnteredOncePerSession ReleasedOnce
PROPERTIES ImplementsMonitor
