SPECIFICATION FairSpec
CONSTANTS
    None = None
    Contexts = {c1, c2}
    Objects = {o1}
    Primitives = {p1}
    Tuples = {t1, t2}
    GoValues = {v1, v2}
    MaxCount = 3
    Usage = {"join"}
INVARIANTS NoDanglingPointers NoUseAfterFree OneValuePerObject NoOverrelease CountCoversHolders
PROPERTIES GarbageIsFreed
CHECK_DEADLOCK FALSE
