SPECIFICATION FairSpec
CONSTANTS
    Hosts = {h1, h2}
    Promises = {p1}
    Fresh = Fresh
    None = None
CHECK_DEADLOCK FALSE
INVARIANTS NoLostCheckpoint
PROPERTIES AwaitAnswers EveryAwaitReturns
