SPECIFICATION Spec
CONSTANTS
    Objects = {o1, o2}
    GoErrors = {e1, e2}
    MaxDepth = 6
    Usage = {"plain", "foreign", "stale", "ownError"}
    Undefined = Undefined
    NULL = NULL
    Text = Text
    None = None
SYMMETRY Symmetry
CHECK_DEADLOCK FALSE
INVARIANTS AnswersMatch ErrorsArrive
PROPERTIES ErrorObjectsSettle
