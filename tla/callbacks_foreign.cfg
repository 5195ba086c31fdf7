SPECIFICATION Spec
CONSTANTS
    Objects = {o1, o2, o3}
    GoErrors = {e1, e2}
    MaxDepth = 5
    Usage = {"foreign"}
    Undefined = Undefined
    NULL = NULL
    Text = Text
    None = None
INVARIANTS EveryAnswerIsSafe
