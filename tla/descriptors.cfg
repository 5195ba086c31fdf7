SPECIFICATION Spec
CONSTANTS
    Keys = {x, y}
    Inherited = {y}
    Functions = {f}
    Data = {d}
    Undefined = Undefined
    None = None
INVARIANT DefinedAsAsked
