SPECIFICATION FairSpec
CONSTANTS
    None = None
    Diverges = Diverges
    Specifiers <- MCSpecifiers
    Ids <- MCIds
    Module <- MCModule
    Refused <- MCRefused
    Parts <- MCParts
    Usage = {"nativeFails"}
    Components <- MCComponents
    Extensions <- MCExtensions
    Scopes <- MCScopes
    FileSystems <- MCFileSystems
    LongestPath = 6
    Paths <- MCPaths
    Names <- MCNames
    Nothing = None
    Endless = Diverges
INVARIANTS NoReentry AnswersAreLoaded AnswersAreStableFiles ResolveAgrees
PROPERTIES EveryRequireReturns ImplementsLoader
