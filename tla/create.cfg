SPECIFICATION Spec
CONSTANTS
    Goroutines = {g1, g2}
    Objects <- MCObjects
    Handles = {h1, h2}
    Templates = {t1, t2, t3, t4}
    Types <- MCTypes
    Names <- MCNames
    TypeOf <- MCTypeOf
    AddressOf <- MCAddressOf
    Addresses <- MCAddresses
    ErrorType = "Error"
    Own <- MCOwn
    Bases <- MCBases
    Lazy <- MCLazy
    Constructed <- MCLazy
    MaxCalls = 2
    Failed = Failed
    None = None
    MantissaBits = 3
    WordBits = 6
    IntKinds <- MCIntKinds
    StructKinds <- MCStructKinds
    GoTypes <- MCGoTypes
    MaxNesting = 3
    Texts <- MCTexts
    Keys <- MCKeys
    IndexKeys <- MCIndexKeys
    Samples <- MCSamples
    Passed <- MCPassed
CHECK_DEADLOCK FALSE
INVARIANTS ReceiversAgree OneWrapperPerObject OneClassPerType PromotedMembersFound RoundTripsAreFaithful UnmarshalIsTyped
PROPERTIES SettledClassesStay
SYMMETRY Symmetry
