SPECIFICATION KSpec
CONSTANTS
    N = 3
    NTileMax = 2
    LocalExperts = 3
    LocalK = 2
    NSlots = 2
    TokenLanes = 2
    HiddenVecs = 1
    TopK = 2
    CountMod = 16
    LocalExpertBase = 0
    HdrDepth = 1
    XDepth = 1
    HalfVecs = 1
    PartialDepth = 1
INVARIANTS
    OutputExact
    NothingLeft
PROPERTIES
    KernelReturns
