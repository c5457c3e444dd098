SPECIFICATION DSpec
CONSTANTS
    N = 4
    NTileMax = 3
    LocalExperts = 3
    LocalK = 2
    NSlots = 2
    TokenLanes = 2
    HiddenVecs = 1
    TopK = 3
    CountMod = 16
    LocalExpertBase = 0
    HdrDepth = 1
    XDepth = 1
INVARIANTS
    TypeOK
    StackBound
    Conservation
    LanesDistinct
    AllDispatched
    RoundBound
PROPERTY
    PromiseSpec
