SPECIFICATION DSpec
CONSTANTS
    N = 2
    NTileMax = 2
    LocalExperts = 3
    LocalK = 2
    NSlots = 2
    TokenLanes = 2
    HiddenVecs = 1
    TopK = 3
    CountMod = 16
    LocalExpertBase = 3
    HdrDepth = 1
    XDepth = 1
INVARIANT AllDispatched
