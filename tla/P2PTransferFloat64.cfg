SPECIFICATION P2PSpec
CONSTANTS
    Count = 2
    DType = "FLOAT64"
    MaxStamp = 2
INVARIANT TransferWhole
