SPECIFICATION PSpec
CONSTANTS
    Parts = {"tested steps"}
    PackLanes = 1
    KPacks = 1
    Packs = {1}
    Scores = {1}
    Huge = 9
    NumQuery = 1
    HeapK = 4
    HeapN = 6
    HeapScores = {1}
    HeapHuge = 9
    LocalExperts = 12
    GateScores <- MirrorScores
    Kernels <- PipelineKernels
    Inputs <- PipelineInputs
    Outputs <- PipelineOutputs
    Pcie <- HostJump
    Profiles <- PipelineProfiles
    MemoryKinds = {"flat", "minmax", "hmt"}
    Names = {"a", "b"}
    SegmentEntries = 3
    PageSize = 2
    MaxEntries = 4
    Keys = {0, 1}
    MaxTokens = 5
    MaxCaches = 1
    TokensPerPage = 2
    BestK = 2
    Threshold = 1
    WordBits = 2
    HeadDim = 2
    Tests = {}
    Count = 2
    DType = "UINT32"
    MaxStamp = 4
    Lanes = 2
    Channels = 2
    Vocab = 8
    MaxFreq = 2
    CutIds = 1
    MaxSetups = 2
    Corpora <- MixedCorpora
    Queries <- MixedQueries
    MaxNewTokens = 6
    MaxRevisions = 2
    MaxCrashes = 3
INVARIANT TestsTell
CHECK_DEADLOCK FALSE
