SPECIFICATION PSpec
CONSTANTS
    Parts = {"topk_parallel_cmp", "topk_minheap", "gate_compute", "assignment",
             "memory", "steps", "tested steps", "generation", "retriever",
             "p2p_buffer", "bm25_host"}
    PackLanes = 2
    KPacks = 2
    Packs = {2, 3}
    Scores = {1, 2}
    Huge = 9
    NumQuery = 2
    HeapK = 4
    HeapN = 6
    HeapScores = {1, 2, 3, 4}
    HeapHuge = 9
    LocalExperts = 12
    GateScores <- MirrorScores
    Kernels <- PipelineKernels
    Inputs <- PipelineInputs
    Outputs <- PipelineOutputs
    Pcie <- HostJump
    Profiles <- PipelineProfiles
    MemoryKinds = {"flat", "minmax", "hmt"}
    Names = {"a", "b"}
    SegmentEntries = 3
    PageSize = 2
    MaxEntries = 4
    Keys = {0, 1}
    MaxTokens = 5
    MaxCaches = 1
    TokensPerPage = 2
    BestK = 2
    Threshold = 1
    WordBits = 2
    HeadDim = 2
    Tests = {}
    Count = 2
    DType = "UINT32"
    MaxStamp = 4
    Lanes = 2
    Channels = 2
    Vocab = 8
    MaxFreq = 2
    CutIds = 1
    MaxSetups = 2
    Corpora <- MixedCorpora
    Queries <- MixedQueries
    MaxNewTokens = 6
    MaxRevisions = 2
    MaxCrashes = 3
INVARIANTS
    TopK
    HeapTopK
    GatePicks
    GateShares
    BestIsCheapest
    AttendsBestPages
    InsideCache
    BitmapSelects
    QueriesPartition
    LastSentenceSeen
    TextsOfIndex
    SkipsOnlyDirect
    RegistrationHeld
    Coherent
    TransferWhole
    PackedRight
    SetupOfMemory
    AnswerRight
PROPERTIES
    ListSpec
    NoResurrection
    FreedUse
CHECK_DEADLOCK FALSE
