SPECIFICATION Spec
CONSTANTS
    NodeRuntime = TRUE
    Capacity = 2
    VocabSize = 6
    Present <- MCPresent
    TokenBytes <- MCTokenBytes
    Seeds <- MCSeeds
    MaxTableIds = 5
    SampleSize = 2
    MaxDirty <- MCMaxDirty
    MaxMixed <- MCMaxMixed
    Penalty = 1
    NativeAvailable = TRUE
    DirectIndex = TRUE
    MaxHotEntries = 2
    MaxHotPayloadBytes = 4
    MinCoverage <- MCMinCoverage
    ManyTokens = 4
    MaxDistinct = 3
    Invalid = Invalid
    Requests <- MCRequests
    Inputs <- MCInputs
    Elements <- MCElements
    MaxLength = 2
    MaxDepth = 2
CHECK_DEADLOCK FALSE
INVARIANTS Exact CachesSound ScratchIsolated ResolvedComposes
