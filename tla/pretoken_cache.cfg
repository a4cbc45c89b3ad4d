SPECIFICATION Spec
CONSTANTS
    a = a
    b = b
    c = c
    d = d
    x = x
    y = y
    z = z
    Short = {a, b, c, d}
    Long = {x, y, z}
    None = None
    NoId = NoId
    KeyHash <- MCKeyHash
    SampledHash <- MCSampledHash
    FullHash <- MCFullHash
    MinSlots = 2
    MaxSampledDisplacement = 0
    Token = {1, 2, 3, 4, 5, 6, 9}
    Merged <- MCMerged
    InlineLimit = 8
    FirstIds <- MCFirstIds
    FreeIds = {6}
    Contents = {b, c}
    SpecialIds = {6}
    Capacities = {2, 4}
    LongCapacities = {2}
    PretokenChunk = 2
    Batches <- MCBatches
    MaxOut = 3
    MaxCalls = 2
INVARIANTS EmitsEncodings EmitLoopSafe WalksFind
