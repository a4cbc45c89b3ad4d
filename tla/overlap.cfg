SPECIFICATION FairSpec
CONSTANTS
    Text <- MCText
    Size <- MCSize
    IsEdge <- MCIsEdge
    Cut <- MCCut
    Omega = 2
    ChunkSizes = {3, 4, 5}
    Sizes = {0, 4, 7}
    Tables <- Pairs
INVARIANTS TypeOK ChunkedIsExact RangesOverlap NothingDropped EnlargementsBounded
PROPERTY Ends
