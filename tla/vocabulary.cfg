SPECIFICATION Spec
CONSTANTS
    Loads = {load}
    Names = {"cl100k"}
    vocab = vocab
    edit = edit
    Files = {vocab, edit}
    Pinned <- MCPinned
    good = good
    piece = piece
    forged = forged
    broken = broken
    Contents = {good, piece, forged, broken}
    WellFormed = {good, piece}
    Readable = {good, piece, forged}
    Pieces = {piece}
    Buffers = {b1, b2, b3}
    ClientBuffers = {}
    Nothing = Nothing
    Sessions = {s1, s2}
CHECK_DEADLOCK FALSE
INVARIANTS TypeOK FetchedIsPinned MadeFromHandle HeldAfterRefusal OnlyFirstLoadsSplit
PROPERTIES LoadSettles
