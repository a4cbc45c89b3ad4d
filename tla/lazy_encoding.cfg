SPECIFICATION Spec
CONSTANTS
    Undefined = Undefined
    Nothing = Nothing
    n = n
    s = s
    u = u
    Bad = Bad
    Ids <- MCIds
    U32 <- MCU32
    Named <- MCNamed
    Special <- MCSpecial
    UnknownTokenId = n
    Written <- MCWritten
    OwnU32 <- MCOwnU32
    OwnIds <- MCOwnIds
    OwnTypes <- MCOwnTypes
    MaterializeAfterReads = 2
    MaxLength = 2
    MaxWrites = 2
INVARIANTS MatchesEager
PROPERTIES BehavesAsArray
CHECK_DEADLOCK FALSE
VIEW Unanswered
