SPECIFICATION Spec
CONSTANTS
    Sessions <- MCSessions
    Texts <- MCTexts
    InitialBytes = 4
    ShrinkBoundBytes = 8
    MaxAbandoned = 2
    MaxLeft = 1
CHECK_DEADLOCK FALSE
INVARIANTS MemorySafe NothingHeld ResidentExact
