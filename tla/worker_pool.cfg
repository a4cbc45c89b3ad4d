SPECIFICATION FairSpec
CONSTANTS
    NotText = NotText
    Call <- MCCall
    Texts <- MCTexts
    WorkerCount = 2
    BatchSize = 2
    IdCount <- MCIdCount
CHECK_DEADLOCK FALSE
INVARIANTS AnswersInOrder NothingStranded TelemetryOfOne
PROPERTIES EncodesSettle
