SPECIFICATION FairSpec
CONSTANTS
    Slot = {s1, s2}
    Boot = boot
    WorkerCount = 1
    MaxAttempts = 2
    Environments <- Either
    HasThreadedArtifact = TRUE
    Requests = {"single", "worker", "shared"}
    Htk = TRUE
    LazyWorkerImage = TRUE
PROPERTIES EncodesSettle SwitchesSettle CloseFrees
