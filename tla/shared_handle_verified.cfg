SPECIFICATION Spec
CONSTANTS
    Slot = {s1, s2}
    Boot = boot
    WorkerCount = 1
    MaxAttempts = 2
    Environments <- Isolated
    HasThreadedArtifact = TRUE
    Requests = {"single"}
    Htk = TRUE
    LazyWorkerImage = TRUE
INVARIANT SharedHandleVerified
CHECK_DEADLOCK FALSE
