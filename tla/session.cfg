SPECIFICATION Spec
CONSTANTS
    Slot = {s1, s2}
    Boot = boot
    WorkerCount = 2
    MaxAttempts = 2
    Environments <- Either
    HasThreadedArtifact = TRUE
    Requests = {"auto", "single"}
    Htk = TRUE
    LazyWorkerImage = TRUE
SYMMETRY SlotSymmetry
INVARIANTS ThreadsOwned OneActivation CloseSettlesEncodes
PROPERTY SessionPromise
