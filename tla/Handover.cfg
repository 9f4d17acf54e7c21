SPECIFICATION Spec
CONSTANTS
    Procs = {s, t}
    First = s
    Proxies = {x, y}
    None = None
    Fingerprint <- Distinct2
    MaxInputs = 2
    Before = 0
    TailLength = 2
    PreviewLength = 2
    Managed = {x}
    MaxRequests = 1
    MaxFins = 1
    MaxLosses = 0
    MaxFailures = 1
    MaxCrashes = 0
CHECK_DEADLOCK FALSE
INVARIANTS
    SingleConsumer
    HandledOnceInOrder
    StateIsComplete
    CleanEndMeansTaken
