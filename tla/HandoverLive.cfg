SPECIFICATION FairSpec
CONSTANTS
    Procs = {s, t}
    First = s
    Proxies = {x}
    None = None
    Fingerprint <- Distinct3
    MaxInputs = 3
    Before = 1
    TailLength = 2
    PreviewLength = 2
    Managed = {}
    MaxRequests = 2
    MaxFins = 2
    MaxLosses = 1
    MaxFailures = 1
    MaxCrashes = 1
CHECK_DEADLOCK FALSE
PROPERTIES
    ReleaseIsSucceeded
    FailureEndsPassive
