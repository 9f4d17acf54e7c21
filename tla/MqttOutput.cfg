SPECIFICATION MCSpec
CONSTANTS
    Pubs = {1, 2, 3}
    Attrs = 2
    MaxPending = 2
    Backpressure = TRUE
    MaxWaiting = 2
    Concurrency = 2
    Delayed = TRUE
    Flushers = {f1}
    Stopper = Stopper
    MaxPostFaults = 1
    WorkerMayFail = TRUE
INVARIANTS
    PendingBounded
    PublishedInCallOrder
PROPERTIES
    DrainMeansPublished
    NothingAfterFence
    CallsEnd
    StopSettlesAll
