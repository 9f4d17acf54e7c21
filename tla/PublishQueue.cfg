SPECIFICATION MCSpec
CONSTANTS
    Msgs = {1, 2, 3}
    Callers = {c1}
    Durable = FALSE
    MaxRecords = 2
    MemoryRecords = 2
    MaxStorageFaults = 1
    MaxCrashes = 1
    NoRecord = NoRecord
INVARIANTS
    NoAdmissionLost
PROPERTIES
    EventualDelivery
    CloseSettles
    DrainMeansDelivered
    LossOnlyBySuddenDeath
    ImplementsOutbox
