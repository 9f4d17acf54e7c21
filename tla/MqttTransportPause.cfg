SPECIFICATION Spec
CONSTANTS
    Filters = {f}
    Topics = {f}
    Resubscribe = TRUE
    MaxClients = 2
    MaxDrops = 0
    MaxRejects = 0
    MaxPackets = 3
CHECK_DEADLOCK FALSE
INVARIANTS
    PauseHolds
