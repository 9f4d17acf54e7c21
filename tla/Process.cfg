SPECIFICATION MCSpec
CONSTANTS
    Filters = {f, g}
    Topics = {f}
    Resubscribe = TRUE
    MaxClients = 3
    MaxDrops = 1
    MaxRejects = 1
    MaxPackets = 4
    Procs = {p, q}
    Modes = {"wait", "handover", "force"}
    None = None
    MaxCrashes = 1
    MaxLosses = 1
    MaxFailures = 1
    MaxActivations = 2
    Outputs = {x, y}
    Persistent = {y}
    Managed = {x}
    Work = {w1}
    Attempts = {a1, a2}
    NoAttempt = NoAttempt
    AppShutdown = TRUE
    MaxFaults = 1
CHECK_DEADLOCK FALSE
INVARIANTS
    ReadyMeansHeld
    OneClient
    SingleOwner
    ReceiptIsTrue
    NoSilentLoss
PROPERTIES
    TransportSettles
    PromotionHeard
    WaitingTakesOver
    RetrySucceeds
