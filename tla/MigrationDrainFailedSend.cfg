SPECIFICATION DrainFairSpec
CONSTANTS
    Outputs = {x}
    Persistent = {}
    Managed = {x}
    Work = {w1}
    Attempts = {a1}
    NoAttempt = NoAttempt
    AppShutdown = FALSE
    MaxFaults = 0
CHECK_DEADLOCK FALSE
PROPERTY FailedSendBlocksDrain
