SPECIFICATION DrainFairSpec
CONSTANTS
    Outputs = {x, y}
    Persistent = {y}
    Managed = {x}
    Work = {w1}
    Attempts = {a1}
    NoAttempt = NoAttempt
    AppShutdown = FALSE
    MaxFaults = 1
CHECK_DEADLOCK FALSE
PROPERTY StopCanBeRepeated
