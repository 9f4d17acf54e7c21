SPECIFICATION CutoverSpec
CONSTANTS
    Fingerprints = {a, b, c}
    MaxStream = 5
    TailSize = 3
CHECK_DEADLOCK FALSE
INVARIANT CutNeverSkips
