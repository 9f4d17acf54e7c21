SPECIFICATION RestoreSpec
CONSTANTS
    Stores = {s1, s2}
    Files = {json, data}
    Control = json
    NoStore = NoStore
    MaxHalts = 1
CHECK_DEADLOCK FALSE
INVARIANT IncompleteBlocksStartup
