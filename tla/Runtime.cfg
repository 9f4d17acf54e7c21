SPECIFICATION MCSpec
CONSTANTS
    N = 2
    Required = {1}
    None = None
    MaxWrites = 3
    MaxStops = 3
    MaxStrays = 1
    LEASE = 7
    INTERVAL = 3
    TIMEOUT = 2
    Keys = {k1, k2}
    Callers = {c1, c2}
    TTL = 3
    FETCH_TIMEOUT = 2
    COOLDOWN = 1
    NoCall = NoCall
    Requests = {r1, r2, r3}
    Calls = {m1, m2}
    Workers = {w1, w2}
    Capacity = 1
    Flushers = {f1}
    Stopper = stop
    Sentinel = Sentinel
    MaxStopCalls = 1
    FirstCall = m1
    FirstWorker = w1
    Stores = {s1, s2}
    Files = {json, data}
    Control = json
    NoStore = NoStore
    Publishes = {p1, p2}
    Subscribes = {l1}
    Readies = {y1}
    NoProxy = NoProxy
    Fingerprints = {1, 2, 3, 4, 5}
    MaxStream = 7
    TailSize = 3
    MaxHalts = 2
    Registrations <- MCRegistrations
    MaxAsked = 3
CHECK_DEADLOCK FALSE
INVARIANTS
    NothingLost
    ReturnedIsCurrent
    ReadyMeansGranted
    RevokedKeysExpire
    DrainIsTrue
    NeverReplayed
    SharedTailIsExact
PROPERTIES
    FlushMeansSettled
    RestoredIsWhole
    Resumes
    VerifyEnds
    ControllerSettles
    EarlyProxiesServe
