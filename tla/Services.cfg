SPECIFICATION ServicesSpec
CONSTANTS
    Messages = {m1, m2}
    NoMessage = none
    BatchSize = 1
    MaxAttempts = 2
    MaxDelay = 2
    MaxRequeues = 1
    MaxRestarts = 1
    Supervisors = {s1, s2}
    StallAfter = 1
    Threads = {t1, t2}
    MaxSequence = 3
    MaxPrices = 3
    Sessions = {session}
    SessionTTL = 2
    MaxTime = 4
    RequestLimit = 2
    Window = 3
    MaxCount = 4
    MaxNow = 7
    HistorySize = 3
    MaxEvents = 4
    MaxMishaps = 2
    Replicas = {r1, r2, r3}
    VersionConfigs = {a, b}
    Unregistered = absent
    MaxRegistryFaults = 2
INVARIANTS
    ServicesTypeOK
    SentWasReceived AttemptsBounded NotAbandonedEarly
    AcceptedIsAuthentic
    RateFair
    VerifiedIsAsWritten ShortChainVerifies
    OneMeaningPerVersion
    GapsAccounted
PROPERTIES
    EveryMessageSettles
    SilenceEnds
CHECK_DEADLOCK FALSE
