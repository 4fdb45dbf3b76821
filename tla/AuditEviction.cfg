SPECIFICATION AuditSpec
CONSTANTS
    HistorySize = 3
    MaxEvents = 4
    MaxMishaps = 2
INVARIANT RetainedChainVerifies
CHECK_DEADLOCK FALSE
