SPECIFICATION Spec
CONSTANTS
    Messages = {m1}
    NoMessage = none
    BatchSize = 1
    MaxAttempts = 2
    MaxDelay = 2
    MaxRequeues = 1
    MaxRestarts = 0
INVARIANT DeadIsExhausted
CHECK_DEADLOCK FALSE
