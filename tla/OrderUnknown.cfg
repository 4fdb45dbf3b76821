SPECIFICATION FairSpec
CONSTANTS
    r1 = r1
    r2 = r2
    c1 = c1
    a1 = a1
    NoId = NoId
    Requests = {r1}
    Automated = {}
    ClientIds = {c1}
    Cid <- MCOneId
    Approvals = {a1}
    ApprovalOf <- MCApprovalOf
    CancelCalls = {}
    Quantity = 1
    MaxRestarts = 0
    Settings <- MCSandbox
    LateFailures = FALSE
PROPERTY UnknownIsResolved
