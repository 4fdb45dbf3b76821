SPECIFICATION FairSpec
CONSTANTS
    r1 = r1
    r2 = r2
    c1 = c1
    a1 = a1
    NoId = NoId
    Requests = {r1, r2}
    Automated = {}
    ClientIds = {c1}
    Cid <- MCOneId
    Approvals = {a1}
    ApprovalOf <- MCApprovalOf
    CancelCalls = {k1}
    Quantity = 2
    MaxRestarts = 1
    Settings <- MCLiveRedis
    LateFailures = TRUE
INVARIANTS TypeOK OneApprovalPerPlacement
PROPERTIES Converges GateReopens
