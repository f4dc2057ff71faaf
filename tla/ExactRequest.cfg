CONSTANTS
    a1 = a1
    a2 = a2
    c1 = c1
    c2 = c2
    k1 = k1
    k2 = k2
    None = None
    Approvals = {a1, a2}
    Calls = {c1, c2}
    Cids = {k1, k2}
    Revocable = {k1}
    Retries = {r1}
    Sessions = {s1}
    TelegramOn = FALSE
    Targets <- MCTargets
    TargetOf <- MCTargetOf
    CidOf <- MCCidOf
    ApprovalTtl = 1
    CosignerTtl = 1
    MaxTime = 1
SPECIFICATION Spec
INVARIANTS
    ExactRequest
CHECK_DEADLOCK FALSE
