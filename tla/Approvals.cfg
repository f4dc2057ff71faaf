CONSTANTS
    a1 = a1
    a2 = a2
    c1 = c1
    c2 = c2
    k1 = k1
    k2 = k2
    None = None
    Approvals = {a1, a2}
    Calls = {c1, c2}
    Cids = {k1, k2}
    Revocable = {k1}
    Retries = {r1, r2}
    Sessions = {s1, s2}
    TelegramOn = TRUE
    Targets <- MCTargets
    TargetOf <- MCTargetOf
    CidOf <- MCCidOf
    ApprovalTtl = 1
    CosignerTtl = 1
    MaxTime = 1
    Events = {e1, e2, e3, e4}
    Genesis = Genesis
    NoEvent = NoEvent
SPECIFICATION ApprovalsSpec
INVARIANTS
    
    
    OnePendingPerTarget
    CrashLosesTail
    ProofVerifies
PROPERTIES
    DecisionStands
    ForksByOverlapOnly
SYMMETRY Symmetry
CHECK_DEADLOCK FALSE
