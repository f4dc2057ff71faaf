CONSTANTS
    a1 = a1
    a2 = a2
    c1 = c1
    c2 = c2
    k1 = k1
    k2 = k1
    None = None
    Approvals = {a1, a2}
    Calls = {c1, c2}
    Cids = {k1}
    Revocable = {k1}
    Retries = {r1, r2}
    Sessions = {s1}
    TelegramOn = FALSE
    Targets <- MCTarget
    TargetOf <- MCTargetOf
    CidOf <- MCCidOf
    ApprovalTtl = 1
    CosignerTtl = 1
    MaxTime = 1
    Bots = {p1, p2}
    Chats = {d1}
    LinkTokens = {t1}
    Prompts = {q1}
    NoChat = NoChat
    Saved = {}
    MaxUpdates = 2
    Events = {e1, e2, e3}
    Genesis = Genesis
    NoEvent = NoEvent
SPECIFICATION ProgressSpec
PROPERTIES
    
    CallAnswered
    RetryAnswered
    EveryUpdateHandled
    EmitSettles
CHECK_DEADLOCK FALSE
