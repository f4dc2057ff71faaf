CONSTANTS
    Mints = {n1, n2}
    Keys = {m1}
    Cap = 1
    MaxCommands = 2
    MaxUcans = 1
    Callbacks = {b1, b2}
    Refreshes = {f1, f2}
    RowIds = {1, 2, 3}
    MaxConsents = 3
    MaxRotations = 2
    ProxyCalls = {y1, y2}
    Nobody = Nobody
    Users = {u1, u2}
    Requests = {q1, q2}
    Invites = {i1}
    Offered = {"admin"}
    MaxJoins = 3
    Verifies = {v1, v2}
    MaxChallenges = 2
    CloudCalls = {w1, w2}
    Probes = {z1, z2}
    MaxConfig = 3
    Life = 5
    Margin = 1
    CredsCap = 3
    ExchangeTime = 2
    SpanAgents = {g1, g2}
    MaxReceipts = 3
    MaxSpanCalls = 3
    Ingests = {g3}
    ArchiveEvents = {x1, x2}
    Archivers = {h1, h2}
    MaxHour = 2
    Bots = {p1, p2}
    Chats = {d1, d2}
    LinkTokens = {t1}
    Prompts = {a1}
    NoChat = NoChat
    Saved <- MCSaved
    MaxUpdates = 2
SPECIFICATION PlatformSpec
INVARIANTS
    DeleteLeavesFew
    StoredTokenIsAccepted
    RowsFromOverlapOnly
    NoncePerExchange
    TokenLinksOneChat
    FirstPressDecides
    
    ExecutedOnceOnRecord
    InviteBringsOnce
    AssertionGivesOnce
    OldCredsNotUsed
    GraphFlowsForward
PROPERTIES
    OwnerLostByOverlapOnly
    CounterFallsByLoginOnly
    BlipKeepsStatus
    ArchiveShrinksByOverlapOnly
CHECK_DEADLOCK FALSE
