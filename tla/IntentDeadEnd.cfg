CONSTANTS
    Resources = {r1}
    Actions = {a1, a2}
    Risky = {a2}
    Calls = {c1}
    MaxRequests = 2
    MaxEnvelopes = 2
SPECIFICATION IntentSpec
INVARIANTS PendingCanBeApproved
CHECK_DEADLOCK FALSE
