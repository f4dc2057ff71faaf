CONSTANTS
    Agents = {a1, a2}
    Platform = Platform
    NoScope = NoScope
    Commands <- MCCommands
    Scopes <- MCScopes
    Resources <- MCResources
    Ttls = {1, 2}
    Depth = 3
    MaxTime = 1
    MaxUcans = 3
    MaxRevoked = 1
    GrantAgents = {a1, a2}
    Policies = {q}
    GrantResources = {r1, r2}
    GrantScopes = {r1}
    Texts <- MCTexts
    Sessions = {s1, s2}
    Anyone = Anyone
    Anything = Anything
    Missing = Missing
    MaxGrants = 3
    MaxEdits = 2
    MaxOvertaken = 1
SPECIFICATION GrantsSpec
SYMMETRY GrantsSymmetry
INVARIANTS
    Contained
    MintedIsUsable
    TornBundleDecides
    AlwaysMayAsk
PROPERTIES
    GrantLostByHandOnly
    DuplicatesByOverlapOnly
CHECK_DEADLOCK FALSE
