CONSTANTS
    Agents = {a1, a2}
    Platform = Platform
    NoScope = NoScope
    Commands <- MCCommands
    Scopes <- MCScopes
    Resources <- MCResources
    Ttls = {1, 2}
    Depth = 3
    MaxTime = 1
    MaxUcans = 3
    MaxRevoked = 1
SPECIFICATION Spec
SYMMETRY Symmetry
INVARIANT
    ScopeContained
CHECK_DEADLOCK FALSE
