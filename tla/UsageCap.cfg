CONSTANTS
    Mints = {c1, c2}
    Keys = {k1}
    Cap = 1
    MaxCommands = 1
    MaxUcans = 2
SPECIFICATION MintSpec
INVARIANT
    CapHolds
CHECK_DEADLOCK FALSE
