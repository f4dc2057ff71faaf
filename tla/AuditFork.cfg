CONSTANTS
    Events = {e1, e2, e3, e4}
    Genesis = Genesis
    NoEvent = NoEvent
SPECIFICATION ProofSpec
SYMMETRY Symmetry
INVARIANT
    Linear
CHECK_DEADLOCK FALSE
