CONSTANTS
    GrantAgents = {a1, a2}
    Policies = {q}
    GrantResources = {r1, r2}
    GrantScopes = {r1}
    Texts <- MCTexts
    Sessions = {s1}
    Anyone = Anyone
    Anything = Anything
    Missing = Missing
    MaxGrants = 3
    MaxEdits = 2
    MaxOvertaken = 1
SPECIFICATION GrantSpec
SYMMETRY MCSymmetry
INVARIANT
    RememberedDenyDenies
CHECK_DEADLOCK FALSE
