CONSTANTS
    Start = {s1, s2}
    Takeover = {t1}
    Claim = {c1}
    None = None
    Plans <- AllPlans
    MaxFaults = 2
    MaxEdits = 1
SPECIFICATION Spec
SYMMETRY Symmetry
INVARIANTS StartsApart TodoStartable
PROPERTIES WorkKept SuccessIsOwn
CHECK_DEADLOCK FALSE
