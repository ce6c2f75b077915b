CONSTANTS
    Start = {s1, s2}
    Takeover = {t1}
    Claim = {c1, c2}
    None = None
    Plans <- PlansWithoutWindow
    MaxFaults = 1
    MaxEdits = 1
SPECIFICATION LiveSpec
INVARIANTS BoundConfirmed
PROPERTIES AwaitingBinds
CHECK_DEADLOCK FALSE
