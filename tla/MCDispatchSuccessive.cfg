CONSTANTS
    Sender = {s1, s2}
    Agent = {a1}
    Id = {d1, d2}
    FirstAgent = a1
    None = None
    Confirm = 1
    Fresh = 0
    MaxEpoch = 2
    MaxRev = 6
    MaxTime = 1
    MaxFaults = 0
    MaxEdits = 1
SPECIFICATION Spec
SYMMETRY Symmetry
PROPERTIES LateAnswerLoses ImplementsGrants
CHECK_DEADLOCK FALSE
