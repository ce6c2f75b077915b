CONSTANTS
    Sender = {s1}
    Agent = {a1, a2}
    Id = {d1}
    FirstAgent = a1
    None = None
    Confirm = 1
    Fresh = 0
    MaxEpoch = 2
    MaxRev = 6
    MaxTime = 2
    MaxFaults = 1
    MaxEdits = 1
SPECIFICATION FairSpec
INVARIANTS WorkedOnce
PROPERTIES LeaseReleased RotatedOnlyAfterExit
CHECK_DEADLOCK FALSE
