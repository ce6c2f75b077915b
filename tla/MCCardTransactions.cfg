CONSTANTS
    c1 = c1  c2 = c2  g1 = g1  p1 = p1  p2 = p2
    Proc = {p1, p2}
    Card <- MCCard
    Group = {g1}
    Op = {o1, o2}
    Jobs <- MCJobs
    InitPlace <- MCBoth
    BoardLock = BoardLock
    Rank <- MCRank
    None = None
    Foreign = Foreign
    MaxFaults = 2
    MaxEdits = 0
SPECIFICATION Spec
SYMMETRY Symmetry
INVARIANTS PendingDisjoint Replayable NoLockCycle
PROPERTIES ImplementsAtomicCards
CHECK_DEADLOCK FALSE
