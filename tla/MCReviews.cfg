SPECIFICATION Spec
CONSTANTS
    Task = {t1,t2}
    Batch = {b1,b2}
    Run = {r1,r2}
    Proc = {p1,p2}
    None = None
    MaxCommit = 2
    Base = {1}
    MaxCycle = 1
    MaxRecords = 2
    Report = {"clean","prose"}
    Legacy = TRUE
CONSTRAINT Regimes
SYMMETRY Identities
INVARIANTS ClosureFrozen ReviewedOnce FixesReviewed ClosuresChain DoneReviewed
PROPERTY TargetsAgree
CHECK_DEADLOCK FALSE
