CONSTANTS
    Session = {k1, k2}
    Card = {c1}
    Id = {d1, d2}
    Commit = {g1}
    None = None
    MaxEpoch = 2
    MaxRequests = 3
    MaxEdits = 6
SPECIFICATION Spec
SYMMETRY Symmetry
INVARIANTS Reconcilable
PROPERTIES EpochFences CommitsPresent DeliveryProved
CHECK_DEADLOCK FALSE
