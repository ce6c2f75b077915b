SPECIFICATION Spec
CONSTANTS
  Card = {c1, c2, c3}
  Grouped = {c1, c3}
  Later = {c3}
  Run = {r1, r2}
  Batch = {b1, b2}
  Plan = {p1}
  None = None
  Evidence <- MCEvidence
  MaxFaults = 1
SYMMETRY Identities
INVARIANTS PlanExact Accounted
PROPERTIES LiveKept
CHECK_DEADLOCK FALSE
