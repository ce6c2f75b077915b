---------------------------- MODULE MCTaskStart ----------------------------
(* Small casts for TLC. *)
EXTENDS TaskStart, TLC

AllPlans == Plan
\* Without the writes of WINDOW, which only raise the revision.
PlansWithoutWindow == {p \in Plan : p.window = "none"}

\* Start commands are interchangeable.
Symmetry == Permutations(Start)
==============================================================================
