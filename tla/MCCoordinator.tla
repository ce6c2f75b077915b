---------------------------- MODULE MCCoordinator ----------------------------
(* A small group for TLC. *)
EXTENDS Coordinator, TLC

Symmetry == Permutations(Session) \cup Permutations(Id)
=============================================================================
