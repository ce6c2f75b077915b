-------------------------- MODULE MCDurableDispatch --------------------------
(* Small casts for TLC. *)
EXTENDS DurableDispatch, TLC

Symmetry == Permutations(Sender) \cup Permutations(Id)
==============================================================================
