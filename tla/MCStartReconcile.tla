-------------------------- MODULE MCStartReconcile --------------------------
(* Small casts for TLC. *)
EXTENDS StartReconcile, TLC

PlansWithoutWindow == {p \in Plan : p.window = "none"}
==============================================================================
