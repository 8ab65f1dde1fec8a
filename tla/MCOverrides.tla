----------------------------- MODULE MCOverrides -----------------------------
(* Overrides with two named flows for TLC. *)
EXTENDS Overrides
CONSTANTS f1, f2
=============================================================================
