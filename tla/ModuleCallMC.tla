---------------------------- MODULE ModuleCallMC ----------------------------
(* ModuleCall for TLC. *)
EXTENDS ModuleCall

CONSTANTS c1, c2, l1, l2
=============================================================================
