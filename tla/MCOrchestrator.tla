--------------------------- MODULE MCOrchestrator ---------------------------
(***************************************************************************)
(* Three processes for two goals, one of which dies: two sessions of two    *)
(* turns each, one item to declare and two claims, of which each may fail,  *)
(* pass, or pass without weight.                                            *)
(***************************************************************************)
EXTENDS Orchestrator

CONSTANTS g, h, a, b, item

=============================================================================
