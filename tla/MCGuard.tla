------------------------------ MODULE MCGuard ------------------------------
(***************************************************************************)
(* Instances of RolloverGuard: one session of any kind with killed hooks,   *)
(* or two sessions of one project.                                          *)
(***************************************************************************)
EXTENDS RolloverGuard, TLC

Symmetry == Permutations(Session)

=============================================================================
