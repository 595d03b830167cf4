------------------------------ MODULE MCLedger ------------------------------
(***************************************************************************)
(* Small instances of Ledger: one claim that checks may find true or false, *)
(* one spot.                                                                *)
(***************************************************************************)
EXTENDS Ledger, TLC

Symmetry == Permutations(Proc)

=============================================================================
