----------------------------- MODULE MCLauncher -----------------------------
(***************************************************************************)
(* Two launches in a row, under a user who may speak at any time.           *)
(***************************************************************************)
EXTENDS RolloverLauncher

TwoLaunches == 1..2
FirstLaunch == {1}

=============================================================================
