------------------------------ MODULE MCPlugin ------------------------------
(***************************************************************************)
(* Two root sessions and a child, four idle events, one session the user    *)
(* opens and one call that throws.                                          *)
(***************************************************************************)
EXTENDS OpenCodePlugin

=============================================================================
