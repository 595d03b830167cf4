--------------------------- MODULE MCHandoffTool ---------------------------
(***************************************************************************)
(* Two servers, four saves of up to two of three items to a list that keeps *)
(* two; two of them are killed, cannot read the file or fail to write it.   *)
(***************************************************************************)
EXTENDS HandoffTool

=============================================================================
