------------------------------ MODULE MCAgent ------------------------------
(***************************************************************************)
(* Two runs over one ledger: a location whose values the sheet keeps, its   *)
(* shorter reading inside the header, the longer one claimed by file offset *)
(* or by virtual address, and an emulation.                                 *)
(***************************************************************************)
EXTENDS AgentLoop

CONSTANTS x, cpu, file, va

OneHeader == {<<x, 1>>}

FourWays == {<<x, 1, file>>, <<x, 2, file>>, <<x, 2, va>>, <<cpu, 1, file>>}

=============================================================================
