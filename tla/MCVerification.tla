--------------------------- MODULE MCVerification ---------------------------
(***************************************************************************)
(* Claim lists small enough to enumerate.                                   *)
(***************************************************************************)
EXTENDS Verification

\* Four claims, each with its own id and at most one dependency, in any
\* order: chains of up to three links, cycles, self-dependencies.
Chains ==
  LET Dep == {{}} \union {{d} : d \in Id}
  IN  {[i \in 1..4 |-> [key |-> i, id |-> i, deps |-> c[i][1], verdict |-> c[i][2]]] :
         c \in [1..4 -> Dep \X {"VERIFIED", "REFUTED"}]}

\* Up to two claims, any ids (shared, missing), any dependencies, two keys.
Mixed ==
  LET One == [key : {1, 2}, id : {1, 2, NoId}, deps : SUBSET {1, 2},
              verdict : {"VERIFIED", "REFUTED", "OBSERVED"}]
  IN  UNION {[1..n -> One] : n \in 0..2}

Lists == Chains \union Mixed

MCBase == [k \in Key |-> IF k = 2 THEN 0 ELSE 1]

=============================================================================
