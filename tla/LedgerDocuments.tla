--------------------------- MODULE LedgerDocuments ---------------------------
(***************************************************************************)
(* The contents of one binary's ledger, reverify/ledger.py.                 *)
(***************************************************************************)
EXTENDS Naturals

CONSTANTS Claim,      \* what can be claimed about the binary (claim_key)
          Spot,       \* where a value can be observed (echo_key, kind@offset)
          Value,      \* the values an observation returns
          NoValue,    \* nothing observed yet
          MaxWeight   \* the largest weight summarize gives to a claim

ASSUME NoValueAssumption == NoValue \notin Value
ASSUME MaxWeightAssumption == MaxWeight \in Nat

(***************************************************************************)
(* A ledger document.  A claim of weight 0 is not among the facts: record   *)
(* keeps a VERIFIED result only when its weight is positive.  "line" is the *)
(* value the fact entry was written with, "observed" the value kept in the  *)
(* observed dictionary.                                                     *)
(***************************************************************************)
Doc == [weight   : [Claim -> 0..MaxWeight],
        refuted  : SUBSET Claim,
        line     : [Spot -> Value \union {NoValue}],
        observed : [Spot -> Value \union {NoValue}]]

EmptyDoc == [weight   |-> [c \in Claim |-> 0],
             refuted  |-> {},
             line     |-> [s \in Spot |-> NoValue],
             observed |-> [s \in Spot |-> NoValue]]

(***************************************************************************)
(* Document e keeps everything document d holds: no weight goes down, no    *)
(* refutation is forgotten, no entry is rewritten and no observed spot is   *)
(* dropped (its value in the dictionary is the latest one read).            *)
(***************************************************************************)
Included(d, e) ==
  /\ \A c \in Claim : d.weight[c] <= e.weight[c]
  /\ d.refuted \subseteq e.refuted
  /\ \A s \in Spot : d.line[s] # NoValue => e.line[s] = d.line[s]
  /\ \A s \in Spot : d.observed[s] # NoValue => e.observed[s] # NoValue

=============================================================================
