---------------------------- MODULE Verification ----------------------------
(***************************************************************************)
(* One call of Verifier.verify_all (reverify/verifier.py): the claims have  *)
(* been checked one by one, _apply_dependencies now takes down those that   *)
(* rest on a refuted one, and summarize weighs what is left.                *)
(*                                                                          *)
(* What a check decides about one claim is data here: a claim list arrives  *)
(* with its verdicts.                                                       *)
(***************************************************************************)
EXTENDS Naturals, Sequences, FiniteSets

CONSTANTS Id,      \* identifiers a claim may carry and others depend on
          NoId,    \* a claim without one
          Key,     \* claim identities (claim_key)
          Base,    \* Base[k]: base_weight, 0 for a claim that says nothing
          Inputs,  \* the claim lists verify_all may be called with
          Passes,  \* how often _apply_dependencies walks the list: 2
          MinInformation

Claim == [key : Key, id : Id \union {NoId}, deps : SUBSET Id,
          verdict : {"VERIFIED", "REFUTED", "INCONCLUSIVE", "OBSERVED"}]

ASSUME NoIdAssumption == NoId \notin Id
ASSUME BaseAssumption == Base \in [Key -> Nat]
ASSUME InputsAssumption == Inputs \subseteq Seq(Claim)
ASSUME PassesAssumption == Passes \in Nat \ {0}
ASSUME InformationAssumption == MinInformation \in Nat

VARIABLES
  claims,   \* the claim list, with the verdict each check returned
  verdict,  \* verdict[i]: what r["verdict"] of result i says now
  table,    \* the dictionary id -> verdict _apply_dependencies looks up
  pass,     \* which walk over the list this is
  at,       \* which result is looked at next
  flagged,  \* keys that are trivial, echoed or already known
  scored    \* summarize has run

vars == <<claims, verdict, table, pass, at, flagged, scored>>

Verdict == {"VERIFIED", "REFUTED", "INCONCLUSIVE", "OBSERVED", "INVALIDATED"}
Fell == {"REFUTED", "INVALIDATED"}

\* The dictionary comprehension: the last result with an id wins.
FirstTable(cs) ==
  [d \in Id |->
     LET with == {i \in DOMAIN cs : cs[i].id = d}
     IN  IF with = {} THEN "none"
         ELSE cs[CHOOSE i \in with : \A j \in with : j <= i].verdict]

Init ==
  /\ claims \in Inputs
  /\ verdict = [i \in DOMAIN claims |-> claims[i].verdict]
  /\ table = FirstTable(claims)
  /\ pass = 1
  /\ at = 1
  /\ flagged = {}
  /\ scored = FALSE

\* Mutant: a dependency that is not verified has fallen.
BadUnlessVerified(i) == {d \in claims[i].deps : table[d] # "VERIFIED"}

\* The dependencies of result i that are known to have fallen.
Bad(i) == {d \in claims[i].deps : table[d] \in Fell}

\* Mutant: the dictionary keeps the verdicts of the checks.
VisitOnly ==
  /\ pass <= Passes
  /\ at \in DOMAIN claims
  /\ at' = at + 1
  /\ verdict' = IF Bad(at) # {} THEN [verdict EXCEPT ![at] = "INVALIDATED"]
                ELSE verdict
  /\ UNCHANGED <<claims, table, pass, flagged, scored>>

Visit ==
  /\ pass <= Passes
  /\ at \in DOMAIN claims
  /\ at' = at + 1
  /\ IF verdict[at] # "INVALIDATED" /\ Bad(at) # {}
       THEN /\ verdict' = [verdict EXCEPT ![at] = "INVALIDATED"]
            /\ table' = [d \in Id |-> IF d = claims[at].id THEN "INVALIDATED"
                                      ELSE table[d]]
       ELSE UNCHANGED <<verdict, table>>
  /\ UNCHANGED <<claims, pass, flagged, scored>>

\* Mutant: one walk is enough.
OnePass ==
  /\ pass <= Passes
  /\ at \notin DOMAIN claims
  /\ pass' = Passes + 1
  /\ at' = 1
  /\ UNCHANGED <<claims, verdict, table, flagged, scored>>

NextPass ==
  /\ pass <= Passes
  /\ at \notin DOMAIN claims
  /\ pass' = pass + 1
  /\ at' = 1
  /\ UNCHANGED <<claims, verdict, table, flagged, scored>>

Settled == pass > Passes

\* summarize; the agent and the MCP server may have marked results before
Summarize ==
  /\ Settled
  /\ ~scored
  /\ scored' = TRUE
  /\ flagged' \in SUBSET Key
  /\ UNCHANGED <<claims, verdict, table, pass, at>>

Next == Visit \/ NextPass \/ Summarize

Spec == Init /\ [][Next]_vars

-----------------------------------------------------------------------------
(***************************************************************************)
(* The report.                                                              *)
(***************************************************************************)
Duplicate(i) == \E j \in DOMAIN claims : j < i /\ claims[j].key = claims[i].key

Weight(i) ==
  IF \/ verdict[i] \in {"OBSERVED", "INVALIDATED"}
     \/ Duplicate(i)
     \/ claims[i].key \in flagged
  THEN 0
  ELSE Base[claims[i].key]

\* Information is a sum over the VERIFIED results, Total(i) of the first i.
Information ==
  LET Total[i \in 0..Len(claims)] ==
        IF i = 0 THEN 0
        ELSE Total[i-1] + (IF verdict[i] = "VERIFIED" THEN Weight(i) ELSE 0)
  IN  Total[Len(claims)]

\* Mutant: a refuted claim does not count against the report.
TrustworthyIfRefuted ==
  /\ \A i \in DOMAIN claims : verdict[i] \notin {"INCONCLUSIVE", "INVALIDATED"}
  /\ \E i \in DOMAIN claims : verdict[i] = "VERIFIED"

Trustworthy ==
  /\ \A i \in DOMAIN claims :
       verdict[i] \notin {"REFUTED", "INCONCLUSIVE", "INVALIDATED"}
  /\ \E i \in DOMAIN claims : verdict[i] = "VERIFIED"

GroundedReport == Trustworthy /\ Information >= MinInformation

-----------------------------------------------------------------------------
TypeOK ==
  /\ claims \in Seq(Claim)
  /\ verdict \in [DOMAIN claims -> Verdict]
  /\ table \in [Id -> Verdict \union {"none"}]
  /\ pass \in 1..(Passes + 1)
  /\ at \in 1..(Len(claims) + 1)
  /\ flagged \in SUBSET Key
  /\ scored \in BOOLEAN

(***************************************************************************)
(* The reference: the identifiers that have fallen are the smallest set     *)
(* that holds every refuted claim and every claim that rests on one in it.  *)
(***************************************************************************)
Closed(S) ==
  \A i \in DOMAIN claims :
    (claims[i].verdict = "REFUTED" \/ claims[i].deps \cap S # {})
      => claims[i].id \in S \union {NoId}

Fallen == {d \in Id : \A S \in SUBSET Id : Closed(S) => d \in S}

(***************************************************************************)
(* Nothing is taken down without a cause: an INVALIDATED claim rests,       *)
(* through a chain of any length, on one the bytes refuted (verifier.py     *)
(* 1039-1052), even when two claims carry the same id.                      *)
(***************************************************************************)
InvalidatedWithCause ==
  \A i \in DOMAIN claims :
    verdict[i] = "INVALIDATED" => claims[i].deps \cap Fallen # {}

UniqueIds == \A i, j \in DOMAIN claims :
               claims[i].id = claims[j].id /\ claims[i].id # NoId => i = j

InOrder == \A i, j \in DOMAIN claims : claims[j].id \in claims[i].deps => j < i

\* _apply_dependencies' docstring: a claim whose dependency was refuted or
\* invalidated cannot stand.
Stands(i) == verdict[i] # "INVALIDATED"
CannotStand == \A i, j \in DOMAIN claims :
                 claims[j].id \in claims[i].deps /\ verdict[j] \in Fell
                   => ~Stands(i)

(***************************************************************************)
(* When every claim is listed after the claims it rests on, no claim is     *)
(* left standing on a fallen one, however long the chain.                   *)
(***************************************************************************)
InOrderSettled == Settled /\ UniqueIds /\ InOrder => CannotStand

(***************************************************************************)
(* In any order, chains of up to two links are settled: "two passes settle  *)
(* short chains" (verifier.py:1042).                                        *)
(***************************************************************************)
ShortChainsSettled ==
  Settled /\ UniqueIds =>
    \A i, j, k \in DOMAIN claims :
      /\ claims[i].verdict = "REFUTED"
      /\ claims[i].id \in claims[j].deps
      => /\ ~Stands(j)
         /\ claims[j].id \in claims[k].deps => ~Stands(k)

(***************************************************************************)
(* A report that calls itself grounded contains no claim that rests on a    *)
(* refuted one, not even through a chain the two passes did not settle: the *)
(* refuted root is in the report too and takes "trustworthy" away.          *)
(***************************************************************************)
GroundedStandsAlone ==
  GroundedReport /\ Settled =>
    \A i \in DOMAIN claims : claims[i].deps \cap Fallen = {}

=============================================================================
