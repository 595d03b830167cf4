------------------------- MODULE VerificationProofs -------------------------
(***************************************************************************)
(* Theorems about Verification for every set of claim lists.                *)
(***************************************************************************)
EXTENDS Verification, WellFoundedInduction, TLAPS

USE NoIdAssumption, BaseAssumption, InputsAssumption, PassesAssumption,
    InformationAssumption

-----------------------------------------------------------------------------
(***************************************************************************)
(* Numbers.                                                                 *)
(***************************************************************************)

\* A non-empty set of numbers has a least element.
LEMMA Least ==
  ASSUME NEW T \in SUBSET Nat, T # {}
  PROVE  \E n \in T : \A m \in T : n <= m
<1>1. PICK n \in T : \A m \in T : ~(<<m, n>> \in OpToRel(<, Nat))
  BY NatLessThanWellFounded, WFMin, Zenon
<1>2. \A m \in T : ~(m < n)
  BY <1>1 DEF OpToRel
<1>3. QED
  BY <1>2

-----------------------------------------------------------------------------
(***************************************************************************)
(* The dictionary of verdicts.                                              *)
(***************************************************************************)

\* Among the positions of a list that satisfy a condition there is a last one.
LEMMA LastPosition ==
  ASSUME NEW cs \in Seq(Claim), NEW S \in SUBSET DOMAIN cs, S # {}
  PROVE  \E i \in S : \A j \in S : j <= i
<1> DEFINE T == {Len(cs) - i : i \in S}
<1>1. Len(cs) \in Nat /\ \A i \in S : i \in 1..Len(cs)
  OBVIOUS
<1>2. T \in SUBSET Nat /\ T # {}
  BY <1>1
<1>3. \E n \in T : \A m \in T : n <= m
  <2> HIDE DEF T
  <2>1. QED
    BY <1>2, Least
<1>4. PICK n \in T : \A m \in T : n <= m
  BY <1>3
<1>5. PICK i \in S : n = Len(cs) - i
  BY <1>4
<1>6. ASSUME NEW j \in S PROVE j <= i
  <2>1. Len(cs) - j \in T
    OBVIOUS
  <2>2. n <= Len(cs) - j
    BY <1>4, <2>1
  <2>3. i \in Nat /\ j \in Nat
    BY <1>1
  <2> QED BY <1>1, <1>5, <2>2, <2>3
<1>7. QED
  BY <1>6

\* The dictionary holds, for an identifier, the verdict of some result that
\* carries it, and "none" only when no result does.
LEMMA FirstTableFacts ==
  ASSUME NEW cs \in Seq(Claim), NEW d \in Id
  PROVE  \/ FirstTable(cs)[d] = "none" /\ \A i \in DOMAIN cs : cs[i].id # d
         \/ \E i \in DOMAIN cs : cs[i].id = d /\ FirstTable(cs)[d] = cs[i].verdict
<1> DEFINE with == {i \in DOMAIN cs : cs[i].id = d}
           last == CHOOSE i \in with : \A j \in with : j <= i
<1>1. CASE with = {}
  BY <1>1 DEF FirstTable
<1>2. CASE with # {}
  <2>1. \E i \in with : \A j \in with : j <= i
    BY <1>2, LastPosition
  <2>2. last \in with
    BY <2>1
  <2>3. FirstTable(cs)[d] = cs[last].verdict
    BY <1>2 DEF FirstTable
  <2>4. QED
    BY <2>2, <2>3
<1>3. QED
  BY <1>1, <1>2

-----------------------------------------------------------------------------
\* The initial state is well typed, the dictionary of any claim list included.
LEMMA InitType == Init => TypeOK
<1> SUFFICES ASSUME Init PROVE TypeOK
  OBVIOUS
<1>1. claims \in Seq(Claim)
  BY DEF Init
<1>2. \A i \in DOMAIN claims : claims[i] \in Claim
  BY <1>1
<1>3. verdict \in [DOMAIN claims -> Verdict]
  BY <1>2 DEF Init, Claim, Verdict
<1>4. ASSUME NEW d \in Id
      PROVE  FirstTable(claims)[d] \in Verdict \union {"none"}
  <2>1. \A i \in DOMAIN claims : claims[i].verdict \in Verdict
    BY <1>2 DEF Claim, Verdict
  <2>2. QED
    BY <1>1, <2>1, FirstTableFacts, Zenon
<1>5. table \in [Id -> Verdict \union {"none"}]
  BY <1>4 DEF Init, FirstTable
<1>6. /\ pass \in 1..(Passes + 1)
      /\ at \in 1..(Len(claims) + 1)
      /\ flagged \in SUBSET Key
      /\ scored \in BOOLEAN
  <2>1. Len(claims) \in Nat
    BY <1>1
  <2>2. pass = 1 /\ at = 1 /\ flagged = {} /\ scored = FALSE
    BY DEF Init
  <2>3. 1 \in 1..(Passes + 1) /\ 1 \in 1..(Len(claims) + 1)
    BY <2>1
  <2>4. QED
    BY <2>2, <2>3
<1>7. QED
  BY <1>1, <1>3, <1>5, <1>6 DEF TypeOK

\* Every step keeps the types.
LEMMA NextType == TypeOK /\ [Next]_vars => TypeOK'
<1> SUFFICES ASSUME TypeOK, [Next]_vars PROVE TypeOK'
  OBVIOUS
<1> USE DEF TypeOK
<1>1. CASE Visit
  <2>1. verdict' \in [DOMAIN claims -> Verdict]
    BY <1>1 DEF Visit, Verdict
  <2>2. table' \in [Id -> Verdict \union {"none"}]
    BY <1>1 DEF Visit, Verdict
  <2>3. at' \in 1..(Len(claims) + 1)
    BY <1>1 DEF Visit
  <2>4. QED
    BY <1>1, <2>1, <2>2, <2>3 DEF Visit
<1>2. CASE NextPass
  BY <1>2 DEF NextPass
<1>3. CASE Summarize
  BY <1>3 DEF Summarize
<1>4. CASE UNCHANGED vars
  BY <1>4 DEF vars
<1>5. QED
  BY <1>1, <1>2, <1>3, <1>4 DEF Next

\* Types are kept for every claim list.
THEOREM TypeCorrect == Spec => []TypeOK
BY InitType, NextType, PTL DEF Spec

-----------------------------------------------------------------------------
(***************************************************************************)
(* Soundness.  InvalidatedWithCause needs to know that the dictionary names *)
(* only fallen identifiers; GroundedStandsAlone that a verdict only ever    *)
(* changes to INVALIDATED.                                                  *)
(***************************************************************************)
TableFallen == \A d \in Id : table[d] \in Fell => d \in Fallen

OnlyInvalidates ==
  \A i \in DOMAIN claims : verdict[i] \in {claims[i].verdict, "INVALIDATED"}

SoundInv == TypeOK /\ TableFallen /\ InvalidatedWithCause /\ OnlyInvalidates

\* Fallen is closed: a claim that rests on a fallen one has fallen.
LEMMA FallenClosed ==
  ASSUME TypeOK, NEW i \in DOMAIN claims, claims[i].deps \cap Fallen # {},
         claims[i].id \in Id
  PROVE  claims[i].id \in Fallen
BY DEF Fallen, Closed

\* At first nothing is invalidated and the dictionary holds the checks' verdicts.
LEMMA InitSound == Init => SoundInv
<1> SUFFICES ASSUME Init PROVE SoundInv
  OBVIOUS
<1>1. TypeOK
  BY InitType
<1>2. \A i \in DOMAIN claims : claims[i] \in Claim
  BY <1>1 DEF TypeOK
<1>3. TableFallen
  <2> SUFFICES ASSUME NEW d \in Id, table[d] \in Fell PROVE d \in Fallen
    BY DEF TableFallen
  <2>1. PICK i \in DOMAIN claims : claims[i].id = d /\ table[d] = claims[i].verdict
    BY <1>1, FirstTableFacts DEF Init, Fell, TypeOK
  <2>2. claims[i].verdict = "REFUTED"
    BY <1>2, <2>1 DEF Fell, Claim
  <2>3. QED
    BY <2>1, <2>2 DEF Fallen, Closed
<1>4. InvalidatedWithCause /\ OnlyInvalidates
  BY <1>2 DEF Init, InvalidatedWithCause, OnlyInvalidates, Claim
<1>5. QED
  BY <1>1, <1>3, <1>4 DEF SoundInv

\* The one step that takes a claim down finds a fallen dependency in the
\* dictionary, so the claim has fallen itself; the others change no verdict.
LEMMA NextSound == SoundInv /\ [Next]_vars => SoundInv'
<1> SUFFICES ASSUME SoundInv, [Next]_vars PROVE SoundInv'
  OBVIOUS
<1>t. TypeOK /\ TypeOK'
  BY NextType DEF SoundInv
<1>1. CASE Visit /\ Bad(at) # {} /\ verdict[at] # "INVALIDATED"
  <2>1. /\ claims' = claims /\ at \in DOMAIN claims
        /\ verdict' = [verdict EXCEPT ![at] = "INVALIDATED"]
        /\ table' = [d \in Id |-> IF d = claims[at].id THEN "INVALIDATED"
                                  ELSE table[d]]
    BY <1>1 DEF Visit
  <2>2. Fallen' = Fallen
    BY <2>1 DEF Fallen, Closed
  <2>3. claims[at].deps \cap Fallen # {}
    <3>1. claims[at].deps \subseteq Id
      <4>1. \A i \in DOMAIN claims : claims[i] \in Claim
        BY <1>t DEF TypeOK
      <4>2. claims[at] \in Claim
        BY <2>1, <4>1, Zenon
      <4>3. QED
        BY <4>2 DEF Claim
    <3>2. QED
      BY <1>1, <3>1 DEF Bad, SoundInv, TableFallen
  <2>4. TableFallen'
    <3> SUFFICES ASSUME NEW d \in Id, table'[d] \in Fell PROVE d \in Fallen
      BY <2>2 DEF TableFallen
    <3>1. CASE d = claims[at].id
      BY <1>t, <2>1, <2>3, <3>1, FallenClosed
    <3>2. CASE d # claims[at].id
      BY <2>1, <3>2 DEF SoundInv, TableFallen
    <3>3. QED
      BY <3>1, <3>2
  <2>5. InvalidatedWithCause'
    BY <1>t, <2>1, <2>2, <2>3 DEF SoundInv, InvalidatedWithCause, TypeOK
  <2>6. OnlyInvalidates'
    BY <1>t, <2>1 DEF SoundInv, OnlyInvalidates, TypeOK
  <2>7. QED
    BY <1>t, <2>4, <2>5, <2>6 DEF SoundInv
<1>2. CASE UNCHANGED <<claims, verdict, table>>
  <2>1. Fallen' = Fallen
    BY <1>2 DEF Fallen, Closed
  <2>2. QED
    BY <1>t, <1>2, <2>1
       DEF SoundInv, TableFallen, InvalidatedWithCause, OnlyInvalidates
<1>3. QED
  BY <1>1, <1>2 DEF Next, Visit, NextPass, Summarize, vars

\* The strengthened invariant holds in every run.
LEMMA SoundInvariant == Spec => []SoundInv
BY InitSound, NextSound, PTL DEF Spec

\* No claim is taken down unless it rests on a refuted one, for any list, any
\* identifiers and any number of passes.
THEOREM CauseTheorem == Spec => []InvalidatedWithCause
<1>1. SoundInv => InvalidatedWithCause
  BY DEF SoundInv
<1>2. QED
  BY <1>1, SoundInvariant, PTL

\* A grounded report contains no claim that rests on a refuted one, although
\* the passes do not settle every chain.
THEOREM GroundedTheorem == Spec => []GroundedStandsAlone
<1>1. SoundInv => GroundedStandsAlone
  <2> SUFFICES ASSUME SoundInv, Trustworthy PROVE Fallen = {}
    BY DEF GroundedStandsAlone, GroundedReport
  <2>1. \A i \in DOMAIN claims : claims[i].verdict # "REFUTED"
    BY DEF SoundInv, OnlyInvalidates, Trustworthy
  <2>2. Closed({})
    BY <2>1 DEF Closed
  <2>3. QED
    BY <2>2 DEF Fallen
<1>2. QED
  BY <1>1, SoundInvariant, PTL

-----------------------------------------------------------------------------
(***************************************************************************)
(* Settling, for lists in which no two claims share an id.  The dictionary  *)
(* then holds the verdict of the claim that carries the id (Coherent), and  *)
(* what a walk has passed stays settled.                                    *)
(***************************************************************************)
Coherent ==
  \A d \in Id : \/ \A i \in DOMAIN claims : claims[i].id # d
                \/ \E i \in DOMAIN claims : claims[i].id = d /\ table[d] = verdict[i]

CoherentInv == SoundInv /\ (UniqueIds => Coherent)

\* With unique ids, the dictionary has the verdict of the claim an id names.
LEMMA TableOf ==
  ASSUME CoherentInv, UniqueIds, NEW j \in DOMAIN claims, claims[j].id \in Id
  PROVE  table[claims[j].id] = verdict[j]
<1>1. PICK i \in DOMAIN claims :
        claims[i].id = claims[j].id /\ table[claims[j].id] = verdict[i]
  BY DEF CoherentInv, Coherent
<1>2. i = j
  BY <1>1, NoIdAssumption DEF UniqueIds
<1>3. QED
  BY <1>1, <1>2

\* The dictionary comprehension builds it that way.
LEMMA InitCoherent == Init => CoherentInv
<1> SUFFICES ASSUME Init PROVE CoherentInv
  OBVIOUS
<1>1. SoundInv
  BY InitSound
<1>2. claims \in Seq(Claim)
  BY DEF Init
<1>3. Coherent
  <2> SUFFICES ASSUME NEW d \in Id
               PROVE  \/ \A i \in DOMAIN claims : claims[i].id # d
                      \/ \E i \in DOMAIN claims :
                           claims[i].id = d /\ table[d] = verdict[i]
    BY DEF Coherent
  <2>1. \/ \A i \in DOMAIN claims : claims[i].id # d
        \/ \E i \in DOMAIN claims :
             claims[i].id = d /\ FirstTable(claims)[d] = claims[i].verdict
    BY <1>2, FirstTableFacts
  <2>2. \A i \in DOMAIN claims : verdict[i] = claims[i].verdict
    BY DEF Init
  <2>3. table = FirstTable(claims)
    BY DEF Init
  <2>4. QED
    BY <2>1, <2>2, <2>3
<1>4. QED
  BY <1>1, <1>3 DEF CoherentInv

\* And a step writes the dictionary and the result together.
LEMMA NextCoherent == CoherentInv /\ [Next]_vars => CoherentInv'
<1> SUFFICES ASSUME CoherentInv, [Next]_vars PROVE CoherentInv'
  OBVIOUS
<1>t. TypeOK /\ SoundInv'
  BY NextSound DEF CoherentInv, SoundInv
<1>1. CASE Visit /\ Bad(at) # {} /\ verdict[at] # "INVALIDATED"
  <2>1. /\ claims' = claims /\ at \in DOMAIN claims
        /\ verdict' = [verdict EXCEPT ![at] = "INVALIDATED"]
        /\ table' = [d \in Id |-> IF d = claims[at].id THEN "INVALIDATED"
                                  ELSE table[d]]
    BY <1>1 DEF Visit
  <2>2. UniqueIds' => UniqueIds
    BY <2>1 DEF UniqueIds
  <2>3. ASSUME Coherent, NEW d \in Id
        PROVE  \/ \A i \in DOMAIN claims : claims[i].id # d
               \/ \E i \in DOMAIN claims : claims[i].id = d /\ table'[d] = verdict'[i]
    <3>1. CASE d = claims[at].id
      BY <1>t, <2>1, <3>1 DEF TypeOK
    <3>2. CASE d # claims[at].id
      <4>1. \A i \in DOMAIN claims : claims[i].id = d => verdict'[i] = verdict[i]
        BY <1>t, <2>1, <3>2 DEF TypeOK
      <4>2. table'[d] = table[d]
        BY <2>1, <3>2
      <4>3. QED
        BY <2>3, <4>1, <4>2 DEF Coherent
    <3>3. QED
      BY <3>1, <3>2
  <2>4. QED
    BY <1>t, <2>1, <2>2, <2>3 DEF CoherentInv, Coherent
<1>2. CASE UNCHANGED <<claims, verdict, table>>
  BY <1>t, <1>2 DEF CoherentInv, Coherent, UniqueIds
<1>3. QED
  BY <1>1, <1>2 DEF Next, Visit, NextPass, Summarize, vars

(***************************************************************************)
(* Lists in order: what has been walked over is settled, and a later walk   *)
(* finds nothing to do.                                                     *)
(***************************************************************************)
Walked(i) == pass > 1 \/ i < at

OrderInv ==
  /\ CoherentInv
  /\ UniqueIds /\ InOrder =>
       \A i, j \in DOMAIN claims :
         Walked(i) /\ claims[j].id \in claims[i].deps /\ verdict[j] \in Fell
           => verdict[i] = "INVALIDATED"

\* An id is an identifier or missing.
LEMMA ClaimIds ==
  ASSUME TypeOK, NEW i \in DOMAIN claims
  PROVE  claims[i].id \in Id \union {NoId}
<1>1. claims[i] \in Claim
  BY DEF TypeOK
<1>2. QED
  BY <1>1 DEF Claim

\* The dependencies of a claim are identifiers; its position is a number.
LEMMA DepsAreIds ==
  ASSUME TypeOK, NEW i \in DOMAIN claims
  PROVE  claims[i].deps \subseteq Id /\ i \in Nat /\ i <= Len(claims)
<1>1. claims[i] \in Claim /\ i \in 1..Len(claims)
  BY DEF TypeOK
<1>2. Len(claims) \in Nat
  BY DEF TypeOK
<1>3. QED
  BY <1>1, <1>2 DEF Claim

\* Nothing is walked over at the start.
LEMMA InitOrder == Init => OrderInv
<1> SUFFICES ASSUME Init PROVE OrderInv
  OBVIOUS
<1>1. CoherentInv /\ TypeOK
  BY InitCoherent, InitType
<1>2. \A i \in DOMAIN claims : ~Walked(i)
  <2>1. pass = 1 /\ at = 1
    BY DEF Init
  <2>2. \A i \in DOMAIN claims : i >= 1
    BY <1>1 DEF TypeOK
  <2>3. QED
    BY <1>1, <2>1, <2>2, DepsAreIds DEF Walked
<1>3. QED
  BY <1>1, <1>2 DEF OrderInv

\* A step settles the claim it looks at and unsettles none before it.
LEMMA NextOrder == OrderInv /\ [Next]_vars => OrderInv'
<1> SUFFICES ASSUME OrderInv, [Next]_vars PROVE OrderInv'
  OBVIOUS
<1>t. TypeOK /\ TypeOK' /\ CoherentInv /\ CoherentInv'
  BY NextCoherent DEF OrderInv, CoherentInv, SoundInv
<1>n. at \in Nat /\ pass \in Nat
  BY <1>t DEF TypeOK
<1>1. CASE Visit
  <2>1. /\ claims' = claims /\ at \in DOMAIN claims
        /\ at' = at + 1 /\ pass' = pass
    BY <1>1 DEF Visit
  <2> SUFFICES ASSUME UniqueIds, InOrder, NEW i \in DOMAIN claims,
                      NEW j \in DOMAIN claims, Walked(i)',
                      claims[j].id \in claims[i].deps, verdict'[j] \in Fell
               PROVE  verdict'[i] = "INVALIDATED"
    BY <1>t, <2>1 DEF OrderInv, UniqueIds, InOrder
  <2>2. i \in Nat /\ j \in Nat /\ j < i /\ claims[j].id \in Id
    BY <1>t, DepsAreIds DEF InOrder
  <2>3. verdict[i] = "INVALIDATED" => verdict'[i] = "INVALIDATED"
    BY <1>t, <1>1 DEF Visit, TypeOK
  <2>4. CASE verdict[j] \in Fell
    <3>1. CASE Walked(i)
      BY <2>3, <2>4, <3>1 DEF OrderInv
    <3>2. CASE ~Walked(i)
      <4>1. i = at
        BY <1>n, <2>1, <2>2, <3>2 DEF Walked
      <4>2. table[claims[j].id] = verdict[j]
        BY <1>t, <2>2, TableOf
      <4>3. claims[j].id \in Bad(at)
        BY <2>4, <4>1, <4>2 DEF Bad
      <4>4. QED
        BY <1>t, <1>1, <4>1, <4>3 DEF Visit, TypeOK
    <3>3. QED
      BY <3>1, <3>2
  <2>5. CASE verdict[j] \notin Fell
    <3>1. j = at /\ Bad(at) # {}
      BY <1>t, <1>1, <2>5 DEF Visit, TypeOK
    <3>2. pass > 1
      BY <1>n, <2>1, <2>2, <3>1 DEF Walked
    <3>3. PICK d \in claims[j].deps : table[d] \in Fell
      BY <3>1 DEF Bad
    <3>4. d \in Id
      BY <1>t, DepsAreIds
    <3>5. PICK k \in DOMAIN claims : claims[k].id = d /\ table[d] = verdict[k]
      <4>1. d \in Fallen
        BY <1>t, <3>3, <3>4 DEF CoherentInv, SoundInv, TableFallen
      <4>2. \E k \in DOMAIN claims : claims[k].id = d
        <5>1. SUFFICES ASSUME \A k \in DOMAIN claims : claims[k].id # d
                       PROVE  FALSE
          OBVIOUS
        <5>2. Closed(Id \ {d})
          <6>1. \A k \in DOMAIN claims : claims[k].id \in Id \union {NoId}
            BY <1>t, ClaimIds
          <6>2. QED
            BY <5>1, <6>1 DEF Closed
        <5>3. QED
          BY <4>1, <5>2 DEF Fallen
      <4>3. QED
        BY <1>t, <3>4, <4>2 DEF CoherentInv, Coherent
    <3>6. verdict[j] = "INVALIDATED"
      BY <3>2, <3>3, <3>5 DEF OrderInv, Walked
    <3>7. QED
      BY <2>5, <3>6 DEF Fell
  <2>6. QED
    BY <2>4, <2>5
<1>2. CASE NextPass
  <2>1. /\ claims' = claims /\ verdict' = verdict
        /\ pass' = pass + 1
        /\ at \notin DOMAIN claims
    BY <1>2 DEF NextPass
  <2>2. \A i \in DOMAIN claims : Walked(i)
    <3>1. at > Len(claims)
      BY <1>t, <2>1 DEF TypeOK
    <3>2. QED
      BY <1>t, <1>n, <3>1, DepsAreIds DEF Walked
  <2>3. QED
    BY <1>t, <2>1, <2>2 DEF OrderInv, UniqueIds, InOrder
<1>3. CASE UNCHANGED <<claims, verdict, pass, at>>
  BY <1>t, <1>3 DEF OrderInv, UniqueIds, InOrder, Walked
<1>4. QED
  BY <1>1, <1>2, <1>3 DEF Next, Summarize, vars

\* Lists in order, with unique ids, are settled for any number of passes: no
\* claim stands on a fallen one, however long the chain.
THEOREM InOrderTheorem == Spec => []InOrderSettled
<1>1. OrderInv => InOrderSettled
  <2> SUFFICES ASSUME OrderInv, Settled, UniqueIds, InOrder PROVE CannotStand
    BY DEF InOrderSettled
  <2>1. pass > 1
    BY DEF Settled, OrderInv, CoherentInv, SoundInv, TypeOK
  <2>2. QED
    BY <2>1 DEF OrderInv, CannotStand, Walked, Stands
<1>2. Spec => []OrderInv
  BY InitOrder, NextOrder, PTL DEF Spec
<1>3. QED
  BY <1>1, <1>2, PTL

(***************************************************************************)
(* Chains of two links in any order: one walk takes down what rests on a    *)
(* refuted claim, the next what rests on that.                              *)
(***************************************************************************)
Root(i) == claims[i].verdict = "REFUTED"

FirstLink == \A i, j \in DOMAIN claims :
  Root(i) /\ claims[i].id \in claims[j].deps /\ (pass > 1 \/ j < at)
    => verdict[j] = "INVALIDATED"

SecondLink == \A i, j, k \in DOMAIN claims :
  /\ Root(i) /\ claims[i].id \in claims[j].deps
  /\ claims[j].id \in claims[k].deps
  /\ pass > 2 \/ (pass = 2 /\ k < at)
  => verdict[k] = "INVALIDATED"

LinkInv == CoherentInv /\ (UniqueIds => FirstLink /\ SecondLink)

\* Nothing is walked over at the start.
LEMMA InitLink == Init => LinkInv
<1> SUFFICES ASSUME Init PROVE LinkInv
  OBVIOUS
<1>1. CoherentInv /\ TypeOK
  BY InitCoherent, InitType
<1>2. pass = 1 /\ at = 1
  BY DEF Init
<1>3. \A i \in DOMAIN claims : i \in Nat /\ i >= 1
  BY <1>1 DEF TypeOK
<1>4. QED
  BY <1>1, <1>2, <1>3 DEF LinkInv, FirstLink, SecondLink

\* A claim that rests on a fallen one does not stand after it was looked at.
LEMMA VisitTakesDown ==
  ASSUME CoherentInv, UniqueIds, Visit, NEW j \in DOMAIN claims,
         claims[j].id \in claims[at].deps, verdict[j] \in Fell
  PROVE  verdict'[at] = "INVALIDATED"
<1>1. TypeOK /\ at \in DOMAIN claims
  BY DEF CoherentInv, SoundInv, Visit
<1>2. claims[j].id \in Id
  BY <1>1, DepsAreIds
<1>3. claims[j].id \in Bad(at)
  BY <1>2, TableOf DEF Bad
<1>4. QED
  BY <1>1, <1>3 DEF Visit, TypeOK

\* Each walk settles one more link.
LEMMA NextLink == LinkInv /\ [Next]_vars => LinkInv'
<1> SUFFICES ASSUME LinkInv, [Next]_vars PROVE LinkInv'
  OBVIOUS
<1>t. TypeOK /\ TypeOK' /\ CoherentInv /\ CoherentInv'
  BY NextCoherent DEF LinkInv, CoherentInv, SoundInv
<1>n. at \in Nat /\ pass \in Nat /\ \A i \in DOMAIN claims : i \in Nat
  BY <1>t, DepsAreIds DEF TypeOK
<1>1. CASE Visit
  <2>1. /\ claims' = claims /\ at \in DOMAIN claims
        /\ at' = at + 1 /\ pass' = pass
        /\ \A i \in DOMAIN claims :
             /\ verdict[i] = "INVALIDATED" => verdict'[i] = "INVALIDATED"
             /\ verdict[i] \in Fell => verdict'[i] \in Fell
    BY <1>t, <1>1 DEF Visit, TypeOK, Fell
  <2>2. \A i \in DOMAIN claims : Root(i) => verdict[i] \in Fell
    BY <1>t DEF CoherentInv, SoundInv, OnlyInvalidates, Root, Fell
  <2> SUFFICES ASSUME UniqueIds PROVE (FirstLink /\ SecondLink)'
    BY <1>t, <2>1 DEF LinkInv, UniqueIds
  <2>3. FirstLink'
    <3> SUFFICES ASSUME NEW i \in DOMAIN claims, NEW j \in DOMAIN claims,
                        Root(i), claims[i].id \in claims[j].deps,
                        pass > 1 \/ j < at + 1
                 PROVE  verdict'[j] = "INVALIDATED"
      BY <2>1 DEF FirstLink, Root
    <3>1. CASE pass > 1 \/ j < at
      BY <2>1, <3>1 DEF LinkInv, FirstLink
    <3>2. CASE ~(pass > 1 \/ j < at)
      <4>1. j = at
        BY <1>n, <3>2
      <4>2. QED
        BY <1>t, <1>1, <2>2, <4>1, VisitTakesDown
    <3>3. QED
      BY <3>1, <3>2
  <2>4. SecondLink'
    <3> SUFFICES ASSUME NEW i \in DOMAIN claims, NEW j \in DOMAIN claims,
                        NEW k \in DOMAIN claims,
                        Root(i), claims[i].id \in claims[j].deps,
                        claims[j].id \in claims[k].deps,
                        pass > 2 \/ (pass = 2 /\ k < at + 1)
                 PROVE  verdict'[k] = "INVALIDATED"
      BY <2>1 DEF SecondLink, Root
    <3>1. CASE pass > 2 \/ (pass = 2 /\ k < at)
      BY <2>1, <3>1 DEF LinkInv, SecondLink
    <3>2. CASE ~(pass > 2 \/ (pass = 2 /\ k < at))
      <4>1. k = at /\ pass > 1
        BY <1>n, <3>2
      <4>2. verdict[j] \in Fell
        BY <4>1 DEF LinkInv, FirstLink, Fell
      <4>3. QED
        BY <1>t, <1>1, <4>1, <4>2, VisitTakesDown
    <3>3. QED
      BY <3>1, <3>2
  <2>5. QED
    BY <2>3, <2>4
<1>2. CASE NextPass
  <2>1. /\ claims' = claims /\ verdict' = verdict
        /\ pass' = pass + 1 /\ at' = 1
        /\ at \notin DOMAIN claims
    BY <1>2 DEF NextPass
  <2>2. \A i \in DOMAIN claims : i < at /\ ~(i < 1)
    <3>1. at > Len(claims)
      BY <1>t, <2>1 DEF TypeOK
    <3>2. \A i \in DOMAIN claims : i >= 1
      BY <1>t DEF TypeOK
    <3>3. QED
      BY <1>t, <1>n, <3>1, <3>2, DepsAreIds
  <2>3. UniqueIds' => FirstLink' /\ SecondLink'
    <3> SUFFICES ASSUME UniqueIds PROVE FirstLink' /\ SecondLink'
      BY <2>1 DEF UniqueIds
    <3>1. FirstLink'
      BY <1>n, <2>1, <2>2 DEF LinkInv, FirstLink, Root
    <3>2. pass' > 2 \/ (pass' = 2 /\ at' > 1) => pass > 1
      BY <1>n, <2>1
    <3>3. SecondLink'
      <4> SUFFICES ASSUME NEW i \in DOMAIN claims, NEW j \in DOMAIN claims,
                          NEW k \in DOMAIN claims,
                          Root(i), claims[i].id \in claims[j].deps,
                          claims[j].id \in claims[k].deps,
                          pass' > 2 \/ (pass' = 2 /\ k < 1)
                   PROVE  verdict[k] = "INVALIDATED"
        BY <2>1 DEF SecondLink, Root
      <4>1. k < at /\ pass > 1
        BY <1>n, <2>1, <2>2
      <4>2. pass > 2 \/ (pass = 2 /\ k < at)
        BY <1>n, <4>1
      <4>3. QED
        BY <4>2 DEF LinkInv, SecondLink
    <3>4. QED
      BY <3>1, <3>3
  <2>4. QED
    BY <1>t, <2>3 DEF LinkInv
<1>3. CASE UNCHANGED <<claims, verdict, pass, at>>
  BY <1>t, <1>3 DEF LinkInv, FirstLink, SecondLink, UniqueIds, Root
<1>4. QED
  BY <1>1, <1>2, <1>3 DEF Next, Summarize, vars

\* "two passes settle short chains": with two passes or more, chains of two
\* links do not stand, in whatever order the claims are listed.
THEOREM ShortChainsTheorem == Passes >= 2 => (Spec => []ShortChainsSettled)
<1> SUFFICES ASSUME Passes >= 2 PROVE Spec => []ShortChainsSettled
  OBVIOUS
<1>1. LinkInv => ShortChainsSettled
  <2> SUFFICES ASSUME LinkInv, Settled, UniqueIds,
                      NEW i \in DOMAIN claims, NEW j \in DOMAIN claims,
                      NEW k \in DOMAIN claims,
                      Root(i), claims[i].id \in claims[j].deps
               PROVE  ~Stands(j) /\ (claims[j].id \in claims[k].deps => ~Stands(k))
    BY DEF ShortChainsSettled, Root
  <2>1. pass > 2
    BY DEF Settled, LinkInv, CoherentInv, SoundInv, TypeOK
  <2>2. pass \in Nat
    BY DEF LinkInv, CoherentInv, SoundInv, TypeOK
  <2>3. pass > 1
    BY <2>1, <2>2
  <2>4. QED
    BY <2>1, <2>3 DEF LinkInv, FirstLink, SecondLink, Stands
<1>2. Spec => []LinkInv
  BY InitLink, NextLink, PTL DEF Spec
<1>3. QED
  BY <1>1, <1>2, PTL

=============================================================================
