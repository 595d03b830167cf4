-------------------------- MODULE AgentLoopProofs --------------------------
(***************************************************************************)
(* Theorems about AgentLoop, for any locations, forms, rounds and runs.     *)
(***************************************************************************)
EXTENDS AgentLoop, TLAPS

USE LocAssumption, FormAssumption, BoundAssumption

-----------------------------------------------------------------------------
(***************************************************************************)
(* The ledger file holds what completed rounds recorded, and the ledger     *)
(* object of a run holds what its file does: so whatever is credited twice  *)
(* would have been known.  The fact sheet holds of every location the value *)
(* the object has observed, and between two rounds that is the value the    *)
(* completed rounds left.                                                   *)
(***************************************************************************)
Remembers == phase # "off" => /\ kept.facts \subseteq mem.facts
                              /\ kept.refuted \subseteq mem.refuted

Newest == /\ phase # "off" => mem.observed = sheet
          /\ phase \in {"prompt", "propose", "finish"} => Within(kept, mem)

Counted == \A c \in Claim : tally[c] # 0 => c \in kept.facts

\* What the round at hand credits is new.
Fresh == phase = "save" => credited \intersect kept.facts = {} /\ credited \subseteq mem.facts

Types ==
  /\ disk \in Doc /\ mem \in Doc /\ kept \in Doc
  /\ sheet \in Values
  /\ tally \in [Claim -> Nat]

Inv == /\ Types /\ CompletedRoundsSurvive /\ CreditedOnce
       /\ Remembers /\ Newest /\ Counted /\ Fresh

\* Documents are joined part by part.
LEMMA JoinedType ==
  ASSUME NEW d \in Doc, NEW e \in Doc, d.facts \subseteq e.facts, d.refuted \subseteq e.refuted
  PROVE  /\ Joined(d, e) \in Doc /\ Within(Joined(d, e), e)
         /\ Joined(d, e).facts = e.facts
BY DEF Doc, Joined, Within

LEMMA EmptyWithin ==
  ASSUME NEW d \in Doc
  PROVE  /\ NoValues \in Values /\ Empty \in Doc /\ Within(Empty, d)
         /\ Empty.observed = NoValues /\ Empty.facts = {} /\ Empty.refuted = {}
BY DEF Doc, Empty, Within, NoValues, Values

LEMMA WithinItself ==
  ASSUME NEW d \in Doc
  PROVE  Within(d, d)
BY DEF Within

\* What a round records are claims, and values.
LEMMA RecordedType ==
  ASSUME mem \in Doc, NEW P \in Proposals, NEW v \in Values
  PROVE  /\ Recorded(P, v) \in Doc
         /\ Recorded(P, v).facts = mem.facts \union Credit(P)
         /\ Recorded(P, v).refuted = mem.refuted \union Saying(P, "wrong")
         /\ Recorded(P, v).observed = v
         /\ Credit(P) \subseteq Claim
<1>1. P \subseteq Claim
  BY DEF Proposals
<1>2. \A w \in {"right", "wrong", "ask"} : Saying(P, w) \subseteq Claim
  BY <1>1 DEF Saying
<1>3. Credit(P) \subseteq Claim
  BY <1>2 DEF Credit
<1>4. QED
  BY <1>2, <1>3 DEF Recorded, Doc

-----------------------------------------------------------------------------
LEMMA InitInv == Init => Inv
<1> SUFFICES ASSUME Init PROVE Inv
  OBVIOUS
<1>1. NoValues \in Values /\ Empty \in Doc
  BY DEF Doc, Empty, NoValues, Values
<1>2. Types
  BY <1>1 DEF Init, Types
<1>3. CompletedRoundsSurvive /\ CreditedOnce /\ Counted
  BY <1>1, WithinItself DEF Init, CompletedRoundsSurvive, CreditedOnce, Counted
<1>4. Remembers /\ Newest /\ Fresh
  BY DEF Init, Remembers, Newest, Fresh
<1>5. QED
  BY <1>2, <1>3, <1>4 DEF Inv

\* A run starts with the file, or everything is forgotten at once.
LEMMA StartInv ==
  ASSUME Inv, NEW resume \in BOOLEAN, Start(resume)
  PROVE  Inv'
<1> USE DEF Inv, Types, Start
<1>1. CASE resume
  <2>1. mem' = disk /\ disk' = disk /\ sheet' = disk.observed /\ kept' = kept /\ tally' = tally
        /\ phase' = "prompt"
    BY <1>1
  <2>2. Types' /\ sheet' \in Values
    BY <2>1 DEF Doc
  <2>3. CompletedRoundsSurvive' /\ CreditedOnce' /\ Counted'
    BY <2>1 DEF CompletedRoundsSurvive, CreditedOnce, Counted
  <2>4. Remembers' /\ Newest' /\ Fresh'
    BY <2>1 DEF Remembers, CompletedRoundsSurvive, Within, Newest, Fresh
  <2>5. QED
    BY <2>2, <2>3, <2>4
<1>2. CASE ~ resume
  <2>1. /\ mem' = Empty /\ disk' = Empty /\ sheet' = Empty.observed /\ kept' = Empty
        /\ tally' = [c \in Claim |-> 0] /\ phase' = "prompt"
    BY <1>2
  <2>2. Empty \in Doc /\ Empty.observed \in Values /\ Within(Empty, Empty)
    BY EmptyWithin
  <2>3. Types'
    BY <2>1, <2>2
  <2>4. CompletedRoundsSurvive' /\ Remembers' /\ Newest' /\ Fresh'
    BY <2>1, <2>2 DEF CompletedRoundsSurvive, Remembers, Newest, Fresh
  <2>5. CreditedOnce' /\ Counted'
    BY <2>1 DEF CreditedOnce, Counted
  <2>6. QED
    BY <2>3, <2>4, <2>5
<1>3. QED
  BY <1>1, <1>2

LEMMA PromptInv ==
  ASSUME Inv, Prompt
  PROVE  Inv'
BY DEF Inv, Types, Prompt, ghosts, CompletedRoundsSurvive, CreditedOnce, Remembers,
       Newest, Counted, Fresh

\* What is credited is not in the ledger object, so in no completed round.
LEMMA JudgeInv ==
  ASSUME Inv, NEW P \in Proposals, Judge(P)
  PROVE  Inv'
<1> USE DEF Inv, Types, Judge, ghosts
<1>0. sheet' \in Values
  BY DEF Answers
<1>1. /\ mem' \in Doc /\ mem'.facts = mem.facts \union Credit(P)
      /\ mem.refuted \subseteq mem'.refuted /\ mem'.observed = sheet'
  BY <1>0, RecordedType
<1>2. Types'
  BY <1>0, <1>1
<1>3. CompletedRoundsSurvive' /\ CreditedOnce' /\ Counted'
  BY DEF CompletedRoundsSurvive, CreditedOnce, Counted
<1>4. Remembers' /\ Newest'
  BY <1>1 DEF Remembers, Newest
<1>5. Fresh'
  <2>1. Credit(P) \intersect mem.facts = {}
    BY DEF Credit, Known
  <2>2. kept.facts \subseteq mem.facts
    BY DEF Remembers
  <2>3. QED
    BY <1>1, <2>1, <2>2 DEF Fresh
<1>6. QED
  BY <1>2, <1>3, <1>4, <1>5

\* A completed round adds one to what was never credited before.
LEMMA SaveInv ==
  ASSUME Inv, Save
  PROVE  Inv'
<1> USE DEF Inv, Types, Save, score
<1>1. kept' \in Doc /\ Within(kept', mem) /\ kept'.facts = mem.facts
  BY JoinedType DEF Remembers
<1>2. tally' \in [Claim -> Nat]
  OBVIOUS
<1>3. Types'
  BY <1>1, <1>2
<1>4. CompletedRoundsSurvive' /\ Remembers' /\ Newest'
  BY <1>1 DEF CompletedRoundsSurvive, Remembers, Newest, Within
<1>5. kept.facts \subseteq mem.facts
  BY DEF Remembers
<1>6. ASSUME NEW c \in Claim
      PROVE  tally'[c] <= 1 /\ (tally'[c] # 0 => c \in kept'.facts)
  <2>1. CASE c \in credited
    <3>1. c \notin kept.facts /\ c \in mem.facts
      BY <2>1 DEF Fresh
    <3>2. tally[c] = 0
      BY <3>1 DEF Counted
    <3>3. tally'[c] = 1
      BY <2>1, <3>2
    <3>4. QED
      BY <1>1, <3>1, <3>3
  <2>2. CASE c \notin credited
    <3>1. tally'[c] = tally[c]
      BY <2>2
    <3>2. QED
      BY <1>1, <1>5, <3>1 DEF CreditedOnce, Counted
  <2>3. QED
    BY <2>1, <2>2
<1>7. CreditedOnce' /\ Counted'
  BY <1>6 DEF CreditedOnce, Counted
<1>8. Fresh'
  BY DEF Fresh
<1>9. QED
  BY <1>3, <1>4, <1>7, <1>8

\* What the file says of a run does not change when its memory goes.
LEMMA GoneInv ==
  ASSUME Inv, Gone, phase' = "off", disk' \in Doc, Within(kept, disk')
  PROVE  Inv'
<1> USE DEF Inv, Types, Gone, ghosts
<1>1. Types'
  BY EmptyWithin
<1>2. CompletedRoundsSurvive' /\ CreditedOnce' /\ Counted'
  BY DEF CompletedRoundsSurvive, CreditedOnce, Counted
<1>3. Remembers' /\ Newest' /\ Fresh'
  BY DEF Remembers, Newest, Fresh
<1>4. QED
  BY <1>1, <1>2, <1>3

LEMMA FinishInv ==
  ASSUME Inv, Finish
  PROVE  Inv'
<1>1. disk' \in Doc /\ Within(kept, disk')
  BY DEF Inv, Types, Finish, Newest
<1>2. QED
  BY <1>1, GoneInv DEF Finish

LEMMA DieInv ==
  ASSUME Inv, Die
  PROVE  Inv'
<1>1. disk' \in Doc /\ Within(kept, disk')
  BY DEF Inv, Types, Die, CompletedRoundsSurvive
<1>2. QED
  BY <1>1, GoneInv DEF Die

LEMMA NextInv == Inv /\ [Next]_vars => Inv'
<1> SUFFICES ASSUME Inv, [Next]_vars PROVE Inv'
  OBVIOUS
<1>1. CASE Next
  BY <1>1, StartInv, PromptInv, JudgeInv, SaveInv, FinishInv, DieInv DEF Next, Step
<1>2. CASE UNCHANGED vars
  BY <1>2 DEF vars, score, ghosts, Inv, Types, CompletedRoundsSurvive, CreditedOnce, Remembers,
              Newest, Counted, Fresh
<1>3. QED
  BY <1>1, <1>2

(***************************************************************************)
(* Over any number of rounds and of runs, resumed after any death, a claim  *)
(* is credited in one completed round at most.                              *)
(***************************************************************************)
THEOREM CreditedTheorem == Spec => []CreditedOnce
<1>1. Inv => CreditedOnce
  BY DEF Inv
<1>2. QED
  BY <1>1, InitInv, NextInv, PTL DEF Spec

(***************************************************************************)
(* What completed rounds recorded is in the ledger file, wherever runs die. *)
(***************************************************************************)
THEOREM SurviveTheorem == Spec => []CompletedRoundsSurvive
<1>1. Inv => CompletedRoundsSurvive
  BY DEF Inv
<1>2. QED
  BY <1>1, InitInv, NextInv, PTL DEF Spec

(***************************************************************************)
(* A value read in a completed round, of any run on the same ledger, is     *)
(* credited only in another form, or where the sheet keeps no values, or    *)
(* once a later read at another length has replaced it.                     *)
(***************************************************************************)
ReadStep ==
  phase' = "save" =>
    \A c \in credited' : c.len = kept.observed[c.loc] =>
                           c.form \notin SheetForm \/ c.loc \notin LookedUp

\* Only judging begins a save, and it scores against the whole sheet, which
\* holds the newest value of every completed round.
LEMMA StepRead == Inv /\ [Next]_vars => [ReadStep]_vars
<1> SUFFICES ASSUME Inv, Next, phase' = "save"
             PROVE  ReadStep
  BY DEF ReadStep
<1>1. PICK P \in Proposals : Judge(P)
  BY DEF Next, Step, Start, Prompt, Save, Finish, Die
<1>2. \A l \in Loc : kept.observed[l] \in {0, sheet[l]}
  BY <1>1 DEF Inv, Newest, Judge, Within
<1>3. ASSUME NEW c \in Credit(P), c.len = kept.observed[c.loc]
      PROVE  c.form \notin SheetForm \/ c.loc \notin LookedUp
  <2>1. c \in Claim
    BY RecordedType DEF Credit, Saying, Proposals
  <2>2. c.len \in Length /\ c.loc \in Loc
    BY <2>1 DEF Claim
  <2>3. c.len # 0
    BY <2>2 DEF Length
  <2>4. sheet[c.loc] = c.len
    BY <1>2, <1>3, <2>2, <2>3
  <2>5. ~ Trivial(c)
    BY DEF Credit
  <2>6. QED
    BY <2>4, <2>5 DEF Trivial
<1>4. QED
  BY <1>1, <1>3 DEF ReadStep, Judge

THEOREM ReadTheorem == Spec => ReadNeverCredited
<1>1. Inv /\ [Next]_vars => [ReadStep]_vars
  BY StepRead
<1>2. QED
  BY <1>1, InitInv, NextInv, PTL DEF Spec, ReadNeverCredited, ReadStep

(***************************************************************************)
(* Types are kept: no run exceeds its rounds, and the prompt shows nothing  *)
(* the fact sheet does not say.                                             *)
(***************************************************************************)
TypeInv == Inv /\ TypeOK

LEMMA NextType == TypeInv /\ [Next]_vars => TypeInv'
<1> SUFFICES ASSUME TypeInv, [Next]_vars PROVE TypeInv'
  OBVIOUS
<1>1. Inv' /\ Types'
  BY NextInv DEF TypeInv, Inv
<1> USE DEF TypeInv, TypeOK, Types, score, ghosts
<1>2. ASSUME NEW resume \in BOOLEAN, Start(resume) PROVE TypeOK'
  <2>1. tally' \in [Claim -> Nat] /\ sheet' \in Values /\ NoValues \in Values
    BY <1>1, EmptyWithin
  <2>2. grounded' \in BOOLEAN
    BY <1>2 DEF Start
  <2>3. round' \in 0..MaxRounds /\ runs' \in 0..MaxRuns
    BY <1>2 DEF Start
  <2>4. phase' = "prompt" /\ view' = {} /\ prev' = NoValues /\ credited' = {}
    BY <1>2 DEF Start
  <2>5. QED
    BY <1>1, <2>1, <2>2, <2>3, <2>4
<1>3. CASE Prompt
  BY <1>1, <1>3 DEF Prompt
<1>4. ASSUME NEW P \in Proposals, Judge(P) PROVE TypeOK'
  <2>1. grounded' \in BOOLEAN
    BY <1>4, Zenon DEF Judge, GroundedReport
  <2>2. prev' \in Values
    BY <1>4 DEF Judge, Shows
  <2>3. credited' \subseteq Claim
    BY <1>1, <1>4, RecordedType DEF Judge
  <2>4. view \subseteq Answered(sheet')
    <3>1. ASSUME NEW l \in Loc, sheet[l] # 0 PROVE sheet'[l] # 0
      <4>1. sheet'[l] \in {sheet[l]} \union Lengths(Saying(P, "ask"), l)
        BY <1>4 DEF Judge, Answers
      <4>2. 0 \notin Lengths(Saying(P, "ask"), l)
        <5>1. \A c \in P : c.len # 0
          <6>1. P \subseteq Claim /\ 0 \notin Length
            BY DEF Proposals, Length
          <6>2. \A c \in Claim : c.len \in Length
            BY DEF Claim
          <6>3. QED
            BY <6>1, <6>2
        <5>2. QED
          BY <5>1 DEF Lengths, Saying
      <4>3. QED
        BY <3>1, <4>1, <4>2
    <3>2. QED
      BY <3>1 DEF Answered
  <2>5. QED
    BY <1>1, <1>4, <2>1, <2>2, <2>3, <2>4 DEF Judge
<1>5. CASE Save
  <2>1. round' \in 0..MaxRounds
    BY <1>5 DEF Save, LastRound
  <2>2. phase' \in {"finish", "prompt"}
    BY <1>5 DEF Save
  <2>3. UNCHANGED <<sheet, view, prev, credited, grounded, runs>>
    BY <1>5 DEF Save
  <2>4. QED
    BY <1>1, <2>1, <2>2, <2>3
<1>6. CASE Finish \/ Die
  <2>1. /\ phase' = "off" /\ sheet' = NoValues /\ view' = {} /\ prev' = NoValues
        /\ credited' = {} /\ round' = 0 /\ runs' = runs
    BY <1>6 DEF Finish, Die, Gone
  <2>2. grounded' \in BOOLEAN
    BY <1>6, Zenon DEF Finish, Die, Gone
  <2>3. NoValues \in Values
    BY EmptyWithin
  <2>4. QED
    BY <1>1, <2>1, <2>2, <2>3
<1>7. CASE UNCHANGED vars
  <2>1. UNCHANGED <<phase, sheet, view, prev, credited, round, runs>>
    BY <1>7 DEF vars
  <2>2. grounded' \in BOOLEAN
    BY <1>7 DEF vars
  <2>3. QED
    BY <1>1, <2>1, <2>2
<1>8. QED
  BY <1>1, <1>2, <1>3, <1>4, <1>5, <1>6, <1>7 DEF Next, Step

\* Types hold at first and are kept.
THEOREM TypeCorrect == Spec => []TypeOK
<1>1. Init => TypeInv
  <2>1. ASSUME Init PROVE TypeOK
    <3>1. Types /\ grounded \in BOOLEAN
      BY <2>1, InitInv DEF Inv, Init
    <3>2. QED
      BY <2>1, <3>1 DEF Init, Types, TypeOK
  <2>2. QED
    BY <2>1, InitInv DEF TypeInv
<1>2. TypeInv => TypeOK
  BY DEF TypeInv
<1>3. QED
  BY <1>1, <1>2, NextType, PTL DEF Spec

=============================================================================
