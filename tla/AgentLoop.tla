----------------------------- MODULE AgentLoop -----------------------------
(***************************************************************************)
(* The grounding loop (ReconstructionAgent.run, reverify/agent.py): rounds  *)
(* of claims by a model, checked, scored against the fact sheet and the     *)
(* ledger, and saved after every round; a run may die between any two       *)
(* steps, and the next one resumes from the ledger or starts afresh.        *)
(*                                                                          *)
(* A location stands for one kind at one file offset, the identity          *)
(* echo_key gives a result.  It can be read at several lengths (for the     *)
(* typed reads: in either byte order), and what is read at two of them      *)
(* differs; of each location the sheet, the ledger and the echo check keep  *)
(* the value read last.  A claim can be written in several forms: another   *)
(* address space, another spelling of the number.                           *)
(***************************************************************************)
EXTENDS Naturals, FiniteSets

CONSTANTS Loc,
          LookedUp,        \* the kinds derivable_from_facts has values of:
                           \* bytes_at and the typed reads, not emulate_result
          Form,
          SheetForm,       \* file offsets, the only form it looks at
          Header,          \* <<location, length>> inside the first 32 bytes
          MaxLength,
          Written,         \* <<location, length, form>>: how claims are written
          MaxRounds,
          MinInformation,  \* every claim that counts weighs one here
          KeepObserved,    \* observed values a trimmed prompt still shows
          MaxBatch,        \* bounds of the model: claims a round,
          MaxRuns          \* and runs over one ledger

ASSUME LocAssumption == LookedUp \subseteq Loc /\ Header \subseteq Loc \X Nat
ASSUME FormAssumption == SheetForm \subseteq Form /\ MaxLength \in Nat \ {0}
ASSUME BoundAssumption ==
  MaxRounds \in Nat \ {0} /\ MinInformation \in Nat /\ KeepObserved \in Nat /\
  MaxBatch \in Nat /\ MaxRuns \in Nat

VARIABLES
  phase,     \* "off", then "prompt", "propose", "save" in turn, and "finish"
  disk,      \* the ledger file
  mem,       \* the run's ledger object
  sheet,     \* facts["observed"]: the length last read at a location, or 0
  view,      \* the locations of it the prompt shows
  prev,      \* prev_actual: the length last shown by the last round, or 0
  round,
  credited,  \* the claims the last report gave weight
  grounded,
  runs,      \* runs started, for the bound
  tally,     \* tally[c]: completed rounds that credited c since the last clear
  kept       \* what completed rounds recorded since the last clear

score == <<sheet, view, prev, credited, grounded>>
ghosts == <<tally, kept>>
vars == <<phase, disk, mem, score, round, runs, ghosts>>

Length == 1..MaxLength
Values == [Loc -> Length \union {0}]
NoValues == [l \in Loc |-> 0]

Claim == {c \in [loc : Loc, len : Length, form : Form,
                 want : {"right", "wrong", "ask"}] :
            <<c.loc, c.len, c.form>> \in Written}
Doc == [facts : SUBSET Claim, observed : Values, refuted : SUBSET Claim]
Empty == [facts |-> {}, observed |-> NoValues, refuted |-> {}]

\* What the proposer may answer; parse_claims turns anything else into {},
\* and the round keeps one claim per claim_key.
Proposals == {P \in SUBSET Claim : Cardinality(P) <= MaxBatch}

\* The facts and refutations of both, and the values of the second.
Joined(d, e) == [facts |-> d.facts \union e.facts, observed |-> e.observed,
                 refuted |-> d.refuted \union e.refuted]

Within(d, e) == /\ d.facts \subseteq e.facts
                /\ \A l \in Loc : d.observed[l] \in {0, e.observed[l]}
                /\ d.refuted \subseteq e.refuted

Answered(values) == {l \in Loc : values[l] # 0}

TypeOK ==
  /\ phase \in {"off", "prompt", "propose", "save", "finish"}
  /\ disk \in Doc /\ mem \in Doc /\ kept \in Doc
  /\ sheet \in Values /\ view \subseteq Answered(sheet) /\ prev \in Values
  /\ round \in 0..MaxRounds /\ runs \in 0..MaxRuns
  /\ credited \subseteq Claim /\ grounded \in BOOLEAN
  /\ tally \in [Claim -> Nat]

Init ==
  /\ phase = "off"
  /\ disk = Empty /\ mem = Empty /\ kept = Empty
  /\ sheet = NoValues /\ view = {} /\ prev = NoValues
  /\ round = 0 /\ runs = 0
  /\ credited = {} /\ grounded = FALSE
  /\ tally = [c \in Claim |-> 0]

-----------------------------------------------------------------------------
(***************************************************************************)
(* Scoring a round.                                                         *)
(***************************************************************************)
Saying(P, want) == {c \in P : c.want = want}
Lengths(P, l) == {c.len : c \in {d \in P : d.loc = l}}

\* Mutant: scored against what the model was shown.
TrivialInView(c) ==
  /\ c.form \in SheetForm
  /\ \/ <<c.loc, c.len>> \in Header
     \/ c.loc \in LookedUp \intersect view /\ sheet[c.loc] = c.len

\* derivable_from_facts: the header, and the one value kept of a location
Trivial(c) ==
  /\ c.form \in SheetForm
  /\ \/ <<c.loc, c.len>> \in Header
     \/ c.loc \in LookedUp /\ sheet[c.loc] = c.len

\* the claimed value is the one the previous round showed last, in any form
Echo(c) == prev[c.loc] = c.len

\* Mutant: what an earlier run put into the ledger is not known.
KnownHere(c) == c \in mem.facts /\ round > 1

\* claim_key in ledger.fact_keys()
Known(c) == c \in mem.facts

Credit(P) == {c \in Saying(P, "right") : ~ Trivial(c) /\ ~ Echo(c) /\ ~ Known(c)}

\* summarize: nothing refuted, something verified, enough information
GroundedReport(P) ==
  /\ Saying(P, "wrong") = {}
  /\ Saying(P, "right") # {}
  /\ Cardinality(Credit(P)) >= MinInformation

\* The values after the tools have answered P: of several at one location the
\* last in the list remains, and the list may have any order.
Answers(P, old) ==
  {v \in Values : \A l \in Loc :
     LET asked == Lengths(Saying(P, "ask"), l)
     IN  v[l] \in IF asked = {} THEN {old[l]} ELSE asked}

\* What the round shows, refutations included, for the next round's echo check.
Shows(P, new) ==
  {v \in Values : \A l \in Loc :
     LET asked == Lengths(Saying(P, "ask"), l)
         denied == Lengths(Saying(P, "wrong"), l)
         last == denied \union IF asked = {} THEN {} ELSE {new[l]}
     IN  v[l] \in IF last = {} THEN {0} ELSE last}

\* what Ledger.record adds for a scored report
Recorded(P, new) ==
  [facts |-> mem.facts \union Credit(P), observed |-> new,
   refuted |-> mem.refuted \union Saying(P, "wrong")]

-----------------------------------------------------------------------------
(***************************************************************************)
(* One run.                                                                 *)
(***************************************************************************)
\* The ledger is loaded, or cleared when not resuming; start_run is saved.
Start(resume) ==
  LET doc == IF resume THEN disk ELSE Empty
  IN  /\ phase = "off" /\ runs < MaxRuns
      /\ phase' = "prompt"
      /\ mem' = doc /\ disk' = doc
      /\ sheet' = doc.observed
      /\ view' = {} /\ prev' = NoValues /\ credited' = {} /\ grounded' = FALSE
      /\ round' = 1 /\ runs' = runs + 1
      /\ tally' = IF resume THEN tally ELSE [c \in Claim |-> 0]
      /\ kept' = IF resume THEN kept ELSE Empty

\* compact_facts: the whole sheet, or the newest KeepObserved of its values
Prompt ==
  /\ phase = "prompt"
  /\ phase' = "propose"
  /\ view' \in {v \in SUBSET Answered(sheet) :
                  v = Answered(sheet) \/ Cardinality(v) = KeepObserved}
  /\ UNCHANGED <<disk, mem, sheet, prev, credited, grounded, round, runs, ghosts>>

\* The claims are verified and scored, observed values join the sheet, and
\* the results join the ledger object.
Judge(P) ==
  /\ phase = "propose"
  /\ phase' = "save"
  /\ credited' = Credit(P)
  /\ grounded' = GroundedReport(P)
  /\ sheet' \in Answers(P, sheet)
  /\ prev' \in Shows(P, sheet')
  /\ mem' = Recorded(P, sheet')
  /\ UNCHANGED <<disk, view, round, runs, ghosts>>

LastRound == grounded \/ round = MaxRounds

\* Mutant: only the last round is saved.
SaveAtEnd ==
  /\ phase = "save"
  /\ disk' = IF LastRound THEN mem ELSE disk
  /\ tally' = [c \in Claim |-> tally[c] + IF c \in credited THEN 1 ELSE 0]
  /\ kept' = Joined(kept, mem)
  /\ phase' = IF LastRound THEN "finish" ELSE "prompt"
  /\ round' = IF LastRound THEN round ELSE round + 1
  /\ UNCHANGED <<mem, score, runs>>

\* The round's results are on disk: it is complete.
Save ==
  /\ phase = "save"
  /\ disk' = mem
  /\ tally' = [c \in Claim |-> tally[c] + IF c \in credited THEN 1 ELSE 0]
  /\ kept' = Joined(kept, mem)
  /\ phase' = IF LastRound THEN "finish" ELSE "prompt"
  /\ round' = IF LastRound THEN round ELSE round + 1
  /\ UNCHANGED <<mem, score, runs>>

\* The process's memory is gone.
Gone ==
  /\ mem' = Empty
  /\ sheet' = NoValues /\ view' = {} /\ prev' = NoValues /\ credited' = {} /\ grounded' = FALSE
  /\ round' = 0
  /\ UNCHANGED <<runs, ghosts>>

\* The run is over: finish_run is saved, the object goes.
Finish ==
  /\ phase = "finish"
  /\ phase' = "off"
  /\ disk' = mem
  /\ Gone

\* The process dies, or the proposer or a save raises.
Die ==
  /\ phase # "off"
  /\ phase' = "off"
  /\ UNCHANGED disk
  /\ Gone

Step == Prompt \/ (\E P \in Proposals : Judge(P)) \/ Save \/ Finish

Next == (\E resume \in BOOLEAN : Start(resume)) \/ Step \/ Die

Spec == Init /\ [][Next]_vars

-----------------------------------------------------------------------------
(***************************************************************************)
(* The loop credits a claim in one completed round at most, over all the    *)
(* runs that resumed from the same ledger and wherever they died:           *)
(* restating the ledger never makes a later round or run grounded.  The     *)
(* tally is per form: the same fact spelled otherwise is credited again     *)
(* (agent.py:477, verifier.py:1055-1058).                                   *)
(***************************************************************************)
CreditedOnce == \A c \in Claim : tally[c] <= 1

(***************************************************************************)
(* A value the tools read in any completed round, of this run or of one it  *)
(* resumes from, and however much of the sheet the prompt left out, is      *)
(* credited afterwards in three ways only: claimed in another form, or of   *)
(* a kind the sheet has no values of, or after a later read of the same     *)
(* location at another length took its place (verifier.py:1061-1109,        *)
(* agent.py:489).  The rules in the prompt know none of the three.          *)
(***************************************************************************)
ReadNeverCredited ==
  [][ phase' = "save" =>
        \A c \in credited' : c.len = kept.observed[c.loc] =>
                               c.form \notin SheetForm \/ c.loc \notin LookedUp ]_vars

(***************************************************************************)
(* Between runs, and after a death at any step, the ledger file holds       *)
(* everything the completed rounds recorded.                                *)
(***************************************************************************)
CompletedRoundsSurvive == Within(kept, disk)

=============================================================================
