---------------------------- MODULE Orchestrator ----------------------------
(***************************************************************************)
(* The session orchestrator (Orchestrator.run, reverify/rollover.py): a     *)
(* model works in sessions of bounded length; what it declares goes into a  *)
(* checkpoint, what the tools verify into the ledger.  The ledger is saved  *)
(* after every batch, the checkpoint only when a session ends, so a process *)
(* that dies resumes from a hand-off older than its facts.                  *)
(*                                                                          *)
(* What a reply declares (done, todo, decisions, next step, notes) is a set *)
(* of items; how the lists are cut is modelled in BoundedViews.             *)
(***************************************************************************)
EXTENDS Naturals, Sequences, FiniteSets, FiniteSetsExt

CONSTANTS Goal,
          Item,
          Claim,
          Window,       \* drift_window
          MaxTurns,
          MaxSessions,
          MaxRuns,      \* bounds of the model: processes one after another,
          MaxCrashes,
          MaxBatch,     \* and claims in one reply
          None

ASSUME ClaimAssumption == IsFiniteSet(Claim)
ASSUME NoneAssumption == None \notin Goal \union {"model", "budget", "drift", "cap"}
ASSUME BoundAssumption ==
  Window \in Nat \ {0} /\ MaxTurns \in Nat \ {0} /\ MaxSessions \in Nat \ {0} /\
  MaxRuns \in Nat /\ MaxCrashes \in Nat /\ MaxBatch \in Nat

VARIABLES
  phase,     \* "off", or "open", "turn", "rename" and "history" of a session
  file,      \* checkpoint.json
  history,   \* history[n]: what history/session-n.json holds
  ledger,    \* the ledger file
  mem,       \* the run's ledger object
  cp,        \* the run's checkpoint object
  session,   \* session_no of this run
  turns,     \* of this session
  recent,    \* the judged turns of this session
  done,
  why,       \* what the session rolls over for
  runs,      \* processes started and crashed, for the bounds
  crashes,
  declared,  \* what this session declared
  ended,     \* what the sessions that saved their hand-off declared, since
             \* the file last changed its goal
  written,   \* the history numbers those sessions used
  proven     \* what judged batches established

talk == <<turns, recent, why>>
run == <<mem, cp, session, talk, done>>
bounds == <<runs, crashes>>
ghosts == <<declared, ended, written, proven>>
vars == <<phase, file, history, ledger, run, bounds, ghosts>>

Number == 1..(MaxRuns * MaxSessions)
Checkpoint == [goal : Goal \union {None}, items : SUBSET Item, sessions : 0..(MaxRuns * MaxSessions)]
Blank(goal) == [goal |-> goal, items |-> {}, sessions |-> 0]

\* A judged turn: its claims, how many of them the controller counts as
\* restated, and how many passed without saying anything.
Judged == [claims : Nat, counted : Nat, barren : Nat]

TypeOK ==
  /\ phase \in {"off", "open", "turn", "rename", "history"}
  /\ file \in Checkpoint /\ cp \in Checkpoint
  /\ history \in [Number -> Checkpoint]
  /\ ledger \subseteq Claim /\ mem \subseteq Claim /\ proven \subseteq Claim
  /\ session \in 0..MaxSessions /\ turns \in 0..MaxTurns
  /\ recent \in Seq(Judged)
  /\ done \in BOOLEAN /\ why \in {"model", "budget", "drift", "cap", None}
  /\ runs \in 0..MaxRuns /\ crashes \in 0..MaxCrashes
  /\ declared \subseteq Item /\ ended \subseteq Item /\ written \subseteq Number

Init ==
  /\ phase = "off"
  /\ file = Blank(None) /\ cp = Blank(None)
  /\ history = [n \in Number |-> Blank(None)]
  /\ ledger = {} /\ mem = {} /\ proven = {}
  /\ session = 0 /\ turns = 0 /\ recent = <<>>
  /\ done = FALSE /\ why = None
  /\ runs = 0 /\ crashes = 0
  /\ declared = {} /\ ended = {} /\ written = {}

-----------------------------------------------------------------------------
\* Mutant: the session count is not read back.
LoadedUncounted(goal) ==
  IF file.goal = goal THEN [file EXCEPT !.sessions = 0] ELSE Blank(goal)

\* _load_checkpoint: a hand-off for another goal is ignored
Loaded(goal) == IF file.goal = goal THEN file ELSE Blank(goal)

\* A process starts on a goal, with the ledger and the hand-off it finds.
Start(goal) ==
  /\ phase = "off" /\ runs < MaxRuns
  /\ phase' = "open"
  /\ mem' = ledger
  /\ cp' = Loaded(goal)
  /\ session' = 0 /\ turns' = 0 /\ recent' = <<>> /\ done' = FALSE /\ why' = None
  /\ runs' = runs + 1
  /\ declared' = {}
  /\ UNCHANGED <<file, history, ledger, crashes, ended, written, proven>>

\* A session opens: it takes its number and the driver a fresh context.
Open ==
  /\ phase = "open"
  /\ phase' = "turn"
  /\ session' = session + 1
  /\ cp' = [cp EXCEPT !.sessions = @ + 1]
  /\ declared' = {}
  /\ UNCHANGED <<file, history, ledger, mem, talk, done, bounds, ended, written, proven>>

(***************************************************************************)
(* A batch is judged: some of its claims pass, and of these some weigh      *)
(* nothing, because the fact sheet says them by now, they are about bytes   *)
(* that are not in the file, or their kind or content weighs nothing.  What *)
(* the ledger has already weighs nothing, too.                              *)
(***************************************************************************)
Barren(passed, light) == light \union (passed \intersect mem)

\* Mutant: every judged claim counts as restated.
JudgeAll(batch, passed, light) ==
  [claims |-> Cardinality(batch), barren |-> Cardinality(Barren(passed, light)),
   counted |-> Cardinality(batch)]

\* trivial_verified counts all that passed and weighs nothing, known counts
\* what the ledger has once more; nothing is marked as echoed here.
Judge(batch, passed, light) ==
  LET barren == Cardinality(Barren(passed, light))
  IN  [claims |-> Cardinality(batch), barren |-> barren,
       counted |-> barren + Cardinality(passed \intersect mem)]

Sum(log, Of(_)) == MapThenSumSet(LAMBDA i : Of(log[i]), DOMAIN log)

Recent(log) == SubSeq(log, IF Len(log) > Window THEN Len(log) - Window + 1 ELSE 1, Len(log))

\* what is counted is 3/4 of the claims of the last Window judged turns or more
Drift(log) ==
  LET last == Recent(log)
      claims == Sum(last, LAMBDA j : j.claims)
  IN  Len(last) >= Window /\ claims > 0 /\ 4 * Sum(last, LAMBDA j : j.counted) >= 3 * claims

\* Why a session rolls over, in the order the controller asks: the model's
\* signal, the budget, drift, the cap on turns.
Reason(asks, over, log, n) ==
  CASE asks -> "model"
    [] ~ asks /\ over -> "budget"
    [] ~ asks /\ ~ over /\ Drift(log) -> "drift"
    [] ~ asks /\ ~ over /\ ~ Drift(log) /\ n >= MaxTurns -> "cap"
    [] OTHER -> None

\* One reply: its declarations are merged, its claims judged, recorded and
\* saved; then it may say that the goal is met, or the session rolls over.
\* A list of claims none of which can be read is judged like an empty one.
Turn(items, judged, batch, passed, light, finished, asks, over) ==
  LET log == IF judged THEN Append(recent, Judge(batch, passed, light)) ELSE recent
      reason == IF finished THEN None ELSE Reason(asks, over, log, turns + 1)
  IN  /\ phase = "turn"
      /\ phase' = IF finished \/ reason # None THEN "rename" ELSE "turn"
      /\ turns' = turns + 1
      /\ cp' = [cp EXCEPT !.items = @ \union items]
      /\ mem' = mem \union (passed \ light)
      /\ ledger' = IF judged THEN mem' ELSE ledger
      /\ recent' = log
      /\ done' = finished
      /\ why' = reason
      /\ declared' = declared \union items
      /\ proven' = proven \union (passed \ light)
      /\ UNCHANGED <<file, history, session, bounds, ended, written>>

\* Mutant: the checkpoint on disk is not replaced.
RenameNothing ==
  /\ phase = "rename"
  /\ phase' = "history"
  /\ ledger' = mem
  /\ ended' = declared \union IF file.goal = cp.goal THEN ended ELSE {}
  /\ written' = IF file.goal = cp.goal THEN written ELSE {}
  /\ turns' = 0 /\ recent' = <<>> /\ why' = None
  /\ UNCHANGED <<file, history, mem, cp, session, done, bounds, declared, proven>>

\* The session is over: the ledger is saved and the checkpoint renamed into
\* place ...
Rename ==
  /\ phase = "rename"
  /\ phase' = "history"
  /\ ledger' = mem
  /\ file' = cp
  /\ ended' = declared \union IF file.goal = cp.goal THEN ended ELSE {}
  /\ written' = IF file.goal = cp.goal THEN written ELSE {}
  /\ turns' = 0 /\ recent' = <<>> /\ why' = None
  /\ UNCHANGED <<history, mem, cp, session, done, bounds, declared, proven>>

\* The process's memory is gone.
Gone ==
  /\ phase' = "off"
  /\ mem' = {} /\ cp' = Blank(None)
  /\ session' = 0 /\ turns' = 0 /\ recent' = <<>> /\ done' = FALSE /\ why' = None
  /\ declared' = {}

\* ... and copied into the history; then the next session opens, or the run
\* is over.
Snapshot ==
  /\ phase = "history"
  /\ history' = [history EXCEPT ![cp.sessions] = cp]
  /\ written' = written \union {cp.sessions}
  /\ \/ /\ session < MaxSessions /\ ~ done
        /\ phase' = "open"
        /\ UNCHANGED <<run, declared>>
     \/ /\ session = MaxSessions \/ done
        /\ Gone
  /\ UNCHANGED <<file, ledger, bounds, ended, proven>>

\* The process dies, or the driver or a save raises.
Crash ==
  /\ phase # "off" /\ crashes < MaxCrashes
  /\ crashes' = crashes + 1
  /\ Gone
  /\ UNCHANGED <<file, history, ledger, runs, ended, written, proven>>

Reply ==
  \E items \in SUBSET Item, batch \in {B \in SUBSET Claim : Cardinality(B) <= MaxBatch} :
    \E passed \in SUBSET batch, judged \in BOOLEAN : \E light \in SUBSET passed :
      /\ batch # {} => judged
      /\ \E finished, asks, over \in BOOLEAN :
           Turn(items, judged, batch, passed, light, finished, asks, over)

Step == Open \/ Reply \/ Rename \/ Snapshot

Next == (\E goal \in Goal : Start(goal)) \/ Step \/ Crash

Spec == Init /\ [][Next]_vars

-----------------------------------------------------------------------------
(***************************************************************************)
(* A process that dies loses what its current session declared and nothing  *)
(* else: the hand-off file is what the ended sessions of its goal declared, *)
(* and the ledger file holds all that any judged batch established.         *)
(***************************************************************************)
CrashLosesOneSession == file.items = ended /\ proven \subseteq ledger

(***************************************************************************)
(* While the file's goal stays the same, no session overwrites the history  *)
(* entry of another, wherever processes died in between.                    *)
(***************************************************************************)
HistoryKept == [][\A n \in written : history'[n] = history[n]]_vars

(***************************************************************************)
(* A rollover for drift means that at least half of drift_ratio of the      *)
(* window's claims passed and said nothing.  The class promises that the    *)
(* whole ratio were restatements; the controller counts a known claim twice *)
(* and all that weighs nothing once (rollover.py:302-303, 476, 493-494).    *)
(***************************************************************************)
DriftBarren ==
  why = "drift" =>
    LET last == Recent(recent)
    IN  8 * Sum(last, LAMBDA j : j.barren) >= 3 * Sum(last, LAMBDA j : j.claims)

=============================================================================
