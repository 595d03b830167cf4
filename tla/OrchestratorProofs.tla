------------------------- MODULE OrchestratorProofs -------------------------
(***************************************************************************)
(* Theorems about Orchestrator, for any goals, items, claims, sessions,     *)
(* processes and crashes.                                                   *)
(***************************************************************************)
EXTENDS Orchestrator, FiniteSetTheorems, WellFoundedInduction, TLAPS

USE NoneAssumption, BoundAssumption

-----------------------------------------------------------------------------
(***************************************************************************)
(* Sessions are numbered over all processes: what they have used so far     *)
(* stays below a limit that grows with the processes and their sessions.    *)
(***************************************************************************)
Used == IF phase = "off" THEN runs * MaxSessions ELSE (runs - 1) * MaxSessions + session

LEMMA LimitGrows ==
  ASSUME NEW a \in Nat \ {0}, NEW b \in Nat, a <= MaxRuns, b <= MaxSessions
  PROVE  /\ (a - 1) * MaxSessions + b <= a * MaxSessions
         /\ a * MaxSessions <= MaxRuns * MaxSessions
         /\ a * MaxSessions \in Nat
         /\ (a - 1) * MaxSessions + b \in Nat
         /\ MaxRuns * MaxSessions \in Nat
<1>1. (a - 1) * MaxSessions \in Nat /\ a * MaxSessions \in Nat
  OBVIOUS
<1>2. a * MaxSessions = (a - 1) * MaxSessions + MaxSessions
  OBVIOUS
<1>3. MaxRuns * MaxSessions = a * MaxSessions + (MaxRuns - a) * MaxSessions
  OBVIOUS
<1>4. (MaxRuns - a) * MaxSessions \in Nat
  OBVIOUS
<1>5. QED
  BY <1>1, <1>2, <1>3, <1>4

Types ==
  /\ phase \in {"off", "open", "turn", "rename", "history"}
  /\ file \in Checkpoint /\ cp \in Checkpoint
  /\ history \in [Number -> Checkpoint]
  /\ ledger \subseteq Claim /\ mem \subseteq Claim /\ proven \subseteq Claim
  /\ session \in 0..MaxSessions /\ runs \in 0..MaxRuns
  /\ declared \subseteq Item /\ ended \subseteq Item /\ written \subseteq Number

Numbered ==
  /\ phase # "off" => runs # 0 /\ cp.goal \in Goal
  /\ phase = "open" => session < MaxSessions
  /\ phase \in {"turn", "rename", "history"} => session # 0 /\ cp.sessions # 0
  /\ file.sessions <= Used
  /\ phase # "off" => cp.sessions <= Used

(***************************************************************************)
(* The hand-off of a run is the file and what the open session declared, or *)
(* only the latter when the file is another goal's.                         *)
(***************************************************************************)
OfFile == IF cp.goal = file.goal THEN file.items ELSE {}

Carried ==
  /\ file.items = ended
  /\ phase = "open" => cp.items = OfFile
  /\ phase \in {"turn", "rename"} => cp.items = OfFile \union declared

\* The ledger object is never ahead of its file.
Recorded == proven \subseteq ledger /\ (phase # "off" => mem = ledger)

(***************************************************************************)
(* The history entries written are those up to the file's count, and a      *)
(* session that is not yet in the history has a higher number.              *)
(***************************************************************************)
Unwritten ==
  /\ \A n \in written : n <= file.sessions
  /\ phase = "open" /\ cp.goal = file.goal => cp.sessions = file.sessions
  /\ phase \in {"turn", "rename"} /\ cp.goal = file.goal => file.sessions < cp.sessions
  /\ phase = "history" => cp = file /\ \A n \in written : n < cp.sessions

Inv == Types /\ Numbered /\ Carried /\ Recorded /\ Unwritten

LEMMA InitInv == Init => Inv
<1> SUFFICES ASSUME Init PROVE Inv
  OBVIOUS
<1>1. Blank(None) \in Checkpoint
  <2>1. MaxRuns * MaxSessions \in Nat
    OBVIOUS
  <2>2. QED
    BY <2>1 DEF Blank, Checkpoint
<1>2. Types
  BY <1>1 DEF Init, Types
<1>3. Used = 0
  BY DEF Init, Used
<1>4. Numbered /\ Carried /\ Recorded /\ Unwritten
  BY <1>3 DEF Init, Numbered, Carried, Recorded, Unwritten, Blank
<1>5. QED
  BY <1>2, <1>4 DEF Inv

\* A process begins with the file's hand-off, or with none.
LEMMA StartInv ==
  ASSUME Inv, NEW goal \in Goal, Start(goal)
  PROVE  Inv'
<1> USE DEF Inv, Types, Start
<1>1. MaxRuns * MaxSessions \in Nat
  OBVIOUS
<1>2. cp' \in Checkpoint /\ cp'.goal = goal
      /\ (file.goal = goal => cp' = file)
      /\ (file.goal # goal => cp'.items = {} /\ cp'.sessions = 0)
  BY <1>1 DEF Loaded, Blank, Checkpoint
<1>3. Types'
  BY <1>2
<1>4. Used' = Used
  BY DEF Used
<1>5. Used \in Nat
  BY DEF Used
<1>6. Numbered'
  BY <1>2, <1>4, <1>5 DEF Numbered
<1>7. Carried'
  BY <1>2 DEF Carried, OfFile
<1>8. Recorded' /\ Unwritten'
  BY <1>2 DEF Recorded, Unwritten
<1>9. QED
  BY <1>3, <1>6, <1>7, <1>8

\* A session takes the next number.
LEMMA OpenInv ==
  ASSUME Inv, Open
  PROVE  Inv'
<1> USE DEF Inv, Types, Open, bounds, talk
<1>1. session + 1 \in 1..MaxSessions /\ runs \in Nat \ {0}
  BY DEF Numbered
<1>2. Used = (runs - 1) * MaxSessions + session
      /\ Used' = (runs - 1) * MaxSessions + (session + 1)
  BY DEF Used
<1>3. (runs - 1) * MaxSessions \in Nat
  BY <1>1
<1>4. Used' = Used + 1 /\ Used \in Nat
  BY <1>1, <1>2, <1>3
<1>5. Used' <= MaxRuns * MaxSessions /\ MaxRuns * MaxSessions \in Nat
  BY <1>1, <1>2, LimitGrows
<1>6. cp.sessions \in Nat /\ file.sessions \in Nat
  BY <1>5 DEF Checkpoint
<1>7. cp.sessions + 1 \in 0..(MaxRuns * MaxSessions)
  BY <1>4, <1>5, <1>6 DEF Numbered
<1>8. cp' \in Checkpoint /\ cp'.goal = cp.goal /\ cp'.items = cp.items
      /\ cp'.sessions = cp.sessions + 1
  BY <1>7 DEF Checkpoint
<1>9. Types'
  BY <1>1, <1>8
<1>10. Numbered'
  BY <1>1, <1>4, <1>6, <1>8 DEF Numbered
<1>11. Carried' /\ Recorded'
  BY <1>8 DEF Carried, OfFile, Recorded
<1>12. Unwritten'
  BY <1>6, <1>8 DEF Unwritten
<1>13. QED
  BY <1>9, <1>10, <1>11, <1>12

\* A reply adds to what the session declared and to what is proven.
LEMMA TurnInv ==
  ASSUME Inv, NEW items \in SUBSET Item, NEW judged \in BOOLEAN, NEW batch \in SUBSET Claim,
         NEW passed \in SUBSET batch, NEW light \in SUBSET passed, batch # {} => judged,
         NEW finished \in BOOLEAN, NEW asks \in BOOLEAN, NEW over \in BOOLEAN,
         Turn(items, judged, batch, passed, light, finished, asks, over)
  PROVE  Inv'
<1>1. /\ phase = "turn" /\ phase' \in {"turn", "rename"}
      /\ cp' = [cp EXCEPT !.items = cp.items \union items]
      /\ mem' = mem \union (passed \ light)
      /\ ledger' = IF judged THEN mem' ELSE ledger
      /\ declared' = declared \union items
      /\ proven' = proven \union (passed \ light)
      /\ UNCHANGED <<file, history, session, runs, ended, written>>
  BY DEF Turn, bounds
<1> USE DEF Inv, Types
<1>2. cp' \in Checkpoint /\ cp'.goal = cp.goal /\ cp'.sessions = cp.sessions
      /\ cp'.items = cp.items \union items
  BY <1>1 DEF Checkpoint
<1>3. Types'
  BY <1>1, <1>2
<1>4. Used' = Used
  BY <1>1 DEF Used
<1>5. Numbered'
  BY <1>1, <1>2, <1>4 DEF Numbered
<1>6. Carried'
  BY <1>1, <1>2 DEF Carried, OfFile
<1>7. Recorded'
  BY <1>1 DEF Recorded
<1>8. Unwritten'
  BY <1>1, <1>2 DEF Unwritten
<1>9. QED
  BY <1>3, <1>5, <1>6, <1>7, <1>8

\* The hand-off replaces the file: nothing a session of its goal declared is
\* missing, and its number is above those in the history.
LEMMA RenameInv ==
  ASSUME Inv, Rename
  PROVE  Inv'
<1> USE DEF Inv, Types, Rename, bounds
<1>1. Types'
  OBVIOUS
<1>2. Used' = Used
  BY DEF Used
<1>3. Numbered'
  BY <1>2 DEF Numbered
<1>4. Carried'
  BY DEF Carried, OfFile
<1>5. Recorded'
  BY DEF Recorded
<1>6. Unwritten'
  <2>1. \A n \in Number : n \in Nat
    BY DEF Number
  <2>2. cp.sessions \in Nat /\ file.sessions \in Nat
    <3>1. MaxRuns * MaxSessions \in Nat
      OBVIOUS
    <3>2. QED
      BY <3>1 DEF Checkpoint
  <2>3. \A n \in written' : n < cp.sessions
    BY <2>1, <2>2 DEF Unwritten, Numbered
  <2>4. QED
    BY <2>1, <2>2, <2>3 DEF Unwritten
<1>7. QED
  BY <1>1, <1>3, <1>4, <1>5, <1>6

\* The hand-off in place, with what stays of a run when its memory goes.
LEMMA GoneInv ==
  ASSUME Inv, Gone, phase # "off",
         history' \in [Number -> Checkpoint], written' \subseteq Number,
         \A n \in written' : n <= file.sessions,
         UNCHANGED <<file, ledger, runs, ended, proven>>
  PROVE  Inv'
<1> USE DEF Inv, Types, Gone
<1>1. MaxRuns * MaxSessions \in Nat
  OBVIOUS
<1>2. cp' \in Checkpoint
  BY <1>1 DEF Checkpoint, Blank
<1>3. Types'
  BY <1>2
<1>4. runs \in Nat \ {0} /\ session \in Nat
  BY DEF Numbered
<1>5. Used <= Used' /\ Used \in Nat /\ Used' \in Nat
  BY <1>4, LimitGrows DEF Used
<1>6. file.sessions \in Nat
  BY <1>1 DEF Checkpoint
<1>7. Numbered'
  BY <1>5, <1>6 DEF Numbered
<1>8. Carried' /\ Recorded' /\ Unwritten'
  BY DEF Carried, Recorded, Unwritten
<1>9. QED
  BY <1>3, <1>7, <1>8

\* The entry of the session that just ended is the newest one.
LEMMA SnapshotInv ==
  ASSUME Inv, Snapshot
  PROVE  Inv' /\ \A n \in written : history'[n] = history[n]
<1> USE DEF Inv, Types
<1>1. cp = file /\ cp.sessions \in 1..(MaxRuns * MaxSessions)
      /\ \A n \in written : n < cp.sessions
  <2>1. phase = "history"
    BY DEF Snapshot
  <2>2. cp.sessions \in 0..(MaxRuns * MaxSessions) /\ MaxRuns * MaxSessions \in Nat
    BY DEF Checkpoint
  <2>3. cp.sessions # 0
    BY <2>1 DEF Numbered
  <2>4. QED
    BY <2>1, <2>2, <2>3 DEF Unwritten
<1>2. cp.sessions \in Number
  BY <1>1 DEF Number
<1>3. history' \in [Number -> Checkpoint] /\ written' \subseteq Number
  BY <1>2 DEF Snapshot
<1>4. \A n \in written' : n <= file.sessions
  <2>1. \A n \in written : n \in Nat
    BY DEF Number
  <2>2. file.sessions \in Nat /\ cp.sessions = file.sessions
    BY <1>1
  <2>3. written' = written \union {cp.sessions}
    BY DEF Snapshot
  <2>4. QED
    BY <1>1, <2>1, <2>2, <2>3
<1>5. \A n \in written : history'[n] = history[n]
  <2>1. \A n \in written : n \in Number /\ n \in Nat
    BY DEF Number
  <2>2. \A n \in written : n # cp.sessions
    BY <1>1, <2>1
  <2>3. history' = [history EXCEPT ![cp.sessions] = cp]
    BY DEF Snapshot
  <2>4. QED
    BY <2>1, <2>2, <2>3
<1>6. CASE Gone
  BY <1>3, <1>4, <1>5, <1>6, GoneInv DEF Snapshot, bounds
<1>7. CASE session < MaxSessions /\ phase' = "open" /\ UNCHANGED <<run, declared>>
  <2>1. UNCHANGED <<mem, cp, session, declared, file, ledger, runs, ended, proven>>
    BY <1>7 DEF Snapshot, run, bounds
  <2>2. Types'
    <3>1. UNCHANGED <<file, cp, ledger, mem, proven, session, runs, declared, ended>>
      BY <2>1
    <3>2. QED
      BY <1>3, <1>7, <3>1
  <2>3. Used' = Used
    BY <1>7, <2>1 DEF Used, Snapshot
  <2>4. Numbered'
    BY <1>7, <2>1, <2>3 DEF Numbered, Snapshot
  <2>5. Carried' /\ Recorded'
    BY <1>1, <1>7, <2>1 DEF Carried, OfFile, Recorded, Snapshot
  <2>6. Unwritten'
    <3>1. cp' = cp /\ file' = file /\ phase' = "open"
      BY <1>7, <2>1
    <3>2. cp' = file'
      BY <1>1, <3>1
    <3>3. \A n \in written' : n <= file'.sessions
      BY <1>4, <3>1
    <3>4. QED
      BY <3>1, <3>2, <3>3 DEF Unwritten
  <2>7. QED
    BY <1>5, <2>2, <2>4, <2>5, <2>6
<1>8. QED
  BY <1>6, <1>7 DEF Snapshot

\* A crash leaves both files as they were.
LEMMA CrashInv ==
  ASSUME Inv, Crash
  PROVE  Inv'
<1>1. \A n \in written : n <= file.sessions
  BY DEF Inv, Unwritten
<1>2. QED
  BY <1>1, GoneInv DEF Crash, Inv, Types

\* Every step keeps the invariant and the entries written so far.
LEMMA NextInv ==
  ASSUME Inv, [Next]_vars
  PROVE  Inv' /\ [\A n \in written : history'[n] = history[n]]_vars
<1>1. ASSUME NEW goal \in Goal, Start(goal) PROVE Inv' /\ history' = history
  BY <1>1, StartInv DEF Start
<1>2. CASE Open
  BY <1>2, OpenInv DEF Open
<1>3. CASE Reply
  <2>1. Inv'
    BY <1>3, TurnInv DEF Reply
  <2>2. history' = history
    BY <1>3 DEF Reply, Turn
  <2>3. QED
    BY <2>1, <2>2
<1>4. CASE Rename
  BY <1>4, RenameInv DEF Rename
<1>5. CASE Snapshot
  BY <1>5, SnapshotInv
<1>6. CASE Crash
  BY <1>6, CrashInv DEF Crash
<1>7. CASE UNCHANGED vars
  BY <1>7 DEF vars, run, bounds, ghosts, Inv, Types, Numbered, Used, Carried, OfFile, Recorded,
              Unwritten
<1>8. QED
  BY <1>1, <1>2, <1>3, <1>4, <1>5, <1>6, <1>7 DEF Next, Step

(***************************************************************************)
(* Wherever processes die, the hand-off file holds what every ended session *)
(* of its goal declared, and the ledger all that was judged.                *)
(***************************************************************************)
THEOREM CrashTheorem == Spec => []CrashLosesOneSession
<1>1. Inv => CrashLosesOneSession
  BY DEF Inv, Carried, Recorded, CrashLosesOneSession
<1>2. Inv /\ [Next]_vars => Inv'
  BY NextInv
<1>3. QED
  BY <1>1, <1>2, InitInv, PTL DEF Spec

(***************************************************************************)
(* However many processes crash in between, no session overwrites a history *)
(* entry while the file's goal stays the same.                              *)
(***************************************************************************)
THEOREM HistoryTheorem == Spec => HistoryKept
<1>1. Inv /\ [Next]_vars => Inv' /\ [\A n \in written : history'[n] = history[n]]_vars
  BY NextInv
<1>2. QED
  BY <1>1, InitInv, PTL DEF Spec, HistoryKept

-----------------------------------------------------------------------------
(***************************************************************************)
(* A session that goes on has a turn left: the cap on turns ends it.        *)
(***************************************************************************)
TurnsLeft ==
  /\ phase \in {"open", "history"} => turns = 0
  /\ phase = "turn" => turns < MaxTurns

Talk ==
  /\ turns \in 0..MaxTurns /\ recent \in Seq(Judged)
  /\ why \in {"model", "budget", "drift", "cap", None}
  /\ crashes \in 0..MaxCrashes

TypeInv == Inv /\ Talk /\ TurnsLeft

DoneOK == done \in BOOLEAN

\* The goal is met, or not.
LEMMA NextDone == DoneOK /\ [Next]_vars => DoneOK'
<1> SUFFICES ASSUME done \in BOOLEAN, [Next]_vars PROVE done' \in BOOLEAN
  BY DEF DoneOK
<1>1. ASSUME NEW goal \in Goal, Start(goal) PROVE done' \in BOOLEAN
  BY <1>1, Zenon DEF Start
<1>2. CASE Open \/ Rename
  BY <1>2, Zenon DEF Open, Rename
<1>3. CASE Reply
  <2> DEFINE Kept == done' \in BOOLEAN
  <2>1. ASSUME NEW items, NEW judged, NEW batch, NEW passed, NEW light,
               NEW finished \in BOOLEAN, NEW asks, NEW over,
               Turn(items, judged, batch, passed, light, finished, asks, over)
        PROVE  Kept
    BY <2>1, Zenon DEF Turn
  <2>2. Kept
    <3> HIDE DEF Kept
    <3>1. QED
      BY <1>3, <2>1 DEF Reply
  <2>3. QED
    BY <2>2
<1>4. CASE Snapshot
  BY <1>4, Zenon DEF Snapshot, Gone, run
<1>5. CASE Crash
  BY <1>5, Zenon DEF Crash, Gone
<1>6. CASE UNCHANGED vars
  BY <1>6, Zenon DEF vars, run
<1>7. QED
  BY <1>1, <1>2, <1>3, <1>4, <1>5, <1>6 DEF Next, Step

\* What a batch counts are numbers.
LEMMA JudgeType ==
  ASSUME NEW batch \in SUBSET Claim, NEW passed \in SUBSET batch,
         NEW light \in SUBSET passed, mem \subseteq Claim
  PROVE  Judge(batch, passed, light) \in Judged
<1>0. /\ batch \subseteq Claim /\ Barren(passed, light) \subseteq Claim
      /\ passed \intersect mem \subseteq Claim
  BY DEF Barren
<1>1. IsFiniteSet(batch) /\ IsFiniteSet(Barren(passed, light))
      /\ IsFiniteSet(passed \intersect mem)
  BY <1>0, ClaimAssumption, FS_Subset
<1>2. /\ Cardinality(batch) \in Nat
      /\ Cardinality(Barren(passed, light)) \in Nat
      /\ Cardinality(passed \intersect mem) \in Nat
  BY <1>1, FS_CardinalityType
<1>3. QED
  BY <1>2 DEF Judge, Judged

\* A reply ends the session where it used the last turn.
LEMMA TurnTalk ==
  ASSUME TypeInv, NEW items \in SUBSET Item, NEW judged \in BOOLEAN, NEW batch \in SUBSET Claim,
         NEW passed \in SUBSET batch, NEW light \in SUBSET passed, batch # {} => judged,
         NEW finished \in BOOLEAN, NEW asks \in BOOLEAN, NEW over \in BOOLEAN,
         Turn(items, judged, batch, passed, light, finished, asks, over)
  PROVE  Talk' /\ TurnsLeft'
<1> USE DEF TypeInv, Talk, TurnsLeft
<1> DEFINE log == IF judged THEN Append(recent, Judge(batch, passed, light)) ELSE recent
           why1 == IF finished THEN None ELSE Reason(asks, over, log, turns + 1)
<1>1. /\ phase = "turn" /\ turns' = turns + 1 /\ recent' = log
      /\ why' = why1 /\ crashes' = crashes
      /\ phase' = IF finished \/ why1 # None THEN "rename" ELSE "turn"
  BY Zenon DEF Turn, bounds
<1>2. log \in Seq(Judged)
  <2>1. Judge(batch, passed, light) \in Judged
    BY JudgeType DEF Inv, Types
  <2>2. QED
    BY <2>1
<1>3. turns + 1 \in 1..MaxTurns
  BY <1>1
<1>4. why1 \in {"model", "budget", "drift", "cap", None}
  BY Zenon DEF Reason
<1>5. phase' = "turn" => turns' < MaxTurns
  <2>1. ASSUME phase' = "turn", turns + 1 >= MaxTurns PROVE FALSE
    <3>1. ~ finished /\ Reason(asks, over, log, turns + 1) = None
      BY <1>1, <2>1
    <3>2. Reason(asks, over, log, turns + 1) \in {"model", "budget", "drift", "cap"}
      BY <2>1, Zenon DEF Reason
    <3>3. QED
      BY <3>1, <3>2
  <2>2. QED
    BY <1>1, <1>3, <2>1
<1>6. QED
  BY <1>1, <1>2, <1>3, <1>4, <1>5

LEMMA NextType == TypeInv /\ [Next]_vars => TypeInv'
<1> SUFFICES ASSUME TypeInv, [Next]_vars PROVE TypeInv'
  OBVIOUS
<1>1. Inv'
  BY NextInv DEF TypeInv
<1> USE DEF TypeInv, Talk, TurnsLeft
<1>2. ASSUME NEW goal \in Goal, Start(goal) PROVE Talk' /\ TurnsLeft'
  BY <1>2 DEF Start
<1>3. CASE Open
  BY <1>1, <1>3 DEF Open, talk, bounds
<1>4. CASE Reply
  BY <1>1, <1>4, TurnTalk DEF Reply
<1>5. CASE Rename
  BY <1>1, <1>5 DEF Rename, bounds
<1>6. CASE Snapshot
  <2>1. phase = "history" /\ crashes' = crashes
    BY <1>6 DEF Snapshot, bounds
  <2>2. CASE Gone
    BY <1>1, <2>1, <2>2 DEF Gone
  <2>3. CASE phase' = "open" /\ UNCHANGED run
    <3>1. UNCHANGED <<turns, recent, why>>
      BY <2>3 DEF run, talk
    <3>2. QED
      BY <1>1, <2>1, <2>3, <3>1
  <2>4. QED
    BY <1>6, <2>2, <2>3, Zenon DEF Snapshot
<1>7. CASE Crash
  BY <1>1, <1>7 DEF Crash, Gone
<1>8. CASE UNCHANGED vars
  BY <1>1, <1>8 DEF vars, run, talk, bounds
<1>9. QED
  BY <1>1, <1>2, <1>3, <1>4, <1>5, <1>6, <1>7, <1>8 DEF Next, Step

(***************************************************************************)
(* Types are kept: no session exceeds its turns, no run its sessions, and   *)
(* the numbers of sessions stay within the history.                         *)
(***************************************************************************)
THEOREM TypeCorrect == Spec => []TypeOK
<1>1. Init => TypeInv
  BY InitInv DEF Init, TypeInv, Talk, TurnsLeft
<1>2. Init => DoneOK
  BY Zenon DEF Init, DoneOK
<1>3. TypeInv /\ DoneOK => TypeOK
  BY DEF TypeInv, Inv, Types, Talk, DoneOK, TypeOK
<1>4. QED
  BY <1>1, <1>2, <1>3, NextType, NextDone, PTL DEF Spec

-----------------------------------------------------------------------------
(***************************************************************************)
(* Drift is a comparison of sums over the window.  A sum is a fold, which   *)
(* takes one element after another: that it is well defined, and what two   *)
(* sums have to do with each other, follows by induction on the set.        *)
(***************************************************************************)

\* A non-empty set of numbers has a least element.
LEMMA Least ==
  ASSUME NEW T \in SUBSET Nat, T # {}
  PROVE  \E n \in T : \A m \in T : n <= m
<1>1. PICK n \in T : \A m \in T : ~(<<m, n>> \in OpToRel(<, Nat))
  BY NatLessThanWellFounded, WFMin, Zenon
<1>2. \A m \in T : ~(m < n)
  BY <1>1 DEF OpToRel
<1>3. QED
  BY <1>2

\* A set of numbers that holds 0 and every successor of a member is Nat.
LEMMA Induction ==
  ASSUME NEW S, 0 \in S, \A n \in Nat : n \in S => n + 1 \in S
  PROVE  \A n \in Nat : n \in S
<1> DEFINE T == {n \in Nat : n \notin S}
<1>1. SUFFICES ASSUME T # {} PROVE FALSE
  OBVIOUS
<1>2. PICK n \in T : \A m \in T : n <= m
  <2>1. T \in SUBSET Nat
    OBVIOUS
  <2> HIDE DEF T
  <2>2. QED
    BY <1>1, <2>1, Least
<1>3. n \in Nat /\ n # 0 /\ n - 1 \in Nat
  BY <1>2
<1>4. n - 1 \in S
  BY <1>2, <1>3
<1>5. (n - 1) + 1 \in S
  BY <1>3, <1>4
<1>6. QED
  BY <1>2, <1>3, <1>5

\* The element a fold takes out of a set next.
Taken(s) == CHOOSE x \in s : TRUE

\* What a sum of f is for a set in terms of the set without one element.
Sums(f, D, g) ==
  g = [s \in SUBSET D |-> IF s = {} THEN 0 ELSE f[Taken(s)] + g[s \ {Taken(s)}]]

\* Taking an element leaves a smaller set.
LEMMA TakenFacts ==
  ASSUME NEW D, IsFiniteSet(D), NEW s \in SUBSET D, s # {}
  PROVE  /\ Taken(s) \in s /\ Taken(s) \in D
         /\ s \ {Taken(s)} \in SUBSET D
         /\ Cardinality(s) \in Nat \ {0}
         /\ Cardinality(s \ {Taken(s)}) = Cardinality(s) - 1
<1>1. Taken(s) \in s
  BY DEF Taken
<1>2. IsFiniteSet(s)
  BY FS_Subset
<1>3. Cardinality(s) \in Nat /\ Cardinality(s) # 0
  BY <1>2, FS_CardinalityType, FS_EmptySet
<1>4. Cardinality(s \ {Taken(s)}) = Cardinality(s) - 1
  BY <1>1, <1>2, FS_RemoveElement
<1>5. QED
  BY <1>1, <1>3, <1>4

\* The sum of numbers over a finite set is well defined, and a number.
LEMMA SumDefined ==
  ASSUME NEW D, IsFiniteSet(D), NEW f \in [D -> Nat]
  PROVE  \E g \in [SUBSET D -> Nat] : Sums(f, D, g)
<1> DEFINE Upto(n) == {s \in SUBSET D : Cardinality(s) <= n}
           Good(g, n) ==
             /\ g \in [Upto(n) -> Nat]
             /\ \A s \in Upto(n) :
                  g[s] = IF s = {} THEN 0 ELSE f[Taken(s)] + g[s \ {Taken(s)}]
           S == {n \in Nat : \E g : Good(g, n)}
<1>1. \A s \in SUBSET D : Cardinality(s) \in Nat /\ (Cardinality(s) = 0 <=> s = {})
  BY FS_Subset, FS_CardinalityType, FS_EmptySet
<1>2. 0 \in S
  <2>1. \A s \in Upto(0) : s = {}
    BY <1>1
  <2>2. Good([s \in Upto(0) |-> 0], 0)
    BY <2>1
  <2>3. QED
    BY <2>2
<1>3. ASSUME NEW n \in Nat, n \in S PROVE n + 1 \in S
  <2>1. PICK g : Good(g, n)
    BY <1>3
  <2> DEFINE h == [s \in Upto(n + 1) |->
                     IF s = {} THEN 0 ELSE f[Taken(s)] + g[s \ {Taken(s)}]]
  <2>2. ASSUME NEW s \in Upto(n + 1), s # {}
        PROVE  /\ Taken(s) \in D /\ s \ {Taken(s)} \in Upto(n)
               /\ s \ {Taken(s)} \in Upto(n + 1)
               /\ h[s \ {Taken(s)}] = g[s \ {Taken(s)}]
    <3>1. /\ Taken(s) \in D /\ s \ {Taken(s)} \in SUBSET D
          /\ Cardinality(s) \in Nat
          /\ Cardinality(s \ {Taken(s)}) = Cardinality(s) - 1
      BY <2>2, TakenFacts
    <3>2. s \ {Taken(s)} \in Upto(n) /\ s \ {Taken(s)} \in Upto(n + 1)
      BY <3>1
    <3>3. h[s \ {Taken(s)}] = g[s \ {Taken(s)}]
      BY <2>1, <3>2
    <3>4. QED
      BY <3>1, <3>2, <3>3
  <2>3. Good(h, n + 1)
    <3>1. ASSUME NEW s \in Upto(n + 1), s # {}
          PROVE  f[Taken(s)] \in Nat /\ g[s \ {Taken(s)}] \in Nat
      BY <2>1, <2>2, <3>1
    <3>2. \A s \in Upto(n + 1) :
            (IF s = {} THEN 0 ELSE f[Taken(s)] + g[s \ {Taken(s)}]) \in Nat
      <4> HIDE DEF Upto
      <4>1. ASSUME NEW a \in Nat, NEW b \in Nat PROVE a + b \in Nat
        OBVIOUS
      <4>2. QED
        BY <3>1, <4>1
    <3>3. h \in [Upto(n + 1) -> Nat]
      <4> HIDE DEF Upto
      <4>1. QED
        BY <3>2
    <3>4. QED
      BY <2>2, <3>3
  <2>4. QED
    <3> HIDE DEF Good
    <3>1. QED
      BY <2>3
<1>4. Cardinality(D) \in S
  <2>1. Cardinality(D) \in Nat
    BY FS_CardinalityType
  <2> HIDE DEF S
  <2>2. QED
    BY <1>2, <1>3, <2>1, Induction
<1>5. PICK g : Good(g, Cardinality(D))
  BY <1>4
<1>6. Upto(Cardinality(D)) = SUBSET D
  BY FS_Subset
<1>7. g \in [SUBSET D -> Nat] /\ Sums(f, D, g)
  BY <1>5, <1>6 DEF Sums
<1>8. QED
  BY <1>7

\* Where every term is at most twice another, the sum is at most twice.
LEMMA SumAtMostTwice ==
  ASSUME NEW D, IsFiniteSet(D), NEW e \in [D -> Nat], NEW f \in [D -> Nat],
         NEW g, NEW h, Sums(e, D, g), Sums(f, D, h),
         \A i \in D : e[i] <= 2 * f[i]
  PROVE  g[D] \in Nat /\ h[D] \in Nat /\ g[D] <= 2 * h[D]
<1> DEFINE Bounded(s) == g[s] \in Nat /\ h[s] \in Nat /\ g[s] <= 2 * h[s]
           S == {n \in Nat : \A s \in SUBSET D : Cardinality(s) = n => Bounded(s)}
<1>1. \A s \in SUBSET D : Cardinality(s) \in Nat /\ (Cardinality(s) = 0 <=> s = {})
  BY FS_Subset, FS_CardinalityType, FS_EmptySet
<1>2. 0 \in S
  BY <1>1 DEF Sums
<1>3. ASSUME NEW n \in Nat, n \in S PROVE n + 1 \in S
  <2> SUFFICES ASSUME NEW s \in SUBSET D, Cardinality(s) = n + 1 PROVE Bounded(s)
    OBVIOUS
  <2> DEFINE x == Taken(s)
             r == s \ {Taken(s)}
  <2>1. s # {}
    BY <1>1
  <2>2. x \in D /\ r \in SUBSET D /\ Cardinality(r) = n
    BY <2>1, TakenFacts
  <2>3. g[s] = e[x] + g[r] /\ h[s] = f[x] + h[r]
    BY <2>1 DEF Sums
  <2>4. Bounded(r)
    BY <1>3, <2>2
  <2>5. e[x] \in Nat /\ f[x] \in Nat /\ e[x] <= 2 * f[x]
    BY <2>2
  <2> HIDE DEF x, r
  <2>6. QED
    BY <2>3, <2>4, <2>5
<1>4. Cardinality(D) \in S
  <2>1. Cardinality(D) \in Nat
    BY FS_CardinalityType
  <2> HIDE DEF S
  <2>2. QED
    BY <1>2, <1>3, <2>1, Induction
<1>5. QED
  BY <1>4

\* The terms of the three sums are numbers.
LEMMA LogTerms ==
  ASSUME NEW log \in Seq(Judged)
  PROVE  /\ IsFiniteSet(DOMAIN log)
         /\ [i \in DOMAIN log |-> log[i].claims] \in [DOMAIN log -> Nat]
         /\ [i \in DOMAIN log |-> log[i].counted] \in [DOMAIN log -> Nat]
         /\ [i \in DOMAIN log |-> log[i].barren] \in [DOMAIN log -> Nat]
<1>1. IsFiniteSet(DOMAIN log)
  BY FS_Interval
<1>2. \A i \in DOMAIN log : log[i] \in Judged
  OBVIOUS
<1>3. \A i \in DOMAIN log :
        log[i].claims \in Nat /\ log[i].counted \in Nat /\ log[i].barren \in Nat
  BY <1>2 DEF Judged
<1>4. QED
  BY <1>1, <1>3

\* The fold that sums one of the fields is such a sum.
LEMMA ClaimsSum ==
  ASSUME NEW log \in Seq(Judged)
  PROVE  \E g : /\ Sums([i \in DOMAIN log |-> log[i].claims], DOMAIN log, g)
               /\ Sum(log, LAMBDA j : j.claims) = g[DOMAIN log]
<1> DEFINE D == DOMAIN log
           f == [i \in D |-> log[i].claims]
           g[s \in SUBSET D] ==
             IF s = {} THEN 0
             ELSE LET x == CHOOSE x \in s : TRUE IN log[x].claims + g[s \ {x}]
<1>1. Sum(log, LAMBDA j : j.claims) = g[D]
  BY DEF Sum, MapThenSumSet, MapThenFoldSet
<1>2. IsFiniteSet(D) /\ f \in [D -> Nat]
  BY LogTerms
<1>3. \A s \in SUBSET D : s # {} => Taken(s) \in D
  BY DEF Taken
<1>4. \E k : k = [s \in SUBSET D |->
                   IF s = {} THEN 0
                   ELSE LET x == CHOOSE x \in s : TRUE IN log[x].claims + k[s \ {x}]]
  <2>1. PICK k : Sums(f, D, k)
    BY <1>2, SumDefined
  <2>2. k = [s \in SUBSET D |->
               IF s = {} THEN 0
               ELSE LET x == CHOOSE x \in s : TRUE IN log[x].claims + k[s \ {x}]]
    BY <1>3, <2>1 DEF Sums, Taken
  <2> HIDE DEF g
  <2>3. QED
    BY <2>2, Zenon
<1>5. g = [s \in SUBSET D |->
             IF s = {} THEN 0
             ELSE LET x == CHOOSE x \in s : TRUE IN log[x].claims + g[s \ {x}]]
  BY <1>4
<1>6. Sums(f, D, g)
  <2> HIDE DEF g
  <2>1. QED
    BY <1>3, <1>5 DEF Sums, Taken
<1>7. QED
  BY <1>1, <1>6

LEMMA CountedSum ==
  ASSUME NEW log \in Seq(Judged)
  PROVE  \E g : /\ Sums([i \in DOMAIN log |-> log[i].counted], DOMAIN log, g)
               /\ Sum(log, LAMBDA j : j.counted) = g[DOMAIN log]
<1> DEFINE D == DOMAIN log
           f == [i \in D |-> log[i].counted]
           g[s \in SUBSET D] ==
             IF s = {} THEN 0
             ELSE LET x == CHOOSE x \in s : TRUE IN log[x].counted + g[s \ {x}]
<1>1. Sum(log, LAMBDA j : j.counted) = g[D]
  BY DEF Sum, MapThenSumSet, MapThenFoldSet
<1>2. IsFiniteSet(D) /\ f \in [D -> Nat]
  BY LogTerms
<1>3. \A s \in SUBSET D : s # {} => Taken(s) \in D
  BY DEF Taken
<1>4. \E k : k = [s \in SUBSET D |->
                   IF s = {} THEN 0
                   ELSE LET x == CHOOSE x \in s : TRUE IN log[x].counted + k[s \ {x}]]
  <2>1. PICK k : Sums(f, D, k)
    BY <1>2, SumDefined
  <2>2. k = [s \in SUBSET D |->
               IF s = {} THEN 0
               ELSE LET x == CHOOSE x \in s : TRUE IN log[x].counted + k[s \ {x}]]
    BY <1>3, <2>1 DEF Sums, Taken
  <2> HIDE DEF g
  <2>3. QED
    BY <2>2, Zenon
<1>5. g = [s \in SUBSET D |->
             IF s = {} THEN 0
             ELSE LET x == CHOOSE x \in s : TRUE IN log[x].counted + g[s \ {x}]]
  BY <1>4
<1>6. Sums(f, D, g)
  <2> HIDE DEF g
  <2>1. QED
    BY <1>3, <1>5 DEF Sums, Taken
<1>7. QED
  BY <1>1, <1>6

LEMMA RestatedSum ==
  ASSUME NEW log \in Seq(Judged)
  PROVE  \E g : /\ Sums([i \in DOMAIN log |-> log[i].barren], DOMAIN log, g)
               /\ Sum(log, LAMBDA j : j.barren) = g[DOMAIN log]
<1> DEFINE D == DOMAIN log
           f == [i \in D |-> log[i].barren]
           g[s \in SUBSET D] ==
             IF s = {} THEN 0
             ELSE LET x == CHOOSE x \in s : TRUE IN log[x].barren + g[s \ {x}]
<1>1. Sum(log, LAMBDA j : j.barren) = g[D]
  BY DEF Sum, MapThenSumSet, MapThenFoldSet
<1>2. IsFiniteSet(D) /\ f \in [D -> Nat]
  BY LogTerms
<1>3. \A s \in SUBSET D : s # {} => Taken(s) \in D
  BY DEF Taken
<1>4. \E k : k = [s \in SUBSET D |->
                   IF s = {} THEN 0
                   ELSE LET x == CHOOSE x \in s : TRUE IN log[x].barren + k[s \ {x}]]
  <2>1. PICK k : Sums(f, D, k)
    BY <1>2, SumDefined
  <2>2. k = [s \in SUBSET D |->
               IF s = {} THEN 0
               ELSE LET x == CHOOSE x \in s : TRUE IN log[x].barren + k[s \ {x}]]
    BY <1>3, <2>1 DEF Sums, Taken
  <2> HIDE DEF g
  <2>3. QED
    BY <2>2, Zenon
<1>5. g = [s \in SUBSET D |->
             IF s = {} THEN 0
             ELSE LET x == CHOOSE x \in s : TRUE IN log[x].barren + g[s \ {x}]]
  BY <1>4
<1>6. Sums(f, D, g)
  <2> HIDE DEF g
  <2>1. QED
    BY <1>3, <1>5 DEF Sums, Taken
<1>7. QED
  BY <1>1, <1>6

\* Where no turn counts more than twice what it restates, neither does a window.
LEMMA WindowCounts ==
  ASSUME NEW log \in Seq(Judged),
         \A i \in DOMAIN log : log[i].counted <= 2 * log[i].barren
  PROVE  /\ Sum(log, LAMBDA j : j.claims) \in Nat
         /\ Sum(log, LAMBDA j : j.counted) \in Nat
         /\ Sum(log, LAMBDA j : j.barren) \in Nat
         /\ Sum(log, LAMBDA j : j.counted) <= 2 * Sum(log, LAMBDA j : j.barren)
<1> DEFINE D == DOMAIN log
           claims == [i \in D |-> log[i].claims]
           counted == [i \in D |-> log[i].counted]
           barren == [i \in D |-> log[i].barren]
<1>1. PICK c : Sums(claims, D, c) /\ Sum(log, LAMBDA j : j.claims) = c[D]
  BY ClaimsSum
<1>2. PICK g : Sums(counted, D, g) /\ Sum(log, LAMBDA j : j.counted) = g[D]
  BY CountedSum
<1>3. PICK h : Sums(barren, D, h) /\ Sum(log, LAMBDA j : j.barren) = h[D]
  BY RestatedSum
<1>4. /\ IsFiniteSet(D) /\ claims \in [D -> Nat]
      /\ counted \in [D -> Nat] /\ barren \in [D -> Nat]
  BY LogTerms
<1>5. \A i \in D : counted[i] <= 2 * barren[i]
  OBVIOUS
<1>6. \A i \in D : claims[i] <= 2 * claims[i]
  <2> HIDE DEF claims
  <2>1. QED
    BY <1>4
<1> HIDE DEF D, claims, counted, barren
<1>7. c[D] \in Nat
  BY <1>1, <1>4, <1>6, SumAtMostTwice
<1>8. g[D] \in Nat /\ h[D] \in Nat /\ g[D] <= 2 * h[D]
  BY <1>2, <1>3, <1>4, <1>5, SumAtMostTwice
<1>9. QED
  BY <1>1, <1>2, <1>3, <1>7, <1>8

-----------------------------------------------------------------------------
(***************************************************************************)
(* What the controller counts of a batch is at most twice what is barren,   *)
(* in every turn of the window.                                             *)
(***************************************************************************)
CountedTwice ==
  /\ \A i \in DOMAIN recent : recent[i].counted <= 2 * recent[i].barren
  /\ why = "drift" => Drift(recent)

\* A known claim is barren, and counted once more.
LEMMA JudgeCounts ==
  ASSUME NEW batch \in SUBSET Claim, NEW passed \in SUBSET batch,
         NEW light \in SUBSET passed, mem \subseteq Claim
  PROVE  Judge(batch, passed, light).counted <= 2 * Judge(batch, passed, light).barren
<1> DEFINE known == passed \intersect mem
           said == Barren(passed, light)
<1>0. said \subseteq Claim /\ known \subseteq said
  BY DEF Barren
<1>1. IsFiniteSet(said) /\ IsFiniteSet(known) /\ known \subseteq said
  BY <1>0, ClaimAssumption, FS_Subset
<1>2. /\ Cardinality(known) \in Nat /\ Cardinality(said) \in Nat
      /\ Cardinality(known) <= Cardinality(said)
  BY <1>1, FS_CardinalityType, FS_Subset
<1>3. Judge(batch, passed, light).counted = Cardinality(said) + Cardinality(known)
      /\ Judge(batch, passed, light).barren = Cardinality(said)
  BY DEF Judge
<1>4. QED
  BY <1>2, <1>3

\* A rollover for drift looked at the very turns it leaves in the log.
LEMMA TurnCounts ==
  ASSUME TypeInv, CountedTwice, NEW items \in SUBSET Item, NEW judged \in BOOLEAN, NEW batch \in SUBSET Claim,
         NEW passed \in SUBSET batch, NEW light \in SUBSET passed, batch # {} => judged,
         NEW finished \in BOOLEAN, NEW asks \in BOOLEAN, NEW over \in BOOLEAN,
         Turn(items, judged, batch, passed, light, finished, asks, over)
  PROVE  CountedTwice'
<1> DEFINE log == IF judged THEN Append(recent, Judge(batch, passed, light)) ELSE recent
           why1 == IF finished THEN None ELSE Reason(asks, over, log, turns + 1)
<1>1. recent' = log /\ why' = why1
  BY Zenon DEF Turn
<1>2. \A i \in DOMAIN log : log[i].counted <= 2 * log[i].barren
  <2>1. recent \in Seq(Judged)
    BY DEF TypeInv, Talk
  <2>2. Judge(batch, passed, light).counted <= 2 * Judge(batch, passed, light).barren
    BY JudgeCounts DEF TypeInv, Inv, Types
  <2>3. QED
    BY <2>1, <2>2 DEF CountedTwice
<1>3. ASSUME why1 = "drift" PROVE Drift(log)
  <2>1. None \notin {"drift"}
    OBVIOUS
  <2> HIDE DEF log
  <2>2. Reason(asks, over, log, turns + 1) = "drift"
    BY <1>3, <2>1, Zenon
  <2>3. ASSUME ~ Drift(log)
        PROVE  Reason(asks, over, log, turns + 1) \in {"model", "budget", "cap", None}
    BY <2>3, Zenon DEF Reason
  <2>4. QED
    BY <2>1, <2>2, <2>3
<1>4. QED
  <2> HIDE DEF log, why1
  <2>1. QED
    BY <1>1, <1>2, <1>3 DEF CountedTwice

LEMMA NextCounts == TypeInv /\ CountedTwice /\ [Next]_vars => CountedTwice'
<1> SUFFICES ASSUME TypeInv, CountedTwice, [Next]_vars PROVE CountedTwice'
  OBVIOUS
<1>1. ASSUME recent' = <<>>, why' = None PROVE CountedTwice'
  BY <1>1 DEF CountedTwice
<1>2. ASSUME recent' = recent, why' = why PROVE CountedTwice'
  BY <1>2 DEF CountedTwice
<1>3. ASSUME NEW goal \in Goal, Start(goal) PROVE CountedTwice'
  BY <1>1, <1>3 DEF Start
<1>4. CASE Open
  BY <1>2, <1>4 DEF Open, talk
<1>5. CASE Reply
  BY <1>5, TurnCounts DEF Reply
<1>6. CASE Rename
  BY <1>1, <1>6 DEF Rename
<1>7. CASE Snapshot
  BY <1>1, <1>2, <1>7 DEF Snapshot, Gone, run, talk
<1>8. CASE Crash
  BY <1>1, <1>8 DEF Crash, Gone
<1>9. CASE UNCHANGED vars
  BY <1>2, <1>9 DEF vars, run, talk
<1>10. QED
  BY <1>3, <1>4, <1>5, <1>6, <1>7, <1>8, <1>9 DEF Next, Step

\* Drift over a window in which no turn counts more than twice.
LEMMA DriftHalves ==
  ASSUME TypeInv, CountedTwice, why = "drift"
  PROVE  DriftBarren
<1> DEFINE last == Recent(recent)
           claims == Sum(last, LAMBDA j : j.claims)
           counted == Sum(last, LAMBDA j : j.counted)
           barren == Sum(last, LAMBDA j : j.barren)
<1>1. 4 * counted >= 3 * claims
  BY DEF CountedTwice, Drift
<1>2. last \in Seq(Judged)
      /\ \A i \in DOMAIN last : \E k \in DOMAIN recent : last[i] = recent[k]
  <2>1. recent \in Seq(Judged) /\ Len(recent) \in Nat
    BY DEF TypeInv, Talk
  <2> DEFINE m == IF Len(recent) > Window THEN Len(recent) - Window + 1 ELSE 1
  <2>2. m \in Nat /\ m >= 1 /\ m <= Len(recent) + 1
    BY <2>1
  <2>3. last = SubSeq(recent, m, Len(recent))
    BY DEF Recent
  <2>4. /\ last \in Seq(Judged) /\ DOMAIN last = 1..(Len(recent) - m + 1)
        /\ \A i \in 1..(Len(recent) - m + 1) : last[i] = recent[m + i - 1]
    <3> HIDE DEF m, last
    <3>1. QED
      BY <2>1, <2>2, <2>3
  <2>5. QED
    <3> HIDE DEF m, last
    <3>1. ASSUME NEW i \in 1..(Len(recent) - m + 1) PROVE m + i - 1 \in DOMAIN recent
      BY <2>1, <2>2
    <3>2. QED
      BY <2>4, <3>1
<1>3. \A i \in DOMAIN last : last[i].counted <= 2 * last[i].barren
  BY <1>2 DEF CountedTwice
<1>4. /\ claims \in Nat /\ counted \in Nat /\ barren \in Nat
      /\ counted <= 2 * barren
  <2> HIDE DEF last
  <2>1. QED
    BY <1>2, <1>3, WindowCounts
<1>5. 8 * barren >= 3 * claims
  <2> HIDE DEF claims, counted, barren
  <2>1. QED
    BY <1>1, <1>4
<1>6. QED
  BY <1>5 DEF DriftBarren

(***************************************************************************)
(* For every window, whatever is replied: a session that rolls over for     *)
(* drift has in its window at least half of drift_ratio of barren claims.   *)
(***************************************************************************)
THEOREM DriftTheorem == Spec => []DriftBarren
<1>1. Init => TypeInv /\ CountedTwice
  BY InitInv DEF Init, TypeInv, Talk, TurnsLeft, CountedTwice
<1>2. TypeInv /\ CountedTwice /\ [Next]_vars => TypeInv' /\ CountedTwice'
  BY NextType, NextCounts
<1>3. TypeInv /\ CountedTwice => DriftBarren
  BY DriftHalves DEF DriftBarren
<1>4. QED
  BY <1>1, <1>2, <1>3, PTL DEF Spec

=============================================================================
