---------------------------- MODULE LedgerProofs ----------------------------
(***************************************************************************)
(* Theorems about Ledger for every set of processes, claims and spots.      *)
(***************************************************************************)
EXTENDS Ledger, TLAPS

USE NoValueAssumption, MaxWeightAssumption, BoundsAssumption

-----------------------------------------------------------------------------
(***************************************************************************)
(* The operators on documents.                                              *)
(***************************************************************************)

\* The empty document is a document, needs no check, has no keys.
LEMMA EmptyDocFacts ==
  /\ EmptyDoc \in Doc
  /\ \A t \in Testimony : Grounded(EmptyDoc, t)
  /\ KeysOf(EmptyDoc) = {}
BY DEF EmptyDoc, Doc, Grounded, KeysOf, Testimony

\* Every document extends the empty one and itself.
LEMMA IncludedFacts ==
  ASSUME NEW d \in Doc
  PROVE  Included(EmptyDoc, d) /\ Included(d, d)
BY DEF EmptyDoc, Doc, Included

\* Recording a result yields a document.
LEMMA RecordedType ==
  ASSUME NEW d \in Doc, NEW r \in Check \union Observation
  PROVE  Recorded(d, r) \in Doc
<1>1. CASE r \in Check
  BY <1>1 DEF Doc, Recorded, AddFact, AddRefuted, IsFact, Check
<1>2. CASE r \in Observation
  BY <1>2 DEF Doc, Recorded, AddObserved, Observation
<1>3. QED
  BY <1>1, <1>2

\* Recording only adds: no weight goes down, nothing is forgotten.
LEMMA RecordedIncluded ==
  ASSUME NEW d \in Doc, NEW r \in Check \union Observation
  PROVE  Included(d, Recorded(d, r))
<1>1. CASE r \in Check
  BY <1>1 DEF Doc, Included, Recorded, AddFact,
              AddRefuted, IsFact, Check
<1>2. CASE r \in Observation
  BY <1>2 DEF Doc, Included, Recorded, AddObserved,
              Observation
<1>3. QED
  BY <1>1, <1>2

\* What has been heard is a testimony, and hearing more takes nothing back.
LEMMA HeardType ==
  ASSUME NEW t \in Testimony, NEW r \in Check \union Observation
  PROVE  Heard(t, r) \in Testimony
<1>1. CASE r \in Check
  BY <1>1 DEF Testimony, Heard, Check
<1>2. CASE r \in Observation
  BY <1>2 DEF Testimony, Heard, Observation
<1>3. QED
  BY <1>1, <1>2

LEMMA HeardKeeps ==
  ASSUME NEW t \in Testimony, NEW r \in Check \union Observation,
         NEW d \in Doc, Grounded(d, t)
  PROVE  Grounded(d, Heard(t, r))
<1>1. CASE r \in Check
  BY <1>1 DEF Testimony, Heard, Check, Grounded, Doc
<1>2. CASE r \in Observation
  BY <1>2 DEF Testimony, Heard, Observation, Grounded, Doc
<1>3. QED
  BY <1>1, <1>2

\* What a recorded document holds was in it before or is what was just heard.
LEMMA RecordedGrounded ==
  ASSUME NEW d \in Doc, NEW r \in Check \union Observation,
         NEW t \in Testimony, Grounded(d, t)
  PROVE  Grounded(Recorded(d, r), Heard(t, r))
<1>1. CASE r \in Check
  BY <1>1 DEF Doc, Testimony, Grounded, Heard, Recorded, AddFact, AddRefuted,
              IsFact, Check
<1>2. CASE r \in Observation
  BY <1>2 DEF Doc, Testimony, Grounded, Heard, Recorded, AddObserved,
              Observation
<1>3. QED
  BY <1>1, <1>2

\* A document that keeps another one's contents keeps its keys.
LEMMA IncludedKeys ==
  ASSUME NEW d \in Doc, NEW e \in Doc, Included(d, e)
  PROVE  KeysOf(d) \subseteq KeysOf(e)
BY DEF Doc, Included, KeysOf

\* The keys of a document.
LEMMA KeysType ==
  ASSUME NEW d \in Doc
  PROVE  KeysOf(d) \in SUBSET AllKeys
BY DEF Doc, KeysOf, AllKeys

-----------------------------------------------------------------------------
(***************************************************************************)
(* Type correctness.                                                        *)
(***************************************************************************)

\* Init establishes the type invariant.
LEMMA InitType == Init => TypeOK
BY EmptyDocFacts DEF Init, TypeOK, Absent, File, Testimony

\* Every step preserves it.
LEMMA NextType == TypeOK /\ [Next]_vars => TypeOK'
<1> SUFFICES ASSUME TypeOK, [Next]_vars PROVE TypeOK'
  OBVIOUS
<1> USE EmptyDocFacts
<1>1. ASSUME NEW p \in Proc, Open(p) PROVE TypeOK'
  BY <1>1 DEF TypeOK, Open, FreshWindow
<1>2. ASSUME NEW p \in Proc, ReadGood(p) PROVE TypeOK'
  <2>1. file.doc \in Doc
    BY DEF TypeOK, File
  <2>2. QED
    BY <1>2, <2>1 DEF TypeOK, ReadGood, FreshWindow
<1>g. ASSUME NEW p \in Proc, ReadGone(p) PROVE TypeOK'
  BY <1>g DEF TypeOK, ReadGone, FreshWindow
<1>3. ASSUME NEW p \in Proc, ReadBad(p) PROVE TypeOK'
  BY <1>3 DEF TypeOK, ReadBad
<1>4. ASSUME NEW p \in Proc, ReadError(p) PROVE TypeOK'
  BY <1>4 DEF TypeOK, ReadError
<1>5. ASSUME NEW p \in Proc, Quarantine(p) PROVE TypeOK'
  <2>1. Absent \in File
    BY DEF Absent, File
  <2>2. file' \in File /\ corrupt' \in File
    BY <1>5, <2>1 DEF TypeOK, Quarantine
  <2>3. QED
    BY <1>5, <2>2 DEF TypeOK, Quarantine, FreshWindow
<1>f. ASSUME NEW p \in Proc, QuarantineFails(p) PROVE TypeOK'
  BY <1>f DEF TypeOK, QuarantineFails
<1>6. ASSUME NEW p \in Proc, NEW r \in Check \union Observation, Record(p, r)
      PROVE TypeOK'
  <2>1. Recorded(mem[p], r) \in Doc
    BY RecordedType DEF TypeOK
  <2>2. KeysOf(Recorded(mem[p], r)) \in SUBSET AllKeys
    BY <2>1, KeysType
  <2>3. QED
    BY <1>6, <2>1, <2>2, HeardType DEF TypeOK, Record
<1>7. ASSUME NEW p \in Proc, BeginSave(p) PROVE TypeOK'
  BY <1>7 DEF TypeOK, BeginSave
<1>8. ASSUME NEW p \in Proc, Replace(p) PROVE TypeOK'
  <2>1. file' \in File
    BY <1>8 DEF TypeOK, Replace, Good, File
  <2>2. QED
    BY <1>8, <2>1 DEF TypeOK, Replace, FreshWindow
<1>9. ASSUME NEW p \in Proc, Clear(p) PROVE TypeOK'
  <2>1. file' \in File
    BY <1>9 DEF Clear, Absent, File
  <2>2. QED
    BY <1>9, <2>1 DEF TypeOK, Clear, FreshWindow
<1>10. ASSUME NEW p \in Proc, Leave(p) PROVE TypeOK'
  BY <1>10 DEF TypeOK, Leave
<1>11. ASSUME Damage PROVE TypeOK'
  <2>1. file' \in File
    BY <1>11 DEF TypeOK, Damage, Damaged, File
  <2>2. QED
    BY <1>11, <2>1 DEF TypeOK, Damage
<1>12. CASE UNCHANGED vars
  BY <1>12 DEF TypeOK, vars
<1>13. QED
  BY <1>1, <1>2, <1>3, <1>4, <1>5, <1>6, <1>7, <1>8, <1>9, <1>10, <1>11, <1>12,
     <1>g, <1>f
     DEF Next, ProcNext

\* The variables keep their types (the documents their shape) whatever the
\* processes, the bounds and the interleaving.
THEOREM TypeCorrect == Spec => []TypeOK
BY InitType, NextType, PTL DEF Spec

-----------------------------------------------------------------------------
(***************************************************************************)
(* Provenance is inductive next to the type invariant: Record brings new    *)
(* contents together with the check that returned them, every other step    *)
(* copies or empties a document, and nothing said is ever unsaid.           *)
(***************************************************************************)

\* Init holds empty documents only.
LEMMA InitProvenance == Init => Provenance
BY InitType, EmptyDocFacts DEF Init, Provenance, Absent, TypeOK

\* Every step preserves Provenance.
LEMMA NextProvenance == TypeOK /\ Provenance /\ [Next]_vars => Provenance'
<1> SUFFICES ASSUME TypeOK, Provenance, [Next]_vars PROVE Provenance'
  OBVIOUS
<1>e. Grounded(EmptyDoc, said)
  BY EmptyDocFacts DEF TypeOK
<1>1. ASSUME NEW p \in Proc, Open(p) PROVE Provenance'
  BY <1>1, <1>e DEF TypeOK, Provenance, Open
<1>2. ASSUME NEW p \in Proc, ReadGood(p) PROVE Provenance'
  BY <1>2 DEF TypeOK, Provenance, ReadGood
<1>3. ASSUME NEW p \in Proc,
             ReadGone(p) \/ ReadBad(p) \/ ReadError(p) \/ QuarantineFails(p)
      PROVE  Provenance'
  BY <1>3 DEF Provenance, ReadGone, ReadBad, ReadError, QuarantineFails
<1>4. ASSUME NEW p \in Proc, Quarantine(p) PROVE Provenance'
  BY <1>4, <1>e DEF Provenance, Quarantine, Absent
<1>5. ASSUME NEW p \in Proc, NEW r \in Check \union Observation, Record(p, r)
      PROVE  Provenance'
  <2> DEFINE t == Heard(said, r)
  <2>1. said \in Testimony /\ file.doc \in Doc /\ corrupt.doc \in Doc
        /\ \A q \in Proc : mem[q] \in Doc
    BY DEF TypeOK, File
  <2>2. said' = t /\ file' = file /\ corrupt' = corrupt
    BY <1>5 DEF Record
  <2>3. Grounded(file.doc, t) /\ Grounded(corrupt.doc, t)
    BY <2>1, HeardKeeps DEF Provenance
  <2>4. ASSUME NEW q \in Proc PROVE Grounded(mem'[q], t)
    <3>1. CASE q = p
      <4>1. mem'[q] = Recorded(mem[q], r)
        BY <1>5, <3>1 DEF Record, TypeOK
      <4>2. QED
        BY <4>1, <2>1, RecordedGrounded DEF Provenance
    <3>2. CASE q # p
      <4>1. mem'[q] = mem[q]
        BY <1>5, <3>2 DEF Record, TypeOK
      <4>2. QED
        BY <4>1, <2>1, HeardKeeps DEF Provenance
    <3>3. QED
      BY <3>1, <3>2
  <2>5. QED
    BY <2>2, <2>3, <2>4 DEF Provenance
<1>6. ASSUME NEW p \in Proc, BeginSave(p) PROVE Provenance'
  BY <1>6 DEF Provenance, BeginSave
<1>7. ASSUME NEW p \in Proc, Replace(p) PROVE Provenance'
  BY <1>7 DEF Provenance, Replace, Good
<1>8. ASSUME NEW p \in Proc, Clear(p) PROVE Provenance'
  BY <1>8, <1>e DEF TypeOK, Provenance, Clear, Absent
<1>9. ASSUME NEW p \in Proc, Leave(p) PROVE Provenance'
  BY <1>9, <1>e DEF TypeOK, Provenance, Leave
<1>10. CASE Damage
  BY <1>10, <1>e DEF Provenance, Damage, Damaged
<1>11. CASE UNCHANGED vars
  BY <1>11 DEF Provenance, vars
<1>12. QED
  BY <1>1, <1>2, <1>3, <1>4, <1>5, <1>6, <1>7, <1>8, <1>9, <1>10, <1>11
     DEF Next, ProcNext

\* Whatever the processes do to one another, whatever damage and faults there
\* are, everything a ledger holds was returned by a check as it stands there.
THEOREM ProvenanceTheorem == Spec => []Provenance
<1>1. Spec => [](TypeOK /\ Provenance)
  BY InitType, NextType, InitProvenance, NextProvenance, PTL DEF Spec
<1>2. QED
  BY <1>1, PTL

-----------------------------------------------------------------------------
(***************************************************************************)
(* The window.  UndisturbedWindow is not inductive by itself: when load     *)
(* fails the object must still be empty, and a file that is absent or       *)
(* damaged must hold nothing, for the window that opens then to be exact.   *)
(***************************************************************************)
FileShape == file.tag # "good" => file.doc = EmptyDoc

EmptyUntilLoaded ==
  \A p \in Proc : pc[p] \in {"reading", "failed", "refused"} => mem[p] = EmptyDoc

WindowInv == /\ TypeOK
             /\ FileShape
             /\ EmptyUntilLoaded
             /\ UndisturbedWindow

\* The two helping parts.
LEMMA ShapeStep ==
  TypeOK /\ FileShape /\ EmptyUntilLoaded /\ [Next]_vars
    => FileShape' /\ EmptyUntilLoaded'
<1> SUFFICES ASSUME TypeOK, FileShape, EmptyUntilLoaded, [Next]_vars
             PROVE  FileShape' /\ EmptyUntilLoaded'
  OBVIOUS
<1>1. FileShape'
  BY DEF FileShape, Next, ProcNext, vars, Open, ReadGood, ReadGone, ReadBad,
         ReadError, Quarantine, QuarantineFails, Record, BeginSave, Replace, Clear, Leave, Damage, Absent,
         Good, Damaged
<1>2. EmptyUntilLoaded'
  <2>1. ASSUME NEW p \in Proc, Open(p) PROVE EmptyUntilLoaded'
    BY <2>1 DEF TypeOK, EmptyUntilLoaded, Open
  <2>2. ASSUME NEW p \in Proc, ReadGood(p) PROVE EmptyUntilLoaded'
    BY <2>2 DEF TypeOK, EmptyUntilLoaded, ReadGood
  <2>3. ASSUME NEW p \in Proc, ReadGone(p) \/ ReadBad(p) \/ ReadError(p)
        PROVE  EmptyUntilLoaded'
    BY <2>3 DEF TypeOK, EmptyUntilLoaded, ReadGone, ReadBad, ReadError
  <2>4. ASSUME NEW p \in Proc,
               Quarantine(p) \/ QuarantineFails(p) \/ BeginSave(p) \/ Replace(p)
        PROVE  EmptyUntilLoaded'
    BY <2>4 DEF TypeOK, EmptyUntilLoaded, Quarantine, QuarantineFails,
                BeginSave, Replace
  <2>5. ASSUME NEW p \in Proc, NEW r \in Check \union Observation, Record(p, r)
        PROVE  EmptyUntilLoaded'
    BY <2>5 DEF TypeOK, EmptyUntilLoaded, Record
  <2>6. ASSUME NEW p \in Proc, Clear(p) \/ Leave(p) PROVE EmptyUntilLoaded'
    BY <2>6 DEF TypeOK, EmptyUntilLoaded, Clear, Leave
  <2>7. CASE Damage \/ UNCHANGED vars
    BY <2>7 DEF EmptyUntilLoaded, Damage, vars
  <2>8. QED
    BY <2>1, <2>2, <2>3, <2>4, <2>5, <2>6, <2>7 DEF Next, ProcNext
<1>3. QED
  BY <1>1, <1>2

\* What the window of one process says.
Window(p) ==
  pc[p] \in {"open", "saving"} /\ ~stale[p] =>
    /\ Included(file.doc, mem[p])
    /\ KeysOf(mem[p]) = KeysOf(file.doc) \union own[p]

\* A process that opens a window does so on exactly what the file holds; for
\* every other process the window survives only if the file did not change.
LEMMA FreshWindowStep ==
  ASSUME TypeOK, NEW p \in Proc, FreshWindow(p),
         NEW e \in Doc, mem'[p] = e, file'.doc = e,
         \A q \in Proc \ {p} : pc'[q] = pc[q] /\ mem'[q] = mem[q],
         UndisturbedWindow
  PROVE  UndisturbedWindow'
<1> SUFFICES ASSUME NEW q \in Proc PROVE Window(q)'
  BY DEF UndisturbedWindow, Window
<1>1. CASE q = p
  <2>1. Included(file.doc, mem[p])'
    BY IncludedFacts
  <2>2. own'[p] = {}
    BY DEF FreshWindow, TypeOK
  <2>3. QED
    BY <1>1, <2>1, <2>2 DEF Window, KeysOf
<1>2. CASE q # p
  <2>1. own'[q] = own[q] /\ stale'[q] = (stale[q] \/ file' # file)
    BY <1>2 DEF FreshWindow, TypeOK
  <2>2. QED
    BY <1>2, <2>1 DEF UndisturbedWindow, Window
<1>3. QED
  BY <1>1, <1>2

\* A step that touches neither the file, nor any memory, window or own set,
\* and opens no process, leaves every window as it is.
LEMMA QuietStep ==
  ASSUME UndisturbedWindow, UNCHANGED <<mem, file, stale, own>>,
         \A q \in Proc : pc'[q] \in {"open", "saving"} => pc[q] \in {"open", "saving"}
  PROVE  UndisturbedWindow'
BY DEF UndisturbedWindow

\* The window invariant is inductive.
LEMMA NextWindow == WindowInv /\ [Next]_vars => WindowInv'
<1> SUFFICES ASSUME WindowInv, [Next]_vars PROVE WindowInv'
  OBVIOUS
<1>t. TypeOK' /\ FileShape' /\ EmptyUntilLoaded'
  BY NextType, ShapeStep DEF WindowInv
<1> USE DEF WindowInv
<1>1. ASSUME NEW p \in Proc, Open(p) PROVE UndisturbedWindow'
  <2>1. CASE file.tag = "absent"
    <3>1. mem'[p] = EmptyDoc /\ file'.doc = EmptyDoc
      BY <1>1, <2>1 DEF Open, TypeOK, FileShape
    <3>2. \A q \in Proc \ {p} : pc'[q] = pc[q] /\ mem'[q] = mem[q]
      BY <1>1 DEF Open, TypeOK
    <3>3. FreshWindow(p)
      BY <1>1 DEF Open
    <3>4. QED
      BY <3>1, <3>2, <3>3, EmptyDocFacts, FreshWindowStep
  <2>2. CASE file.tag # "absent"
    <3> SUFFICES ASSUME NEW q \in Proc, pc'[q] \in {"open", "saving"}, ~stale'[q]
                 PROVE  /\ Included(file'.doc, mem'[q])
                        /\ KeysOf(mem'[q]) = KeysOf(file'.doc) \union own'[q]
      BY DEF UndisturbedWindow, KeysOf
    <3>1. q # p
      BY <1>1, <2>2 DEF Open, TypeOK
    <3>2. /\ pc'[q] = pc[q] /\ mem'[q] = mem[q] /\ own'[q] = own[q]
          /\ file' = file /\ stale'[q] = stale[q]
      BY <1>1, <3>1 DEF Open, FreshWindow, TypeOK
    <3>3. QED
      BY <3>2 DEF UndisturbedWindow
  <2>3. QED
    BY <2>1, <2>2
<1>2. ASSUME NEW p \in Proc, ReadGood(p) PROVE UndisturbedWindow'
  <2>1. mem'[p] = file.doc /\ file'.doc = file.doc /\ file.doc \in Doc
    BY <1>2 DEF ReadGood, TypeOK, File
  <2>2. \A q \in Proc \ {p} : pc'[q] = pc[q] /\ mem'[q] = mem[q]
    BY <1>2 DEF ReadGood, TypeOK
  <2>3. FreshWindow(p)
    BY <1>2 DEF ReadGood
  <2>4. QED
    BY <2>1, <2>2, <2>3, FreshWindowStep
<1>g. ASSUME NEW p \in Proc, ReadGone(p) PROVE UndisturbedWindow'
  <2>1. mem'[p] = EmptyDoc /\ file'.doc = EmptyDoc
    BY <1>g DEF ReadGone, TypeOK, FileShape, EmptyUntilLoaded
  <2>2. \A q \in Proc \ {p} : pc'[q] = pc[q] /\ mem'[q] = mem[q]
    BY <1>g DEF ReadGone, TypeOK
  <2>3. FreshWindow(p)
    BY <1>g DEF ReadGone
  <2>4. QED
    BY <2>1, <2>2, <2>3, EmptyDocFacts, FreshWindowStep
<1>3. ASSUME NEW p \in Proc, ReadBad(p) \/ ReadError(p)
      PROVE  UndisturbedWindow'
  BY <1>3, QuietStep DEF ReadBad, ReadError, TypeOK
<1>f. ASSUME NEW p \in Proc, QuarantineFails(p) PROVE UndisturbedWindow'
  <2> SUFFICES ASSUME NEW q \in Proc, Window(q) PROVE Window(q)'
    BY DEF UndisturbedWindow, Window
  <2>1. CASE q = p
    BY <1>f, <2>1 DEF QuarantineFails, TypeOK, Window
  <2>2. CASE q # p
    BY <1>f, <2>2 DEF QuarantineFails, TypeOK, Window
  <2>3. QED
    BY <2>1, <2>2
<1>4. ASSUME NEW p \in Proc, Quarantine(p) PROVE UndisturbedWindow'
  <2>1. mem'[p] = EmptyDoc
    BY <1>4 DEF Quarantine, EmptyUntilLoaded
  <2>2. file'.doc = EmptyDoc
    BY <1>4 DEF Quarantine, Absent, FileShape
  <2>3. \A q \in Proc \ {p} : pc'[q] = pc[q] /\ mem'[q] = mem[q]
    BY <1>4 DEF Quarantine, TypeOK
  <2>4. FreshWindow(p)
    BY <1>4 DEF Quarantine
  <2>5. QED
    BY <2>1, <2>2, <2>3, <2>4, EmptyDocFacts, FreshWindowStep
<1>5. ASSUME NEW p \in Proc, NEW r \in Check \union Observation, Record(p, r)
      PROVE  UndisturbedWindow'
  <2> SUFFICES ASSUME NEW q \in Proc, Window(q) PROVE Window(q)'
    BY DEF UndisturbedWindow, Window
  <2>1. CASE q # p
    BY <1>5, <2>1 DEF Record, TypeOK, Window
  <2>2. CASE q = p
    <3> DEFINE d == mem[p]
               e == Recorded(mem[p], r)
    <3>1. d \in Doc /\ e \in Doc /\ file.doc \in Doc
      BY RecordedType DEF TypeOK, File
    <3>2. mem'[p] = e /\ own'[p] = own[p] \union (KeysOf(e) \ KeysOf(d))
      BY <1>5 DEF Record, TypeOK
    <3>3. Included(d, e)
      BY RecordedIncluded, <3>1
    <3>4. KeysOf(d) \subseteq KeysOf(e)
      BY <3>1, <3>3, IncludedKeys
    <3>5. Included(file.doc, d) => Included(file.doc, e)
      BY <3>1, <3>3 DEF Doc, Included
    <3>6. pc'[p] = pc[p] /\ stale'[p] = stale[p] /\ file' = file
      BY <1>5 DEF Record
    <3>7. KeysOf(d) = KeysOf(file.doc) \union own[p]
            => KeysOf(e) = KeysOf(file.doc) \union own'[p]
      BY <3>2, <3>4
    <3>8. QED
      BY <2>2, <3>2, <3>5, <3>6, <3>7 DEF Window, KeysOf
  <2>3. QED
    BY <2>1, <2>2
<1>6. ASSUME NEW p \in Proc, BeginSave(p) PROVE UndisturbedWindow'
  BY <1>6, QuietStep DEF BeginSave, TypeOK
<1>7. ASSUME NEW p \in Proc, Replace(p) PROVE UndisturbedWindow'
  <2>1. mem'[p] = mem[p] /\ file'.doc = mem[p] /\ mem[p] \in Doc
    BY <1>7 DEF Replace, Good, TypeOK
  <2>2. \A q \in Proc \ {p} : pc'[q] = pc[q] /\ mem'[q] = mem[q]
    BY <1>7 DEF Replace, TypeOK
  <2>3. FreshWindow(p)
    BY <1>7 DEF Replace
  <2>4. QED
    BY <2>1, <2>2, <2>3, FreshWindowStep
<1>8. ASSUME NEW p \in Proc, Clear(p) PROVE UndisturbedWindow'
  <2>1. mem'[p] = EmptyDoc /\ file'.doc = EmptyDoc
    BY <1>8 DEF Clear, Absent, TypeOK
  <2>2. \A q \in Proc \ {p} : pc'[q] = pc[q] /\ mem'[q] = mem[q]
    BY <1>8 DEF Clear, TypeOK
  <2>3. FreshWindow(p)
    BY <1>8 DEF Clear
  <2>4. QED
    BY <2>1, <2>2, <2>3, EmptyDocFacts, FreshWindowStep
<1>9. ASSUME NEW p \in Proc, Leave(p) PROVE UndisturbedWindow'
  <2> SUFFICES ASSUME NEW q \in Proc, Window(q) PROVE Window(q)'
    BY DEF UndisturbedWindow, Window
  <2>1. CASE q = p
    BY <1>9, <2>1 DEF Leave, TypeOK, Window
  <2>2. CASE q # p
    BY <1>9, <2>2 DEF Leave, TypeOK, Window
  <2>3. QED
    BY <2>1, <2>2
<1>10. ASSUME Damage PROVE UndisturbedWindow'
  BY <1>10 DEF Damage, UndisturbedWindow, TypeOK
<1>11. ASSUME UNCHANGED vars PROVE UndisturbedWindow'
  BY <1>11 DEF vars, UndisturbedWindow
<1>12. UndisturbedWindow'
  BY <1>1, <1>2, <1>3, <1>4, <1>5, <1>6, <1>7, <1>8, <1>9, <1>10, <1>11, <1>g,
     <1>f
     DEF Next, ProcNext
<1>13. QED
  BY <1>t, <1>12

\* Nobody has a window open at the start.
LEMMA InitWindow == Init => WindowInv
BY InitType DEF Init, WindowInv, FileShape, EmptyUntilLoaded,
                UndisturbedWindow, Absent

\* So every reachable state satisfies it.
LEMMA WindowInvariant == Spec => []WindowInv
BY InitWindow, NextWindow, PTL DEF Spec

\* In an undisturbed window a process holds exactly the file plus its own
\* results, whatever the other processes, the crashes and the faults.
THEOREM WindowCorrect == Spec => []UndisturbedWindow
<1>1. WindowInv => UndisturbedWindow
  BY DEF WindowInv
<1>2. QED
  BY <1>1, WindowInvariant, PTL

(***************************************************************************)
(* What load failed on: a file that was damaged, and still is unless it     *)
(* changed behind the process.                                              *)
(***************************************************************************)
FailedOnBad ==
  \A p \in Proc : pc[p] = "failed" /\ ~stale[p] => file.tag # "good"

\* It is inductive: who changes the file makes the others stale.
LEMMA NextFailed == TypeOK /\ FailedOnBad /\ [Next]_vars => FailedOnBad'
<1> SUFFICES ASSUME TypeOK, FailedOnBad, [Next]_vars,
                    NEW q \in Proc, pc'[q] = "failed", ~stale'[q],
                    file'.tag = "good"
             PROVE  FALSE
  BY DEF FailedOnBad
<1> USE DEF TypeOK, FailedOnBad
<1>1. ASSUME NEW p \in Proc, Open(p) \/ ReadGood(p) \/ ReadGone(p) PROVE FALSE
  BY <1>1 DEF Open, ReadGood, ReadGone, FreshWindow
<1>2. ASSUME NEW p \in Proc,
             ReadBad(p) \/ ReadError(p) \/ QuarantineFails(p) \/ BeginSave(p)
      PROVE  FALSE
  BY <1>2 DEF ReadBad, ReadError, QuarantineFails, BeginSave
<1>3. ASSUME NEW p \in Proc, Quarantine(p) PROVE FALSE
  BY <1>3 DEF Quarantine, FreshWindow, Absent
<1>4. ASSUME NEW p \in Proc, NEW r \in Check \union Observation, Record(p, r)
      PROVE  FALSE
  BY <1>4 DEF Record
<1>5. ASSUME NEW p \in Proc, Replace(p) \/ Clear(p) PROVE FALSE
  BY <1>5 DEF Replace, Clear, FreshWindow
<1>6. ASSUME NEW p \in Proc, Leave(p) PROVE FALSE
  BY <1>6 DEF Leave
<1>7. CASE Damage \/ UNCHANGED vars
  BY <1>7 DEF Damage, Damaged, vars
<1>8. QED
  BY <1>1, <1>2, <1>3, <1>4, <1>5, <1>6, <1>7 DEF Next, ProcNext

\* So it holds throughout.
LEMMA FailedInvariant == Spec => []FailedOnBad
<1>1. Init => FailedOnBad
  BY DEF Init, FailedOnBad
<1>2. QED
  BY <1>1, NextFailed, TypeCorrect, PTL DEF Spec

\* What a readable ledger loses, it loses to damage, a clear, the save of a
\* process that does not hold what the file was last, or a quarantine by a
\* process whose open failed or behind whose back the file was replaced; the
\* quarantine keeps it all.  Any number of processes and faults.
THEOREM LossTheorem == Spec => LossAccounted
<1> DEFINE Lost == file.tag = "good"
                   /\ ~(file'.tag = "good" /\ Included(file.doc, file'.doc))
           Accounted ==
             \/ Damage
             \/ \E p \in Proc : Clear(p)
             \/ \E p \in Proc : Replace(p) /\ stale[p]
             \/ \E p \in Proc : /\ Quarantine(p)
                                /\ stale[p] \/ pc[p] = "refused"
                                /\ corrupt' = file
<1>1. WindowInv /\ FailedOnBad /\ [Next]_vars => [Lost => Accounted]_vars
  <2> SUFFICES ASSUME WindowInv, FailedOnBad, Next, Lost PROVE Accounted
    OBVIOUS
  <2>1. file' # file
    BY IncludedFacts DEF WindowInv, TypeOK, File
  <2>2. ASSUME NEW p \in Proc, Replace(p), ~stale[p] PROVE FALSE
    <3>1. pc[p] = "saving" /\ file'.doc = mem[p] /\ file'.tag = "good"
      BY <2>2 DEF Replace, Good
    <3>2. QED
      BY <2>2, <3>1 DEF WindowInv, UndisturbedWindow
  <2>3. ASSUME NEW p \in Proc, Quarantine(p) PROVE Accounted
    <3>1. corrupt' = file /\ pc[p] \in {"failed", "refused"}
      BY <2>3 DEF Quarantine
    <3>2. stale[p] \/ pc[p] = "refused"
      BY <3>1 DEF FailedOnBad
    <3>3. QED
      BY <2>3, <3>1, <3>2
  <2>4. QED
    BY <2>1, <2>2, <2>3
       DEF Next, ProcNext, Open, ReadGood, ReadGone, ReadBad, ReadError,
           QuarantineFails, Record, BeginSave, Leave
<1>2. QED
  BY <1>1, WindowInvariant, FailedInvariant, PTL DEF Spec, LossAccounted

-----------------------------------------------------------------------------
(***************************************************************************)
(* One process whose opens succeed: nobody but a damage changes the file    *)
(* behind it, and no open is refused.                                       *)
(***************************************************************************)
Quiet == \A p \in Proc : (stale[p] => file.tag = "bad") /\ pc[p] # "refused"

Sole == Alone /\ OpenSucceeds => Quiet

\* It is inductive.
LEMMA NextQuiet ==
  Alone /\ OpenSucceeds /\ TypeOK /\ Quiet /\ [Next]_vars => Quiet'
<1> SUFFICES ASSUME Alone, OpenSucceeds, TypeOK, Quiet, [Next]_vars,
                    NEW q \in Proc
             PROVE  (stale'[q] => file'.tag = "bad") /\ pc'[q] # "refused"
  BY DEF Quiet
<1> DEFINE Goal == (stale'[q] => file'.tag = "bad") /\ pc'[q] # "refused"
<1>a. \A p \in Proc : p = q
  BY DEF Alone
<1>n. ~(errors < MaxErrors)
  BY DEF OpenSucceeds, TypeOK
<1> USE DEF TypeOK, Quiet
<1>1. ASSUME NEW p \in Proc, Open(p) \/ ReadGood(p) \/ ReadGone(p) PROVE Goal
  BY <1>1, <1>a DEF Open, ReadGood, ReadGone, FreshWindow
<1>2. ASSUME NEW p \in Proc, ReadBad(p) \/ BeginSave(p) PROVE Goal
  BY <1>2, <1>a DEF ReadBad, BeginSave
<1>3. ASSUME NEW p \in Proc, ReadError(p) \/ QuarantineFails(p) PROVE FALSE
  BY <1>3, <1>n DEF ReadError, QuarantineFails
<1>4. ASSUME NEW p \in Proc, NEW r \in Check \union Observation, Record(p, r)
      PROVE  Goal
  BY <1>4 DEF Record
<1>5. ASSUME NEW p \in Proc, Quarantine(p) \/ Replace(p) \/ Clear(p) PROVE Goal
  BY <1>5, <1>a DEF Quarantine, Replace, Clear, FreshWindow
<1>6. ASSUME NEW p \in Proc, Leave(p) PROVE Goal
  BY <1>6, <1>a DEF Leave
<1>7. CASE Damage \/ UNCHANGED vars
  BY <1>7 DEF Damage, Damaged, vars
<1>8. QED
  BY <1>1, <1>2, <1>3, <1>4, <1>5, <1>6, <1>7 DEF Next, ProcNext

\* All that the theorems below need, in every reachable state.
LEMMA SoleInvariant == Spec => [](WindowInv /\ FailedOnBad /\ Sole)
<1>1. Init => Sole
  BY DEF Init, Sole, Quiet
<1>2. TypeOK /\ Sole /\ [Next]_vars => Sole'
  BY NextQuiet DEF Sole, Alone, OpenSucceeds
<1>3. QED
  BY <1>1, <1>2, WindowInvariant, FailedInvariant, TypeCorrect, PTL DEF Spec

\* With one process whose opens succeed, nothing a readable ledger holds is
\* ever lost short of a clear: the promise of README.md:191-193 for a single
\* writer.
THEOREM NothingLostAlone ==
  Alone /\ OpenSucceeds => (Spec => NothingPublishedIsLost)
<1> SUFFICES ASSUME Alone, OpenSucceeds PROVE Spec => NothingPublishedIsLost
  OBVIOUS
<1> DEFINE Keeps == file.tag = "good" /\ ~Damage /\ (\A p \in Proc : ~Clear(p))
                      => Included(file.doc, file'.doc)
<1>1. WindowInv /\ FailedOnBad /\ Sole /\ [Next]_vars => [Keeps]_vars
  <2> SUFFICES ASSUME WindowInv, FailedOnBad, Quiet, Next, file.tag = "good",
                      ~Damage, \A p \in Proc : ~Clear(p)
               PROVE  Included(file.doc, file'.doc)
    BY DEF Sole
  <2>1. \A p \in Proc : ~stale[p] /\ pc[p] # "refused"
    BY DEF Quiet
  <2>2. ASSUME NEW p \in Proc, Replace(p) PROVE Included(file.doc, file'.doc)
    <3>1. pc[p] = "saving" /\ file'.doc = mem[p]
      BY <2>2 DEF Replace, Good
    <3>2. QED
      BY <2>1, <3>1 DEF WindowInv, UndisturbedWindow
  <2>3. CASE file' = file
    BY <2>3, IncludedFacts DEF WindowInv, TypeOK, File
  <2>4. ASSUME NEW p \in Proc, Quarantine(p) PROVE FALSE
    BY <2>1, <2>4 DEF Quarantine, FailedOnBad
  <2>5. QED
    BY <2>2, <2>3, <2>4
       DEF Next, ProcNext, Open, ReadGood, ReadGone, ReadBad, ReadError,
           QuarantineFails, Record, BeginSave, Leave
<1>2. QED
  BY <1>1, SoleInvariant, PTL DEF Spec, NothingPublishedIsLost

-----------------------------------------------------------------------------
(***************************************************************************)
(* Refinement.  What a process holds is what it has in memory once for_bytes *)
(* has returned; everything before is no step of the store, the last step   *)
(* of a load is Resume, a rename is Checkpoint.                             *)
(***************************************************************************)
Holds == [p \in Proc |-> Held(p)]

\* A step of p changes what p holds only.
LEMMA HoldsStep ==
  ASSUME NEW p \in Proc, TypeOK, TypeOK',
         \A q \in Proc \ {p} : pc'[q] = pc[q] /\ mem'[q] = mem[q]
  PROVE  Holds' = [Holds EXCEPT ![p] = Held(p)']
BY DEF Holds, Held

\* A step that takes p nowhere and leaves its memory alone changes nothing held.
LEMMA HoldsStill ==
  ASSUME \A p \in Proc : pc'[p] \in {"open", "saving"} <=> pc[p] \in {"open", "saving"},
         \A p \in Proc : pc[p] \in {"open", "saving"} => mem'[p] = mem[p]
  PROVE  Holds' = Holds
BY DEF Holds, Held

\* A load that ends on what the file holds is a Resume.
LEMMA ResumeStep ==
  ASSUME NEW p \in Proc, TypeOK, TypeOK',
         \A q \in Proc \ {p} : pc'[q] = pc[q] /\ mem'[q] = mem[q],
         pc[p] \notin {"open", "saving"}, pc'[p] = "open",
         mem'[p] = file.doc, file'.doc = file.doc, damages' = damages
  PROVE  Store!Resume(p)
<1>1. Holds' = [Holds EXCEPT ![p] = Held(p)']
  BY HoldsStep
<1>2. Held(p)' = [open |-> TRUE, doc |-> file.doc]
  BY DEF Held
<1>3. ~Holds[p].open
  BY DEF Holds, Held
<1>4. QED
  BY <1>1, <1>2, <1>3 DEF Store!Resume, Store!Holding, Holds

\* A step of the program is a step of the store or leaves it alone.
LEMMA StoreStep ==
  WindowInv /\ FailedOnBad /\ Sole /\ [Next]_vars => [Store!Next]_(Store!sVars)
<1> SUFFICES ASSUME WindowInv, FailedOnBad, Sole, [Next]_vars
             PROVE  Store!Next \/ UNCHANGED <<file.doc, Holds, damages>>
  BY DEF Store!sVars, Holds
<1>t. TypeOK /\ TypeOK' /\ FileShape /\ EmptyUntilLoaded
  BY NextType DEF WindowInv
<1>d. file.doc \in Doc /\ \A q \in Proc : mem[q] \in Doc /\ mem'[q] \in Doc
  BY <1>t DEF TypeOK, File
<1> DEFINE Step == Store!Next \/ UNCHANGED <<file.doc, Holds, damages>>
<1>1. ASSUME NEW p \in Proc, Open(p) PROVE Step
  <2>1. CASE file.tag = "absent"
    <3>1. Store!Resume(p)
      BY <1>1, <1>t, <2>1, ResumeStep DEF Open, TypeOK, FileShape
    <3>2. QED
      BY <3>1 DEF Store!Next
  <2>2. CASE file.tag # "absent"
    BY <1>1, <1>t, <2>2, HoldsStill DEF Open, TypeOK
  <2>3. QED
    BY <2>1, <2>2
<1>2. ASSUME NEW p \in Proc, ReadGood(p) \/ ReadGone(p) PROVE Step
  <2>1. Store!Resume(p)
    BY <1>2, <1>t, ResumeStep
       DEF ReadGood, ReadGone, TypeOK, FileShape, EmptyUntilLoaded
  <2>2. QED
    BY <2>1 DEF Store!Next
<1>3. ASSUME NEW p \in Proc, ReadBad(p) \/ ReadError(p) \/ BeginSave(p) PROVE Step
  BY <1>3, <1>t, HoldsStill DEF ReadBad, ReadError, BeginSave, TypeOK
<1>4. ASSUME NEW p \in Proc, Quarantine(p) \/ QuarantineFails(p) PROVE Step
  <2>1. /\ mem'[p] = EmptyDoc /\ pc'[p] = "open" /\ pc[p] \in {"failed", "refused"}
        /\ damages' = damages /\ file'.doc \in {file.doc, EmptyDoc}
        /\ \A q \in Proc \ {p} : pc'[q] = pc[q] /\ mem'[q] = mem[q]
    BY <1>4, <1>t
       DEF Quarantine, QuarantineFails, Absent, TypeOK, EmptyUntilLoaded
  <2>2. CASE file.tag # "good"
    <3>1. file.doc = EmptyDoc
      BY <2>2, <1>t DEF FileShape
    <3>2. Store!Resume(p)
      BY <2>1, <3>1, <1>t, ResumeStep
    <3>3. QED
      BY <3>2 DEF Store!Next
  <2>3. CASE file.tag = "good"
    <3>1. ~(Alone /\ OpenSucceeds)
      BY <2>1, <2>3 DEF Sole, Quiet, FailedOnBad
    <3>2. Holds' = [Holds EXCEPT ![p] = Held(p)']
      BY <2>1, <1>t, HoldsStep
    <3>3. Held(p)' = [open |-> TRUE, doc |-> EmptyDoc] /\ ~Holds[p].open
      BY <2>1 DEF Held, Holds
    <3>4. Store!StartOver(p)
      BY <2>1, <3>1, <3>2, <3>3
         DEF Store!StartOver, Store!Holding, Store!EmptyDoc, EmptyDoc, Holds
    <3>5. QED
      BY <3>4 DEF Store!Next
  <2>4. QED
    BY <2>2, <2>3
<1>5. ASSUME NEW p \in Proc, NEW r \in Check \union Observation, Record(p, r)
      PROVE  Step
  <2>1. /\ pc' = pc /\ pc[p] = "open" /\ file' = file /\ damages' = damages
        /\ \A q \in Proc \ {p} : mem'[q] = mem[q]
        /\ mem'[p] = Recorded(mem[p], r)
    BY <1>5, <1>t DEF Record, TypeOK
  <2>2. Holds' = [Holds EXCEPT ![p] = Held(p)']
    BY <2>1, <1>t, HoldsStep
  <2>3. Held(p)' = [open |-> TRUE, doc |-> mem'[p]]
        /\ Holds[p] = [open |-> TRUE, doc |-> mem[p]]
    BY <2>1 DEF Held, Holds
  <2>4. Included(mem[p], mem'[p])
    BY <2>1, <1>d, RecordedIncluded
  <2>5. Store!Learn(p)
    <3>1. mem'[p] \in Store!Doc /\ Store!Included(mem[p], mem'[p])
      BY <1>d, <2>4 DEF Doc, Store!Doc, Included, Store!Included
    <3>2. Holds[p].open /\ Holds[p].doc = mem[p]
      BY <2>3
    <3>3. Holds' = [Holds EXCEPT ![p] = Store!Holding(mem'[p])]
      BY <2>2, <2>3 DEF Store!Holding
    <3>4. UNCHANGED <<file.doc, damages>>
      BY <2>1
    <3> DEFINE e == mem'[p]
    <3>5. /\ Holds[p].open
          /\ e \in Store!Doc
          /\ Store!Included(Holds[p].doc, e)
          /\ Holds' = [Holds EXCEPT ![p] = Store!Holding(e)]
      BY <3>1, <3>2, <3>3
    <3> HIDE DEF e
    <3>6. QED
      BY <3>4, <3>5, Zenon DEF Store!Learn, Holds
  <2>6. QED
    BY <2>5 DEF Store!Next
<1>6. ASSUME NEW p \in Proc, Replace(p) PROVE Step
  <2>1. Holds' = Holds /\ damages' = damages /\ file'.doc = mem[p]
    BY <1>6, <1>t, HoldsStill DEF Replace, Good, TypeOK
  <2>2. Holds[p] = [open |-> TRUE, doc |-> mem[p]]
    BY <1>6 DEF Replace, Holds, Held
  <2>3. Store!Checkpoint(p)
    BY <2>1, <2>2 DEF Store!Checkpoint, Holds
  <2>4. QED
    BY <2>3 DEF Store!Next
<1>7. ASSUME NEW p \in Proc, Clear(p) PROVE Step
  <2>1. /\ pc' = pc /\ pc[p] = "open" /\ file'.doc = EmptyDoc
        /\ damages' = damages /\ mem'[p] = EmptyDoc
        /\ \A q \in Proc \ {p} : mem'[q] = mem[q]
    BY <1>7, <1>t DEF Clear, Absent, TypeOK
  <2>2. Holds' = [Holds EXCEPT ![p] = Held(p)']
    BY <2>1, <1>t, HoldsStep
  <2>3. Held(p)' = [open |-> TRUE, doc |-> EmptyDoc] /\ Holds[p].open
    BY <2>1 DEF Held, Holds
  <2>4. Store!Clear(p)
    BY <2>1, <2>2, <2>3
       DEF Store!Clear, Store!Holding, Store!EmptyDoc, EmptyDoc, Holds
  <2>5. QED
    BY <2>4 DEF Store!Next
<1>8. ASSUME NEW p \in Proc, Leave(p) PROVE Step
  <2>1. /\ pc'[p] = "idle" /\ file' = file /\ damages' = damages
        /\ \A q \in Proc \ {p} : pc'[q] = pc[q] /\ mem'[q] = mem[q]
    BY <1>8, <1>t DEF Leave, TypeOK
  <2>2. Holds' = [Holds EXCEPT ![p] = Held(p)']
    BY <2>1, <1>t, HoldsStep
  <2>3. Held(p)' = [open |-> FALSE, doc |-> EmptyDoc]
    BY <2>1 DEF Held
  <2>4. CASE pc[p] \in {"open", "saving"}
    <3>1. Holds[p].open
      BY <2>4 DEF Held, Holds
    <3>2. Store!Drop(p)
      BY <2>1, <2>2, <2>3, <3>1
         DEF Store!Drop, Store!Nothing, Store!EmptyDoc, EmptyDoc, Holds
    <3>3. QED
      BY <3>2 DEF Store!Next
  <2>5. CASE pc[p] \notin {"open", "saving"}
    BY <2>1, <2>5, HoldsStill
  <2>6. QED
    BY <2>4, <2>5
<1>9. CASE Damage
  <2>1. file'.doc = EmptyDoc /\ damages' = damages + 1 /\ Holds' = Holds
    BY <1>9, HoldsStill DEF Damage, Damaged
  <2>2. QED
    BY <2>1 DEF Store!Next, Store!Ruin, Store!EmptyDoc, EmptyDoc, Holds
<1>10. CASE UNCHANGED vars
  BY <1>10 DEF vars, Holds, Held
<1>11. QED
  BY <1>1, <1>2, <1>3, <1>4, <1>5, <1>6, <1>7, <1>8, <1>9, <1>10
     DEF Next, ProcNext

\* The files of any number of processes, with every crash, fault and damage,
\* implement a store read and written whole; for one process whose opens
\* succeed, one that never starts over.
THEOREM Refinement == Spec => Refines
<1>1. Init => Store!Init
  BY DEF Init, Absent, Store!Init, Store!Nothing, Store!EmptyDoc, EmptyDoc, Held
<1>2. QED
  BY <1>1, SoleInvariant, StoreStep, PTL DEF Spec, Store!Spec, Refines

=============================================================================
