------------------------------- MODULE Ledger -------------------------------
(***************************************************************************)
(* The ledger of one binary (reverify/ledger.py) as several processes use   *)
(* it: an agent run, an orchestrator, MCP servers, the command line.  Each  *)
(* of them loads .reverify/ledger/<sha>.json into a Ledger object, records  *)
(* results in memory and saves the whole document back through a temporary  *)
(* file and a rename.  Nothing locks the file.                              *)
(*                                                                          *)
(* Between two steps of one process any other may act, crash or restart;    *)
(* the file may be damaged from outside; opening it may fail.               *)
(***************************************************************************)
EXTENDS LedgerDocuments

CONSTANTS Proc,       \* the processes that hold a Ledger object
          MaxDamage,  \* bound: how often the file is damaged from outside
          MaxErrors   \* bound: how often opening or moving the file fails

ASSUME BoundsAssumption == MaxDamage \in Nat /\ MaxErrors \in Nat

VARIABLES
  pc,       \* where each process is between two system calls
  mem,      \* the document each process holds in its Ledger object
  file,     \* <sha>.json
  corrupt,  \* <sha>.corrupt.json, where load moves a file it cannot read
  damages,  \* how often the file was damaged so far
  errors,   \* how often opening or moving the file failed so far
  stale,    \* history: the file is not the one the process last read or
            \* wrote
  own,      \* history: what the process recorded since then
  said      \* history: what the checks of all processes came back with

vars == <<pc, mem, file, corrupt, damages, errors, stale, own, said>>

(***************************************************************************)
(* The contract: a process holds a document once for_bytes has returned;    *)
(* one process whose opens succeed never starts over.                       *)
(***************************************************************************)
Alone == \A p, q \in Proc : p = q
OpenSucceeds == MaxErrors = 0

Held(p) == IF pc[p] \in {"open", "saving"} THEN [open |-> TRUE, doc |-> mem[p]]
           ELSE [open |-> FALSE, doc |-> EmptyDoc]

Store == INSTANCE LedgerStore WITH
           store <- file.doc, held <- [p \in Proc |-> Held(p)],
           ruins <- damages, Reliable <- Alone /\ OpenSucceeds

-----------------------------------------------------------------------------
(***************************************************************************)
(* Files.  A damaged file carries the number of the damage done to it,      *)
(* so that two different pieces of evidence are different values.           *)
(***************************************************************************)
Absent    == [tag |-> "absent", doc |-> EmptyDoc, mark |-> 0]
Good(d)   == [tag |-> "good",   doc |-> d,        mark |-> 0]
Damaged(n) == [tag |-> "bad",   doc |-> EmptyDoc, mark |-> n]

File == [tag : {"absent", "good", "bad"}, doc : Doc, mark : 0..MaxDamage]

(***************************************************************************)
(* Results.  A verification report is a set of results.  What a check says  *)
(* of a claim depends on the engines of the process that runs it (lief,     *)
(* angr, capstone), so any verdict is possible, the same claim may be       *)
(* VERIFIED here and REFUTED there, and two observations of one spot may    *)
(* differ (length and size are not part of the echo key).  summarize weighs *)
(* REFUTED and INCONCLUSIVE results too, an INVALIDATED one weighs nothing, *)
(* and a VERIFIED one only if it is not trivial, repeated, echoed or known. *)
(***************************************************************************)
Check == {r \in [verdict : {"VERIFIED", "REFUTED", "INCONCLUSIVE", "INVALIDATED"},
                 claim : Claim, weight : 0..MaxWeight] :
            r.verdict = "INVALIDATED" => r.weight = 0}
Observation == [verdict : {"OBSERVED"}, spot : Spot, value : Value]

\* Mutant: whatever has weight is a fact.
WeightIsFact(r) == r.verdict # "OBSERVED" /\ r.weight > 0

\* tier_of: the result is a fact (the tiers PROVEN to DERIVED are one here)
IsFact(r) == r.verdict = "VERIFIED" /\ r.weight > 0

-----------------------------------------------------------------------------
(***************************************************************************)
(* record, on a document: a fact is kept once and its weight only raised;   *)
(* an observation always lands in the dictionary, its entry only the first  *)
(* time; a refutation is kept once; anything else changes nothing.          *)
(***************************************************************************)
\* Mutant: the last check's weight wins.
LastWeight(d, c, w) == [d EXCEPT !.weight[c] = w]

AddFact(d, c, w) ==
  [d EXCEPT !.weight[c] = IF w > @ THEN w ELSE @]

AddObserved(d, s, v) ==
  [d EXCEPT !.observed[s] = v,
            !.line[s] = IF @ = NoValue THEN v ELSE @]

AddRefuted(d, c) == [d EXCEPT !.refuted = @ \union {c}]

Recorded(d, r) ==
  IF r.verdict = "OBSERVED" THEN AddObserved(d, r.spot, r.value)
  ELSE IF IsFact(r)         THEN AddFact(d, r.claim, r.weight)
  ELSE IF r.verdict = "REFUTED" THEN AddRefuted(d, r.claim)
  ELSE d

(***************************************************************************)
(* The keys a document holds: facts, refutations and observations.          *)
(***************************************************************************)
KeysOf(d) ==
  {<<"fact", c>> : c \in {x \in Claim : d.weight[x] > 0}}
    \union {<<"refuted", c>> : c \in d.refuted}
    \union {<<"observed", s>> : s \in {x \in Spot : d.observed[x] # NoValue}}

AllKeys == ({"fact", "refuted"} \X Claim) \union ({"observed"} \X Spot)

(***************************************************************************)
(* What checks have come back with: the positive weights each claim was     *)
(* verified with, the claims refuted, the values read at each spot.         *)
(***************************************************************************)
Testimony == [verified : [Claim -> SUBSET (1..MaxWeight)],
              refuted  : SUBSET Claim,
              read     : [Spot -> SUBSET Value]]

Heard(t, r) ==
  IF r.verdict = "OBSERVED" THEN [t EXCEPT !.read[r.spot] = @ \union {r.value}]
  ELSE IF r.verdict = "VERIFIED" /\ r.weight > 0
    THEN [t EXCEPT !.verified[r.claim] = @ \union {r.weight}]
  ELSE IF r.verdict = "REFUTED" THEN [t EXCEPT !.refuted = @ \union {r.claim}]
  ELSE t

-----------------------------------------------------------------------------
Init ==
  /\ pc = [p \in Proc |-> "idle"]
  /\ mem = [p \in Proc |-> EmptyDoc]
  /\ file = Absent
  /\ corrupt = Absent
  /\ damages = 0
  /\ errors = 0
  /\ stale = [p \in Proc |-> FALSE]
  /\ own = [p \in Proc |-> {}]
  /\ said = [verified |-> [c \in Claim |-> {}], refuted |-> {},
             read |-> [s \in Spot |-> {}]]

\* The window of p restarts: what p holds is what the file holds.
FreshWindow(p) ==
  /\ own' = [own EXCEPT ![p] = {}]
  /\ stale' = [q \in Proc |-> IF q = p THEN FALSE ELSE stale[q] \/ file' # file]

\* Mutant: the object is not filled from the file.
OpenUnread(p) ==
  /\ pc[p] = "idle"
  /\ pc' = [pc EXCEPT ![p] = "open"]
  /\ UNCHANGED <<mem, file, corrupt, damages, errors, said>>
  /\ FreshWindow(p)

(***************************************************************************)
(* for_bytes: a new object is empty; the file is loaded only if it exists.  *)
(***************************************************************************)
Open(p) ==
  /\ pc[p] = "idle"
  /\ pc' = [pc EXCEPT ![p] = IF file.tag = "absent" THEN "open" ELSE "reading"]
  /\ mem' = [mem EXCEPT ![p] = EmptyDoc]
  /\ UNCHANGED <<file, corrupt, damages, errors, said>>
  /\ FreshWindow(p)

\* load, the file parses
ReadGood(p) ==
  /\ pc[p] = "reading"
  /\ file.tag = "good"
  /\ pc' = [pc EXCEPT ![p] = "open"]
  /\ mem' = [mem EXCEPT ![p] = file.doc]
  /\ UNCHANGED <<file, corrupt, damages, errors, said>>
  /\ FreshWindow(p)

\* Mutant: a readable file is rejected too.
ReadRejects(p) ==
  /\ pc[p] = "reading"
  /\ pc' = [pc EXCEPT ![p] = "failed"]
  /\ UNCHANGED <<mem, file, corrupt, damages, errors, stale, own, said>>

\* load tests exists() again: the file may be gone by then
ReadGone(p) ==
  /\ pc[p] = "reading"
  /\ file.tag = "absent"
  /\ pc' = [pc EXCEPT ![p] = "open"]
  /\ UNCHANGED <<mem, file, corrupt, damages, errors, said>>
  /\ FreshWindow(p)

\* load, the file does not parse, or it was unlinked after both tests
ReadBad(p) ==
  /\ pc[p] = "reading"
  /\ file.tag # "good"
  /\ pc' = [pc EXCEPT ![p] = "failed"]
  /\ UNCHANGED <<mem, file, corrupt, damages, errors, stale, own, said>>

\* load, open() fails although the file is sound (permissions, a lock, EIO)
ReadError(p) ==
  /\ pc[p] = "reading"
  /\ errors < MaxErrors
  /\ errors' = errors + 1
  /\ pc' = [pc EXCEPT ![p] = "refused"]
  /\ UNCHANGED <<mem, file, corrupt, damages, stale, own, said>>

(***************************************************************************)
(* load, the except branch: whatever is at the path now goes to             *)
(* .corrupt.json, replacing what was there; the object stays empty.         *)
(***************************************************************************)
Quarantine(p) ==
  /\ pc[p] \in {"failed", "refused"}
  /\ pc' = [pc EXCEPT ![p] = "open"]
  /\ IF file.tag = "absent"
       THEN UNCHANGED <<file, corrupt>>     \* OSError, ignored
       ELSE /\ corrupt' = file
             /\ file' = Absent
  /\ UNCHANGED <<mem, damages, errors, said>>
  /\ FreshWindow(p)

\* The move fails and is ignored: the object is as empty, the file stays, and
\* the next save will write over what nobody has read.  (Whatever refused the
\* open may refuse the move, too.)
QuarantineFails(p) ==
  /\ file.tag # "absent"
  /\ \/ pc[p] = "refused" /\ errors' = errors
     \/ pc[p] = "failed" /\ errors < MaxErrors /\ errors' = errors + 1
  /\ pc' = [pc EXCEPT ![p] = "open"]
  /\ stale' = [stale EXCEPT ![p] = TRUE]
  /\ UNCHANGED <<mem, file, corrupt, damages, own, said>>

Record(p, r) ==
  /\ pc[p] = "open"
  /\ mem' = [mem EXCEPT ![p] = Recorded(@, r)]
  /\ own' = [own EXCEPT ![p] =
               @ \union (KeysOf(Recorded(mem[p], r)) \ KeysOf(mem[p]))]
  /\ said' = Heard(said, r)
  /\ UNCHANGED <<pc, file, corrupt, damages, errors, stale>>

\* Mutant: the file is opened for writing in place, and so truncated.
SaveInPlace(p) ==
  /\ pc[p] = "open"
  /\ pc' = [pc EXCEPT ![p] = "saving"]
  /\ file' = Good(EmptyDoc)
  /\ UNCHANGED <<mem, corrupt, damages, errors, stale, own, said>>

\* save: the payload is serialised into a temporary file ...
BeginSave(p) ==
  /\ pc[p] = "open"
  /\ pc' = [pc EXCEPT ![p] = "saving"]
  /\ UNCHANGED <<mem, file, corrupt, damages, errors, stale, own, said>>

\* ... and renamed over the ledger file
Replace(p) ==
  /\ pc[p] = "saving"
  /\ pc' = [pc EXCEPT ![p] = "open"]
  /\ file' = Good(mem[p])
  /\ UNCHANGED <<mem, corrupt, damages, errors, said>>
  /\ FreshWindow(p)

\* Mutant: the file is removed, the object keeps what it held.
ClearFileOnly(p) ==
  /\ pc[p] = "open"
  /\ file' = Absent
  /\ UNCHANGED <<pc, mem, corrupt, damages, errors, said>>
  /\ FreshWindow(p)

Clear(p) ==
  /\ pc[p] = "open"
  /\ mem' = [mem EXCEPT ![p] = EmptyDoc]
  /\ file' = Absent
  /\ UNCHANGED <<pc, corrupt, damages, errors, said>>
  /\ FreshWindow(p)

(***************************************************************************)
(* The object is dropped: an MCP call or a command ends, a save raises      *)
(* OSError and removes its temporary file, or the process dies anywhere.    *)
(***************************************************************************)
Leave(p) ==
  /\ pc[p] # "idle"
  /\ pc' = [pc EXCEPT ![p] = "idle"]
  /\ mem' = [mem EXCEPT ![p] = EmptyDoc]
  /\ own' = [own EXCEPT ![p] = {}]
  /\ stale' = [stale EXCEPT ![p] = FALSE]
  /\ UNCHANGED <<file, corrupt, damages, errors, said>>

\* The environment: someone truncates or edits the file, or its schema is old.
Damage ==
  /\ file.tag # "absent"
  /\ damages < MaxDamage
  /\ damages' = damages + 1
  /\ file' = Damaged(damages + 1)
  /\ stale' = [p \in Proc |-> TRUE]
  /\ UNCHANGED <<pc, mem, corrupt, errors, own, said>>

ProcNext(p) ==
  \/ Open(p) \/ ReadGood(p) \/ ReadGone(p) \/ ReadBad(p) \/ ReadError(p)
  \/ Quarantine(p) \/ QuarantineFails(p)
  \/ \E r \in Check \union Observation : Record(p, r)
  \/ BeginSave(p) \/ Replace(p) \/ Clear(p) \/ Leave(p)

Next == (\E p \in Proc : ProcNext(p)) \/ Damage

Spec == Init /\ [][Next]_vars

-----------------------------------------------------------------------------
TypeOK ==
  /\ pc \in [Proc -> {"idle", "reading", "failed", "refused", "open", "saving"}]
  /\ mem \in [Proc -> Doc]
  /\ file \in File
  /\ corrupt \in File
  /\ damages \in 0..MaxDamage
  /\ errors \in 0..MaxErrors
  /\ stale \in [Proc -> BOOLEAN]
  /\ own \in [Proc -> SUBSET AllKeys]
  /\ said \in Testimony

(***************************************************************************)
(* Only what a check came back with is in a ledger (record's docstring,     *)
(* ledger.py:415-421): every weight, refutation and value that a process    *)
(* holds, that is on disk or in quarantine was returned, as it stands       *)
(* there, by some check of some process, whichever way documents were       *)
(* loaded, saved over one another, moved aside and reloaded.  It is no more *)
(* than that: checks that run with other engines may disagree, facts and    *)
(* refutations are never compared (ledger.py:466-483), and one claim may be *)
(* kept as both; what is both was verified by one check and refuted by      *)
(* another.                                                                 *)
(***************************************************************************)
Grounded(d, t) ==
  /\ \A c \in Claim : d.weight[c] > 0 => d.weight[c] \in t.verified[c]
  /\ d.refuted \subseteq t.refuted
  /\ \A s \in Spot : /\ d.observed[s] # NoValue => d.observed[s] \in t.read[s]
                     /\ d.line[s] # NoValue => d.line[s] \in t.read[s]

Provenance ==
  /\ \A p \in Proc : Grounded(mem[p], said)
  /\ Grounded(file.doc, said)
  /\ Grounded(corrupt.doc, said)

(***************************************************************************)
(* A process whose window was not disturbed holds exactly what is on disk   *)
(* plus what it recorded itself: the save it is about to make (ledger.py    *)
(* 358-376) can neither lose a fact another process published nor bring     *)
(* back one that was cleared.                                               *)
(***************************************************************************)
UndisturbedWindow ==
  \A p \in Proc :
    pc[p] \in {"open", "saving"} /\ ~stale[p] =>
      /\ Included(file.doc, mem[p])
      /\ KeysOf(mem[p]) = KeysOf(file.doc) \union own[p]

(***************************************************************************)
(* Every way in which a readable ledger can lose something, for any number  *)
(* of processes and with reads and moves that fail: damage, a clear, a save *)
(* of a process that does not hold what the file was last (a lost update,   *)
(* or a file it could neither read nor move), and a quarantine (ledger.py   *)
(* 337-344) that takes a sound ledger for a corrupt one.  That last one     *)
(* happens only if an open failed or another process replaced the file in   *)
(* between, and then the whole ledger is in .corrupt.json.  A crash, a      *)
(* restart or a failed save is none of them.                                *)
(***************************************************************************)
LossAccounted ==
  [][file.tag = "good" /\ ~(file'.tag = "good" /\ Included(file.doc, file'.doc)) =>
       \/ Damage
       \/ \E p \in Proc : Clear(p)
       \/ \E p \in Proc : Replace(p) /\ stale[p]
       \/ \E p \in Proc : /\ Quarantine(p)
                          /\ stale[p] \/ pc[p] = "refused"
                          /\ corrupt' = file]_vars

(***************************************************************************)
(* Short of a clear, what a readable ledger holds stays on disk, across     *)
(* crashes, failed saves and restarts (README.md:191-193).  One process     *)
(* keeps this promise as long as opening the file does not fail; two do     *)
(* not.                                                                     *)
(***************************************************************************)
NothingPublishedIsLost ==
  [][file.tag = "good" /\ ~Damage /\ (\A p \in Proc : ~Clear(p))
       => Included(file.doc, file'.doc)]_vars

(***************************************************************************)
(* The file is a store that is read and written whole: no process starts    *)
(* from, or leaves behind, half a checkpoint.  One process whose opens      *)
(* succeed resumes from what it last saved (README.md:191-193); several, or *)
(* one whose opens fail, may also start over.                               *)
(***************************************************************************)
Refines == Store!Spec

=============================================================================
