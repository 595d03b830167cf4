--------------------------- MODULE RolloverProofs ---------------------------
(***************************************************************************)
(* Theorems about RolloverGuard, for any number of sessions, any sizes and  *)
(* any number of killed hooks, and about RolloverLauncher, for any number   *)
(* of rollovers: its steps are the guard's and the launcher's own, and the  *)
(* second part reuses what the first shows of the guard's.                  *)
(***************************************************************************)
EXTENDS RolloverLauncher, TLAPS

USE KindAssumption, KeyAssumption, SizeAssumption, BoundAssumption

-----------------------------------------------------------------------------
(***************************************************************************)
(* Types.                                                                   *)
(***************************************************************************)

\* A fresh state file and an idle hook are well typed.
LEMMA FreshTypes == Fresh \in State /\ Idle \in HookState
<1>1. 0 \in Time /\ 0 \in Tokens
  BY DEF Time, Tokens
<1>2. Fresh \in State
  BY <1>1 DEF Fresh, State
<1>3. QED
  BY <1>1, <1>2 DEF Idle, HookState, Phase, Outcome

\* The changes a hook makes to a state leave it a state.
LEMMA StateChanges ==
  ASSUME TypeOK, NEW s \in Session, NEW st \in State, NEW b \in BOOLEAN
  PROVE  /\ Released(st, tokens[s]) \in State
         /\ Passed(s, st) \in State
         /\ Blocked(s, st) \in State
         /\ [st EXCEPT !.successor = b] \in State
         /\ Struck(st) \in State
<1>1. Rearmed(st, tokens[s]) \in Nat
  <2>1. st.blocked \in Nat /\ tokens[s] \in Nat
    BY DEF TypeOK, State, Tokens
  <2>2. QED
    BY <2>1 DEF Rearmed, Larger
<1>2. Released(st, tokens[s]) \in State
  BY <1>1 DEF Released, State
<1>3. ASSUME NEW n \in Nat
      PROVE  /\ [st EXCEPT !.rollovers = n, !.opening = b] \in State
             /\ [st EXCEPT !.pending = TRUE, !.epoch = now, !.blocked = tokens[s],
                           !.blocks = n] \in State
  BY DEF State, TypeOK
<1>4. st.rollovers + 1 \in Nat /\ st.blocks + 1 \in Nat
  BY DEF State
<1>5. Passed(s, st) \in State
  BY <1>4 DEF Passed, State
<1>6. Blocked(s, st) \in State
  BY <1>3, <1>4 DEF Blocked
<1>7. [st EXCEPT !.successor = b] \in State
  BY DEF State
<1>8. Struck(st) \in State
  BY DEF Struck, State
<1>9. QED
  BY <1>2, <1>5, <1>6, <1>7, <1>8

\* At the start everything is fresh, idle and zero.
LEMMA InitType == Init => TypeOK
<1> SUFFICES ASSUME Init PROVE TypeOK
  OBVIOUS
<1>1. 0 \in Time /\ 1 \in Time /\ 0 \in Tokens /\ 0 \in 0..MaxSlips /\ 0 \in 0..MaxAsks
  BY DEF Time, Tokens
<1>2. NoReceipt \in Receipt
  BY <1>1 DEF NoReceipt, Receipt
<1>3. handoff \in Handoff
  BY <1>1 DEF Init, Handoff
<1>4. QED
  BY <1>1, <1>2, <1>3, FreshTypes DEF Init, TypeOK, Outcome

\* The handler stays one when its fields take values of their types.
LEMMA HookChanges ==
  ASSUME NEW h \in HookState, NEW a \in Phase, NEW new \in State, NEW t \in Time,
         NEW o \in Outcome
  PROVE  /\ [h EXCEPT !.at = a] \in HookState
         /\ [h EXCEPT !.at = a, !.st = new] \in HookState
         /\ [h EXCEPT !.at = a, !.says = o, !.st = new] \in HookState
         /\ [h EXCEPT !.at = a, !.st = new, !.anchor = t, !.says = o] \in HookState
BY DEF HookState

\* Every step keeps the types.
LEMMA NextType == TypeOK /\ [Next]_vars => TypeOK'
<1> SUFFICES ASSUME TypeOK, [Next]_vars PROVE TypeOK'
  OBVIOUS
<1> USE DEF TypeOK
<1>a. ASSUME NEW s \in Session
      PROVE  /\ hook[s] \in HookState /\ hook[s].st \in State
             /\ disk[s] \in State
  BY DEF HookState
<1>1. ASSUME NEW s \in Session, Grow(s), UNCHANGED kind PROVE TypeOK'
  BY <1>1 DEF Grow, files, tally
<1>2. ASSUME NEW s \in Session, WriteHandoff(s), UNCHANGED kind PROVE TypeOK'
  BY <1>2 DEF WriteHandoff, tally, Handoff
<1>3. ASSUME NEW s \in Session, Ask(s), UNCHANGED kind PROVE TypeOK'
  BY <1>3 DEF Ask, tally, Key
<1>4. ASSUME NEW s \in Session, UserSpeaks(s), UNCHANGED kind PROVE TypeOK'
  BY <1>4 DEF UserSpeaks, files, tally
<1>5. ASSUME NEW s \in Session, Start(s), UNCHANGED kind PROVE TypeOK'
  <2>1. hook' \in [Session -> HookState]
    BY <1>5, <1>a, FreshTypes DEF Start, HookState, Phase, Key
  <2>2. QED
    BY <1>5, <2>1 DEF Start, files, tally
<1>6. ASSUME NEW s \in Session, Release(s), UNCHANGED kind PROVE TypeOK'
  <2> DEFINE st == Released(hook[s].st, tokens[s])
  <2>1. st \in State /\ Passed(s, st) \in State
    BY <1>a, StateChanges
  <2>2. hook' \in [Session -> HookState]
    <3>1. \/ hook' = [hook EXCEPT ![s].at = "issue", ![s].st = Passed(s, st),
                                  ![s].anchor = said[s], ![s].says = "receipt"]
          \/ hook' = [hook EXCEPT ![s].at = "save", ![s].st = st]
      BY <1>6 DEF Release
    <3> HIDE DEF st
    <3>2. said[s] \in Time
      OBVIOUS
    <3>3. \/ hook'[s] = [hook[s] EXCEPT !.at = "issue", !.st = Passed(s, st),
                                       !.anchor = said[s], !.says = "receipt"]
          \/ hook'[s] = [hook[s] EXCEPT !.at = "save", !.st = st]
      BY <3>1
    <3>4. hook'[s] \in HookState
      <4>1. "issue" \in Phase /\ "save" \in Phase /\ "receipt" \in Outcome
        BY DEF Phase, Outcome
      <4>2. /\ [hook[s] EXCEPT !.at = "issue", !.st = Passed(s, st), !.anchor = said[s],
                               !.says = "receipt"] \in HookState
            /\ [hook[s] EXCEPT !.at = "save", !.st = st] \in HookState
        BY <1>a, <2>1, <3>2, <4>1, HookChanges
      <4>3. QED
        BY <3>3, <4>2, Zenon
    <3>5. QED
      BY <3>1, <3>4
  <2>3. QED
    BY <1>6, <2>2 DEF Release, Unlink, tally
<1>7. ASSUME NEW s \in Session, Block(s), UNCHANGED kind PROVE TypeOK'
  <2>1. hook' \in [Session -> HookState]
    <3>1. Blocked(s, hook[s].st) \in State
      BY <1>a, StateChanges
    <3>2. hook'[s] = [hook[s] EXCEPT !.at = "save", !.says = "block",
                                     !.st = Blocked(s, hook[s].st)]
      BY <1>7 DEF Block
    <3>3. hook'[s] \in HookState
      <4>1. "save" \in Phase /\ "block" \in Outcome /\ said[s] \in Time
        BY DEF Phase, Outcome
      <4>2. [hook[s] EXCEPT !.at = "save", !.says = "block", !.st = Blocked(s, hook[s].st)]
              \in HookState
        BY <1>a, <3>1, <4>1, HookChanges
      <4>3. QED
        BY <3>2, <4>2, Zenon
    <3>4. QED
      BY <1>7, <3>3 DEF Block
  <2>2. QED
    BY <1>7, <2>1 DEF Block, Unlink, tally
<1>8. ASSUME NEW s \in Session, Allow(s), UNCHANGED kind PROVE TypeOK'
  BY <1>8, FreshTypes DEF Allow, files, tally, Outcome
<1>9. ASSUME NEW s \in Session, Issue(s), UNCHANGED kind PROVE TypeOK'
  <2>1. hook' \in [Session -> HookState]
    <3>1. PICK a \in {"spawn", "save"} : hook' = [hook EXCEPT ![s].at = a]
      BY <1>9 DEF Issue
    <3>2. a \in Phase
      BY DEF Phase
    <3>3. [hook[s] EXCEPT !.at = a] \in HookState
      BY <3>2, HookChanges
    <3>4. QED
      BY <3>1, <3>3
  <2>2. receipt' \in [Session -> Receipt]
    <3>1. [anchor |-> hook[s].anchor, at |-> now] \in Receipt
      BY <1>a DEF HookState, Receipt
    <3>2. QED
      BY <1>9, <3>1 DEF Issue
  <2>3. QED
    BY <1>9, <2>1, <2>2 DEF Issue
<1>10. ASSUME NEW s \in Session, Spawn(s), UNCHANGED kind PROVE TypeOK'
  <2>1. hook' \in [Session -> HookState]
    <3>1. PICK known \in BOOLEAN :
            hook' = [hook EXCEPT ![s].at = "save", ![s].st.successor = known]
      BY <1>10 DEF Spawn
    <3>2. [hook[s].st EXCEPT !.successor = known] \in State
      BY <1>a, StateChanges
    <3>3. hook'[s] = [hook[s] EXCEPT !.at = "save",
                                     !.st = [hook[s].st EXCEPT !.successor = known]]
      BY <3>1
    <3>4. hook'[s] \in HookState
      BY <1>a, <3>2, <3>3 DEF HookState, Phase
    <3>5. QED
      BY <3>1, <3>4
  <2>2. started' \in [Session -> Nat] /\ slips' \in [Session -> 0..MaxSlips]
    BY <1>10 DEF Spawn
  <2>3. QED
    BY <1>10, <2>1, <2>2 DEF Spawn, files
<1>11. ASSUME NEW s \in Session, Save(s), UNCHANGED kind PROVE TypeOK'
  <2>1. hook' \in [Session -> HookState]
    BY <1>11, <1>a DEF Save, HookState, Phase
  <2>2. disk' \in [Session -> State]
    BY <1>11, <1>a DEF Save
  <2>3. QED
    BY <1>11, <2>1, <2>2 DEF Save, tally
<1>12. ASSUME NEW s \in Session, Emit(s), UNCHANGED kind PROVE TypeOK'
  <2>1. heard' \in [Session -> Outcome]
    BY <1>12, <1>a DEF Emit, HookState
  <2>2. QED
    BY <1>12, <2>1, FreshTypes DEF Emit, files, tally
<1>13. ASSUME NEW s \in Session, Killed(s), UNCHANGED kind PROVE TypeOK'
  BY <1>13, FreshTypes DEF Killed, files, Outcome
<1>14. ASSUME NEW s \in Session, BeforeAgent(s), UNCHANGED kind PROVE TypeOK'
  <2>1. disk' \in [Session -> State]
    BY <1>14, <1>a, StateChanges DEF BeforeAgent
  <2>2. injected' \in [Session -> Nat] /\ slips' \in [Session -> 0..MaxSlips]
    BY <1>14 DEF BeforeAgent
  <2>3. QED
    BY <1>14, <2>1, <2>2 DEF BeforeAgent
<1>15. CASE Tick
  BY <1>15 DEF Tick, files, tally, Time
<1>16. CASE UNCHANGED vars
  BY <1>16 DEF vars, files, tally
<1>17. QED
  BY <1>1, <1>2, <1>3, <1>4, <1>5, <1>6, <1>7, <1>8, <1>9, <1>10, <1>11, <1>12,
     <1>13, <1>14, <1>15, <1>16 DEF Next, SessionNext, Hook, Other

\* Types are kept, for any number of sessions and any bounds.
THEOREM TypeCorrect == Spec => []TypeOK
BY InitType, NextType, PTL DEF Spec

-----------------------------------------------------------------------------
(***************************************************************************)
(* The invariant.  None of the accounts below is kept by every step on its  *)
(* own: between the receipt and the saved state, a hook has done what the   *)
(* disk does not say yet.  Ahead relates the state a hook holds to the one  *)
(* on disk, phase by phase; each account then says what it may be off by    *)
(* while a hook is under way, and that a killed hook pays for it.           *)
(***************************************************************************)
Ahead(s) ==
  /\ At(s, "read") => hook[s].st = disk[s] /\ hook[s].says = "allow"
  /\ At(s, "issue") \/ At(s, "spawn") => hook[s].says = "receipt"
  /\ ~At(s, "idle") /\ ~At(s, "emit") /\ hook[s].says = "receipt" =>
       /\ disk[s].pending /\ ~hook[s].st.pending
       /\ hook[s].st.blocks = disk[s].blocks
  /\ At(s, "save") /\ hook[s].says = "block" =>
       /\ ~disk[s].pending /\ hook[s].st.pending
       /\ hook[s].st.blocks = disk[s].blocks + 1
  /\ At(s, "save") /\ hook[s].says = "allow" =>
       ~hook[s].st.pending /\ hook[s].st.blocks = disk[s].blocks
  /\ At(s, "emit") => /\ hook[s].st = disk[s]
                      /\ hook[s].says = "block" => disk[s].pending

Counted(st) == st.rollovers + One(st.pending) <= st.blocks

\* The hook has written a receipt that the disk does not know of.
Ungoverned(s) ==
  At(s, "spawn") \/ (At(s, "save") /\ hook[s].says = "receipt")

ReceiptAccount(s) ==
  written[s] + One(disk[s].pending)
    <= disk[s].blocks + slips[s] + One(Ungoverned(s))

SuccessorAccount(s) ==
  /\ disk[s].successor /\ ~At(s, "idle") => hook[s].st.successor
  /\ At(s, "spawn") => ~hook[s].st.successor
  /\ ~At(s, "idle") /\ ~At(s, "save") => hook[s].st.successor = disk[s].successor
  /\ started[s] <= slips[s]
       + One(disk[s].successor \/ (At(s, "save") /\ hook[s].st.successor))

Opened(s, st) == injected[s] + One(st.opening) <= st.rollovers

OpeningAccount(s) ==
  Opened(s, disk[s]) /\ (~At(s, "idle") => Opened(s, hook[s].st))

BlockAccount(s) ==
  heard[s] = "block" =>
    /\ At(s, "idle") \/ At(s, "read") => disk[s].pending
    /\ ~At(s, "idle") => hook[s].says # "block"

\* A hand-off found good stays good: a later one is newer.
FreshAccount(s) ==
  /\ disk[s].epoch <= now
  /\ hook[s].st.epoch <= now
  /\ At(s, "issue") => handoff.at > 0 /\ handoff.at + Slack >= disk[s].epoch

FurtherUp(st) == ~st.pending /\ st.blocks > 0 => st.trigger >= st.blocked + Step

Accounts(s) ==
  /\ Ahead(s)
  /\ Counted(disk[s]) /\ Counted(hook[s].st)
  /\ ReceiptAccount(s)
  /\ SuccessorAccount(s)
  /\ OpeningAccount(s)
  /\ BlockAccount(s)
  /\ FreshAccount(s)
  /\ FurtherUp(disk[s]) /\ (~At(s, "idle") => FurtherUp(hook[s].st))

GuardInv == TypeOK /\ now > 0 /\ \A s \in Session : Accounts(s)

\* What the types say of the numbers and flags the accounts use.
LEMMA Numbers ==
  ASSUME TypeOK, NEW s \in Session
  PROVE  /\ disk[s] \in State /\ hook[s].st \in State
         /\ hook[s] \in HookState
         /\ written[s] \in Nat /\ started[s] \in Nat /\ injected[s] \in Nat
         /\ slips[s] \in Nat /\ tokens[s] \in Nat
         /\ handoff.at \in Nat /\ now \in Nat
BY DEF TypeOK, HookState, Handoff, Time, Tokens

\* The same of the state a hook holds or the disk keeps.
LEMMA StateNumbers ==
  ASSUME NEW st \in State
  PROVE  /\ st.pending \in BOOLEAN /\ st.successor \in BOOLEAN
         /\ st.opening \in BOOLEAN
         /\ st.epoch \in Nat /\ st.blocked \in Nat /\ st.trigger \in Nat
         /\ st.blocks \in Nat /\ st.rollovers \in Nat
BY DEF State, Time, Tokens

\* One counts a condition.
LEMMA OneFacts == One(TRUE) = 1 /\ One(FALSE) = 0
BY DEF One

\* A step of somebody else leaves the accounts of s in order: at most the
\* clock went on or a newer hand-off was written.
LEMMA OtherStep ==
  ASSUME GuardInv, TypeOK', NEW s \in Session,
         disk'[s] = disk[s], hook'[s] = hook[s], heard'[s] = heard[s],
         written'[s] = written[s], started'[s] = started[s],
         injected'[s] = injected[s], slips'[s] = slips[s],
         now <= now',
         handoff' = handoff \/ handoff'.at = now
  PROVE  Accounts(s)'
<1>1. Accounts(s)
  BY DEF GuardInv
<1>2. /\ At(s, "read")' = At(s, "read") /\ At(s, "issue")' = At(s, "issue")
      /\ At(s, "spawn")' = At(s, "spawn") /\ At(s, "save")' = At(s, "save")
      /\ At(s, "emit")' = At(s, "emit") /\ At(s, "idle")' = At(s, "idle")
  BY DEF At
<1>3. /\ Ahead(s)' /\ Counted(disk[s])' /\ Counted(hook[s].st)'
      /\ ReceiptAccount(s)' /\ SuccessorAccount(s)' /\ OpeningAccount(s)'
      /\ BlockAccount(s)' /\ FurtherUp(disk[s])'
      /\ (~At(s, "idle") => FurtherUp(hook[s].st))'
  BY <1>1, <1>2 DEF Accounts, Ahead, Counted, ReceiptAccount, Ungoverned,
     SuccessorAccount, OpeningAccount, Opened, BlockAccount, FurtherUp
<1>4. FreshAccount(s)'
  <2>1. /\ disk[s].epoch \in Nat /\ hook[s].st.epoch \in Nat
        /\ now \in Nat /\ now' \in Nat /\ handoff.at \in Nat /\ now > 0
    BY Numbers, StateNumbers DEF GuardInv, TypeOK, Time
  <2>2. QED
    BY <1>1, <1>2, <2>1 DEF Accounts, FreshAccount
<1>5. QED
  BY <1>3, <1>4 DEF Accounts

\* The fields of the states a hook makes: of a released session,
LEMMA ReleasedFields ==
  ASSUME TypeOK, NEW s \in Session, NEW st \in State
  PROVE  LET rel == Released(st, tokens[s])
         IN  /\ ~rel.pending /\ rel.blocks = st.blocks
             /\ rel.rollovers = st.rollovers /\ rel.successor = st.successor
             /\ rel.opening = st.opening /\ rel.epoch = st.epoch
             /\ rel.blocked = st.blocked /\ rel.trigger >= st.blocked + Step
<1>1. Rearmed(st, tokens[s]) >= st.blocked + Step
  <2>1. st.blocked \in Nat /\ tokens[s] \in Nat
    BY StateNumbers, Numbers
  <2>2. QED
    BY <2>1 DEF Rearmed, Larger
<1>2. QED
  BY <1>1 DEF Released, State

\* of one whose hand-off passed,
LEMMA PassedFields ==
  ASSUME NEW s \in Session, NEW st \in State
  PROVE  LET pas == Passed(s, st)
         IN  /\ pas.pending = st.pending /\ pas.blocks = st.blocks
             /\ pas.rollovers = st.rollovers + 1 /\ pas.successor = st.successor
             /\ pas.epoch = st.epoch /\ pas.blocked = st.blocked
             /\ pas.trigger = st.trigger
             /\ pas.opening \in BOOLEAN /\ (st.opening => pas.opening)
BY DEF Passed, State

\* of one that was blocked,
LEMMA BlockedFields ==
  ASSUME NEW s \in Session, NEW st \in State
  PROVE  LET blk == Blocked(s, st)
         IN  /\ blk.pending /\ blk.blocks = st.blocks + 1
             /\ blk.rollovers = st.rollovers /\ blk.successor = st.successor
             /\ blk.opening = st.opening /\ blk.epoch = now
BY DEF Blocked, State

\* of one whose successor is known,
LEMMA SuccessorFields ==
  ASSUME NEW st \in State, NEW b \in BOOLEAN
  PROVE  LET suc == [st EXCEPT !.successor = b]
         IN  /\ suc.pending = st.pending /\ suc.blocks = st.blocks
             /\ suc.rollovers = st.rollovers /\ suc.successor = b
             /\ suc.opening = st.opening /\ suc.epoch = st.epoch
             /\ suc.blocked = st.blocked /\ suc.trigger = st.trigger
BY DEF State

\* of one whose opening was struck off,
LEMMA StruckFields ==
  ASSUME NEW st \in State
  PROVE  LET struck == Struck(st)
         IN  /\ struck.pending = st.pending /\ struck.blocks = st.blocks
             /\ struck.rollovers = st.rollovers /\ struck.successor = st.successor
             /\ ~struck.opening /\ struck.epoch = st.epoch
             /\ struck.blocked = st.blocked /\ struck.trigger = st.trigger
BY DEF Struck, State

\* and of an idle hook.
LEMMA IdleFields ==
  /\ Idle.at = "idle" /\ Idle.says = "allow"
  /\ ~Idle.st.pending /\ ~Idle.st.opening /\ ~Idle.st.successor
  /\ Idle.st.blocks = 0 /\ Idle.st.rollovers = 0 /\ Idle.st.epoch = 0
BY DEF Idle, Fresh

\* Reading the state: nothing is under way yet.
LEMMA StartStep ==
  ASSUME GuardInv, TypeOK', NEW s \in Session, Start(s)
  PROVE  Accounts(s)'
<1>1. /\ hook[s].at = "idle"
      /\ hook'[s].at = "read" /\ hook'[s].st = disk[s] /\ hook'[s].says = "allow"
      /\ disk'[s] = disk[s] /\ heard'[s] = heard[s] /\ written'[s] = written[s]
      /\ started'[s] = started[s] /\ injected'[s] = injected[s]
      /\ slips'[s] = slips[s] /\ now' = now /\ handoff' = handoff
  BY DEF Start, At, Idle, files, tally, GuardInv, TypeOK, HookState
<1>2. Accounts(s)
  BY DEF GuardInv
<1>3. /\ disk[s] \in State /\ hook[s].st \in State
      /\ written[s] \in Nat /\ started[s] \in Nat /\ injected[s] \in Nat
      /\ slips[s] \in Nat /\ handoff.at \in Nat /\ now \in Nat
  BY Numbers DEF GuardInv
<1>5. Ahead(s)'
  BY <1>1, <1>2 DEF Accounts, Ahead, At
<1>6. Counted(disk[s])' /\ Counted(hook[s].st)'
  BY <1>1, <1>2, <1>3, StateNumbers DEF Accounts, Counted, Ahead, At, One
<1>7. ReceiptAccount(s)'
  BY <1>1, <1>2, <1>3, StateNumbers DEF Accounts, Ahead, ReceiptAccount, Ungoverned, At, One
<1>8. SuccessorAccount(s)'
  BY <1>1, <1>2, <1>3, StateNumbers DEF Accounts, SuccessorAccount, At, One
<1>9. OpeningAccount(s)'
  BY <1>1, <1>2, <1>3, StateNumbers DEF Accounts, Ahead, OpeningAccount, Opened, At, One
<1>10. BlockAccount(s)'
  BY <1>1, <1>2 DEF Accounts, Ahead, BlockAccount, At
<1>11. FreshAccount(s)'
  BY <1>1, <1>2, <1>3, StateNumbers DEF Accounts, Ahead, FreshAccount, At, Usable
<1>12. FurtherUp(disk[s])' /\ (~At(s, "idle") => FurtherUp(hook[s].st))'
  BY <1>1, <1>2 DEF Accounts, Ahead, FurtherUp, At
<1>13. QED
  BY <1>5, <1>6, <1>7, <1>8, <1>9, <1>10, <1>11, <1>12 DEF Accounts

\* The session is released: the block on disk is answered.
LEMMA ReleaseStep ==
  ASSUME GuardInv, TypeOK', NEW s \in Session, Release(s)
  PROVE  Accounts(s)'
<1>1. /\ hook[s].at = "read"
      /\ hook[s].st.pending
      /\ disk'[s] = disk[s] /\ heard'[s] = heard[s] /\ written'[s] = written[s]
      /\ started'[s] = started[s] /\ injected'[s] = injected[s]
      /\ slips'[s] = slips[s] /\ now' = now /\ handoff' = handoff
      /\ \/ /\ Usable(hook[s].st)
            /\ hook'[s].at = "issue" /\ hook'[s].says = "receipt"
            /\ hook'[s].st = Passed(s, Released(hook[s].st, tokens[s]))
         \/ /\ hook'[s].at = "save" /\ hook'[s].says = hook[s].says
            /\ hook'[s].st = Released(hook[s].st, tokens[s])
  BY DEF Release, At, tally, GuardInv, TypeOK, HookState
<1>2. Accounts(s)
  BY DEF GuardInv
<1>3. /\ disk[s] \in State /\ hook[s].st \in State
      /\ written[s] \in Nat /\ started[s] \in Nat /\ injected[s] \in Nat
      /\ slips[s] \in Nat /\ handoff.at \in Nat /\ now \in Nat
  BY Numbers DEF GuardInv
<1>4. /\ ~hook'[s].st.pending /\ hook'[s].st.blocks = hook[s].st.blocks
      /\ hook'[s].st.successor = hook[s].st.successor
      /\ hook'[s].st.epoch = hook[s].st.epoch
      /\ hook'[s].st.trigger >= hook'[s].st.blocked + Step
      /\ \/ /\ hook'[s].st.opening = hook[s].st.opening
            /\ hook'[s].st.rollovers = hook[s].st.rollovers
         \/ hook'[s].st.rollovers = hook[s].st.rollovers + 1
  <2> DEFINE rel == Released(hook[s].st, tokens[s])
  <2>1. rel \in State
    BY <1>3, StateChanges DEF GuardInv
  <2>2. /\ ~rel.pending /\ rel.blocks = hook[s].st.blocks
        /\ rel.rollovers = hook[s].st.rollovers
        /\ rel.successor = hook[s].st.successor
        /\ rel.opening = hook[s].st.opening /\ rel.epoch = hook[s].st.epoch
        /\ rel.blocked = hook[s].st.blocked
        /\ rel.trigger >= hook[s].st.blocked + Step
    BY <1>3, ReleasedFields DEF GuardInv
  <2> HIDE DEF rel
  <2>3. CASE hook'[s].st = rel
    BY <2>2, <2>3
  <2>4. CASE hook'[s].st = Passed(s, rel)
    BY <2>1, <2>2, <2>4, PassedFields
  <2>5. QED
    BY <1>1, <2>3, <2>4 DEF rel
<1>5. Ahead(s)'
  BY <1>1, <1>2, <1>4 DEF Accounts, Ahead, At
<1>6. Counted(disk[s])' /\ Counted(hook[s].st)'
  BY <1>1, <1>2, <1>4, <1>3, StateNumbers DEF Accounts, Counted, Ahead, At, One
<1>7. ReceiptAccount(s)'
  BY <1>1, <1>2, <1>4, <1>3, StateNumbers DEF Accounts, Ahead, ReceiptAccount, Ungoverned, At, One
<1>8. SuccessorAccount(s)'
  BY <1>1, <1>2, <1>4, <1>3, StateNumbers DEF Accounts, SuccessorAccount, At, One
<1>9. OpeningAccount(s)'
  BY <1>1, <1>2, <1>4, <1>3, StateNumbers DEF Accounts, Ahead, OpeningAccount, Opened, At, One
<1>10. BlockAccount(s)'
  BY <1>1, <1>2, <1>4 DEF Accounts, Ahead, BlockAccount, At
<1>11. FreshAccount(s)'
  BY <1>1, <1>2, <1>4, <1>3, StateNumbers DEF Accounts, Ahead, FreshAccount, At, Usable
<1>12. FurtherUp(disk[s])' /\ (~At(s, "idle") => FurtherUp(hook[s].st))'
  BY <1>1, <1>2, <1>4 DEF Accounts, Ahead, FurtherUp, At
<1>13. QED
  BY <1>5, <1>6, <1>7, <1>8, <1>9, <1>10, <1>11, <1>12 DEF Accounts

\* The session is blocked: the disk does not say so yet.
LEMMA BlockStep ==
  ASSUME GuardInv, TypeOK', NEW s \in Session, Block(s)
  PROVE  Accounts(s)'
<1>1. /\ hook[s].at = "read"
      /\ ~hook[s].st.pending
      /\ hook'[s].at = "save" /\ hook'[s].says = "block"
      /\ hook'[s].st = Blocked(s, hook[s].st)
      /\ disk'[s] = disk[s] /\ heard'[s] = heard[s] /\ written'[s] = written[s]
      /\ started'[s] = started[s] /\ injected'[s] = injected[s]
      /\ slips'[s] = slips[s] /\ now' = now /\ handoff' = handoff
  BY DEF Block, At, tally, GuardInv, TypeOK, HookState
<1>2. Accounts(s)
  BY DEF GuardInv
<1>3. /\ disk[s] \in State /\ hook[s].st \in State
      /\ written[s] \in Nat /\ started[s] \in Nat /\ injected[s] \in Nat
      /\ slips[s] \in Nat /\ handoff.at \in Nat /\ now \in Nat
  BY Numbers DEF GuardInv
<1>4. /\ hook'[s].st.pending /\ hook'[s].st.blocks = hook[s].st.blocks + 1
      /\ hook'[s].st.rollovers = hook[s].st.rollovers
      /\ hook'[s].st.successor = hook[s].st.successor
      /\ hook'[s].st.opening = hook[s].st.opening /\ hook'[s].st.epoch = now
  BY <1>1, <1>3, BlockedFields DEF GuardInv
<1>5. Ahead(s)'
  BY <1>1, <1>2, <1>4 DEF Accounts, Ahead, At
<1>6. Counted(disk[s])' /\ Counted(hook[s].st)'
  BY <1>1, <1>2, <1>4, <1>3, StateNumbers DEF Accounts, Counted, Ahead, At, One
<1>7. ReceiptAccount(s)'
  BY <1>1, <1>2, <1>4, <1>3, StateNumbers DEF Accounts, Ahead, ReceiptAccount, Ungoverned, At, One
<1>8. SuccessorAccount(s)'
  BY <1>1, <1>2, <1>4, <1>3, StateNumbers DEF Accounts, SuccessorAccount, At, One
<1>9. OpeningAccount(s)'
  BY <1>1, <1>2, <1>4, <1>3, StateNumbers DEF Accounts, Ahead, OpeningAccount, Opened, At, One
<1>10. BlockAccount(s)'
  BY <1>1, <1>2, <1>4 DEF Accounts, Ahead, BlockAccount, At
<1>11. FreshAccount(s)'
  BY <1>1, <1>2, <1>4, <1>3, StateNumbers DEF Accounts, Ahead, FreshAccount, At, Usable
<1>12. FurtherUp(disk[s])' /\ (~At(s, "idle") => FurtherUp(hook[s].st))'
  BY <1>1, <1>2, <1>4 DEF Accounts, Ahead, FurtherUp, At
<1>13. QED
  BY <1>5, <1>6, <1>7, <1>8, <1>9, <1>10, <1>11, <1>12 DEF Accounts

\* The stop is allowed: nothing was done.
LEMMA AllowStep ==
  ASSUME GuardInv, TypeOK', NEW s \in Session, Allow(s)
  PROVE  Accounts(s)'
<1>1. /\ hook[s].at = "read"
      /\ ~hook[s].st.pending
      /\ hook'[s] = Idle
      /\ heard'[s] = "allow"
      /\ disk'[s] = disk[s] /\ written'[s] = written[s]
      /\ started'[s] = started[s] /\ injected'[s] = injected[s]
      /\ slips'[s] = slips[s] /\ now' = now /\ handoff' = handoff
  BY DEF Allow, At, files, tally, GuardInv, TypeOK, HookState
<1>2. Accounts(s)
  BY DEF GuardInv
<1>3. /\ disk[s] \in State /\ hook[s].st \in State
      /\ written[s] \in Nat /\ started[s] \in Nat /\ injected[s] \in Nat
      /\ slips[s] \in Nat /\ handoff.at \in Nat /\ now \in Nat
  BY Numbers DEF GuardInv
<1>4. /\ hook'[s].at = "idle" /\ hook'[s].says = "allow"
      /\ ~hook'[s].st.pending /\ ~hook'[s].st.opening
      /\ hook'[s].st.blocks = 0 /\ hook'[s].st.rollovers = 0
      /\ hook'[s].st.epoch = 0
  BY <1>1, IdleFields DEF GuardInv
<1>5. Ahead(s)'
  BY <1>1, <1>2, <1>4 DEF Accounts, Ahead, At
<1>6. Counted(disk[s])' /\ Counted(hook[s].st)'
  BY <1>1, <1>2, <1>4, <1>3, StateNumbers DEF Accounts, Counted, Ahead, At, One
<1>7. ReceiptAccount(s)'
  BY <1>1, <1>2, <1>4, <1>3, StateNumbers DEF Accounts, Ahead, ReceiptAccount, Ungoverned, At, One
<1>8. SuccessorAccount(s)'
  BY <1>1, <1>2, <1>4, <1>3, StateNumbers DEF Accounts, SuccessorAccount, At, One
<1>9. OpeningAccount(s)'
  BY <1>1, <1>2, <1>4, <1>3, StateNumbers DEF Accounts, Ahead, OpeningAccount, Opened, At, One
<1>10. BlockAccount(s)'
  BY <1>1, <1>2, <1>4 DEF Accounts, Ahead, BlockAccount, At
<1>11. FreshAccount(s)'
  BY <1>1, <1>2, <1>4, <1>3, StateNumbers DEF Accounts, Ahead, FreshAccount, At, Usable
<1>12. FurtherUp(disk[s])' /\ (~At(s, "idle") => FurtherUp(hook[s].st))'
  BY <1>1, <1>2, <1>4 DEF Accounts, Ahead, FurtherUp, At
<1>13. QED
  BY <1>5, <1>6, <1>7, <1>8, <1>9, <1>10, <1>11, <1>12 DEF Accounts

\* The receipt is written: the disk does not know of it yet.
LEMMA IssueStep ==
  ASSUME GuardInv, TypeOK', NEW s \in Session, Issue(s)
  PROVE  Accounts(s)'
<1>1. /\ hook[s].at = "issue"
      /\ \/ hook'[s].at = "spawn" /\ ~hook[s].st.successor
         \/ hook'[s].at = "save"
      /\ hook'[s].st = hook[s].st /\ hook'[s].says = hook[s].says
      /\ written'[s] = written[s] + 1
      /\ disk'[s] = disk[s] /\ heard'[s] = heard[s]
      /\ started'[s] = started[s] /\ injected'[s] = injected[s]
      /\ slips'[s] = slips[s] /\ now' = now /\ handoff' = handoff
  BY DEF Issue, Follows, At, GuardInv, TypeOK, HookState
<1>2. Accounts(s)
  BY DEF GuardInv
<1>3. /\ disk[s] \in State /\ hook[s].st \in State
      /\ written[s] \in Nat /\ started[s] \in Nat /\ injected[s] \in Nat
      /\ slips[s] \in Nat /\ handoff.at \in Nat /\ now \in Nat
  BY Numbers DEF GuardInv
<1>5. Ahead(s)'
  BY <1>1, <1>2 DEF Accounts, Ahead, At
<1>6. Counted(disk[s])' /\ Counted(hook[s].st)'
  BY <1>1, <1>2, <1>3, StateNumbers DEF Accounts, Counted, Ahead, At, One
<1>7. ReceiptAccount(s)'
  BY <1>1, <1>2, <1>3, StateNumbers DEF Accounts, Ahead, ReceiptAccount, Ungoverned, At, One
<1>8. SuccessorAccount(s)'
  BY <1>1, <1>2, <1>3, StateNumbers DEF Accounts, SuccessorAccount, At, One
<1>9. OpeningAccount(s)'
  BY <1>1, <1>2, <1>3, StateNumbers DEF Accounts, Ahead, OpeningAccount, Opened, At, One
<1>10. BlockAccount(s)'
  BY <1>1, <1>2 DEF Accounts, Ahead, BlockAccount, At
<1>11. FreshAccount(s)'
  BY <1>1, <1>2, <1>3, StateNumbers DEF Accounts, Ahead, FreshAccount, At, Usable
<1>12. FurtherUp(disk[s])' /\ (~At(s, "idle") => FurtherUp(hook[s].st))'
  BY <1>1, <1>2 DEF Accounts, Ahead, FurtherUp, At
<1>13. QED
  BY <1>5, <1>6, <1>7, <1>8, <1>9, <1>10, <1>11, <1>12 DEF Accounts

\* A successor starts: known to the hook, or paid for as a slip.
LEMMA SpawnStep ==
  ASSUME GuardInv, TypeOK', NEW s \in Session, Spawn(s)
  PROVE  Accounts(s)'
<1>1. /\ hook[s].at = "spawn"
      /\ hook'[s].at = "save" /\ hook'[s].says = hook[s].says
      /\ disk'[s] = disk[s] /\ heard'[s] = heard[s] /\ written'[s] = written[s]
      /\ injected'[s] = injected[s] /\ now' = now /\ handoff' = handoff
      /\ \E runs, known \in BOOLEAN :
           /\ known => runs
           /\ started'[s] = IF runs THEN started[s] + 1 ELSE started[s]
           /\ hook'[s].st = [hook[s].st EXCEPT !.successor = known]
           /\ slips'[s] = IF runs /\ ~known THEN slips[s] + 1 ELSE slips[s]
  BY DEF Spawn, At, files, GuardInv, TypeOK, HookState
<1>2. Accounts(s)
  BY DEF GuardInv
<1>3. /\ disk[s] \in State /\ hook[s].st \in State
      /\ written[s] \in Nat /\ started[s] \in Nat /\ injected[s] \in Nat
      /\ slips[s] \in Nat /\ handoff.at \in Nat /\ now \in Nat
  BY Numbers DEF GuardInv
<1>4. \E runs, known \in BOOLEAN :
        /\ known => runs
        /\ started'[s] = IF runs THEN started[s] + 1 ELSE started[s]
        /\ slips'[s] = IF runs /\ ~known THEN slips[s] + 1 ELSE slips[s]
        /\ hook'[s].st.successor = known
        /\ hook'[s].st.pending = hook[s].st.pending
        /\ hook'[s].st.blocks = hook[s].st.blocks
        /\ hook'[s].st.rollovers = hook[s].st.rollovers
        /\ hook'[s].st.opening = hook[s].st.opening
        /\ hook'[s].st.epoch = hook[s].st.epoch
        /\ hook'[s].st.blocked = hook[s].st.blocked
        /\ hook'[s].st.trigger = hook[s].st.trigger
  BY <1>1, <1>3, SuccessorFields DEF GuardInv
<1>5. Ahead(s)'
  BY <1>1, <1>2, <1>4 DEF Accounts, Ahead, At
<1>6. Counted(disk[s])' /\ Counted(hook[s].st)'
  BY <1>1, <1>2, <1>4, <1>3, StateNumbers DEF Accounts, Counted, Ahead, At, One
<1>7. ReceiptAccount(s)'
  BY <1>1, <1>2, <1>4, <1>3, StateNumbers DEF Accounts, Ahead, ReceiptAccount, Ungoverned, At, One
<1>8. SuccessorAccount(s)'
  BY <1>1, <1>2, <1>4, <1>3, StateNumbers DEF Accounts, SuccessorAccount, At, One
<1>9. OpeningAccount(s)'
  BY <1>1, <1>2, <1>4, <1>3, StateNumbers DEF Accounts, Ahead, OpeningAccount, Opened, At, One
<1>10. BlockAccount(s)'
  BY <1>1, <1>2, <1>4 DEF Accounts, Ahead, BlockAccount, At
<1>11. FreshAccount(s)'
  BY <1>1, <1>2, <1>4, <1>3, StateNumbers DEF Accounts, Ahead, FreshAccount, At, Usable
<1>12. FurtherUp(disk[s])' /\ (~At(s, "idle") => FurtherUp(hook[s].st))'
  BY <1>1, <1>2, <1>4 DEF Accounts, Ahead, FurtherUp, At
<1>13. QED
  BY <1>5, <1>6, <1>7, <1>8, <1>9, <1>10, <1>11, <1>12 DEF Accounts

\* The state is saved: the disk catches up with the hook.
LEMMA SaveStep ==
  ASSUME GuardInv, TypeOK', NEW s \in Session, Save(s)
  PROVE  Accounts(s)'
<1>1. /\ hook[s].at = "save"
      /\ hook'[s].at = "emit" /\ hook'[s].st = hook[s].st
      /\ hook'[s].says = hook[s].says
      /\ disk'[s] = hook[s].st
      /\ heard'[s] = heard[s] /\ written'[s] = written[s]
      /\ started'[s] = started[s] /\ injected'[s] = injected[s]
      /\ slips'[s] = slips[s] /\ now' = now /\ handoff' = handoff
  BY DEF Save, At, tally, GuardInv, TypeOK, HookState
<1>2. Accounts(s)
  BY DEF GuardInv
<1>3. /\ disk[s] \in State /\ hook[s].st \in State
      /\ written[s] \in Nat /\ started[s] \in Nat /\ injected[s] \in Nat
      /\ slips[s] \in Nat /\ handoff.at \in Nat /\ now \in Nat
  BY Numbers DEF GuardInv
<1>4. hook[s].says \in Outcome
  BY DEF GuardInv, TypeOK, HookState
<1>5. Ahead(s)'
  BY <1>1, <1>2, <1>4 DEF Accounts, Ahead, At
<1>6. Counted(disk[s])' /\ Counted(hook[s].st)'
  BY <1>1, <1>2, <1>4, <1>3, StateNumbers DEF Accounts, Counted, Ahead, At, One
<1>7. ReceiptAccount(s)'
  <2>1. CASE hook[s].says = "receipt"
    BY <1>1, <1>2, <1>4, <1>3, StateNumbers, <2>1 DEF Accounts, Ahead, ReceiptAccount, Ungoverned, At, One
  <2>2. CASE hook[s].says = "block"
    BY <1>1, <1>2, <1>4, <1>3, StateNumbers, <2>2 DEF Accounts, Ahead, ReceiptAccount, Ungoverned, At, One
  <2>3. CASE hook[s].says = "allow"
    BY <1>1, <1>2, <1>4, <1>3, StateNumbers, <2>3 DEF Accounts, Ahead, ReceiptAccount, Ungoverned, At, One
  <2>4. QED
    BY <1>4, <2>1, <2>2, <2>3 DEF Outcome
<1>8. SuccessorAccount(s)'
  BY <1>1, <1>2, <1>4, <1>3, StateNumbers DEF Accounts, SuccessorAccount, At, One
<1>9. OpeningAccount(s)'
  BY <1>1, <1>2, <1>4, <1>3, StateNumbers DEF Accounts, Ahead, OpeningAccount, Opened, At, One
<1>10. BlockAccount(s)'
  BY <1>1, <1>2, <1>4 DEF Accounts, Ahead, BlockAccount, At
<1>11. FreshAccount(s)'
  BY <1>1, <1>2, <1>4, <1>3, StateNumbers DEF Accounts, Ahead, FreshAccount, At, Usable
<1>12. FurtherUp(disk[s])' /\ (~At(s, "idle") => FurtherUp(hook[s].st))'
  BY <1>1, <1>2, <1>4 DEF Accounts, Ahead, FurtherUp, At
<1>13. QED
  BY <1>5, <1>6, <1>7, <1>8, <1>9, <1>10, <1>11, <1>12 DEF Accounts

\* The answer is printed: the disk already says so.
LEMMA EmitStep ==
  ASSUME GuardInv, TypeOK', NEW s \in Session, Emit(s)
  PROVE  Accounts(s)'
<1>1. /\ hook[s].at = "emit"
      /\ hook'[s] = Idle
      /\ heard'[s] = hook[s].says
      /\ disk'[s] = disk[s] /\ written'[s] = written[s]
      /\ started'[s] = started[s] /\ injected'[s] = injected[s]
      /\ slips'[s] = slips[s] /\ now' = now /\ handoff' = handoff
  BY DEF Emit, At, files, tally, GuardInv, TypeOK, HookState
<1>2. Accounts(s)
  BY DEF GuardInv
<1>3. /\ disk[s] \in State /\ hook[s].st \in State
      /\ written[s] \in Nat /\ started[s] \in Nat /\ injected[s] \in Nat
      /\ slips[s] \in Nat /\ handoff.at \in Nat /\ now \in Nat
  BY Numbers DEF GuardInv
<1>4. /\ hook'[s].at = "idle" /\ hook'[s].says = "allow"
      /\ ~hook'[s].st.pending /\ ~hook'[s].st.opening
      /\ hook'[s].st.blocks = 0 /\ hook'[s].st.rollovers = 0
      /\ hook'[s].st.epoch = 0
  BY <1>1, IdleFields DEF GuardInv
<1>5. Ahead(s)'
  BY <1>1, <1>2, <1>4 DEF Accounts, Ahead, At
<1>6. Counted(disk[s])' /\ Counted(hook[s].st)'
  BY <1>1, <1>2, <1>4, <1>3, StateNumbers DEF Accounts, Counted, Ahead, At, One
<1>7. ReceiptAccount(s)'
  BY <1>1, <1>2, <1>4, <1>3, StateNumbers DEF Accounts, Ahead, ReceiptAccount, Ungoverned, At, One
<1>8. SuccessorAccount(s)'
  BY <1>1, <1>2, <1>4, <1>3, StateNumbers DEF Accounts, SuccessorAccount, At, One
<1>9. OpeningAccount(s)'
  BY <1>1, <1>2, <1>4, <1>3, StateNumbers DEF Accounts, Ahead, OpeningAccount, Opened, At, One
<1>10. BlockAccount(s)'
  BY <1>1, <1>2, <1>4 DEF Accounts, Ahead, BlockAccount, At
<1>11. FreshAccount(s)'
  BY <1>1, <1>2, <1>4, <1>3, StateNumbers DEF Accounts, Ahead, FreshAccount, At, Usable
<1>12. FurtherUp(disk[s])' /\ (~At(s, "idle") => FurtherUp(hook[s].st))'
  BY <1>1, <1>2, <1>4 DEF Accounts, Ahead, FurtherUp, At
<1>13. QED
  BY <1>5, <1>6, <1>7, <1>8, <1>9, <1>10, <1>11, <1>12 DEF Accounts

\* A killed hook leaves the disk as it is and pays with a slip.
LEMMA KilledStep ==
  ASSUME GuardInv, TypeOK', NEW s \in Session, Killed(s)
  PROVE  Accounts(s)'
<1>1. /\ hook[s].at # "idle"
      /\ hook'[s] = Idle
      /\ heard'[s] = "allow"
      /\ disk'[s] = disk[s] /\ written'[s] = written[s]
      /\ started'[s] = started[s] /\ injected'[s] = injected[s]
      /\ slips'[s] = slips[s] + 1 /\ now' = now /\ handoff' = handoff
  BY DEF Killed, At, files, GuardInv, TypeOK, HookState
<1>2. Accounts(s)
  BY DEF GuardInv
<1>3. /\ disk[s] \in State /\ hook[s].st \in State
      /\ written[s] \in Nat /\ started[s] \in Nat /\ injected[s] \in Nat
      /\ slips[s] \in Nat /\ handoff.at \in Nat /\ now \in Nat
  BY Numbers DEF GuardInv
<1>4. /\ hook'[s].at = "idle" /\ hook'[s].says = "allow"
      /\ ~hook'[s].st.pending /\ ~hook'[s].st.opening
      /\ hook'[s].st.blocks = 0 /\ hook'[s].st.rollovers = 0
      /\ hook'[s].st.epoch = 0
  BY <1>1, IdleFields DEF GuardInv
<1>5. Ahead(s)'
  BY <1>1, <1>2, <1>4 DEF Accounts, Ahead, At
<1>6. Counted(disk[s])' /\ Counted(hook[s].st)'
  BY <1>1, <1>2, <1>4, <1>3, StateNumbers DEF Accounts, Counted, Ahead, At, One
<1>7. ReceiptAccount(s)'
  BY <1>1, <1>2, <1>4, <1>3, StateNumbers DEF Accounts, Ahead, ReceiptAccount, Ungoverned, At, One
<1>8. SuccessorAccount(s)'
  BY <1>1, <1>2, <1>4, <1>3, StateNumbers DEF Accounts, SuccessorAccount, At, One
<1>9. OpeningAccount(s)'
  BY <1>1, <1>2, <1>4, <1>3, StateNumbers DEF Accounts, Ahead, OpeningAccount, Opened, At, One
<1>10. BlockAccount(s)'
  BY <1>1, <1>2, <1>4 DEF Accounts, Ahead, BlockAccount, At
<1>11. FreshAccount(s)'
  BY <1>1, <1>2, <1>4, <1>3, StateNumbers DEF Accounts, Ahead, FreshAccount, At, Usable
<1>12. FurtherUp(disk[s])' /\ (~At(s, "idle") => FurtherUp(hook[s].st))'
  BY <1>1, <1>2, <1>4 DEF Accounts, Ahead, FurtherUp, At
<1>13. QED
  BY <1>5, <1>6, <1>7, <1>8, <1>9, <1>10, <1>11, <1>12 DEF Accounts

\* The opening is struck off before it is printed.
LEMMA BeforeAgentStep ==
  ASSUME GuardInv, TypeOK', NEW s \in Session, BeforeAgent(s)
  PROVE  Accounts(s)'
<1>1. /\ hook[s].at = "idle"
      /\ disk[s].opening
      /\ hook'[s] = hook[s]
      /\ disk'[s] = Struck(disk[s])
      /\ heard'[s] = heard[s] /\ written'[s] = written[s] /\ started'[s] = started[s]
      /\ \/ injected'[s] = injected[s] + 1 /\ slips'[s] = slips[s]
         \/ injected'[s] = injected[s] /\ slips'[s] = slips[s] + 1
      /\ now' = now /\ handoff' = handoff
  BY DEF BeforeAgent, At, GuardInv, TypeOK, HookState
<1>2. Accounts(s)
  BY DEF GuardInv
<1>3. /\ disk[s] \in State /\ hook[s].st \in State
      /\ written[s] \in Nat /\ started[s] \in Nat /\ injected[s] \in Nat
      /\ slips[s] \in Nat /\ handoff.at \in Nat /\ now \in Nat
  BY Numbers DEF GuardInv
<1>4. /\ disk'[s].pending = disk[s].pending /\ disk'[s].blocks = disk[s].blocks
      /\ disk'[s].rollovers = disk[s].rollovers
      /\ disk'[s].successor = disk[s].successor
      /\ ~disk'[s].opening /\ disk'[s].epoch = disk[s].epoch
      /\ disk'[s].blocked = disk[s].blocked /\ disk'[s].trigger = disk[s].trigger
  BY <1>1, <1>3, StruckFields DEF GuardInv
<1>5. Ahead(s)'
  BY <1>1, <1>2, <1>4 DEF Accounts, Ahead, At
<1>6. Counted(disk[s])' /\ Counted(hook[s].st)'
  BY <1>1, <1>2, <1>4, <1>3, StateNumbers DEF Accounts, Counted, Ahead, At, One
<1>7. ReceiptAccount(s)'
  BY <1>1, <1>2, <1>4, <1>3, StateNumbers DEF Accounts, Ahead, ReceiptAccount, Ungoverned, At, One
<1>8. SuccessorAccount(s)'
  BY <1>1, <1>2, <1>4, <1>3, StateNumbers DEF Accounts, SuccessorAccount, At, One
<1>9. OpeningAccount(s)'
  BY <1>1, <1>2, <1>4, <1>3, StateNumbers DEF Accounts, Ahead, OpeningAccount, Opened, At, One
<1>10. BlockAccount(s)'
  BY <1>1, <1>2, <1>4 DEF Accounts, Ahead, BlockAccount, At
<1>11. FreshAccount(s)'
  BY <1>1, <1>2, <1>4, <1>3, StateNumbers DEF Accounts, Ahead, FreshAccount, At, Usable
<1>12. FurtherUp(disk[s])' /\ (~At(s, "idle") => FurtherUp(hook[s].st))'
  BY <1>1, <1>2, <1>4 DEF Accounts, Ahead, FurtherUp, At
<1>13. QED
  BY <1>5, <1>6, <1>7, <1>8, <1>9, <1>10, <1>11, <1>12 DEF Accounts

-----------------------------------------------------------------------------
(***************************************************************************)
(* The invariant is inductive.                                              *)
(***************************************************************************)

\* A step of t does not touch what s keeps, unless s is t.
LEMMA OneAtATime ==
  ASSUME TypeOK, NEW t \in Session, SessionNext(t), NEW s \in Session, s # t
  PROVE  /\ disk'[s] = disk[s] /\ hook'[s] = hook[s] /\ heard'[s] = heard[s]
         /\ written'[s] = written[s] /\ started'[s] = started[s]
         /\ injected'[s] = injected[s] /\ slips'[s] = slips[s]
         /\ now' = now
         /\ handoff' = handoff \/ handoff'.at = now
<1>1. CASE Grow(t) \/ WriteHandoff(t) \/ Ask(t) \/ UserSpeaks(t)
  BY <1>1 DEF Grow, WriteHandoff, Ask, UserSpeaks, files, tally
<1>2. CASE Start(t) \/ Release(t) \/ Block(t) \/ Allow(t)
  BY <1>2 DEF Start, Release, Block, Allow, files, tally, TypeOK
<1>3. CASE Issue(t) \/ Spawn(t) \/ Save(t) \/ Emit(t)
  BY <1>3 DEF Issue, Spawn, Save, Emit, files, tally, TypeOK
<1>4. CASE Killed(t) \/ BeforeAgent(t)
  BY <1>4 DEF Killed, BeforeAgent, files, tally, TypeOK
<1>5. QED
  BY <1>1, <1>2, <1>3, <1>4 DEF SessionNext, Hook, Other

\* A session's own step keeps its accounts.
LEMMA OwnStep ==
  ASSUME GuardInv, TypeOK', NEW s \in Session, SessionNext(s)
  PROVE  Accounts(s)'
<1>1. CASE Grow(s) \/ WriteHandoff(s) \/ Ask(s) \/ UserSpeaks(s)
  <2>1. /\ disk' = disk /\ hook' = hook /\ heard' = heard
        /\ written' = written /\ started' = started
        /\ injected' = injected /\ slips' = slips /\ now' = now
        /\ handoff' = handoff \/ handoff'.at = now
    BY <1>1 DEF Grow, WriteHandoff, Ask, UserSpeaks, files, tally
  <2>2. now <= now'
    BY <2>1, Numbers DEF GuardInv
  <2>3. QED
    BY <2>1, <2>2, OtherStep
<1>2. CASE Start(s) \/ Release(s) \/ Block(s) \/ Allow(s)
  BY <1>2, StartStep, ReleaseStep, BlockStep, AllowStep
<1>3. CASE Issue(s) \/ Spawn(s) \/ Save(s) \/ Emit(s)
  BY <1>3, IssueStep, SpawnStep, SaveStep, EmitStep
<1>4. CASE Killed(s) \/ BeforeAgent(s)
  BY <1>4, KilledStep, BeforeAgentStep
<1>5. QED
  BY <1>1, <1>2, <1>3, <1>4 DEF SessionNext, Hook, Other

\* At the start all accounts are empty.
LEMMA InitInv == Init => GuardInv
<1> SUFFICES ASSUME Init PROVE GuardInv
  OBVIOUS
<1>1. TypeOK
  BY InitType
<1>2. ASSUME NEW s \in Session PROVE Accounts(s)
  <2>1. /\ disk[s] = Fresh /\ hook[s] = Idle /\ heard[s] = "allow"
        /\ written[s] = 0 /\ started[s] = 0 /\ injected[s] = 0 /\ slips[s] = 0
        /\ now = 1
    BY DEF Init
  <2>2. Ahead(s) /\ BlockAccount(s)
    BY <2>1, IdleFields DEF Ahead, BlockAccount, At
  <2>3. Counted(disk[s]) /\ Counted(hook[s].st) /\ OpeningAccount(s)
    BY <2>1 DEF Counted, OpeningAccount, Opened, At, One, Idle, Fresh
  <2>4. ReceiptAccount(s) /\ SuccessorAccount(s)
    BY <2>1 DEF ReceiptAccount, Ungoverned, SuccessorAccount, At, One, Idle, Fresh
  <2>5. FreshAccount(s) /\ FurtherUp(disk[s]) /\ (~At(s, "idle") => FurtherUp(hook[s].st))
    BY <2>1 DEF FreshAccount, FurtherUp, At, Idle, Fresh
  <2>6. QED
    BY <2>2, <2>3, <2>4, <2>5 DEF Accounts
<1>3. QED
  BY <1>1, <1>2 DEF GuardInv, Init

\* And every step keeps them.
LEMMA NextInv == GuardInv /\ [Next]_vars => GuardInv'
<1> SUFFICES ASSUME GuardInv, [Next]_vars PROVE GuardInv'
  OBVIOUS
<1>t. TypeOK /\ TypeOK' /\ now \in Nat /\ now > 0
  BY NextType DEF GuardInv, TypeOK, Time
<1>1. ASSUME NEW t \in Session, SessionNext(t) PROVE GuardInv'
  <2>1. now' = now
    BY <1>1 DEF SessionNext, Hook, Other, Grow, WriteHandoff, Ask, UserSpeaks, Start,
       Release, Block, Allow, Issue, Spawn, Save, Emit, Killed, BeforeAgent
  <2>2. ASSUME NEW s \in Session PROVE Accounts(s)'
    <3>1. CASE s = t
      BY <1>t, <1>1, <3>1, OwnStep
    <3>2. CASE s # t
      <4>1. /\ disk'[s] = disk[s] /\ hook'[s] = hook[s] /\ heard'[s] = heard[s]
            /\ written'[s] = written[s] /\ started'[s] = started[s]
            /\ injected'[s] = injected[s] /\ slips'[s] = slips[s]
            /\ handoff' = handoff \/ handoff'.at = now
        BY <1>t, <1>1, <3>2, OneAtATime
      <4>2. now <= now'
        BY <1>t, <2>1
      <4>3. QED
        BY <1>t, <4>1, <4>2, OtherStep
    <3>3. QED
      BY <3>1, <3>2
  <2>3. QED
    BY <1>t, <2>1, <2>2 DEF GuardInv
<1>2. CASE Tick \/ UNCHANGED vars
  <2>1. /\ disk' = disk /\ hook' = hook /\ heard' = heard
        /\ written' = written /\ started' = started
        /\ injected' = injected /\ slips' = slips /\ handoff' = handoff
    BY <1>2 DEF Tick, vars, files, tally
  <2>2. now <= now' /\ now' > 0
    BY <1>2, <1>t DEF Tick, vars
  <2>3. ASSUME NEW s \in Session PROVE Accounts(s)'
    BY <1>t, <2>1, <2>2, OtherStep
  <2>4. QED
    BY <1>t, <2>2, <2>3 DEF GuardInv
<1>3. QED
  BY <1>1, <1>2 DEF Next

\* So it holds in every reachable state.
LEMMA GuardInvariant == Spec => []GuardInv
BY InitInv, NextInv, PTL DEF Spec

-----------------------------------------------------------------------------
(***************************************************************************)
(* What the guard promises.                                                 *)
(***************************************************************************)

\* Every rollover the guard counts answers a block of its own.
THEOREM CountedTheorem == Spec => []CountedAfterBlock
<1>1. GuardInv => CountedAfterBlock
  BY DEF GuardInv, Accounts, Counted, CountedAfterBlock
<1>2. QED
  BY <1>1, GuardInvariant, PTL

\* A block leads to one receipt; every further one is paid for by a killed hook.
THEOREM ReceiptTheorem == Spec => []OneReceiptPerBlock
<1>1. GuardInv => OneReceiptPerBlock
  <2> SUFFICES ASSUME GuardInv, NEW s \in Session
               PROVE  written[s] <= disk[s].blocks + slips[s]
    BY DEF OneReceiptPerBlock
  <2>1. Ungoverned(s) => disk[s].pending
    BY DEF GuardInv, Accounts, Ahead, Ungoverned, At
  <2>2. /\ written[s] \in Nat /\ slips[s] \in Nat /\ disk[s].blocks \in Nat
        /\ disk[s].pending \in BOOLEAN
    BY Numbers, StateNumbers DEF GuardInv
  <2>3. ReceiptAccount(s)
    BY DEF GuardInv, Accounts
  <2>4. QED
    BY <2>1, <2>2, <2>3 DEF ReceiptAccount, One
<1>2. QED
  BY <1>1, GuardInvariant, PTL

\* One successor, plus one for every killed hook or unnoticed start.
THEOREM SuccessorTheorem == Spec => []SuccessorsAccounted
<1>1. GuardInv => SuccessorsAccounted
  <2> SUFFICES ASSUME GuardInv, NEW s \in Session PROVE started[s] <= 1 + slips[s]
    BY DEF SuccessorsAccounted
  <2>1. started[s] \in Nat /\ slips[s] \in Nat
    BY Numbers DEF GuardInv
  <2>2. SuccessorAccount(s)
    BY DEF GuardInv, Accounts
  <2>3. QED
    BY <2>1, <2>2 DEF SuccessorAccount, One
<1>2. QED
  BY <1>1, GuardInvariant, PTL

\* An opening is printed at most once for every rollover.
THEOREM OpeningTheorem == Spec => []OpeningOnce
<1>1. GuardInv => OpeningOnce
  BY DEF GuardInv, Accounts, OpeningAccount, Opened, OpeningOnce
<1>2. QED
  BY <1>1, GuardInvariant, PTL

\* The stop after a block is never blocked.
THEOREM BlocksOnceTheorem == Spec => []BlocksOnce
<1>1. GuardInv => BlocksOnce
  BY DEF GuardInv, Accounts, BlockAccount, BlocksOnce, At
<1>2. QED
  BY <1>1, GuardInvariant, PTL

\* A receipt is written only while the session is blocked, and only for a
\* hand-off that is not older than the block, whatever other sessions write.
THEOREM FreshTheorem == Spec => ReceiptIsFresh
<1> DEFINE FreshStep ==
      \A s \in Session : written'[s] > written[s] =>
        disk[s].pending /\ handoff.at > 0 /\ handoff.at + Slack >= disk[s].epoch
<1>1. GuardInv /\ [Next]_vars => [FreshStep]_vars
  <2> SUFFICES ASSUME GuardInv, Next, NEW s \in Session, written'[s] > written[s]
               PROVE  /\ disk[s].pending /\ handoff.at > 0
                      /\ handoff.at + Slack >= disk[s].epoch
    OBVIOUS
  <2>1. written[s] \in Nat
    BY Numbers DEF GuardInv
  <2>2. written'[s] # written[s]
    BY <2>1
  <2>3. PICK t \in Session : SessionNext(t)
    BY <2>2 DEF Next, Tick, tally
  <2>4. s = t
    BY <2>2, <2>3, OneAtATime DEF GuardInv
  <2>5. Issue(s)
    BY <2>2, <2>3, <2>4 DEF SessionNext, Hook, Other, Grow, WriteHandoff, Ask,
       UserSpeaks, Start, Release, Block, Allow, Spawn, Save, Emit, Killed,
       BeforeAgent, tally
  <2>6. QED
    BY <2>5 DEF Issue, At, GuardInv, Accounts, Ahead, FreshAccount
<1>2. QED
  BY <1>1, GuardInvariant, PTL DEF Spec, ReceiptIsFresh

\* Without a request, a block comes only a step further up than the last one.
THEOREM RearmedTheorem == Spec => RearmedFurtherUp
<1> DEFINE RearmedStep ==
      \A s \in Session :
        /\ At(s, "read")
        /\ hook'[s].says = "block"
        /\ hook[s].got = None
        /\ disk[s].blocks > 0
        => tokens[s] >= disk[s].blocked + Step
<1>1. GuardInv /\ [Next]_vars => [RearmedStep]_vars
  <2> SUFFICES ASSUME GuardInv, Next, NEW s \in Session, At(s, "read"),
                      hook'[s].says = "block", hook[s].got = None,
                      disk[s].blocks > 0
               PROVE  tokens[s] >= disk[s].blocked + Step
    OBVIOUS
  <2>1. hook[s].says = "allow" /\ hook[s].st = disk[s]
    BY DEF GuardInv, Accounts, Ahead
  <2>2. hook'[s] # hook[s]
    BY <2>1
  <2>3. PICK t \in Session : SessionNext(t)
    BY <2>2 DEF Next, Tick
  <2>4. s = t
    BY <2>2, <2>3, OneAtATime DEF GuardInv
  <2>5. Block(s)
    <3>1. ~Release(s)
      BY <2>1 DEF Release, GuardInv, TypeOK, HookState
    <3>2. ~Allow(s) /\ ~Killed(s)
      BY IdleFields DEF Allow, Killed, GuardInv, TypeOK
    <3>3. QED
      BY <2>2, <2>3, <2>4, <3>1, <3>2 DEF SessionNext, Hook, Other, Grow,
         WriteHandoff, Ask, UserSpeaks, Start, Issue, Spawn, Save, Emit,
         BeforeAgent, At, files
  <2>6. ~disk[s].pending /\ tokens[s] >= disk[s].trigger
    BY <2>1, <2>5 DEF Block, Due
  <2>7. disk[s].trigger >= disk[s].blocked + Step
    BY <2>6 DEF GuardInv, Accounts, FurtherUp
  <2>8. /\ tokens[s] \in Nat /\ disk[s].trigger \in Nat
        /\ disk[s].blocked \in Nat
    BY Numbers, StateNumbers DEF GuardInv
  <2>9. QED
    BY <2>6, <2>7, <2>8
<1>2. QED
  BY <1>1, GuardInvariant, PTL DEF Spec, RearmedFurtherUp

-----------------------------------------------------------------------------
(***************************************************************************)
(* The launcher.                                                            *)
(***************************************************************************)
\* An interval that is over stays over.
LEMMA StaysOver ==
  ASSUME NEW a \in Nat, NEW b \in Nat, NEW c \in Nat, NEW d \in Nat,
         a <= b, a - c >= d
  PROVE  b - c >= d
OBVIOUS

USE LaunchAssumption, IntervalAssumption

-----------------------------------------------------------------------------
(***************************************************************************)
(* Where the launcher stands decides which launch is the current one, and   *)
(* so that there is one: LTypeOK alone is not inductive.                    *)
(***************************************************************************)
Waiting == {"poll", "settle", "judge", "consume", "end"}

Counting ==
  /\ pc = "spawn" => cur = rollovers /\ rollovers < MaxRollovers
  /\ pc \in Waiting => cur = rollovers + 1
  /\ pc = "done" => cur \in {rollovers, rollovers + 1} /\ cur # 0
  /\ pc = "spawn" => ~alive

LTypeInv == LTypeOK /\ Counting

\* The current launch is one of the sessions.
LEMMA CurrentSession ==
  ASSUME LTypeInv, pc # "spawn"
  PROVE  cur \in Session
<1>1. cur # 0
  BY DEF LTypeInv, LTypeOK, Counting, Waiting
<1>2. QED
  BY <1>1 DEF LTypeInv, LTypeOK

\* At first no CLI runs and nothing is launched.
LEMMA LInitType == LInit => LTypeInv
<1> SUFFICES ASSUME LInit PROVE LTypeInv
  OBVIOUS
<1>1. TypeOK
  BY InitType DEF LInit
<1>2. NoReceipt \in Receipt /\ 0 \in Time
  BY DEF NoReceipt, Receipt, Time
<1>3. MaxRollovers \in Nat /\ 0 < MaxRollovers
  OBVIOUS
<1>4. alive \in BOOLEAN /\ ~alive
  BY Zenon DEF LInit
<1>5. LTypeOK
  BY <1>1, <1>2, <1>3, <1>4 DEF LInit, LTypeOK
<1>6. Counting
  BY <1>3, <1>4 DEF LInit, Counting, Waiting
<1>7. QED
  BY <1>5, <1>6 DEF LTypeInv

\* Taking the receipt away, or the hook, keeps the guard's types.
LEMMA LauncherTypes ==
  ASSUME LTypeInv, pc # "spawn"
  PROVE  /\ Removed \in [Session -> Receipt]
         /\ [hook EXCEPT ![cur] = Idle] \in [Session -> HookState]
<1>1. NoReceipt \in Receipt
  BY DEF NoReceipt, Receipt, Time
<1>2. QED
  BY <1>1, CurrentSession, FreshTypes DEF LTypeInv, LTypeOK, TypeOK, Removed, Path

\* Every step keeps types and counting.
LEMMA LNextType == LTypeInv /\ [LNext]_allVars => LTypeInv'
<1> SUFFICES ASSUME LTypeInv, [LNext]_allVars PROVE LTypeInv'
  OBVIOUS
<1>t. LTypeOK /\ TypeOK /\ Counting
  BY DEF LTypeInv, LTypeOK
<1>n. cur \in Nat /\ rollovers \in Nat /\ MaxRollovers \in Nat
  BY <1>t DEF LTypeOK
<1>1. CASE Launch
  <2>1. TypeOK'
    BY <1>t, <1>1, NextType DEF Launch
  <2>2. NoReceipt \in Receipt
    BY DEF NoReceipt, Receipt, Time
  <2>3. cur' \in 0..MaxRollovers
    BY <1>t, <1>n, <1>1 DEF Launch, Counting
  <2>5. 0 \in Time
    BY DEF Time
  <2>4. QED
    BY <1>t, <1>n, <1>1, <2>1, <2>2, <2>3, <2>5
       DEF Launch, LTypeInv, LTypeOK, Counting, Waiting
<1>2. CASE Poll
  <2>1. TypeOK'
    BY <1>t, <1>2, NextType DEF Poll
  <2>2. held' \in Receipt
    BY <1>t, <1>2, CurrentSession DEF Poll, Path, TypeOK
  <2>3. QED
    BY <1>t, <1>n, <1>2, <2>1, <2>2 DEF Poll, LTypeInv, LTypeOK, Counting, Waiting
<1>3. CASE Settle \/ Return
  <2>1. TypeOK'
    BY <1>t, <1>3, NextType DEF Settle, Return
  <2>2. QED
    BY <1>t, <1>n, <1>3, <2>1 DEF Settle, Return, LTypeInv, LTypeOK, Counting, Waiting
<1>4. CASE Accept
  <2>1. TypeOK'
    BY <1>t, <1>4, NextType DEF Accept
  <2>2. now \in Time
    BY <1>t DEF TypeOK
  <2>3. QED
    BY <1>t, <1>n, <1>4, <2>1, <2>2 DEF Accept, LTypeInv, LTypeOK, Counting, Waiting
<1>5. CASE Discard \/ Consume
  <2>1. receipt' \in [Session -> Receipt]
    BY <1>t, <1>5, LauncherTypes DEF Discard, Consume, TypeOK
  <2>2. TypeOK'
    BY <1>t, <1>5, <2>1 DEF Discard, Consume, TypeOK, tally
  <2>3. held' \in Receipt
    BY <1>t, <1>5 DEF Discard, Consume, LTypeOK, NoReceipt, Receipt, Time
  <2>4. QED
    BY <1>t, <1>n, <1>5, <2>2, <2>3
       DEF Discard, Consume, LTypeInv, LTypeOK, Counting, Waiting
<1>6. CASE End
  <2>1. hook' \in [Session -> HookState]
    BY <1>t, <1>6, LauncherTypes DEF End, Gone
  <2>2. TypeOK'
    BY <1>t, <1>6, <2>1 DEF End, TypeOK, files, tally
  <2>3. rollovers' \in 0..MaxRollovers /\ lastAt' \in Time
    BY <1>t, <1>n, <1>6 DEF End, LTypeOK, TypeOK, Counting, Waiting
  <2>4. LTypeOK'
    BY <1>t, <1>6, <2>2, <2>3 DEF End, LTypeOK
  <2>5. cur = rollovers + 1
    BY <1>t, <1>6 DEF End, Counting, Waiting
  <2>6. ~alive'
    BY <1>6, Zenon DEF End
  <2>7. cur' = cur /\ rollovers' = rollovers + 1
    BY <1>6 DEF End
  <2>8. CASE Enough
    <3>1. pc' = "done"
      BY <1>6, <2>8 DEF End
    <3>2. QED
      BY <1>n, <2>4, <2>7, <2>5, <3>1 DEF LTypeInv, Counting, Waiting
  <2>9. CASE ~Enough
    <3>1. pc' = "spawn" /\ rollovers + 1 < MaxRollovers
      BY <1>6, <1>n, <2>9 DEF End, Enough
    <3>2. QED
      BY <1>n, <2>4, <2>6, <2>7, <2>5, <3>1 DEF LTypeInv, Counting, Waiting
  <2>10. QED
    BY <2>8, <2>9
<1>7. CASE Quit
  <2>1. hook' \in [Session -> HookState]
    BY <1>t, <1>7, LauncherTypes DEF Quit, Gone, Counting
  <2>2. TypeOK'
    BY <1>t, <1>7, <2>1 DEF Quit, TypeOK, files, tally
  <2>3. QED
    BY <1>t, <1>n, <1>7, <2>2 DEF Quit, LTypeInv, LTypeOK, Counting, Waiting
<1>8. CASE Agent \/ Clock
  <2>1. [Next]_vars
    <3>1. CASE Clock
      BY <3>1 DEF Clock, Next
    <3>2. CASE Agent
      <4>1. cur \in Session
        BY <1>t, <3>2, CurrentSession DEF Agent, Counting
      <4>2. QED
        BY <3>2, <4>1 DEF Agent, Next
    <3>3. QED
      BY <1>8, <3>1, <3>2
  <2>2. TypeOK'
    BY <1>t, <2>1, NextType
  <2>3. UNCHANGED <<pc, cur, alive, held, rollovers, lastAt, judged>>
    BY <1>8 DEF Agent, Clock, run
  <2>5. seen' \in Time
    <3>1. seen \in Time /\ now \in Time
      BY <1>t DEF LTypeOK, TypeOK
    <3>2. QED
      BY <1>8, <3>1 DEF Agent, Clock, run
  <2>4. QED
    BY <1>t, <2>2, <2>3, <2>5 DEF LTypeInv, LTypeOK, Counting, Waiting
<1>9. CASE UNCHANGED allVars
  <2>1. TypeOK'
    BY <1>t, <1>9, NextType DEF allVars
  <2>2. QED
    BY <1>t, <1>9, <2>1 DEF allVars, run, LTypeInv, LTypeOK, Counting, Waiting
<1>10. QED
  BY <1>1, <1>2, <1>3, <1>4, <1>5, <1>6, <1>7, <1>8, <1>9 DEF LNext, LauncherNext

\* Both hold in every reachable state.
LEMMA LTypeInvariant == LSpec => []LTypeInv
BY LInitType, LNextType, PTL DEF LSpec

\* Types are kept, and no launch comes after the last rollover.
THEOREM LTypeCorrect == LSpec => []LTypeOK
<1>1. LTypeInv => LTypeOK
  BY DEF LTypeInv
<1>2. QED
  BY <1>1, LTypeInvariant, PTL

-----------------------------------------------------------------------------
(***************************************************************************)
(* Safety.  The receipt in hand was written by the current launch: that     *)
(* needs to be known of every receipt on disk, since a rename or a removal  *)
(* that failed leaves one behind.  What _consume_reason decided is still    *)
(* true when the session has ended, because the clock only goes on.         *)
(***************************************************************************)
InHand == {"settle", "judge", "consume", "end"}

LSafeInv ==
  /\ LTypeInv
  /\ \A n \in Session : receipt[n].at > 0 => written[n] > 0
  /\ pc \in InHand => written[cur] > 0
  /\ EndedWithOwnReceipt
  /\ QueuedMessageCounts
  /\ judged <= now /\ lastAt <= now
  /\ pc \in {"consume", "end"} /\ lastAt # 0 => now - lastAt >= MinInterval

\* No step unwrites a receipt, and one that appears was written by the step.
LEMMA WrittenGrows ==
  ASSUME TypeOK, [Next]_vars, NEW n \in Session
  PROVE  /\ written'[n] >= written[n]
         /\ receipt'[n] # receipt[n] => written'[n] > 0
         /\ now' >= now
<1>1. /\ written[n] \in Nat /\ now \in Nat
  BY Numbers
<1>2. ASSUME NEW s \in Session, SessionNext(s)
      PROVE  /\ written'[n] >= written[n]
             /\ receipt'[n] # receipt[n] => written'[n] > 0
             /\ now' >= now
  <2>1. CASE Issue(s)
    <3>1. /\ now' = now
          /\ written' = [written EXCEPT ![s] = written[s] + 1]
          /\ \A m \in Session : m # s => receipt'[m] = receipt[m]
      BY <2>1 DEF Issue, TypeOK
    <3>2. written[s] \in Nat
      BY Numbers
    <3>3. CASE n = s
      <4>1. written'[n] = written[n] + 1
        BY <3>1, <3>3 DEF TypeOK
      <4>2. QED
        BY <1>1, <3>1, <4>1
    <3>4. CASE n # s
      <4>1. written'[n] = written[n] /\ receipt'[n] = receipt[n]
        BY <3>1, <3>4 DEF TypeOK
      <4>2. QED
        BY <1>1, <3>1, <4>1
    <3>5. QED
      BY <3>3, <3>4
  <2>2. CASE UserSpeaks(s)
    BY <1>1, <2>2 DEF UserSpeaks, files, tally, TypeOK
  <2>3. CASE ~Issue(s) /\ ~UserSpeaks(s)
    <3>1. written' = written /\ receipt' = receipt /\ now' = now
      BY <1>2, <2>3 DEF SessionNext, Hook, Other, Grow, WriteHandoff, Ask, Start,
         Release, Block, Allow, Spawn, Save, Emit, Killed, BeforeAgent, files, tally
    <3>2. QED
      BY <1>1, <3>1
  <2>4. QED
    BY <2>1, <2>2, <2>3
<1>3. CASE Tick \/ UNCHANGED vars
  <2>1. written' = written /\ receipt' = receipt
    BY <1>3 DEF Tick, vars, files, tally
  <2>2. now' >= now
    BY <1>1, <1>3 DEF Tick, vars
  <2>3. QED
    BY <1>1, <2>1, <2>2
<1>4. QED
  BY <1>2, <1>3 DEF Next

\* Nothing is written or decided at the start.
LEMMA LInitSafe == LInit => LSafeInv
<1> SUFFICES ASSUME LInit PROVE LSafeInv
  OBVIOUS
<1>1. LTypeInv
  BY LInitType
<1>2. /\ pc = "spawn" /\ rollovers = 0 /\ lastAt = 0 /\ judged = 0 /\ now = 1
      /\ \A n \in Session : receipt[n].at = 0
  BY DEF LInit, Init, NoReceipt
<1>3. QED
  BY <1>1, <1>2 DEF LSafeInv, InHand, EndedWithOwnReceipt, QueuedMessageCounts

\* Every step keeps the decisions true.
LEMMA LNextSafe == LSafeInv /\ [LNext]_allVars => LSafeInv'
<1> SUFFICES ASSUME LSafeInv, [LNext]_allVars PROVE LSafeInv'
  OBVIOUS
<1>t. LTypeInv /\ LTypeInv' /\ LTypeOK /\ TypeOK
  BY LNextType DEF LSafeInv, LTypeInv, LTypeOK
<1>n. /\ now \in Nat /\ judged \in Nat /\ lastAt \in Nat /\ held.at \in Nat
      /\ seen \in Nat
      /\ cur \in Nat /\ rollovers \in Nat /\ MinInterval \in Nat
      /\ \A n \in Session : written[n] \in Nat /\ said[n] \in Nat /\ receipt[n].at \in Nat
  <2>1. now \in Nat /\ judged \in Nat /\ lastAt \in Nat /\ held.at \in Nat /\ seen \in Nat
    BY <1>t DEF LTypeOK, TypeOK, Time, Receipt
  <2>2. cur \in Nat /\ rollovers \in Nat /\ MinInterval \in Nat
    BY <1>t DEF LTypeOK
  <2>3. ASSUME NEW n \in Session
        PROVE  written[n] \in Nat /\ said[n] \in Nat /\ receipt[n].at \in Nat
    <3>1. written \in [Session -> Nat] /\ said \in [Session -> Time] /\ receipt \in [Session -> Receipt]
      BY <1>t DEF TypeOK
    <3>2. QED
      BY <3>1 DEF Time, Receipt
  <2>4. QED
    BY <2>1, <2>2, <2>3
<1>s. pc # "spawn" => cur \in Session
  BY <1>t, CurrentSession
<1>1. CASE Launch
  <2>1. UNCHANGED <<written, receipt, now, rollovers, lastAt, judged>> /\ pc' = "poll"
    BY <1>1 DEF Launch, vars, files, tally
  <2>2. QED
    BY <1>t, <2>1 DEF LSafeInv, InHand, EndedWithOwnReceipt, QueuedMessageCounts
<1>2. CASE Poll
  <2>1. /\ UNCHANGED <<written, receipt, now, rollovers, lastAt, judged, cur>>
        /\ pc = "poll" /\ pc' = "settle" /\ receipt[cur].at > 0
    BY <1>2 DEF Poll, Path, vars, files, tally
  <2>2. written[cur] > 0
    BY <1>s, <2>1 DEF LSafeInv
  <2>3. QED
    BY <1>t, <2>1, <2>2 DEF LSafeInv, InHand, EndedWithOwnReceipt, QueuedMessageCounts
<1>3. CASE Settle \/ Return
  <2>1. /\ UNCHANGED <<written, receipt, now, rollovers, lastAt, judged, cur>>
        /\ pc' \in {"judge", "done"} /\ (pc' = "judge" => pc = "settle")
    BY <1>3 DEF Settle, Return, vars, files, tally
  <2>2. QED
    BY <1>t, <2>1 DEF LSafeInv, InHand, EndedWithOwnReceipt, QueuedMessageCounts
<1>4. CASE Accept
  <2>1. /\ UNCHANGED <<written, receipt, seen, now, rollovers, lastAt, held, cur>>
        /\ pc = "judge" /\ pc' = "consume" /\ judged' = now
        /\ ~TooSoon /\ ~UserSpoke
    BY <1>4 DEF Accept, vars, files, tally
  <2>2. seen < held.at
    BY <1>n, <1>s, <2>1 DEF UserSpoke
  <2>3. lastAt # 0 => now - lastAt >= MinInterval
    BY <1>n, <2>1 DEF TooSoon
  <2>4. QED
    BY <1>t, <1>n, <2>1, <2>2, <2>3
       DEF LSafeInv, InHand, EndedWithOwnReceipt, QueuedMessageCounts
<1>5. CASE Discard
  <2>1. /\ UNCHANGED <<written, now, rollovers, lastAt, judged, cur>>
        /\ pc' = "poll" /\ receipt' \in {Removed, receipt}
    BY <1>5 DEF Discard, tally
  <2>2. \A n \in Session : receipt'[n].at > 0 => written'[n] > 0
    <3>1. \A n \in Session : Removed[n] = receipt[n] \/ Removed[n].at = 0
      BY <1>t DEF Removed, NoReceipt, TypeOK
    <3>2. QED
      BY <2>1, <3>1 DEF LSafeInv
  <2>3. QED
    BY <1>t, <2>1, <2>2 DEF LSafeInv, InHand, EndedWithOwnReceipt, QueuedMessageCounts
<1>6. CASE Consume
  <2>1. /\ UNCHANGED <<written, seen, now, rollovers, lastAt, judged, cur, held>>
        /\ pc = "consume" /\ pc' = "end" /\ receipt' \in {Removed, receipt}
    BY <1>6 DEF Consume, tally
  <2>2. \A n \in Session : receipt'[n].at > 0 => written'[n] > 0
    <3>1. \A n \in Session : Removed[n] = receipt[n] \/ Removed[n].at = 0
      BY <1>t DEF Removed, NoReceipt, TypeOK
    <3>2. QED
      BY <2>1, <3>1 DEF LSafeInv
  <2>3. QED
    BY <1>t, <2>1, <2>2 DEF LSafeInv, InHand, EndedWithOwnReceipt, QueuedMessageCounts
<1>7. CASE End
  <2>1. /\ UNCHANGED <<written, receipt, now, judged, cur>>
        /\ pc = "end" /\ pc' \in {"done", "spawn"}
        /\ rollovers' = rollovers + 1 /\ lastAt' = now
    BY <1>7 DEF End, files, tally
  <2>2. cur = rollovers + 1 /\ written[cur] > 0
    BY <1>t, <2>1 DEF LSafeInv, InHand, LTypeInv, Counting, Waiting
  <2>3. EndedWithOwnReceipt'
    <3>1. \A n \in 1..rollovers : written[n] > 0
      BY DEF LSafeInv, EndedWithOwnReceipt
    <3>2. written' = written /\ \A n \in 1..rollovers' : n \in 1..rollovers \/ n = cur
      BY <1>n, <2>1, <2>2
    <3>3. QED
      BY <2>2, <3>1, <3>2 DEF EndedWithOwnReceipt
  <2>4. pc' \notin InHand /\ pc' \notin {"consume", "end"}
    BY <2>1 DEF InHand
  <2>5. \A n \in Session : receipt'[n].at > 0 => written'[n] > 0
    BY <2>1 DEF LSafeInv
  <2>6. judged' <= now' /\ lastAt' <= now'
    BY <1>n, <2>1 DEF LSafeInv
  <2>7. QED
    BY <1>t, <2>3, <2>4, <2>5, <2>6 DEF LSafeInv, QueuedMessageCounts
<1>8. CASE Quit
  <2>1. UNCHANGED <<written, receipt, seen, now, rollovers, lastAt, judged, cur, held, pc>>
    BY <1>8 DEF Quit, files, tally
  <2>2. QED
    BY <1>t, <2>1 DEF LSafeInv, InHand, EndedWithOwnReceipt, QueuedMessageCounts
<1>9. CASE Agent \/ Clock \/ UNCHANGED allVars
  <2>1. /\ UNCHANGED <<pc, cur, alive, held, rollovers, lastAt, judged>>
        /\ seen' = seen \/ seen' = now
    BY <1>9 DEF Agent, Clock, allVars, run
  <2>2. [Next]_vars
    <3>1. CASE Agent
      <4>1. cur \in Session
        BY <1>t, <1>s, <3>1 DEF Agent, LTypeInv, Counting
      <4>2. QED
        BY <3>1, <4>1 DEF Agent, Next
    <3>2. CASE Clock \/ UNCHANGED allVars
      BY <3>2 DEF Clock, Next, allVars
    <3>3. QED
      BY <1>9, <3>1, <3>2
  <2>3. \A n \in Session : /\ written'[n] >= written[n]
                           /\ receipt'[n] # receipt[n] => written'[n] > 0
                           /\ now' >= now
    BY <1>t, <2>2, WrittenGrows
  <2>4. now' >= now /\ now' \in Nat
    <3>1. 1 \in Session
      OBVIOUS
    <3>2. now' \in Time
      BY <1>t DEF LTypeInv, LTypeOK, TypeOK
    <3>3. QED
      BY <2>3, <3>1, <3>2 DEF Time
  <2>5. \A n \in Session : written'[n] \in Nat
    BY <1>t DEF LTypeInv, LTypeOK, TypeOK
  <2>6. \A n \in Session : receipt'[n].at > 0 => written'[n] > 0
    BY <1>n, <2>3, <2>5 DEF LSafeInv
  <2>7. (pc \in InHand => written[cur] > 0)'
    <3>1. pc \in InHand => pc # "spawn"
      BY DEF InHand
    <3>2. QED
      BY <1>n, <1>s, <2>1, <2>3, <2>5, <3>1 DEF LSafeInv
  <2>8. EndedWithOwnReceipt'
    <3>1. \A n \in 1..rollovers : n \in Session
      BY <1>t DEF LTypeOK
    <3>2. \A n \in 1..rollovers : written[n] > 0
      BY DEF LSafeInv, EndedWithOwnReceipt
    <3>3. \A n \in 1..rollovers : written'[n] > 0
      BY <1>n, <2>3, <2>5, <3>1, <3>2
    <3>4. rollovers' = rollovers
      BY <2>1
    <3>5. QED
      BY <3>3, <3>4 DEF EndedWithOwnReceipt
  <2>9. QueuedMessageCounts'
    <3>1. judged <= now
      BY DEF LSafeInv
    <3>2. QED
      BY <1>n, <2>1, <3>1 DEF LSafeInv, QueuedMessageCounts
  <2>10. judged' <= now' /\ lastAt' <= now'
    BY <1>n, <2>1, <2>4 DEF LSafeInv
  <2>11. (pc \in {"consume", "end"} /\ lastAt # 0 => now - lastAt >= MinInterval)'
    <3>1. pc' = pc /\ lastAt' = lastAt
      BY <2>1
    <3>2. pc \in {"consume", "end"} /\ lastAt # 0 => now - lastAt >= MinInterval
      BY DEF LSafeInv
    <3>3. now - lastAt >= MinInterval => now' - lastAt >= MinInterval
      BY <1>n, <2>4, StaysOver
    <3>4. QED
      BY <3>1, <3>2, <3>3
  <2>12. QED
    BY <1>t, <2>6, <2>7, <2>8, <2>9, <2>10, <2>11 DEF LSafeInv
<1>10. QED
  BY <1>1, <1>2, <1>3, <1>4, <1>5, <1>6, <1>7, <1>8, <1>9 DEF LNext, LauncherNext

\* So they are true in every reachable state.
LEMMA LSafeInvariant == LSpec => []LSafeInv
BY LInitSafe, LNextSafe, PTL DEF LSpec

\* The launcher ends only sessions that wrote a receipt themselves.
THEOREM OwnReceiptTheorem == LSpec => []EndedWithOwnReceipt
<1>1. LSafeInv => EndedWithOwnReceipt
  BY DEF LSafeInv
<1>2. QED
  BY <1>1, LSafeInvariant, PTL

\* No message between the receipt and the decision is overlooked.
THEOREM MessageTheorem == LSpec => []QueuedMessageCounts
<1>1. LSafeInv => QueuedMessageCounts
  BY DEF LSafeInv
<1>2. QED
  BY <1>1, LSafeInvariant, PTL

\* Rollovers are at least MinInterval apart, for any interval.
THEOREM IntervalTheorem == LSpec => IntervalKept
<1> DEFINE Apart == rollovers' > rollovers /\ lastAt # 0 => now - lastAt >= MinInterval
<1>1. LSafeInv /\ [LNext]_allVars => [Apart]_allVars
  <2> SUFFICES ASSUME LSafeInv, LNext, rollovers' > rollovers, lastAt # 0
               PROVE  now - lastAt >= MinInterval
    OBVIOUS
  <2>1. rollovers \in Nat
    BY DEF LSafeInv, LTypeInv, LTypeOK
  <2>2. rollovers' # rollovers
    BY <2>1
  <2>3. End
    BY <2>2 DEF LNext, LauncherNext, Launch, Poll, Settle, Return, Discard, Accept,
       Consume, Quit, Agent, Clock, run
  <2>4. QED
    BY <2>3 DEF End, LSafeInv
<1>2. QED
  BY <1>1, LSafeInvariant, PTL DEF LSpec, IntervalKept

=============================================================================
