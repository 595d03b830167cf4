------------------------ MODULE OpenCodePluginProofs ------------------------
(***************************************************************************)
(* Theorems about OpenCodePlugin, for any sessions, idles, failures and     *)
(* sessions opened by others.                                               *)
(***************************************************************************)
EXTENDS OpenCodePlugin, TLAPS

USE ChildAssumption, BoundAssumption

-----------------------------------------------------------------------------
(***************************************************************************)
(* A rollover that no other overlapped owns the variable from the receipt   *)
(* on: either its opening is there still, or it has been sent.              *)
(***************************************************************************)
Due(s) == sent[s] + lost[s] + 1 = rolled[s]
Paid(s) == sent[s] + lost[s] = rolled[s]

Rests(s) == at[s] \notin Rolling => opening # s /\ Paid(s)

Waits(s) == at[s] \in {"command", "poll"} =>
              (opening = s /\ Due(s)) \/ (opening = None /\ Paid(s))

TakesOver(s) == at[s] \in {"create", "send"} => opening # s /\ Due(s)

Alone == \A r, s \in Session : r # s /\ at[r] \in Rolling /\ at[s] \in Rolling => s \in clash

Accounts(s) == Rests(s) /\ Waits(s) /\ TakesOver(s)

Types ==
  /\ at \in [Session -> Awaits]
  /\ opening \in Session \union {None}
  /\ sent \in [Session -> Nat] /\ rolled \in [Session -> Nat] /\ lost \in [Session -> Nat]
  /\ clash \subseteq Session

Inv == Types /\ Alone /\ \A s \in Session \ clash : Accounts(s)

LEMMA InitInv == Init => Inv
<1> SUFFICES ASSUME Init PROVE Inv
  OBVIOUS
<1>1. Types /\ Alone
  BY DEF Init, Types, Awaits, Rolling, Alone
<1>2. \A s \in Session : Accounts(s)
  BY DEF Init, Accounts, Rests, Waits, TakesOver, Rolling, Due, Paid
<1>3. QED
  BY <1>1, <1>2 DEF Inv

\* A handler that awaits something else, but no part of a rollover.
LEMMA QuietStep ==
  ASSUME Inv, NEW s \in Session, NEW to \in Awaits \ Rolling,
         at[s] \notin Rolling, at' = [at EXCEPT ![s] = to],
         UNCHANGED <<opening, sent, rolled, lost, clash>>
  PROVE  Inv'
<1> USE DEF Inv, Types
<1>1. Types'
  OBVIOUS
<1>2. \A r \in Session : at'[r] \in Rolling => at'[r] = at[r]
  OBVIOUS
<1>3. \A r \in Session : at[r] \in Rolling => at'[r] = at[r]
  OBVIOUS
<1>4. Alone'
  BY <1>2 DEF Alone
<1>5. \A r \in Session \ clash' : Accounts(r)'
  BY <1>2, <1>3 DEF Accounts, Rests, Waits, TakesOver, Due, Paid, Rolling
<1>6. QED
  BY <1>1, <1>4, <1>5

LEMMA IdleInv ==
  ASSUME Inv, NEW s \in Session, Idle(s), at[s] \notin Rolling
  PROVE  Inv'
BY QuietStep DEF Idle, Goes, tally, Awaits, Rolling

LEMMA GotInv ==
  ASSUME Inv, NEW s \in Session, Got(s)
  PROVE  Inv'
BY QuietStep DEF Got, Ends, Goes, tally, Awaits, Rolling

LEMMA AllowsInv ==
  ASSUME Inv, NEW s \in Session, GuardAllows(s)
  PROVE  Inv'
BY QuietStep DEF GuardAllows, Ends, Goes, tally, Awaits, Rolling

LEMMA AsksInv ==
  ASSUME Inv, NEW s \in Session, GuardAsks(s)
  PROVE  Inv'
BY QuietStep DEF GuardAsks, Goes, tally, Awaits, Rolling

LEMMA PromptedInv ==
  ASSUME Inv, NEW s \in Session, Prompted(s)
  PROVE  Inv'
BY QuietStep DEF Prompted, Ends, Goes, tally, Awaits, Rolling

\* The receipt sets the opening; a rollover of another session under way is
\* a clash for both.
LEMMA ReceiptInv ==
  ASSUME Inv, NEW s \in Session, GuardReceipt(s)
  PROVE  Inv'
<1> USE DEF Inv, Types, GuardReceipt, Goes
<1> DEFINE others == {r \in Session \ {s} : at[r] \in Rolling}
<1>1. clash' = IF others = {} THEN clash ELSE clash \union others \union {s}
  OBVIOUS
<1>2. at' = [at EXCEPT ![s] = "command"] /\ opening' = s
      /\ rolled' = [rolled EXCEPT ![s] = rolled[s] + 1] /\ UNCHANGED <<sent, lost>>
  OBVIOUS
<1> HIDE DEF GuardReceipt, Goes
<1>3. Types'
  <2>1. rolled[s] + 1 \in Nat
    OBVIOUS
  <2>2. QED
    BY <1>1, <1>2, <2>1 DEF Awaits, Rolling
<1>4. Alone'
  BY <1>1, <1>2 DEF Alone, Rolling
<1>5. ASSUME NEW r \in Session \ clash' PROVE Accounts(r)'
  <2>1. r \notin clash /\ r \notin others
    BY <1>1, <1>5
  <2>2. Accounts(r)
    BY <2>1
  <2>3. CASE r = s
    <3>1. at[s] \notin Rolling \/ at[s] \in Rolling
      OBVIOUS
    <3>2. at'[r] = "command" /\ rolled'[r] = rolled[r] + 1
      BY <1>2, <2>3
    <3>3. CASE at[s] \notin Rolling
      BY <1>2, <2>2, <2>3, <3>2, <3>3 DEF Accounts, Rests, Waits, TakesOver, Due, Paid, Rolling
    <3>4. QED
      BY <3>3, GuardReceipt(s) DEF GuardReceipt, Rolling
  <2>4. CASE r # s
    <3>1. at'[r] = at[r] /\ at[r] \notin Rolling /\ rolled'[r] = rolled[r]
      BY <1>2, <2>1, <2>4
    <3>2. QED
      BY <1>2, <2>2, <2>4, <3>1 DEF Accounts, Rests, Waits, TakesOver, Due, Paid, Rolling
  <2>5. QED
    BY <2>3, <2>4
<1>6. QED
  BY <1>3, <1>4, <1>5

\* A rollover goes on, and keeps the variable.
LEMMA CommandedInv ==
  ASSUME Inv, NEW s \in Session, Commanded(s)
  PROVE  Inv'
<1> USE DEF Inv, Types, Commanded, Goes, tally
<1>1. Types'
  BY DEF Awaits, Rolling
<1>2. Alone'
  BY DEF Alone, Rolling
<1>3. \A r \in Session \ clash' : Accounts(r)'
  BY DEF Accounts, Rests, Waits, TakesOver, Due, Paid, Rolling
<1>4. QED
  BY <1>1, <1>2, <1>3

LEMMA TakenInv ==
  ASSUME Inv, NEW s \in Session, Taken(s)
  PROVE  Inv'
<1> USE DEF Inv, Types, Taken, Ends, Goes, tally
<1>1. Types'
  BY DEF Awaits, Rolling
<1>2. Alone'
  BY DEF Alone, Rolling
<1>3. \A r \in Session \ clash' : Accounts(r)'
  BY DEF Accounts, Rests, Waits, TakesOver, Due, Paid, Rolling
<1>4. QED
  BY <1>1, <1>2, <1>3

\* The wait is over: the opening found is this session's own.
LEMMA GaveUpInv ==
  ASSUME Inv, NEW s \in Session, GaveUp(s)
  PROVE  Inv'
<1> USE DEF Inv, Types, GaveUp, Goes, tally
<1>1. Types'
  BY DEF Awaits, Rolling
<1>2. Alone'
  BY DEF Alone, Rolling
<1>3. ASSUME NEW r \in Session \ clash' PROVE Accounts(r)'
  <2>1. Accounts(r)
    BY <1>3
  <2>2. CASE r = s
    BY <2>1, <2>2 DEF Accounts, Rests, Waits, TakesOver, Due, Paid, Rolling
  <2>3. CASE r # s
    <3>1. at'[r] = at[r] /\ at[r] \notin Rolling
      BY <1>3, <2>3 DEF Alone, Rolling
    <3>2. QED
      BY <2>1, <3>1 DEF Accounts, Rests, Waits, TakesOver, Due, Paid, Rolling
  <2>4. QED
    BY <2>2, <2>3
<1>4. QED
  BY <1>1, <1>2, <1>3

LEMMA CreateInv ==
  ASSUME Inv, NEW s \in Session, Create(s)
  PROVE  Inv'
<1> USE DEF Inv, Types, Create, Goes, tally
<1>1. Types'
  BY DEF Awaits, Rolling
<1>2. Alone'
  BY DEF Alone, Rolling
<1>3. \A r \in Session \ clash' : Accounts(r)'
  BY DEF Accounts, Rests, Waits, TakesOver, Due, Paid, Rolling
<1>4. QED
  BY <1>1, <1>2, <1>3

\* The plugin's own session gets the opening, or the call throws: either
\* way the rollover is accounted for.
LEMMA SendInv ==
  ASSUME Inv, NEW s \in Session, at[s] \in {"create", "send"}, at' = [at EXCEPT ![s] = "no"],
         UNCHANGED <<opening, rolled, clash>>,
         \/ sent' = [sent EXCEPT ![s] = sent[s] + 1] /\ lost' = lost
         \/ lost' = [lost EXCEPT ![s] = lost[s] + 1] /\ sent' = sent
  PROVE  Inv'
<1> USE DEF Inv, Types
<1>1. Types'
  <2>1. sent[s] + 1 \in Nat /\ lost[s] + 1 \in Nat
    OBVIOUS
  <2>2. sent' \in [Session -> Nat] /\ lost' \in [Session -> Nat]
    BY <2>1
  <2>3. QED
    BY <2>2 DEF Awaits, Rolling
<1>2. Alone'
  BY DEF Alone, Rolling
<1>3. ASSUME NEW r \in Session \ clash' PROVE Accounts(r)'
  <2>1. Accounts(r)
    BY <1>3
  <2>2. CASE r = s
    <3>1. opening # r /\ Due(r) /\ at'[r] = "no"
      BY <2>1, <2>2 DEF Accounts, TakesOver
    <3>2. sent'[r] + lost'[r] = sent[r] + lost[r] + 1
      BY <2>2
    <3>3. QED
      BY <3>1, <3>2 DEF Accounts, Rests, Waits, TakesOver, Due, Paid, Rolling
  <2>3. CASE r # s
    <3>1. at'[r] = at[r] /\ sent'[r] = sent[r] /\ lost'[r] = lost[r]
      BY <2>3
    <3>2. QED
      BY <2>1, <3>1 DEF Accounts, Rests, Waits, TakesOver, Due, Paid, Rolling
  <2>4. QED
    BY <2>2, <2>3
<1>4. QED
  BY <1>1, <1>2, <1>3

LEMMA ThrowInv ==
  ASSUME Inv, NEW s \in Session, Throw(s)
  PROVE  Inv'
<1> USE DEF Throw, Fails
<1>1. CASE at[s] \in {"create", "send"}
  BY <1>1, SendInv DEF Ends, Goes, Rolling
<1>2. CASE at[s] \notin {"create", "send"}
  <2>1. at[s] \notin Rolling
    BY <1>2 DEF Rolling
  <2>2. lost' = [lost EXCEPT ![s] = lost[s] + 0]
    BY <2>1
  <2>3. lost' = lost
    BY <2>2 DEF Inv, Types
  <2>4. QED
    BY <2>1, <2>3, QuietStep DEF Ends, Goes, Awaits, Rolling
<1>3. QED
  BY <1>1, <1>2

\* A session nobody rolls over to changes nothing; one that takes the
\* opening is sent it, or the opening is lost.
LEMMA CreatedInv ==
  ASSUME Inv, Created \/ CreatedThrows
  PROVE  Inv'
<1> USE DEF Inv, Types, Created, CreatedThrows, Fails
<1>1. Types'
  <2>1. opening # None => sent[opening] + 1 \in Nat /\ lost[opening] + 1 \in Nat
    OBVIOUS
  <2>2. sent' \in [Session -> Nat] /\ lost' \in [Session -> Nat]
    BY <2>1
  <2>3. QED
    BY <2>2
<1>2. Alone'
  BY DEF Alone
<1>3. ASSUME NEW r \in Session \ clash' PROVE Accounts(r)'
  <2>1. Accounts(r)
    BY <1>3
  <2>2. CASE opening = r
    <3>1. at[r] \in {"command", "poll"} /\ Due(r)
      BY <2>1, <2>2 DEF Accounts, Rests, Waits, TakesOver, Rolling
    <3>2. sent'[r] + lost'[r] = sent[r] + lost[r] + 1 /\ opening' = None
      BY <2>2
    <3>3. Paid(r)'
      BY <3>1, <3>2 DEF Due, Paid
    <3>4. QED
      BY <3>1, <3>2, <3>3 DEF Accounts, Rests, Waits, TakesOver, Rolling
  <2>3. CASE opening # r
    <3>1. sent'[r] = sent[r] /\ lost'[r] = lost[r] /\ opening' = None
      BY <2>3
    <3>2. QED
      BY <2>1, <2>3, <3>1 DEF Accounts, Rests, Waits, TakesOver, Due, Paid, Rolling
  <2>4. QED
    BY <2>2, <2>3
<1>4. QED
  BY <1>1, <1>2, <1>3

LEMMA OutsideInv ==
  ASSUME Inv, TuiCreates \/ UserCreates
  PROVE  Inv'
BY DEF Inv, Types, Alone, Accounts, Rests, Waits, TakesOver, Due, Paid,
       TuiCreates, UserCreates, script, tally

-----------------------------------------------------------------------------
(***************************************************************************)
(* A session without a handler is not busy, and only such a one starts one. *)
(***************************************************************************)
Awake == \A s \in Session : s \notin busy => at[s] = "no"

LEMMA NextAwake ==
  ASSUME Types, Awake, Next
  PROVE  Awake'
<1> USE DEF Types, Awake, Goes, Ends
<1>1. ASSUME NEW s \in Session, Idle(s) PROVE Awake'
  BY <1>1 DEF Idle
<1>2. ASSUME NEW s \in Session, Handler(s) PROVE Awake'
  <2>1. \/ at' = [at EXCEPT ![s] = "no"] /\ busy' = busy \ {s}
        \/ at[s] # "no" /\ busy' = busy /\ \E to \in Awaits : at' = [at EXCEPT ![s] = to]
    <3>1. CASE Got(s) \/ GuardAllows(s) \/ GuardAsks(s)
      BY <3>1 DEF Got, GuardAllows, GuardAsks, Awaits
    <3>2. CASE GuardReceipt(s) \/ Commanded(s) \/ GaveUp(s) \/ Create(s)
      BY <3>2 DEF GuardReceipt, Commanded, GaveUp, Create, Awaits, Rolling
    <3>3. CASE Prompted(s)
      BY <3>3 DEF Prompted, Awaits
    <3>4. CASE Taken(s) \/ Send(s) \/ Throw(s)
      BY <3>4 DEF Taken, Send, Throw
    <3>5. QED
      BY <1>2, <3>1, <3>2, <3>3, <3>4 DEF Handler
  <2>2. QED
    BY <2>1
<1>3. CASE TuiCreates \/ UserCreates \/ Created \/ CreatedThrows
  BY <1>3 DEF TuiCreates, UserCreates, Created, CreatedThrows, script
<1>4. QED
  BY <1>1, <1>2, <1>3 DEF Next

IInv == Inv /\ Awake

LEMMA NextInv == IInv /\ [Next]_vars => IInv'
<1> SUFFICES ASSUME IInv, [Next]_vars PROVE IInv'
  OBVIOUS
<1> USE DEF IInv
<1>1. CASE Next
  <2>1. Awake'
    BY <1>1, NextAwake DEF Inv
  <2>2. ASSUME NEW s \in Session, Idle(s) PROVE Inv'
    <3>1. at[s] \notin Rolling
      BY <2>2 DEF Idle, Awake, Rolling
    <3>2. QED
      BY <2>2, <3>1, IdleInv
  <2>3. ASSUME NEW s \in Session, Send(s) PROVE Inv'
    BY <2>3, SendInv DEF Send, Ends, Goes
  <2>4. ASSUME NEW s \in Session, Handler(s) PROVE Inv'
    BY <2>3, <2>4, GotInv, AllowsInv, AsksInv, PromptedInv, ReceiptInv, CommandedInv,
       TakenInv, GaveUpInv, CreateInv, ThrowInv DEF Handler
  <2>5. QED
    BY <1>1, <2>1, <2>2, <2>4, CreatedInv, OutsideInv DEF Next
<1>2. CASE UNCHANGED vars
  BY <1>2 DEF vars, script, tally, Inv, Types, Alone, Accounts, Rests, Waits, TakesOver,
              Due, Paid, Awake
<1>3. QED
  BY <1>1, <1>2

(***************************************************************************)
(* However many sessions, late TUIs and foreign sessions there are: each    *)
(* rollover that overlaps no other has its opening sent exactly once, or    *)
(* lost to a single call that throws.                                       *)
(***************************************************************************)
THEOREM OpeningTheorem == Spec => []OpeningSentOnce
<1>1. Init => IInv
  BY InitInv DEF IInv, Awake, Init
<1>2. IInv => OpeningSentOnce
  BY DEF IInv, Inv, Accounts, Rests, Paid, OpeningSentOnce
<1>3. QED
  BY <1>1, <1>2, NextInv, PTL DEF Spec

(***************************************************************************)
(* Types are kept: no handler passes the guard more than twice, and the     *)
(* outstanding commands and events are never negative.                      *)
(***************************************************************************)
LEMMA NextType == TypeOK /\ [Next]_vars => TypeOK'
<1> SUFFICES ASSUME TypeOK, [Next]_vars PROVE TypeOK'
  OBVIOUS
<1> USE DEF TypeOK, Goes, Ends, Awaits, Rolling, outside, tally, bounds
<1>1. ASSUME NEW s \in Session, Idle(s) PROVE TypeOK'
  BY <1>1 DEF Idle
<1>2. ASSUME NEW s \in Session, Got(s) \/ GuardAllows(s) \/ GuardAsks(s) \/ Prompted(s)
      PROVE  TypeOK'
  BY <1>2 DEF Got, GuardAllows, GuardAsks, Prompted
<1>3. ASSUME NEW s \in Session, GuardReceipt(s) PROVE TypeOK'
  <2>1. rolled[s] + 1 \in Nat
    OBVIOUS
  <2>2. rolled' \in [Session -> Nat]
    BY <1>3, <2>1 DEF GuardReceipt
  <2>3. clash' \subseteq Session
    BY <1>3 DEF GuardReceipt
  <2>4. QED
    BY <1>3, <2>2, <2>3 DEF GuardReceipt
<1>4. ASSUME NEW s \in Session, Commanded(s) \/ Taken(s) \/ GaveUp(s) \/ Create(s)
      PROVE  TypeOK'
  BY <1>4 DEF Commanded, Taken, GaveUp, Create
<1>5. ASSUME NEW s \in Session, Send(s) PROVE TypeOK'
  <2>1. sent[s] + 1 \in Nat
    OBVIOUS
  <2>2. sent' \in [Session -> Nat]
    BY <1>5, <2>1 DEF Send
  <2>3. QED
    BY <1>5, <2>2 DEF Send
<1>6. ASSUME NEW s \in Session, Throw(s) PROVE TypeOK'
  <2>1. lost[s] + 1 \in Nat /\ lost[s] + 0 \in Nat
    OBVIOUS
  <2>2. lost' \in [Session -> Nat]
    BY <1>6, <2>1 DEF Throw
  <2>3. QED
    BY <1>6, <2>2 DEF Throw, Fails
<1>7. CASE TuiCreates \/ UserCreates
  BY <1>7 DEF TuiCreates, UserCreates, script
<1>8. CASE Created \/ CreatedThrows
  <2>1. opening # None => sent[opening] + 1 \in Nat /\ lost[opening] + 1 \in Nat
    OBVIOUS
  <2>2. sent' \in [Session -> Nat] /\ lost' \in [Session -> Nat]
    BY <1>8, <2>1 DEF Created, CreatedThrows
  <2>3. QED
    BY <1>8, <2>2 DEF Created, CreatedThrows, Fails
<1>9. CASE UNCHANGED vars
  BY <1>9 DEF vars, script
<1>10. QED
  BY <1>1, <1>2, <1>3, <1>4, <1>5, <1>6, <1>7, <1>8, <1>9 DEF Next, Handler

\* Types hold at first and are kept.
THEOREM TypeCorrect == Spec => []TypeOK
<1>1. Init => TypeOK
  BY DEF Init, TypeOK, Awaits, Rolling
<1>2. QED
  BY <1>1, NextType, PTL DEF Spec

=============================================================================
