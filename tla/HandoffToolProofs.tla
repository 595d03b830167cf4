------------------------- MODULE HandoffToolProofs -------------------------
(***************************************************************************)
(* Theorems about HandoffTool, for any servers, items, limit, saves and     *)
(* faults.                                                                  *)
(***************************************************************************)
EXTENDS HandoffTool, TLAPS

USE BoundAssumption

-----------------------------------------------------------------------------
(***************************************************************************)
(* While nothing disturbs the file one call runs at a time; what it is      *)
(* about to write is the saves acknowledged so far and its own update,      *)
(* nobody else's text lies under its own, and the file is as it should be   *)
(* until the call empties it.  LostOnlyWhenDisturbed says nothing of a call *)
(* that is under way, and so is not inductive.                              *)
(***************************************************************************)
OneAtATime == \A p, q \in Server : pc[p] # "idle" /\ pc[q] # "idle" => p = q

Complete == \A p \in Server : pc[p] \in {"merged", "open"} => cp[p] = After(sure, say[p])

Uncovered == \A p \in Server : pc[p] = "open" => ~ under[p]

Untouched == (\A p \in Server : pc[p] # "open") => file = sure

Calm == OneAtATime /\ Complete /\ Uncovered /\ Untouched

Typed ==
  /\ pc \in [Server -> {"idle", "read", "merged", "open"}]
  /\ DOMAIN cp = Server /\ cp = [p \in Server |-> cp[p]]
  /\ say \in [Server -> Updates]
  /\ under \in [Server -> BOOLEAN]
  /\ disturbed \in BOOLEAN

Quiet == \A p \in Server : pc[p] = "idle"

\* Once no call is under way, whatever disturbed the file is over.
Inv == Typed /\ (Quiet => ~ disturbed) /\ (~ disturbed => Calm)

\* The update of a call that is over is empty, and so is what it writes.
LEMMA EmptyUpdate == <<>> \in Updates
<1>1. <<>> \in [1..0 -> Item] /\ 0 \in 0..MaxUpdate
  OBVIOUS
<1>2. IsInjective(<<>>)
  BY DEF IsInjective
<1>3. <<>> \in {u \in [1..0 -> Item] : IsInjective(u)}
  BY <1>1, <1>2
<1>4. QED
  BY <1>1, <1>3 DEF Updates

\* At first nobody calls and there is no file.
LEMMA InitInv == Init => Inv
<1> SUFFICES ASSUME Init PROVE Inv
  OBVIOUS
<1>1. under \in [Server -> BOOLEAN] /\ disturbed \in BOOLEAN /\ ~ disturbed
  BY Zenon DEF Init
<1>2. Typed
  BY <1>1, EmptyUpdate DEF Init, Typed
<1>3. Calm
  BY DEF Init, Calm, OneAtATime, Complete, Uncovered, Untouched
<1>4. QED
  BY <1>1, <1>2, <1>3 DEF Inv

\* A call that is the only one starts from the file as it is.
LEMMA CallInv ==
  ASSUME Inv, NEW p \in Server, NEW update \in Updates, Call(p, update)
  PROVE  Inv'
<1> USE DEF Inv, Typed, Call
<1>1. Typed'
  OBVIOUS
<1>2. ~ Quiet'
  BY DEF Quiet
<1>3. ASSUME ~ disturbed' PROVE Calm'
  <2>1. ~ disturbed /\ \A q \in Server : q # p => pc[q] = "idle"
    BY <1>3, Zenon DEF Alone, Others
  <2>2. Calm
    BY <2>1
  <2>3. file = sure
    BY <2>1, <2>2 DEF Calm, Untouched
  <2>4. OneAtATime' /\ Untouched'
    BY <2>1, <2>3 DEF OneAtATime, Untouched
  <2>5. Complete' /\ Uncovered'
    BY <2>1 DEF Complete, Uncovered
  <2>6. QED
    BY <2>4, <2>5 DEF Calm
<1>4. QED
  BY <1>1, <1>2, <1>3

\* The call builds on everything acknowledged.
LEMMA MergeInv ==
  ASSUME Inv, NEW p \in Server, Merge(p)
  PROVE  Inv'
<1> USE DEF Inv, Typed, Merge
<1>1. Typed'
  OBVIOUS
<1>2. ~ Quiet'
  BY DEF Quiet
<1>3. ASSUME ~ disturbed' PROVE Calm'
  <2>1. Calm /\ ~ disturbed
    BY <1>3
  <2>2. \A q \in Server : q # p => pc[q] = "idle"
    BY <2>1 DEF Calm, OneAtATime
  <2>3. file = sure
    BY <2>1, <2>2 DEF Calm, Untouched
  <2>4. OneAtATime' /\ Uncovered' /\ Untouched'
    BY <2>1, <2>2, <2>3 DEF Calm, OneAtATime, Uncovered, Untouched
  <2>5. cp'[p] = After(sure, say[p])
    BY <2>3
  <2>6. Complete'
    BY <2>2, <2>5 DEF Complete
  <2>7. QED
    BY <2>4, <2>6 DEF Calm
<1>4. QED
  BY <1>1, <1>2, <1>3

\* A file that could not be read disturbs the hand-off until the call is over.
LEMMA MergeBlindInv ==
  ASSUME Inv, NEW p \in Server, MergeBlind(p)
  PROVE  Inv'
<1> USE DEF Inv, Typed, MergeBlind
<1>1. Typed'
  OBVIOUS
<1>2. ~ Quiet' /\ disturbed'
  BY DEF Quiet
<1>3. QED
  BY <1>1, <1>2

\* An emptied file belongs to the call that emptied it.
LEMMA EmptyInv ==
  ASSUME Inv, NEW p \in Server, Empty(p)
  PROVE  Inv'
<1> USE DEF Inv, Typed, Empty
<1>1. Typed'
  OBVIOUS
<1>2. ~ Quiet'
  BY DEF Quiet
<1>3. ASSUME ~ disturbed' PROVE Calm'
  <2>1. Calm
    BY <1>3
  <2>2. OneAtATime' /\ Complete' /\ Uncovered'
    BY <2>1 DEF Calm, OneAtATime, Complete, Uncovered
  <2>3. Untouched'
    BY DEF Untouched
  <2>4. QED
    BY <2>2, <2>3 DEF Calm
<1>4. QED
  BY <1>1, <1>2, <1>3

\* A piece of text lands only where another call is writing, too.
LEMMA FlushInv ==
  ASSUME Inv, NEW p \in Server, Flush(p)
  PROVE  Inv'
<1> USE DEF Inv, Typed, Flush
<1>1. Typed'
  <2>1. under' \in [Server -> BOOLEAN]
    BY Zenon
  <2>2. QED
    BY <2>1
<1>2. ~ Quiet'
  BY DEF Quiet
<1>3. ASSUME ~ disturbed' PROVE Calm'
  <2>1. Calm
    BY <1>3
  <2>2. ASSUME NEW q \in Server, pc'[q] = "open" PROVE ~ under'[q]
    <3>1. q = p /\ ~ under[q]
      BY <2>1, <2>2 DEF Calm, OneAtATime, Uncovered
    <3>2. QED
      BY <3>1
  <2>3. OneAtATime' /\ Complete' /\ Untouched'
    BY <2>1 DEF Calm, OneAtATime, Complete, Untouched
  <2>4. QED
    BY <2>2, <2>3 DEF Calm, Uncovered
<1>4. QED
  BY <1>1, <1>2, <1>3

\* Whoever ends alone over a disturbed file leaves what the next ones start from.
LEMMA SpoiltInv ==
  ASSUME Inv, NEW p \in Server, pc[p] # "idle", Typed', pc' = [pc EXCEPT ![p] = "idle"],
         NEW failed \in BOOLEAN, NEW acknowledged \in BOOLEAN,
         Settled(p, acknowledged, failed), disturbed \/ failed
  PROVE  Inv'
<1> USE DEF Inv, Typed
<1>1. CASE Alone(p)
  <2>1. ~ disturbed'
    BY <1>1, Zenon DEF Settled
  <2>2. sure' = file'
    BY <1>1, Zenon DEF Settled
  <2>3. \A q \in Server : pc'[q] = "idle"
    BY <1>1 DEF Alone, Others
  <2>4. Calm'
    BY <2>2, <2>3 DEF Calm, OneAtATime, Complete, Uncovered, Untouched
  <2>5. QED
    BY <2>1, <2>4
<1>2. CASE ~ Alone(p)
  <2>1. disturbed'
    BY <1>2, Zenon DEF Settled
  <2>2. ~ Quiet'
    BY <1>2 DEF Alone, Others, Quiet
  <2>3. QED
    BY <2>1, <2>2
<1>3. QED
  BY <1>1, <1>2

\* An acknowledged save is in the file.
LEMMA CloseInv ==
  ASSUME Inv, NEW p \in Server, Close(p)
  PROVE  Inv'
<1> USE DEF Inv, Typed, Close, Done
<1>1. Typed'
  <2>1. under' \in [Server -> BOOLEAN] /\ disturbed' \in BOOLEAN
    BY Zenon DEF Settled
  <2>2. QED
    BY <2>1, EmptyUpdate
<1>2. CASE disturbed
  BY <1>1, <1>2, SpoiltInv
<1>3. CASE ~ disturbed
  <2>1. Calm
    BY <1>3
  <2>2. \A q \in Server : q # p => pc[q] = "idle"
    BY <2>1 DEF Calm, OneAtATime
  <2>3. cp[p] = After(sure, say[p]) /\ ~ under[p]
    BY <2>1 DEF Calm, Complete, Uncovered
  <2>4. file' = Whole(After(sure, say[p]))
    BY <2>3
  <2>5. ~ disturbed' /\ sure' = Whole(After(sure, say[p]))
    BY <1>3, Zenon DEF Settled
  <2>6. \A q \in Server : pc'[q] = "idle"
    BY <2>2
  <2>7. Calm'
    BY <2>4, <2>5, <2>6 DEF Calm, OneAtATime, Complete, Uncovered, Untouched
  <2>8. QED
    BY <1>1, <2>5, <2>7
<1>4. QED
  BY <1>2, <1>3

\* A call that ends before it emptied the file leaves it as it was.
LEMMA FailInv ==
  ASSUME Inv, NEW p \in Server, Fail(p)
  PROVE  Inv'
<1> USE DEF Inv, Typed, Fail, Done
<1>1. Typed'
  <2>1. under' \in [Server -> BOOLEAN] /\ disturbed' \in BOOLEAN
    BY Zenon DEF Settled
  <2>2. QED
    BY <2>1, EmptyUpdate
<1>2. CASE disturbed \/ pc[p] = "open"
  <2> DEFINE failed == pc[p] = "open"
  <2>1. failed \in BOOLEAN /\ Settled(p, FALSE, failed) /\ (disturbed \/ failed)
    BY <1>2, Zenon
  <2> HIDE DEF failed
  <2>2. QED
    BY <1>1, <2>1, SpoiltInv
<1>3. CASE ~ disturbed /\ pc[p] # "open"
  <2>1. Calm
    BY <1>3
  <2>2. \A q \in Server : q # p => pc[q] = "idle"
    BY <2>1 DEF Calm, OneAtATime
  <2>3. file = sure
    BY <1>3, <2>1, <2>2 DEF Calm, Untouched
  <2>4. ~ disturbed' /\ sure' = sure
    BY <1>3, Zenon DEF Settled
  <2>5. file' = file
    BY <1>3
  <2>6. \A q \in Server : pc'[q] = "idle"
    BY <2>2
  <2>7. Calm'
    BY <2>3, <2>4, <2>5, <2>6 DEF Calm, OneAtATime, Complete, Uncovered, Untouched
  <2>8. QED
    BY <1>1, <2>4, <2>7
<1>4. QED
  BY <1>2, <1>3

\* Every step keeps the invariant.
LEMMA NextInv == Inv /\ [Next]_vars => Inv'
<1> SUFFICES ASSUME Inv, [Next]_vars PROVE Inv'
  OBVIOUS
<1>1. CASE Next
  BY <1>1, CallInv, MergeInv, MergeBlindInv, EmptyInv, FlushInv, CloseInv, FailInv DEF Next
<1>2. CASE UNCHANGED vars
  BY <1>2 DEF vars, call, Inv, Typed, Quiet, Calm, OneAtATime, Complete, Uncovered, Untouched
<1>3. QED
  BY <1>1, <1>2

(***************************************************************************)
(* However many servers share the hand-off and however saves overlap, die,  *)
(* fail to read or raise: whenever no call is under way, the file is what   *)
(* the acknowledged saves since the last disturbance, one after another,    *)
(* make of what that disturbance left.                                      *)
(***************************************************************************)
THEOREM LostTheorem == Spec => []LostOnlyWhenDisturbed
<1>1. Inv => LostOnlyWhenDisturbed
  BY DEF Inv, Quiet, Calm, Untouched, LostOnlyWhenDisturbed
<1>2. QED
  BY <1>1, InitInv, NextInv, PTL DEF Spec

=============================================================================
