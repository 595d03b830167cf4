-------------------------- MODULE RolloverLauncher --------------------------
(***************************************************************************)
(* Launcher.run (reverify/rollover_harness.py) composed with the guard: the *)
(* launcher starts an agent CLI under a fresh launch id, polls for the      *)
(* receipt the guard writes under that id, waits a moment for a queued user *)
(* message, ends the session and starts the next one.                       *)
(*                                                                          *)
(* Launch n is session n of RolloverGuard.  The user may speak or quit the  *)
(* CLI at any time, also while the launcher is ending it.  Whether the      *)
(* launcher can see a message is another matter: the OpenCode harness never *)
(* looks, the Codex one drops event lines, and a text that starts with "<"  *)
(* or a line without a time stamp counts as injected.                       *)
(***************************************************************************)
EXTENDS RolloverGuard

CONSTANTS MaxRollovers,  \* --max-rollovers
          MinInterval    \* --min-interval

ASSUME LaunchAssumption == MaxRollovers \in Nat \ {0} /\ Session = 1..MaxRollovers
ASSUME IntervalAssumption == MinInterval \in Nat

VARIABLES
  pc,         \* where run stands
  cur,        \* the current launch, 0 before the first
  alive,      \* the CLI of the current launch is running
  held,       \* the receipt wait_for_receipt has read
  seen,       \* the last message of the current launch a harness can tell
  rollovers,
  lastAt,     \* _last_rollover_at, 0 for None
  judged      \* history: when the receipt in hand was judged

run == <<pc, cur, alive, held, seen, rollovers, lastAt, judged>>
allVars == <<vars, run>>

LInit ==
  /\ Init
  /\ pc = "spawn"
  /\ cur = 0
  /\ alive = FALSE
  /\ held = NoReceipt
  /\ seen = 0
  /\ rollovers = 0
  /\ lastAt = 0
  /\ judged = 0

-----------------------------------------------------------------------------
Launch ==
  /\ pc = "spawn"
  /\ cur' = cur + 1
  /\ alive' = TRUE
  /\ pc' = "poll"
  /\ held' = NoReceipt
  /\ seen' = 0
  /\ UNCHANGED <<rollovers, lastAt, judged, vars>>

\* Mutant: the launch id is made once per launcher.
FirstPath == IF cur = 0 THEN 0 ELSE 1

\* Where the receipt of the current launch is looked for.
Path == cur

Poll ==
  /\ pc = "poll"
  /\ alive
  /\ receipt[Path].at > 0
  /\ held' = receipt[Path]
  /\ pc' = "settle"
  /\ UNCHANGED <<cur, alive, seen, rollovers, lastAt, judged, vars>>

\* proc.poll() after the sleep
Settle ==
  /\ pc = "settle"
  /\ alive
  /\ pc' = "judge"
  /\ UNCHANGED <<cur, alive, held, seen, rollovers, lastAt, judged, vars>>

\* Mutant: the CLI is looked at only after a receipt.
ReturnSettled ==
  /\ pc = "settle"
  /\ ~alive
  /\ pc' = "done"
  /\ UNCHANGED <<cur, alive, held, seen, rollovers, lastAt, judged, vars>>

\* The CLI ended by itself: run returns its exit code.
Return ==
  /\ pc \in {"poll", "settle"}
  /\ ~alive
  /\ pc' = "done"
  /\ UNCHANGED <<cur, alive, held, seen, rollovers, lastAt, judged, vars>>

(***************************************************************************)
(* _consume_reason, and _discard, which removes whatever is at the path; a   *)
(* removal that fails is ignored, and the receipt is read again.            *)
(***************************************************************************)
\* Mutants: no rollover is too soon; a message at the receipt's time is missed.
NeverTooSoon == FALSE
SpokeLater == seen > held.at

TooSoon == lastAt # 0 /\ now - lastAt < MinInterval
UserSpoke == seen >= held.at

Removed == [receipt EXCEPT ![Path] = NoReceipt]

Discard ==
  /\ pc = "judge"
  /\ TooSoon \/ UserSpoke
  /\ pc' = "poll"
  /\ held' = NoReceipt
  /\ receipt' \in {Removed, receipt}
  /\ UNCHANGED <<cur, alive, seen, rollovers, lastAt, judged, kind, tokens, said, disk,
                 requests, handoff, hook, heard, now, asks, tally>>

Accept ==
  /\ pc = "judge"
  /\ ~(TooSoon \/ UserSpoke)
  /\ pc' = "consume"
  /\ judged' = now
  /\ UNCHANGED <<cur, alive, held, seen, rollovers, lastAt, vars>>

\* os.replace to .consumed.json; a failure is ignored and leaves the file
Consume ==
  /\ pc = "consume"
  /\ pc' = "end"
  /\ receipt' \in {Removed, receipt}
  /\ UNCHANGED <<cur, alive, held, seen, rollovers, lastAt, judged, kind, tokens, said,
                 disk, requests, handoff, hook, heard, now, asks, tally>>

\* The CLI is gone, and with it the hook it was running.
Gone == hook' = [hook EXCEPT ![cur] = Idle]

Enough == rollovers + 1 >= MaxRollovers

\* terminate, and the bookkeeping that follows it
End ==
  /\ pc = "end"
  /\ alive' = FALSE
  /\ Gone
  /\ rollovers' = rollovers + 1
  /\ lastAt' = now
  /\ pc' = IF Enough THEN "done" ELSE "spawn"
  /\ UNCHANGED <<cur, held, seen, judged, kind, tokens, said, files, heard, now, asks, tally>>

\* The user leaves the CLI, or it crashes.
Quit ==
  /\ alive
  /\ alive' = FALSE
  /\ Gone
  /\ UNCHANGED <<pc, cur, held, seen, rollovers, lastAt, judged, kind, tokens, said, files,
                 heard, now, asks, tally>>

\* A message the user sends is one the harness can tell, or it is not.
Agent ==
  /\ alive
  /\ SessionNext(cur)
  /\ seen' \in IF said' = said THEN {seen} ELSE {seen, now}
  /\ UNCHANGED <<pc, cur, alive, held, rollovers, lastAt, judged>>

Clock == Tick /\ UNCHANGED run

LauncherNext ==
  Launch \/ Poll \/ Settle \/ Return \/ Discard \/ Accept \/ Consume \/ End

LNext == LauncherNext \/ Agent \/ Quit \/ Clock

LSpec == LInit /\ [][LNext]_allVars

\* The launcher is a running process.
LFairSpec == LSpec /\ WF_allVars(LauncherNext)

-----------------------------------------------------------------------------
LTypeOK ==
  /\ TypeOK
  /\ pc \in {"spawn", "poll", "settle", "judge", "consume", "end", "done"}
  /\ cur \in 0..MaxRollovers
  /\ alive \in BOOLEAN
  /\ held \in Receipt
  /\ seen \in Time
  /\ rollovers \in 0..MaxRollovers
  /\ lastAt \in Time
  /\ judged \in Time

(***************************************************************************)
(* Fail closed: every session the launcher ended had itself written a       *)
(* receipt, although a receipt whose rename or removal failed stays on disk *)
(* and is read again (rollover_harness.py:1776, 1816-1819, 1845-1850).      *)
(***************************************************************************)
EndedWithOwnReceipt == \A n \in 1..rollovers : written[n] > 0

(***************************************************************************)
(* A message the harness can tell, sent between the receipt and the         *)
(* launcher's decision, keeps the session, also where the receipt was       *)
(* refused before and could not be removed.  The rest do not count          *)
(* (rollover_harness.py:204-209, 309-323, 1348-1349, 1827-1828).            *)
(***************************************************************************)
QueuedMessageCounts ==
  pc \in {"consume", "end"} => seen < held.at \/ seen >= judged

(***************************************************************************)
(* Two rollovers are at least MinInterval apart, so a session that is       *)
(* always over its threshold cannot be restarted in a loop                  *)
(* (rollover_harness.py:1825-1826).                                         *)
(***************************************************************************)
IntervalKept ==
  [][rollovers' > rollovers /\ lastAt # 0 => now - lastAt >= MinInterval]_allVars

(***************************************************************************)
(* The launcher is never stranded without a CLI: it returns or starts the   *)
(* next one.                                                                *)
(***************************************************************************)
NeverStranded == ~alive ~> alive \/ pc = "done"

(***************************************************************************)
(* Every receipt of the current launch is decided on, also one that could   *)
(* not be removed, unless its launch is over (rollover_harness.py:1832).    *)
(***************************************************************************)
HasReceipt == cur # 0 /\ receipt[cur].at > 0
ReceiptDecided == HasReceipt ~> ~HasReceipt \/ pc \in {"judge", "done"}

(***************************************************************************)
(* Launcher's docstring: "a user message that lands after the hand-off      *)
(* cancels that rollover" (rollover_harness.py:1777).                       *)
(***************************************************************************)
MessageCancels == [][rollovers' > rollovers => said[cur] < held.at]_allVars

=============================================================================
