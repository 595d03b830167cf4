--------------------------- MODULE RolloverGuard ---------------------------
(***************************************************************************)
(* The guard of `reverify rollover` (reverify/rollover_harness.py): a hook  *)
(* the agent CLI runs at the end of every turn.  It blocks one stop and     *)
(* asks for a hand-off file, checks that file at the next stop, and then    *)
(* writes a receipt.                                                        *)
(*                                                                          *)
(* Every session keeps its guard state in a file of its own; the sessions   *)
(* of one project share the hand-off file and the directory's request.  A   *)
(* hook reads, decides, writes the receipt, starts a successor and saves    *)
(* its state in separate steps; the harness kills a hook that exceeds its   *)
(* timeout, which is 20 seconds, while a successor may take 90 to start.    *)
(*                                                                          *)
(* Context sizes are small numbers, 0 standing for "not known"; time is a   *)
(* counter, and Slack the second validate_handoff tolerates, in its units.  *)
(***************************************************************************)
EXTENDS Naturals, FiniteSets

CONSTANTS Session,
          Kinds,      \* what a session's harness may be, see kind
          Dir,        \* the key of a request made for the directory
          None,
          Threshold,  \* effective_threshold: block from this size on
          Step,       \* step_tokens: re-arm this much further up
          Slack,      \* validate_handoff accepts files this much too old
          Speakers,   \* the sessions whose user messages are followed
          MaxTokens,  \* bounds of the model
          MaxTime,
          MaxAsks,
          MaxSlips

ASSUME KindAssumption == Kinds \subseteq {"plain", "inline", "launched"}
ASSUME KeyAssumption == Dir \notin Session /\ None \notin Session \union {Dir}
ASSUME SizeAssumption == Threshold \in Nat \ {0} /\ Step \in Nat /\ Slack \in Nat
ASSUME BoundAssumption ==
  Speakers \subseteq Session /\
  MaxTokens \in Nat /\ MaxTime \in Nat \ {0} /\ MaxAsks \in Nat /\ MaxSlips \in Nat

VARIABLES
  kind,      \* kind[s]: "launched" under a launcher, else "inline" if the
             \* harness can drop its own context, else "plain"
  tokens,    \* tokens[s]: the live context as the transcript shows it
  said,      \* said[s]: when the user last spoke to s, 0 for never
  disk,      \* disk[s]: the guard's state file
  requests,  \* the request files
  handoff,   \* the hand-off file all sessions share
  receipt,   \* receipt[s]: the receipt file under s's key
  hook,      \* hook[s]: the hook process of s
  heard,     \* heard[s]: what the harness made of s's last hook
  now,
  asks,      \* requests made, for the bound
  written,   \* written[s]: receipts written
  started,   \* started[s]: successor sessions running because of s
  injected,  \* injected[s]: openings printed into s
  slips      \* slips[s]: hooks of s killed, or a successor's start timed out

files == <<disk, requests, handoff, receipt>>
tally == <<written, started, injected, slips>>
vars == <<kind, tokens, said, files, hook, heard, now, asks, tally>>

Time == 0..MaxTime
Tokens == 0..MaxTokens
Key == Session \union {Dir}

State == [pending : BOOLEAN, epoch : Time, blocked : Tokens, trigger : Nat,
          blocks : Nat, rollovers : Nat, successor : BOOLEAN, opening : BOOLEAN]

Handoff == [at : Time, sound : BOOLEAN]
Receipt == [anchor : Time, at : Time]
NoReceipt == [anchor |-> 0, at |-> 0]

Phase == {"idle", "read", "issue", "spawn", "save", "emit"}
Outcome == {"allow", "block", "receipt"}

\* load_state of a session that has no state file yet
Fresh == [pending |-> FALSE, epoch |-> 0, blocked |-> 0, trigger |-> Threshold,
          blocks |-> 0, rollovers |-> 0, successor |-> FALSE, opening |-> FALSE]

Idle == [at |-> "idle", st |-> Fresh, got |-> None, anchor |-> 0, says |-> "allow"]

Init ==
  /\ kind \in [Session -> Kinds]
  /\ tokens = [s \in Session |-> 0]
  /\ said = [s \in Session |-> 0]
  /\ disk = [s \in Session |-> Fresh]
  /\ requests = {}
  /\ handoff = [at |-> 0, sound |-> FALSE]
  /\ receipt = [s \in Session |-> NoReceipt]
  /\ hook = [s \in Session |-> Idle]
  /\ heard = [s \in Session |-> "allow"]
  /\ now = 1
  /\ asks = 0
  /\ written = [s \in Session |-> 0]
  /\ started = [s \in Session |-> 0]
  /\ injected = [s \in Session |-> 0]
  /\ slips = [s \in Session |-> 0]

-----------------------------------------------------------------------------
(***************************************************************************)
(* What the session does between two hooks.                                 *)
(***************************************************************************)
At(s, phase) == hook[s].at = phase

Larger(a, b) == IF a >= b THEN a ELSE b

\* A turn makes the context larger; a cleanup makes it smaller.
Grow(s) ==
  /\ At(s, "idle")
  /\ \E n \in Tokens \ {tokens[s]} : tokens' = [tokens EXCEPT ![s] = n]
  /\ UNCHANGED <<said, files, hook, heard, now, asks, tally>>

WriteHandoff(s) ==
  /\ At(s, "idle")
  /\ \E sound \in BOOLEAN : handoff' = [at |-> now, sound |-> sound]
  /\ UNCHANGED <<tokens, said, disk, requests, receipt, hook, heard, now, asks, tally>>

\* `reverify rollover request`, keyed by the session or by the directory
Ask(s) ==
  /\ At(s, "idle")
  /\ asks < MaxAsks
  /\ asks' = asks + 1
  /\ \E k \in {s, Dir} : requests' = requests \union {k}
  /\ UNCHANGED <<tokens, said, disk, handoff, receipt, hook, heard, now, tally>>

UserSpeaks(s) ==
  /\ s \in Speakers
  /\ said[s] < now
  /\ said' = [said EXCEPT ![s] = now]
  /\ UNCHANGED <<tokens, files, hook, heard, now, asks, tally>>

-----------------------------------------------------------------------------
(***************************************************************************)
(* The stop hook: run_guard.                                                *)
(***************************************************************************)
\* load_state, and the reading half of pop_request: the session's own
\* request before the directory's
Start(s) ==
  /\ At(s, "idle")
  /\ hook' = [hook EXCEPT ![s] =
       [Idle EXCEPT !.at = "read", !.st = disk[s],
                    !.got = IF s \in requests THEN s
                            ELSE IF Dir \in requests THEN Dir ELSE None]]
  /\ UNCHANGED <<tokens, said, files, heard, now, asks, tally>>

\* The other half of pop_request comes first in every branch.
Unlink(s) == requests' = requests \ {hook[s].got}

\* Mutant: any well-formed hand-off is usable.
UsableAnyAge(st) == handoff.at > 0 /\ handoff.sound

Usable(st) == handoff.at > 0 /\ handoff.sound /\ handoff.at + Slack >= st.epoch

\* Mutants: the next block comes at the same size; the block is not lifted.
RearmedHere(st, n) == Larger(st.blocked, n)
RearmedOnly(st, n) == [st EXCEPT !.trigger = RearmedHere(st, n) + Step]

Rearmed(st, n) == Larger(st.blocked, n) + Step

Released(st, n) == [st EXCEPT !.pending = FALSE, !.trigger = Rearmed(st, n)]

\* The hand-off passed: a harness that resets in place gets the opening.
Passed(s, st) == [st EXCEPT !.rollovers = st.rollovers + 1,
                            !.opening = st.opening \/ kind[s] = "inline"]

Blocked(s, st) == [st EXCEPT !.pending = TRUE, !.epoch = now, !.blocked = tokens[s],
                             !.blocks = st.blocks + 1]

\* The session was blocked at its last stop: it is released whatever it did.
Release(s) ==
  LET st == Released(hook[s].st, tokens[s])
  IN  /\ At(s, "read")
      /\ hook[s].st.pending
      /\ Unlink(s)
      /\ IF Usable(hook[s].st)
           THEN hook' = [hook EXCEPT ![s].at = "issue", ![s].st = Passed(s, st),
                                     ![s].anchor = said[s], ![s].says = "receipt"]
           ELSE hook' = [hook EXCEPT ![s].at = "save", ![s].st = st]
      /\ UNCHANGED <<tokens, said, disk, handoff, receipt, heard, now, asks, tally>>

Due(s) == hook[s].got # None \/ tokens[s] >= hook[s].st.trigger

Block(s) ==
  /\ At(s, "read")
  /\ ~hook[s].st.pending
  /\ Due(s)
  /\ Unlink(s)
  /\ hook' = [hook EXCEPT ![s].at = "save", ![s].says = "block",
                          ![s].st = Blocked(s, hook[s].st)]
  /\ UNCHANGED <<tokens, said, disk, handoff, receipt, heard, now, asks, tally>>

Allow(s) ==
  /\ At(s, "read")
  /\ ~hook[s].st.pending
  /\ ~Due(s)
  /\ hook' = [hook EXCEPT ![s] = Idle]
  /\ heard' = [heard EXCEPT ![s] = "allow"]
  /\ UNCHANGED <<tokens, said, files, now, asks, tally>>

\* Mutant: every receipt starts a session.
FollowsAgain(s) == kind[s] = "plain"

\* Nobody else ends this session, and it has no successor yet.
Follows(s) == kind[s] = "plain" /\ ~hook[s].st.successor

\* write_receipt: the anchors were read before, the time is taken now
Issue(s) ==
  /\ At(s, "issue")
  /\ receipt' = [receipt EXCEPT ![s] = [anchor |-> hook[s].anchor, at |-> now]]
  /\ written' = [written EXCEPT ![s] = @ + 1]
  /\ hook' = [hook EXCEPT ![s].at = IF Follows(s) THEN "spawn" ELSE "save"]
  /\ UNCHANGED <<tokens, said, disk, requests, handoff, heard, now, asks, started,
                 injected, slips>>

\* spawn_successor: off or failed, started, or started but not known to be
Spawn(s) ==
  /\ At(s, "spawn")
  /\ \E runs, known \in BOOLEAN :
       /\ known => runs
       /\ started' = [started EXCEPT ![s] = IF runs THEN @ + 1 ELSE @]
       /\ hook' = [hook EXCEPT ![s].at = "save", ![s].st.successor = known]
       /\ IF runs /\ ~known
            THEN slips[s] < MaxSlips /\ slips' = [slips EXCEPT ![s] = @ + 1]
            ELSE UNCHANGED slips
  /\ UNCHANGED <<tokens, said, files, heard, now, asks, written, injected>>

\* Mutants: the state is saved only with a block, or only with a receipt.
SaveBlock(s) ==
  /\ At(s, "save")
  /\ disk' = IF hook[s].says = "block" THEN [disk EXCEPT ![s] = hook[s].st] ELSE disk
  /\ hook' = [hook EXCEPT ![s].at = "emit"]
  /\ UNCHANGED <<tokens, said, requests, handoff, receipt, heard, now, asks, tally>>

SaveReceipt(s) ==
  /\ At(s, "save")
  /\ disk' = IF hook[s].says = "receipt" THEN [disk EXCEPT ![s] = hook[s].st] ELSE disk
  /\ hook' = [hook EXCEPT ![s].at = "emit"]
  /\ UNCHANGED <<tokens, said, requests, handoff, receipt, heard, now, asks, tally>>

Save(s) ==
  /\ At(s, "save")
  /\ disk' = [disk EXCEPT ![s] = hook[s].st]
  /\ hook' = [hook EXCEPT ![s].at = "emit"]
  /\ UNCHANGED <<tokens, said, requests, handoff, receipt, heard, now, asks, tally>>

Emit(s) ==
  /\ At(s, "emit")
  /\ hook' = [hook EXCEPT ![s] = Idle]
  /\ heard' = [heard EXCEPT ![s] = hook[s].says]
  /\ UNCHANGED <<tokens, said, files, now, asks, tally>>

\* The hook's time is up, or it fails: the stop is allowed.
Killed(s) ==
  /\ ~At(s, "idle")
  /\ slips[s] < MaxSlips
  /\ slips' = [slips EXCEPT ![s] = @ + 1]
  /\ hook' = [hook EXCEPT ![s] = Idle]
  /\ heard' = [heard EXCEPT ![s] = "allow"]
  /\ UNCHANGED <<tokens, said, files, now, asks, written, started, injected>>

-----------------------------------------------------------------------------
\* Mutant: the opening is not struck off.
StillOpening(st) == st

Struck(st) == [st EXCEPT !.opening = FALSE]

\* run_hook, event before-agent: the opening is struck off, then printed
BeforeAgent(s) ==
  /\ At(s, "idle")
  /\ disk[s].opening
  /\ disk' = [disk EXCEPT ![s] = Struck(@)]
  /\ \/ injected' = [injected EXCEPT ![s] = @ + 1] /\ UNCHANGED slips
     \/ /\ slips[s] < MaxSlips /\ slips' = [slips EXCEPT ![s] = @ + 1]
        /\ UNCHANGED injected
  /\ UNCHANGED <<tokens, said, requests, handoff, receipt, hook, heard, now, asks,
                 written, started>>

Tick ==
  /\ now < MaxTime
  /\ now' = now + 1
  /\ UNCHANGED <<kind, tokens, said, files, hook, heard, asks, tally>>

Hook(s) ==
  /\ \/ Start(s) \/ Release(s) \/ Block(s) \/ Allow(s)
     \/ Issue(s) \/ Spawn(s) \/ Save(s) \/ Emit(s)
  /\ UNCHANGED kind

Other(s) ==
  /\ \/ Grow(s) \/ WriteHandoff(s) \/ Ask(s) \/ UserSpeaks(s)
     \/ Killed(s) \/ BeforeAgent(s)
  /\ UNCHANGED kind

SessionNext(s) == Hook(s) \/ Other(s)

Next == Tick \/ \E s \in Session : SessionNext(s)

Spec == Init /\ [][Next]_vars

\* A turn ends sooner or later, and a hook that is not killed runs to its end.
Fairness == \A s \in Session : WF_vars(Hook(s))

FairSpec == Spec /\ Fairness

-----------------------------------------------------------------------------
HookState == [at : Phase, st : State, got : Key \union {None}, anchor : Time,
              says : Outcome]

TypeOK ==
  /\ kind \in [Session -> {"plain", "inline", "launched"}]
  /\ tokens \in [Session -> Tokens]
  /\ said \in [Session -> Time]
  /\ disk \in [Session -> State]
  /\ requests \in SUBSET Key
  /\ handoff \in Handoff
  /\ receipt \in [Session -> Receipt]
  /\ hook \in [Session -> HookState]
  /\ heard \in [Session -> Outcome]
  /\ now \in Time
  /\ asks \in 0..MaxAsks
  /\ written \in [Session -> Nat]
  /\ started \in [Session -> Nat]
  /\ injected \in [Session -> Nat]
  /\ slips \in [Session -> 0..MaxSlips]

\* A number for a condition, to count with.
One(b) == IF b THEN 1 ELSE 0

(***************************************************************************)
(* Every rollover the guard counts answers a block of its own, also across  *)
(* hooks that were killed (rollover_harness.py:766-781, 814-823).           *)
(***************************************************************************)
CountedAfterBlock ==
  \A s \in Session : disk[s].rollovers + One(disk[s].pending) <= disk[s].blocks

(***************************************************************************)
(* A block leads to at most one receipt; only a hook that is killed after   *)
(* it wrote the receipt and before it saved its state can write another     *)
(* (rollover_harness.py:777-800).                                           *)
(***************************************************************************)
OneReceiptPerBlock ==
  \A s \in Session : written[s] <= disk[s].blocks + slips[s]

(***************************************************************************)
(* A session starts at most one successor, plus one for every hook that was *)
(* killed or did not learn that the successor started                       *)
(* (rollover_harness.py:785-799).  test_only_one_successor_per_session says *)
(* "spawned once, not twice".                                               *)
(***************************************************************************)
SuccessorsAccounted ==
  \A s \in Session : started[s] <= 1 + slips[s]

(***************************************************************************)
(* An opening is printed at most once for every rollover, also when the     *)
(* hook that prints it dies (rollover_harness.py:1473-1486).                *)
(***************************************************************************)
OpeningOnce ==
  \A s \in Session : injected[s] + One(disk[s].opening) <= disk[s].rollovers

(***************************************************************************)
(* Fail closed: when a receipt is written, the session is blocked on disk   *)
(* and the shared hand-off was written after that block, or at most Slack   *)
(* before it, whatever other sessions and killed hooks did in between       *)
(* (rollover_harness.py:560-565, 766-768).  Who wrote it is not looked at:  *)
(* the sessions of a project share one hand-off.                            *)
(***************************************************************************)
ReceiptIsFresh ==
  [][\A s \in Session : written'[s] > written[s] =>
       disk[s].pending /\ handoff.at > 0 /\ handoff.at + Slack >= disk[s].epoch]_vars

(***************************************************************************)
(* The guard blocks a stop once: a session that was just blocked is let go  *)
(* at its next stop, so it can always finish its turn                       *)
(* (rollover_harness.py:13-15).                                             *)
(***************************************************************************)
BlocksOnce ==
  \A s \in Session : heard[s] = "block" /\ At(s, "emit") => hook[s].says # "block"

(***************************************************************************)
(* After a block, no other follows without a request before the context has *)
(* grown by a step beyond the size of the last one, whether that one ended  *)
(* in a receipt or in a rejected hand-off (README.md:296-297).              *)
(***************************************************************************)
RearmedFurtherUp ==
  [][\A s \in Session :
       /\ At(s, "read")
       /\ hook'[s].says = "block"
       /\ hook[s].got = None
       /\ disk[s].blocks > 0
       => tokens[s] >= disk[s].blocked + Step]_vars

(***************************************************************************)
(* A blocked session is released, even when some of its hooks are killed.   *)
(***************************************************************************)
AlwaysReleased == \A s \in Session : disk[s].pending ~> ~disk[s].pending
=============================================================================
