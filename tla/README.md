# Specifications of reverify-mcp

TLA+ models of `reverify` (directory `src/reverify` of the
repository): its state machines and the pure algorithms that judge claims, the TLC runs
that check them on small instances, and the theorems that TLAPS proves about them for every
instance. Line numbers refer to the
repository's files at the commit modelled here; `ledger.py:358` stands for
`src/reverify/ledger.py`, line 358, and a path without a directory is one of
`src/reverify` or of the repository's root.

1. [The system](#1-the-system)
2. [Modules](#2-modules)
3. [Runs](#3-runs)
4. [Proofs](#4-proofs)
5. [Where the code and its documentation disagree](#5-where-the-code-and-its-documentation-disagree)
6. [What is not modelled](#6-what-is-not-modelled)
7. [Plan](#7-plan)

## 1. The system

`reverify` lets a language model make claims about a binary and checks every
claim against the bytes. What holds is kept in a ledger on disk that outlives
the model's context; when the context gets too large the session is *rolled
over*: the model writes a hand-off file, and a fresh session goes on from it.

| component | source | state | operations | what makes it correct |
|---|---|---|---|---|
| verified ledger | `ledger.py` | a `Ledger` object per process; `<sha>.json` and `<sha>.corrupt.json` on disk | `for_bytes`, `load` (with quarantine), `record`, `save`, `clear`; bounded views of it | it holds only what checks returned; every loss has a known cause; it is read and written whole |
| verification report | `verifier.py` | the list of results of one call, the dictionary of verdicts | `_apply_dependencies`, `summarize` | a claim falls only with a cause; a grounded report rests on nothing refuted |
| rollover guard | `rollover_harness.py:530-825, 1457-1526` | a state file per session; a hand-off file and a directory request per project; a receipt per session | stop hook (`run_guard`), before-agent hook, `rollover request` | one block per request for a hand-off; a receipt only for a fresh hand-off; one successor; the session is always let go |
| rollover launcher | `rollover_harness.py:1733-1881` | the running CLI, the time and number of rollovers | spawn, poll for the receipt, settle, discard, consume, terminate | ends only a session that wrote its receipt; a message it can tell cancels; no restart loop |
| rollover installation | `rollover_harness.py:1000-1450`, `claude_rollover.py` | each CLI's settings file | install, uninstall, status, doctor | other tools' hooks survive; installing twice is installing once; what uninstall does not restore is known |
| OpenCode plugin | `plugins/opencode/reverify-rollover.js` | busy and asked sets, one pending opening | event handlers of the CLI | every rollover's opening is sent once, or lost to one failed call; no handler keeps its session busy for ever |
| grounding loop | `agent.py` | rounds, messages, the ledger object | propose, verify, rescore, record, save | a claim is credited once over all runs; what a tool showed is credited in known cases only; completed rounds survive a death |
| session orchestrator | `rollover.py` | a checkpoint, token estimates | drive a session, detect triggers, distil, restart | a crash loses one session's declarations at most; no session overwrites another's history entry; a drift rollover means claims that said nothing |
| MCP server | `mcp_server.py` | none between calls but files | `re_verify_claim`, `re_ledger`, `re_checkpoint`, ... | a save is lost only where saves overlapped or failed |
| checks and engines | `verifier.py`, `emulator.py`, `protocol_parser.py`, `binary.py`, `disasm.py`, `behavior.py`, `semantic.py`, `exebench.py` | none across calls | one check of the bytes each | a verdict says what is so, or that nothing is known |
| I/O | `cli.py`, `sandbox.py`, `boundary_auditor.py`, `frida_bridge.py`, `backends.py` | none | printing, subprocesses, HTTP | |

**Interactions.** The agent, the orchestrator, the MCP server and the command
line all call `Verifier.verify_all`, then `Ledger.record` and `Ledger.save`; they
are different processes that meet only in the ledger file. The guard runs as a
short-lived process the agent CLI starts at the end of every turn; it meets the
sessions of the same project in the hand-off file and the request file, and it
meets the launcher in the receipt file, whose name is the launch id the launcher
put into the CLI's environment. In OpenCode the plugin takes the place of hook and
launcher: it runs the guard and opens the fresh session itself.

**What is hard.** No file is locked: every read-decide-write sequence of two
processes interleaves. Hooks are killed after 20 seconds, between any two of
their steps. Renames and opens can fail, and the code ignores that. Users speak
and quit at any moment. None of this is reached by the repository's tests, which
call one function after another in one process. The hazards are listed in
`PROJECT.json`, each with the line it bites at and the properties that watch it.

## 2. Modules

| module | what it is |
|---|---|
| `LedgerDocuments` | what a ledger document holds |
| `LedgerStore` | the abstract specification: a document read and written whole, at one instant, by processes that each hold a copy |
| `Ledger` | the program: processes, the file, quarantine, crashes |
| `LedgerProofs` | theorems about `Ledger`, among them that it implements `LedgerStore` |
| `Verification` | one call of `verify_all` after the checks: dependencies, repetitions, the report |
| `VerificationProofs` | theorems about `Verification` |
| `RolloverGuard` | the sessions of one project and their hooks |
| `RolloverLauncher` | the launcher composed with the guard: extends `RolloverGuard`, launch *n* is session *n* |
| `RolloverProofs` | theorems about the guard, and about the launcher with the guard inside |
| `AgentLoop`, `AgentLoopProofs` | the grounding loop over one ledger, and theorems about it |
| `Orchestrator`, `OrchestratorProofs` | sessions, checkpoint, history and ledger of the orchestrator, and theorems |
| `HandoffTool`, `HandoffToolProofs` | `re_checkpoint` of several MCP servers, and theorems |
| `OpenCodePlugin`, `OpenCodePluginProofs` | the plugin's handlers, interleaved at every await, and theorems |
| `BoundedViews` | which facts, refutations and declarations a cut keeps |
| `HookInstall` | install and uninstall as functions from settings to settings |
| `Transcript` | what is read out of a transcript: tokens, the user's messages |
| `Numbers` | sums, powers of two, numbers in their digits |
| `Protocol` | varints, the dissector, the `protobuf_field` check |
| `ByteClaims` | address translation, `bytes_at`, `string_at`, the pattern search |
| `InstructionClaims` | the two decoders and `instruction_at` |
| `ImageClaims` | what is known of a file's tables, and the claims about them |
| `SemanticClaims` | functions, calls and references, with the analysis engine and without |
| `Emulator` | the built-in emulator against a processor |
| `Equivalence` | expressions tested against code and proved in bit-vectors |
| `Algorithms` | one call of any of these algorithms, and what callers pass |
| `AlgorithmRelations`, `AlgorithmProofs` | the relations the theorems about them are stated in, and the theorems |
| `MCLedger`, `MCVerification`, `MCGuard`, `MCLauncher`, `MCAgent`, `MCOrchestrator`, `MCHandoffTool`, `MCPlugin`, `MCAlgorithms` | the small instances |

### Ledger

A process is anything that holds a `Ledger` object. `pc[p]` says between which
two system calls it is: `for_bytes` tests `exists()` (`Open`), then opens and
parses (`ReadGood`, `ReadGone`, `ReadBad`, `ReadError`), and in the `except` branch moves
*whatever is at the path by then* to `.corrupt.json` (`Quarantine`), or fails to and
goes on all the same (`QuarantineFails`). `save` writes a temporary file
(`BeginSave`) and renames it (`Replace`). `Leave` is every way to drop the object: the
call ends, `save` raises, the process dies. `Damage` is the environment truncating or
editing the file.

A document (`LedgerDocuments`) has, for each claim, the weight it is kept with (0: it is
not among the facts); the refuted claims; and for each observed spot the two values the
code keeps, the one in the fact's entry (`line`, written once) and the one in the
`observed` dictionary (overwritten each time). A check may return any verdict on any
claim and read any value: processes with other engines (lief, angr, capstone) disagree,
so the same claim may be verified by one and refuted by another, and `record` keeps both.
The tiers of facts, their wording, order and timestamps are left out, because no
property of this module tells them apart; the bounded views, which do, are in
`BoundedViews`.

`stale`, `own` and `said` are history variables: whether the file may not be what `p`
last read or wrote, what `p` recorded since, and what the checks of all processes came
back with.

`LedgerStore` is what the repository's README promises a process: it resumes
from what was last checkpointed, nobody sees half a checkpoint, and what is dropped
before its checkpoint leaves no trace. `Ledger` implements it with the file's document as
the store and the object of every process past its loading as the copy it holds
(`Held`). `StartOver`, the step of a process that takes a sound ledger for a corrupt
one, is not there when the store is `Reliable`: one process, whose opens succeed.

### Verification

`claims` is the list with the verdict each check returned. `Visit` is one turn of
the inner loop of `_apply_dependencies`, `NextPass` the end of a walk,
`Summarize` the call of `summarize`; the weight of a result, the information of
the report and `trustworthy` are operators. `flagged` holds the keys
that are trivial, echoed or known: which ones are is the environment's choice.
Weights are natural numbers, base weights a constant; the formula for them
(`base_weight`, rarity and entropy) is data. The reference the verdicts are
compared with is `Fallen`, the least set closed under "rests on a refuted one".

### RolloverGuard

One hook process per session: `Start` (read the state and the request), then
`Release`, `Block` or `Allow`, then `Issue` (write the receipt), `Spawn` (start a
successor), `Save`, `Emit`. `Killed` ends it between any two. The session itself
grows, is cleaned up, writes the hand-off (sound or not) and asks for a rollover
(`Grow`, `WriteHandoff`, `Ask`). `BeforeAgent` is the before-agent hook: strike the
opening off the state, then print it, or die in between. `kind` distinguishes a
session under a launcher, one whose harness drops its own context, and a plain
one that gets a successor.

Not in the model: a threshold of 0 (the guard does nothing), a threshold or step
that changes between hooks (environment variables, the harness' window), hand-off
paths that differ between two hooks of one session, and an old receipt schema.

Also left out: an unlink of a request that fails, and a hook that outlives its
CLI.

Time is a counter; `Slack` is the tolerance of `validate_handoff` in its unit.
`guard_killed` takes the unit to be the tolerated second (`Slack = 1`), so that a
hand-off one unit older than the block still passes. `guard_shared` takes a coarser
one (`Slack = 0`), so that within its short clock a hand-off can be *too* old;
`FreshTheorem` covers every `Slack`. Sizes are small numbers, 0 standing for "not
known".

### RolloverLauncher

`pc` follows `run`: `Launch` (spawn), `Poll`, `Settle`, then `Discard` or `Accept`
(`_consume_reason`), `Consume` (the rename, which may fail), `End` (terminate and
book-keeping), `Return` (the CLI ended by itself). `Quit` is the user leaving or a
crash of the CLI; it is possible in every state, also while the launcher is
deciding. A hook that runs when its CLI ends is taken to end with it. `Discard` removes the
receipt, or fails to, and then it is read and judged again.

`said` is when the user last spoke, `seen` when the harness could tell: OpenCode's never
looks (`rollover_harness.py:1348-1349`), Codex's drops event lines (`:423`), and a text that
starts with `<` counts as injected (`:204-209`). Any message may be one of these; only
`seen` decides. `Transcript` has the details.

### AgentLoop

A run is a cycle of `Prompt` (`compact_facts`, the whole sheet or a trimmed one),
`Judge` (verify, rescore, record) and `Save`, from `Start` (load or clear, save
`start_run`) to `Finish`. `Die` ends it at any step: a kill, a proposer that raises,
a save that fails. A claim is a location (one kind at one file offset, what `echo_key`
tells apart), the length it is about, the form it is written in, and whether it is
right, wrong or asks for the value (a claim without an expectation). Values read at one
location at two lengths differ, and sheet, ledger and echo check keep the last. The four
reasons to give no credit are operators of their own: `Trivial` (the header, or the one
value the sheet keeps, says it; only claims by file offset and of kinds in `LookedUp` are
looked up, which an emulation's result is not), `Echo` (the previous round showed that
value last), `Known` (`claim_key` is in the ledger), and the verdict. `tally` and `kept` are
history variables about completed rounds.

### Orchestrator

`Start` loads ledger and checkpoint, `Open` counts a session, `Turn` is one reply
(merge, judge, record, save the ledger, then the triggers in the controller's order),
`Rename` and `Snapshot` are the two writes at a session's end. `Crash` comes between
any two. A checkpoint is its goal, the items declared and its count of sessions; how
`merge` and its limits cut the lists is in `BoundedViews`. The token estimate is a
free choice (`over`), as is what the model says, which claims pass and which of those weigh
nothing (`light`). `Judge` adds the counters up as the controller does: everything that passed and
weighs nothing, and once more what the ledger knows; refuted claims stand in the total only.

### HandoffTool

A call of `re_checkpoint` is `Call`, `Merge` (read the file and merge), `Empty` (`open`
with `"w"`), `Flush` and `Close`: the file is written in place, so a reader or another
writer can find it empty or in pieces (`"torn"`). `MergeBlind` is a read of a sound file
that raises, after which the code starts anew; `Fail` is a server that dies or a write that
raises and is answered with an error, at any point of the text. The hand-off is one list that keeps its
newest `Limit` items, so an item may be dropped by a merge, as in the code; `sure`
is what the saves make of the file one after another.

### OpenCodePlugin

`at[s]` is the await the idle handler of session `s` is at. `opening` is the one variable
`openingForNewSession`, named by the session it was made for. The server and the TUI are
`TuiCreates`, `UserCreates` and the queue of created events; a TUI may act late, before
the plugin's own session, or never. `Throw` and `CreatedThrows` are awaited calls that fail; the `catch`
around `executeCommand` is why there is none at `"command"`. A call that should have sent an
opening and fails takes it along: it was out of the variable before the call.

### The pure algorithms

The modules from `BoundedViews` to `Equivalence` have no variables. Each translates
functions of the code and defines beside them the reference they are compared with.
`Algorithms` extends them all: a state is one call with its arguments, an invariant
compares the call with its reference. The sets of arguments are constants, and an
assumption on each says what the callers pass, no more: a list of any length, an image
with any sections, a program with any graph. `MCAlgorithms` gives them small values, and
the theorems hold for all. Recursive definitions are written as recursive functions or
folds, so that something can be proved about them.

- `BoundedViews`: `established` fills its view, and hides a fact only behind newer ones of
  its kind or pinned ones; a merge keeps every new declaration the limit has room for; the
  texts injected stay within their budget, separators not counted.
- `HookInstall`: installing twice is installing once; uninstalling leaves no hook of ours,
  and neither touches or reorders an entry that is the user's alone; which
  other settings come back and which do not (5) is said exactly.
- `Transcript`: a launch is called off only if the user spoke, and a word in the tail is
  missed only in a line that does not parse, in OpenCode, where nobody looks, as a Codex
  event, or if it starts with `<` (section 5); the token count is never an older one than the newest
  of the main conversation.
- `Protocol`: decoding undoes encoding up to the limit of bytes; a payload cut anywhere gives
  the records before the cut; a claim of a type and a value is verified only by entries of the field; one
  of the field alone also by a tag whose value was cut off. Numbers and texts are compared by
  the number both spell or else letter by letter, so the text "40" verifies a claim of the number 40.
- `ByteClaims`, `InstructionClaims`, `ImageClaims`: a claim that is verified is true of the
  bytes, one that is refuted is false of them, in every address space, and with either
  decoder or parser; the exceptions are listed in 5. The built-in decoder has names and numbers of its own; they
  are modelled by one jump and one operand it spells differently, and compared after a
  translation (`InOwnWords`) as well as without one.
- `SemanticClaims`: with the engine a verdict fits the graph; without it a verdict is one the
  engine would give too, or INCONCLUSIVE, where the engine has the function and it has one
  exported name; what the fallback answers elsewhere is stated beside it (5).
- `Emulator`: a run ends within its limit; programs of register forms whose sums stay within
  half a register end as on a processor. Memory forms and unknown opcodes are executed as
  something else, as in the code. The comparison is made where the stack has room for as many pushes
  or pops as there are instructions. Exclusive or is a constant operator, assumed only to stay
  within a word: emulator and processor share it.
- `Equivalence`: testing and proving do not contradict each other while no right shift is
  applied to a value that left the word; a refutation has an input that shows it, or one on
  which the candidate has no value.

## 3. Runs

| run | shows | size |
|---|---|---|
| `ledger_shared` | two processes whose checks may disagree, a damaged file, an open or a move that fails: whatever they interleave, only what a check returned is held, on disk or in quarantine (`Provenance`); a save by a process whose window was not disturbed loses nothing and brings nothing back (`UndisturbedWindow`); every loss is one of four kinds (`LossAccounted`); the file is a store read and written whole (`Refines`) | 2 processes, 1 claim, 1 spot: 480 000 states, symmetric |
| `ledger_single` | one process, damaged files, crashes: what is published stays (`NothingPublishedIsLost`), and a process resumes from what it last saved (`Refines` with the reliable store) | 2 weights, 2 values, 2 damages: 24 000 states |
| `verification` | all lists of four claims with one dependency each, in every order, with cycles; all lists of up to two with shared, missing and absent ids | 391 000 states |
| `guard_killed` | one session of each kind, one killed hook, requests: blocks, receipts, successors and openings are accounted for; the session is always let go (`AlwaysReleased`) | 646 000 states |
| `guard_shared` | two sessions under launchers that share the hand-off file and the request; no receipt is given for a hand-off older than the block (`ReceiptIsFresh`), and each block answers a request or a re-arming, also when two sessions find one request (`BlocksOnce`) | 1 305 000 states, symmetric |
| `launcher` | two launches with a user who speaks, so that the harness can tell or not, and quits whenever they like, renames and removals that fail, time passing at any moment | 1 028 000 states |
| `launcher_message` | violation, see 5 | |
| `agent` | two runs over one ledger, resumed, fresh or killed anywhere: no claim is credited in two rounds, completed rounds are on disk, a value that was read is credited only in the known cases (`ReadNeverCredited`) | 2 locations, one not looked up, 2 lengths, 2 forms, 3 rounds, 2 claims a round: 204 000 states |
| `orchestrator` | three processes, one killed anywhere: a crash loses one session's declarations; no history entry is overwritten; a drift rollover means claims that said nothing | 2 goals, 2 claims, 2 sessions of 2 turns, a window of 2 turns: 1 408 000 states |
| `handoff_tool` | two servers, deaths, reads and writes that raise, a list at its limit: between calls the file is what acknowledged saves make of it, unless saves overlapped or one failed | 3 items, limit 2, 4 saves, 2 faults: 1 146 000 states |
| `plugin` | three sessions, one of them a child, four idle events, a foreign session and a call that throws: each opening is sent once or lost to one failed call, handlers end | 762 000 states |
| `algorithms` | the pure algorithms on every small input | 1 143 000 calls |

Type invariants are theorems (section 4), not runs; the hand-off tool's is a part of its invariant.

**Bounds and why they are enough.** Two processes are what a lost update, a
stale load and a file replaced between the test and the move take; one claim that is
verified here and refuted there shows that both are kept; two weights and two values are what
"raised" and "rewritten" need, and one damage more than the quarantine holds makes
it overwrite its evidence. Four claims make chains of three links, one more than
the two walks promise to settle. Two sessions are what sharing takes; two token
levels beyond "unknown" make a session re-arm and be blocked again; one killed hook
(`MaxSlips`) repeats what was already done. `MaxTime` 2 or 3 puts a hand-off on either
side of the tolerance (see `Slack` above), and a rollover sooner and later than
`MinInterval`.

Three rounds put a value two rounds back, beyond what `Echo` sees; two runs are what
resuming takes; one location of a kind that is looked up and one that is not, of the first
one reading inside the header and one beyond it, which take each other's place on the sheet; one form
the sheet is asked about and one it is not. A window of two turns over sessions of two makes
a session's counters reach into the one before. Three processes for two goals let a goal come back after
another one's, one death being what makes the numbering of sessions start from an older
file. Four saves by two servers overlap, and are followed by two that do not; three items and a
list of two make a merge drop one; of two faults the second can hit the save that follows the first. Three sessions,
of which two roll over, can hold the variable at the same time; a foreign session is one
more that can take it.

The theorems hold for any values of these bounds, each of which is a constant named in its
module's header and stands only in guards. The widths of `algorithms` are constants as well,
so the theorems hold for those of the code. Its run scales them so that inputs reach beyond: varints carry
4 bits a byte and 9 in all, so a value of three bytes has bits the width cuts and one of four is too
long; words have 16 values and half words 4, so values cross the half; the memory is eight
cells with the stack pointer inside, so pushes run off its end; expressions are proved in 2 bits and evaluated on values beyond them, shifts beyond `ShiftMax`
included; a transcript of up to 6 bytes is read by its last 4; `instruction_at`
without a length reads 3 bytes of a program that may be longer; its six bytes are those that
tell the two decoders apart. Every comparison in the code with one of these
widths (`<`, `<=`, off by one) then has inputs on both sides.

**Fairness.** `FairSpec` assumes `WF(Hook(s))`: a turn ends sooner or later, the CLI
then starts the stop hook, and a hook that is not killed runs to its end; only
finitely many are killed (`MaxSlips`). Nothing is assumed about the user, the
model, or a second process. `LFairSpec` assumes `WF(LauncherNext)`: the launcher is
a running process whose sleeps end. That the CLI's turn ends is *not* assumed
there, and `NeverStranded` and `ReceiptDecided` do not need it. The plugin's `Spec`
assumes `WF(Handler(s))`: the server answers or refuses every call, the guard's
process ends (the plugin sets no limit on it, the CLI's own hooks do), and timers
fire. Nothing is assumed about the TUI, which may never act.

**Deadlock.** It is checked in the runs of the ledger and the guard. The others
really stop: a call of `verify_all` or of an algorithm returns, the launcher returns
after its last rollover, and the environments of the agent, the orchestrator, the
servers and the plugin start only so many runs, calls or turns.

## 4. Proofs

All proofs are checked by `tlapm` to the last leaf, from the assumptions named in
the modules (the constants are sets and numbers of the right kind) and nothing else.

**Ledger** (`LedgerProofs`):

- `TypeCorrect`, `ProvenanceTheorem`: `Provenance` is inductive together with `TypeOK`. The
  argument is that `Recorded` keeps a document grounded in what was heard
  (`RecordedGrounded`), that what was heard only grows (`HeardKeeps`), and that every other
  action copies whole documents about. Nothing is assumed of the verdicts.
- `WindowCorrect`: `UndisturbedWindow` is not inductive by itself: a
  quarantine opens a window on an absent file with the object as it is. `WindowInv`
  adds that a file that is not good holds nothing (`FileShape`) and that an object is
  empty until its file is loaded (`EmptyUntilLoaded`). `FreshWindowStep` shows that
  the window of another process survives a step only if the file did not change.
- `LossTheorem`: of a save the window says that it loses nothing unless it is stale. For the
  quarantine it takes `FailedOnBad`: a process that found the file unreadable stands before
  one that is not good, unless its window is stale. So a sound ledger is moved only by a
  process whose open failed or whose file was replaced, and then it is in quarantine, whole.
- `NothingLostAlone` assumes `Alone` (at most one process) and `OpenSucceeds`
  (`MaxErrors = 0`). `Sole` says that then a window is stale only over a damaged file, and
  that no process stands before a sound file it was refused.
- `Refinement`, for any number of processes: every step of the program is a step of
  `LedgerStore` or leaves it alone (`StoreStep`, on `Holds`, what the processes past
  their loading hold). `StartOver` maps the loads that end empty over a sound file; that the
  reliable store needs no such step is `Sole` again.

**Verification** (`VerificationProofs`), for every set of claim lists, any number of
walks, cycles and shared ids:

- `TypeCorrect`, `CauseTheorem`, `GroundedTheorem`. `InvalidatedWithCause` alone is
  not inductive: that the dependency found in the dictionary has fallen needs
  `TableFallen` (the dictionary calls fallen only what is in `Fallen`), and
  `GroundedTheorem` needs `OnlyInvalidates` (a verdict only ever changes to
  INVALIDATED). That the dictionary holds some result's verdict is `FirstTableFacts`,
  which rests on a finite list having a last position with a property
  (`LastPosition`, by well-foundedness of the naturals).
- `InOrderTheorem`, for lists whose dependencies come first. With unique ids the
  dictionary agrees with the list (`CoherentInv`), and the claims a walk has already
  visited stay settled (`OrderInv`), because what they rest on lies before them.
- `ShortChainsTheorem`, assuming `Passes >= 2`: the code's own "two passes settle
  short chains". `LinkInv` says that one walk takes down every claim that rests
  directly on a fallen one, so two walks take down two links in any order.

**Guard** (`RolloverProofs`). The properties compare numbers on disk with what
happened in all hooks so far, so none is inductive by itself: between two of its
steps a hook has done something its state file does not say yet. `GuardInv` is
`TypeOK` and, for every session, a set of *accounts* that bound the difference
by the step the hook is at:

- `Counted`, `BlockAccount`, `OpeningAccount`: blocks, counted rollovers and openings
  differ by what a running hook has yet to save (`CountedTheorem`,
  `BlocksOnceTheorem`, `OpeningTheorem`);
- `ReceiptAccount`, `SuccessorAccount`: a receipt or a successor that is not yet
  recorded is either the running hook's or is paid for by one that was killed
  (`ReceiptTheorem`, `SuccessorTheorem`);
- `Ahead`, `FreshAccount`: what a hook has decided from the hand-off it read stays
  true although other sessions rewrite the file, because hand-offs only get newer
  (`FreshTheorem`);
- `FurtherUp`: where the context was when the session was last blocked
  (`RearmedTheorem`).

An action of a session leaves every account of another session alone
(`OtherStep`), so each step is proved for its own session only. The theorems hold
for any number of sessions, sizes, clock and killed hooks.

**Launcher** (`RolloverProofs`). A step of the composition is a step of the
guard or of the launcher. For the guard's steps the lemmas above are reused;
`Counting` ties the launcher's `pc` to the number of the launch and of the rollovers
so far (`LTypeCorrect`). `LSafeInv` adds that every receipt on disk was written by the
launch whose number it bears, also after a rename or a removal that failed (`OwnReceiptTheorem`),
that the one in hand (`InHand`) was; that it was judged (`judged`) by the messages the harness
could tell until then, and later ones change nothing (`MessageTheorem`); and that what was
decided on the clock stays true while the clock goes on (`IntervalTheorem`).

**Grounding loop** (`AgentLoopProofs`). That a claim is credited once needs that what was
credited is known later: `Remembers` says that a run's ledger object holds all that
completed rounds recorded, which `CompletedRoundsSurvive` gives it at its start and every
later step keeps; `Counted` ties the tally to the facts, and `Fresh` says that what the
round at hand credits was not among them (`CreditedTheorem`). `Newest`, that the sheet is
what the object has observed, value by value, makes `ReadTheorem` a property of the one
step `Judge` (`ReadStep`): the only values credited are those the sheet has none of, has another
of, or is not asked for. `SurviveTheorem` is a conjunct of the same invariant.

**Orchestrator** (`OrchestratorProofs`). `Carried` says what the open session's hand-off is:
the file's items, if it is for the same goal, and what the session declared; `Recorded`,
that the ledger object is never ahead of its file (`CrashTheorem`). For `HistoryTheorem`,
`Unwritten` says that the numbers written are at most the file's count, which is less than
that of a session not yet in the history. Sessions are numbered over all processes; that the
numbers stay within the history is `Numbered`, with a limit (`Used`) that grows with
processes and sessions (`LimitGrows`). It assumes that the facts are finitely many.
`DriftTheorem` compares two sums over the window of the log: that a sum over a finite set is
a number is `SumDefined`; that it is at most twice another where each term is,
`SumAtMostTwice`. The invariant `CountedTwice` says that each term is, since a turn counts
no claim more than twice (`JudgeCounts`: once for passing and weighing nothing, once for being
known), and that a session that stopped for drift has a log that calls for it.

**Hand-off tool** (`HandoffToolProofs`). The property speaks of the file between calls.
`Calm` says what holds during them while nothing disturbs the file: one call at a time
(`OneAtATime`), what it will write is what `After` makes of the acknowledged saves and its own
update (`Complete`), nobody's text lies under its own (`Uncovered`), and until it
empties the file that is as the last save left it (`Untouched`). `SpoiltInv` is the
end of a disturbed spell: with the last call the file becomes what the next ones start from
(`LostTheorem`).

**Plugin** (`OpenCodePluginProofs`). For a session whose rollovers overlapped no other:
outside a rollover every opening is sent or lost (`Paid`) and the variable is not its own (`Rests`); while it
waits, the variable is its own and the opening due, or free and the opening sent or lost (`Waits`);
once it has given up waiting the opening is `Due` (`TakesOver`). `Alone` says that two sessions
that roll over together are in `clash`, so no other one writes the variable meanwhile
(`OpeningTheorem`). `Awake`, which the type theorem needs no less, says that a session that
is not busy has no handler.

**Algorithms** (`AlgorithmProofs`). `AskedInvariant` says that an algorithm is only called
with its inputs; each theorem is then one about every input, of any length or size. What
the theorems compare (a run of both processors, a number as it is spelled) is in `AlgorithmRelations`.

*Induction over data.* The library's induction theorems take an operator as a parameter, which
no prover here instantiates. Instead the numbers for which a fact holds are collected in a *set*, and
`Least` (a non-empty set of numbers has a least element, by well-foundedness) gives
`Induction`, `InductionUpto` and `StrongInduction` over sets. A recursive function is first
shown to exist: `Iteration` builds a sequence of values step by step, `Recursion` a
function on anything that has a depth, given that its body asks only for what is less
deep. From then on the definition is an equation.

- `ViewsTheorem`. "Fewer than *k* newer ones" picks exactly the *k* newest because counting
  those above (`Rank`) or below (`Place`) is a bijection onto an interval. A merge:
  `RememberedAll` describes the list before the cut, `LastOfIs` the cut. A context's budget
  is the loop invariant `Filled` of `context_for_directory`.
- `SettingsTheorem`. Filtering keeps the order entry by entry; what each CLI's install and
  uninstall leave under an event is such a filter with an entry of ours added or not.
- `TranscriptTheorem`. The bytes of a tail grow with each line (`SizeFrom`), so that the lines
  read are an end of the transcript; first and last matches in it are then those of the whole
  transcript, where it has one there.
- `SemanticsTheorem`. The function that contains an address is the one with the last block
  before it (`LastBlock`, `ContainingIs`); the functions reached by repeated steps are the
  least set closed under calls (`DescendantsAre`). Of a program nothing is assumed about how exports and
  functions go together; `ExportsAre` says what the table knows, `FallbackFits`
  that the fallback's answers are the engine's on the addresses where the two agree.
- `BytesTheorem`. The two translations invert each other where sections are loaded and do
  not overlap in the file; the search misses a match only behind one it overlaps
  (`ScanFinds`); the decoders run in step (`Alike`) until the first instruction only
  one of them knows (`Parted`). The built-in decoder's listing is capstone's renamed
  (`RespelledIs`), and two listings are renamed alike only if they are alike
  (`TranslatesAlike`): it fits a claim in its own words (`OwnWordsFit`, `PureAgrees`) and none in
  words only capstone has (`ForeignWordsNeverFit`). `InfoIs`, `TablesHold` and `QueriesAre` do the same
  for tables as lief or the built-in parser gives them.
- `EmulatorTheorem`. The instruction pointer is the number of steps plus one until a run ends,
  so it ends; `Mirrors` says that the emulator's registers and stack are the processor's,
  and `Lockstep` that a step keeps them so, as long as no value reaches half a word (`HalfSum`).
- `EquivalenceTheorem`. Values, bits, divisions and shifts of an expression are each defined by
  recursion on its depth. `ValuesAgree`: the integer computed by Python and the bit-vector are
  the same modulo 2^`Bits` for every operator that wraps, and for right shifts of what
  is within a word; a test and a proof are then about the same numbers.
- `ProtocolTheorem`. `EncodedIs` gives the shape of an encoding: as many groups as the number needs,
  all but the last marked. From it `DecodeEncoded`, `DecodePrefix` and `DecodePadded`. The
  dissector recurs on shorter payloads (`NodeLocal`, `TreeIs`); a whole record gives
  one entry (`TreeRecord`), a cut one at most its field or an error (`TreeCut`), and
  a payload what its records give (`Piled`, by induction on how many of the last records there are).
  `JudgedByIs` reads a verdict off such a tree, `MatchesHas` when an entry is what a claim says, be it
  a number or its spelling.

**Only model-checked.** Liveness under fairness (`AlwaysReleased`, `NeverStranded`,
`ReceiptDecided`, `HandlersEnd`) is out of the provers' reach; `launcher_message` is a
counterexample. Every other property of a run is a theorem.

## 5. Where the code and its documentation disagree

Each of these is shown by a counterexample (`launcher_message`) or was met as one: the property
of the passing run named here states what holds of the code, and leaves out exactly this case.
The lines quoted are in `PROJECT.json`.

- **Lost update** (`ledger_shared`, `LossAccounted`). `save` (`ledger.py:358`) writes the
  whole in-memory document without a lock or a merge. `README.md:191-193` of the
  repository promises that a new process resumes from the same grounded position;
  of two processes that loaded the same ledger, the later save drops what the
  other recorded. `LossTheorem` says which other ways there are.
- **Facts that are known false** (`ledger_shared`, `Provenance`). `record` (`ledger.py:466`) never compares
  facts with refutations. A claim that a process with lief or angr verified and one without
  refuted is kept as both, and the model is told that facts are safe to build on and
  refuted claims are known false (`:74-75`).
- **Two successors** (`guard_killed`, `SuccessorsAccounted`). `claude --bg` may take 90 seconds
  (`rollover_harness.py:1046`), the hook has 20 (`:989`), and the successor is
  recorded only after it started. A killed hook leaves the session blocked, and the
  next stop starts another one; the test at `test_rollover_harness.py:519` expects one.
- **A request that does nothing** (`guard_killed`, `BlocksOnce`). `run_guard` removes the request
  before it looks at a pending hand-off; if that one is rejected, the stop is allowed
  and the request is gone, though `run_request` said "it happens when this turn ends".
- **Another session's hand-off** (`guard_shared`, `ReceiptIsFresh`). The sessions of one project
  share the path and the check looks at the time only, so a session that wrote
  nothing can get a receipt for another's hand-off.
- **A message that cancels nothing** (`launcher_message`). After
  `_consume_reason` nothing looks for messages again, and terminating takes up to
  several seconds; the class promises that "a user message that lands after the
  hand-off cancels that rollover". Nor does a message count that the harness cannot tell: any in
  OpenCode, one that Codex only notes as an event, one that starts with `<`.
- **Echoes of older rounds** (`agent`, `ReadNeverCredited`). The rules in the prompt say that a
  copy of a tool's value scores zero (`agent.py:95`, `:101`). The loop compares with what the
  last round showed last, and with the one value the fact sheet keeps per kind and file offset: a
  value shown two rounds ago is credited when it is claimed by address, when it is an emulation's, or when
  the location was read again at another length.
- **A fact spelled otherwise** (`agent`, `CreditedOnce`). A claim is known by its parameters as written
  (`verifier.py:1055`), so a fact is credited again with the offset 40 for 0x28; `README.md:200`
  says that a claim already in the ledger scores zero.
- **What counts as drift** (`orchestrator`, `DriftBarren`). All that passes and weighs nothing counts as
  trivial, bytes that are not in the file included, and a known claim counts once more
  (`rollover.py:476`); a session can roll over at half the ratio its class names for
  restatements (`:302-303`).
- **One variable for all openings** (`plugin`, `OpeningSentOnce`). Of two rollovers that overlap, one
  opening is overwritten and the other may be sent twice (`reverify-rollover.js:71`).
- **An opening lost to a failed call** (`plugin`, `OpeningSentOnce`). It is taken out of the variable before the
  call that sends it (`reverify-rollover.js:100`), so if that one fails nobody creates the successor,
  which is what the wait is for (`:76-77`).
- **Pinned facts page out** (`algorithms`, `ViewsKeepWhatCounts`). With more pinned facts than the view has
  lines only the newest show (`ledger.py:499`); the docstring says they never page out (`:494`).
- **Uninstall takes the user's own settings** (`algorithms`, `SettingsReversible`). It removes the
  switch off, the compaction line or the threshold of 2 whoever set them, and a hook entry in
  which a command of the user's stands beside ours. Installing with compaction off drops the user's
  `autoCompactWindow` and `precomputeCompactionEnabled` (`rollover_harness.py:1071-1072`), and for Codex turns the hooks on;
  neither comes back. `README.md:305` says what install touches is reversible.
- **Overlapping matches** (`algorithms`, `BytesJudgedTruly`). `re.finditer` (`disasm.py:201`) skips a
  match that overlaps the one before, so a pattern that is at an offset is refuted there.
- **Operands in mode contains** (`algorithms`, `BytesJudgedTruly`). They are compared with those of the
  first instructions, whichever ones matched (`verifier.py:487`).
- **The built-in decoder's own spelling** (`algorithms`, `BytesJudgedTruly`). It writes `jz` for `je`, `mov` for
  `movabs`, 0x5 for 5 (`disasm.py:27-28`, `:162`, `:183-185`), compared as text (`verifier.py:447-494`): a claim
  true with capstone is refuted without it, where `test_oracle.py:94` wants them to agree.
- **The fallback guesses** (`algorithms`, `SemanticsConsistent`). Without the engine every export is the start
  of a function, exported data too; of two names of one address the first is kept
  (`semantic.py:217`); and the entry point is called "entry" (`:216`). So true claims are refuted and
  false ones verified, though the module promises INCONCLUSIVE for all but what is certain.
- **A refutation without a witness** (`algorithms`, `EquivalenceConsistent`). A candidate that has no value
  on an input is refuted (`behavior.py:254`), and unbounded integers tell apart what
  bit-vectors prove equal.
- **Codex's own notice of a message** (`algorithms`, `TranscriptsRead`). The filter at
  `rollover_harness.py:423` drops the lines its branch at `:416` is for, so a message that
  only such a line records neither calls off a rollover nor is quoted.

Seen on the way and kept in the models, without a promise they break: a second quarantine replaces the
evidence of the first; an `OSError` on a sound ledger quarantines it; two passes do
not settle chains of three links listed in reverse (the report is still not
grounded, `GroundedTheorem`); the anchors are read before the receipt's time is
taken; without lief, claims about the tables of an ELF file are refuted, since only its
header is read; with it, imports of ELF and Mach-O are listed under `"*"`, which so passes for
a library (`ImageClaims`); an instruction claim whose length cuts an instruction is judged by the bytes
left; a save of `re_checkpoint` that is killed or raises, and a read that raises, make a save
start anew; removing or renaming a receipt and moving a ledger into quarantine may fail, and
the code goes on as if they had not; two sessions that find one request are both blocked;
import descriptors of one library overwrite each other, and imports by ordinal are dropped
(`binary.py:179-180`).

## 6. What is not modelled

- *The analysis engines outside the repository*: angr, lief, capstone, Unicorn, Z3, the C
  compiler. Where a check asks one of them the models take its answer for what it is asked:
  the program's graph, its tables, its instructions, the value the code returns.
- *Parsing of headers* (`pe_parser.py`, `binary.py`): whether headers parse and what tables
  they give is an input of `ImageClaims`, as are the segments of `ByteClaims`.
- *The weight table* (`base_weight`, rarity and entropy): numbers; `Verification` takes base
  weights as a constant.
- *Subprocesses and the network* (`sandbox.py`, `frida_bridge.py`, `backends.py`): process
  isolation and I/O, nothing a state machine shows.
- *The boundary auditor*: regular expressions over source text; a model would be the list
  of its patterns.
- *Parsing and wording* (command line, JSON-RPC, claim syntax, prompts, briefs): the models
  take the parsed value.
- *Two orchestrators of one goal at a time*: they would number their sessions alike and overwrite each other's
  checkpoint and history; `Orchestrator` runs one process after another (section 7).
- *Status and doctor*: they only print. *Instructions* of the installer: text in a file.

## 7. Plan

The modules of section 2 were written in the order of what matters most: the ledger, the
report, the guard, the launcher; then the grounding loop, the orchestrator and the hand-off
tool with the files they keep; the plugin; last the algorithms. The
proofs are complete for the properties of the runs but for liveness. What could follow, in this order:

1. The agents of several processes over one ledger file: `AgentLoop` with the file of
   `Ledger` under it, so that a lost update shows as a claim credited twice.
2. An abstract hand-off that `Orchestrator` and `HandoffTool` both implement: what a goal's
   sessions declared, less what a crash or an overlap may take.
3. Two orchestrators of one goal, and the orchestrator's checkpoint while `re_checkpoint` writes
   the same file.
4. `base_weight` as a function, and that no claim a bounded search can guess weighs enough.
5. Header parsing of PE files at the limits of its fields.

Each brings its own theorems. Of the liveness properties, the part that is safety could be proved:
that a hook or a handler that is not at rest always has a step, and that a rank falls with it.
