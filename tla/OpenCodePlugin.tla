--------------------------- MODULE OpenCodePlugin ---------------------------
(***************************************************************************)
(* The OpenCode plugin (reverify/plugins/opencode/reverify-rollover.js).    *)
(* When a session becomes idle it asks the guard; told to roll over, it     *)
(* puts the opening into one variable, asks the TUI for a new session, and  *)
(* waits three seconds for the session.created handler to take it; then it  *)
(* creates the session itself.  Every await lets other handlers run, and    *)
(* all sessions share the variable.                                         *)
(***************************************************************************)
EXTENDS Naturals, FiniteSets

CONSTANTS Session,     \* sessions that become idle
          Child,       \* those with a parent
          None,
          MaxIdles,    \* bounds of the model
          MaxForeign,
          MaxFailures

ASSUME ChildAssumption == Child \subseteq Session /\ None \notin Session
ASSUME BoundAssumption == MaxIdles \in Nat /\ MaxForeign \in Nat /\ MaxFailures \in Nat

VARIABLES
  at,         \* at[s]: what the idle handler of s awaits, "no" without one
  pass,       \* pass[s]: its pass over the guard
  busy,
  asked,      \* sessions whose next stop answers a prompt of the guard
  opening,    \* openingForNewSession: the session it was written for
  commands,   \* session_new commands a TUI has still to act on
  events,     \* session.created events still to be handled
  sent,       \* sent[s]: times an opening of s was sent to some session
  rolled,     \* rolled[s]: rollovers of s
  lost,       \* lost[s]: those whose opening a failed call took with it
  clash,      \* sessions whose rollovers overlapped another's
  idles, foreign, failures

script == <<at, pass, busy, asked, opening>>
outside == <<commands, events>>
tally == <<sent, rolled, lost, clash>>
bounds == <<idles, foreign, failures>>
vars == <<script, outside, tally, bounds>>

Rolling == {"command", "poll", "create", "send"}
Awaits == {"no", "get", "guard", "prompt"} \union Rolling

TypeOK ==
  /\ at \in [Session -> Awaits]
  /\ pass \in [Session -> 0..2]
  /\ busy \subseteq Session /\ asked \subseteq Session
  /\ opening \in Session \union {None}
  /\ commands \in Nat /\ events \in Nat
  /\ sent \in [Session -> Nat] /\ rolled \in [Session -> Nat] /\ lost \in [Session -> Nat]
  /\ clash \subseteq Session
  /\ idles \in 0..MaxIdles /\ foreign \in 0..MaxForeign /\ failures \in 0..MaxFailures

Init ==
  /\ at = [s \in Session |-> "no"] /\ pass = [s \in Session |-> 0]
  /\ busy = {} /\ asked = {} /\ opening = None
  /\ commands = 0 /\ events = 0
  /\ sent = [s \in Session |-> 0] /\ rolled = [s \in Session |-> 0]
  /\ lost = [s \in Session |-> 0] /\ clash = {}
  /\ idles = 0 /\ foreign = 0 /\ failures = 0

-----------------------------------------------------------------------------
(***************************************************************************)
(* The session.idle handler.                                                *)
(***************************************************************************)
Goes(s, to) == at' = [at EXCEPT ![s] = to]

\* finally: the handler is over, whether it returned or threw
Ends(s) == Goes(s, "no") /\ busy' = busy \ {s} /\ pass' = [pass EXCEPT ![s] = 0]

Idle(s) ==
  /\ idles < MaxIdles
  /\ idles' = idles + 1
  /\ s \notin busy
  /\ busy' = busy \union {s}
  /\ Goes(s, "get")
  /\ UNCHANGED <<pass, asked, opening, outside, tally, foreign, failures>>

\* session.get answers; a child session is left alone
Got(s) ==
  /\ at[s] = "get"
  /\ IF s \in Child THEN Ends(s)
                    ELSE Goes(s, "guard") /\ pass' = [pass EXCEPT ![s] = 1] /\ UNCHANGED busy
  /\ UNCHANGED <<asked, opening, outside, tally, bounds>>

\* The guard has nothing to say, or could not be run.
GuardAllows(s) ==
  /\ at[s] = "guard"
  /\ asked' = asked \ {s}
  /\ Ends(s)
  /\ UNCHANGED <<opening, outside, tally, bounds>>

\* The guard asks for a hand-off: the prompt is awaited until its turn ends.
GuardAsks(s) ==
  /\ at[s] = "guard"
  /\ asked' = asked \union {s}
  /\ Goes(s, "prompt")
  /\ UNCHANGED <<pass, busy, opening, outside, tally, bounds>>

\* Mutant: the guard is asked as often as it answers with a prompt.
PromptedAgain(s) ==
  /\ at[s] = "prompt"
  /\ Goes(s, "guard") /\ pass' = [pass EXCEPT ![s] = 2]
  /\ UNCHANGED <<busy, asked, opening, outside, tally, bounds>>

\* The turn is over; the guard is asked again, but only once.
Prompted(s) ==
  /\ at[s] = "prompt"
  /\ IF pass[s] = 1 THEN Goes(s, "guard") /\ pass' = [pass EXCEPT ![s] = 2] /\ UNCHANGED busy
                    ELSE Ends(s)
  /\ UNCHANGED <<asked, opening, outside, tally, bounds>>

\* The guard issues the receipt, perhaps for a prompt from before a restart:
\* the opening is set, the TUI is called.
GuardReceipt(s) ==
  /\ at[s] = "guard"
  /\ asked' = asked \ {s}
  /\ opening' = s
  /\ Goes(s, "command")
  /\ rolled' = [rolled EXCEPT ![s] = @ + 1]
  /\ LET others == {r \in Session \ {s} : at[r] \in Rolling}
     IN  clash' = IF others = {} THEN clash ELSE clash \union others \union {s}
  /\ UNCHANGED <<pass, busy, outside, sent, lost, bounds>>

\* executeCommand answers, or throws; a TUI, if there is one, acts later.
Commanded(s) ==
  /\ at[s] = "command"
  /\ Goes(s, "poll")
  /\ commands' \in {commands, commands + 1}
  /\ UNCHANGED <<pass, busy, asked, opening, events, tally, bounds>>

\* The poll finds the opening gone: somebody sent it.
Taken(s) ==
  /\ at[s] = "poll" /\ opening = None
  /\ Ends(s)
  /\ UNCHANGED <<asked, opening, outside, tally, bounds>>

\* Mutant: the opening stays set when the wait is over.
GaveUpKeeping(s) ==
  /\ at[s] = "poll" /\ opening # None
  /\ Goes(s, "create")
  /\ UNCHANGED <<pass, busy, asked, opening, outside, tally, bounds>>

\* Three seconds are over and an opening is still set.
GaveUp(s) ==
  /\ at[s] = "poll" /\ opening # None
  /\ opening' = None
  /\ Goes(s, "create")
  /\ UNCHANGED <<pass, busy, asked, outside, tally, bounds>>

\* The plugin's own session is created, with an event for it.
Create(s) ==
  /\ at[s] = "create"
  /\ events' = events + 1
  /\ Goes(s, "send")
  /\ UNCHANGED <<pass, busy, asked, opening, commands, tally, bounds>>

\* It is sent the opening this handler was given.
Send(s) ==
  /\ at[s] = "send"
  /\ sent' = [sent EXCEPT ![s] = @ + 1]
  /\ Ends(s)
  /\ UNCHANGED <<asked, opening, outside, rolled, lost, clash, bounds>>

Fails == failures < MaxFailures /\ failures' = failures + 1

\* An awaited call throws and the handler ends; so does the rollover, if the
\* session could not be created or prompted.  executeCommand's own catch hides
\* its errors.
Throw(s) ==
  /\ at[s] \in {"get", "guard", "prompt", "create", "send"}
  /\ Fails
  /\ lost' = [lost EXCEPT ![s] = @ + IF at[s] \in Rolling THEN 1 ELSE 0]
  /\ Ends(s)
  /\ UNCHANGED <<asked, opening, outside, sent, rolled, clash, idles, foreign>>

-----------------------------------------------------------------------------
(***************************************************************************)
(* session.created: the handler sends a set opening to whatever root        *)
(* session comes first.                                                     *)
(***************************************************************************)
TuiCreates ==
  /\ commands > 0
  /\ commands' = commands - 1
  /\ events' = events + 1
  /\ UNCHANGED <<script, tally, bounds>>

UserCreates ==
  /\ foreign < MaxForeign
  /\ foreign' = foreign + 1
  /\ events' = events + 1
  /\ UNCHANGED <<script, commands, tally, idles, failures>>

\* The variable is cleared before the prompt is awaited.
Created ==
  /\ events > 0
  /\ events' = events - 1
  /\ opening' = None
  /\ sent' = IF opening = None THEN sent ELSE [sent EXCEPT ![opening] = @ + 1]
  /\ UNCHANGED <<at, pass, busy, asked, commands, rolled, lost, clash, bounds>>

\* The prompt throws: the opening is gone, and whoever polls takes it for sent.
CreatedThrows ==
  /\ events > 0 /\ opening # None
  /\ Fails
  /\ events' = events - 1
  /\ opening' = None
  /\ lost' = [lost EXCEPT ![opening] = @ + 1]
  /\ UNCHANGED <<at, pass, busy, asked, commands, sent, rolled, clash, idles, foreign>>

Handler(s) == \/ Got(s) \/ GuardAllows(s) \/ GuardAsks(s) \/ GuardReceipt(s) \/ Prompted(s)
              \/ Commanded(s) \/ Taken(s) \/ GaveUp(s) \/ Create(s) \/ Send(s) \/ Throw(s)

Next == (\E s \in Session : Idle(s) \/ Handler(s)) \/ TuiCreates \/ UserCreates
        \/ Created \/ CreatedThrows

\* The server answers every call, and the guard's process ends.
Spec == Init /\ [][Next]_vars /\ \A s \in Session : WF_vars(Handler(s))

-----------------------------------------------------------------------------
(***************************************************************************)
(* Every rollover sends its opening to one session exactly, whether a TUI   *)
(* acts on the command, late or never, and whoever else creates sessions,   *)
(* unless another session rolls over at the same time, or the one call that *)
(* creates the session or prompts it throws: the opening was taken out of   *)
(* the variable before that call, nobody retries it, and the idle handler   *)
(* cannot tell a lost opening from a sent one (reverify-rollover.js:93-102, *)
(* 143).  Rollovers that overlap share the variable: the opening of one may *)
(* be sent twice and that of the other never.                               *)
(***************************************************************************)
OpeningSentOnce ==
  \A s \in Session \ clash :
    at[s] \notin Rolling => sent[s] + lost[s] = rolled[s]

(***************************************************************************)
(* A handler ends, so that the session is not busy for ever.                *)
(***************************************************************************)
HandlersEnd == \A s \in Session : s \in busy ~> s \notin busy

=============================================================================
