---------------------------- MODULE HookInstall -----------------------------
(***************************************************************************)
(* reverify rollover install / uninstall on the settings of a coding CLI    *)
(* (the Harness classes of reverify/rollover_harness.py), as functions from *)
(* settings to settings.                                                    *)
(*                                                                          *)
(* An entry of a hook event is the set of those who own a command in it;    *)
(* the empty set is an entry that is no object.  The switch that turns the  *)
(* CLI's own compaction off is, in turn, autoCompactEnabled (claude), the   *)
(* token limit line of config.toml (codex), model.compressionThreshold      *)
(* (gemini) and compaction.auto (opencode).                                 *)
(***************************************************************************)
EXTENDS Naturals, Sequences

Cli == {"claude", "codex", "gemini", "opencode"}
Entry == SUBSET {"us", "user"}

\* The events install registers; opencode takes a plugin file instead.
Events(cli) ==
  CASE cli = "gemini"   -> {"stop", "start", "before"}
    [] cli = "opencode" -> {}
    [] OTHER            -> {"stop", "start"}

\* What install writes into the switch.  Codex's line carries a comment that
\* names reverify; the other values are ones a user may have written.
Mark(cli) == IF cli = "codex" THEN "tagged" ELSE "off"
Switch(cli) == {"none", "kept", Mark(cli)}

\* What the files of a CLI may hold, with these events and entry lists.
\* keys: env of claude's settings; tuning: its autoCompactWindow and
\* precomputeCompactionEnabled; plugin: opencode's file; feature: codex's
\* [features] hooks line
Settings(cli, event, lists) ==
  [hooks : [event -> lists],
   switch : Switch(cli),
   keys : IF cli = "claude" THEN SUBSET {"tokens", "other"} ELSE {{}},
   tuning : IF cli = "claude" THEN SUBSET {"window", "precompute"} ELSE {{}},
   plugin : IF cli = "opencode" THEN BOOLEAN ELSE {FALSE},
   feature : IF cli = "codex" THEN {"none", "true", "false"} ELSE {"none"}]

-----------------------------------------------------------------------------
\* The entries that belong to a set, in their order.
Only(entries, set) ==
  LET kept[i \in 0..Len(entries)] ==
        IF i = 0 THEN <<>>
        ELSE IF entries[i] \in set THEN Append(kept[i-1], entries[i]) ELSE kept[i-1]
  IN  kept[Len(entries)]

\* Mutant: an entry is ours only when every command in it is.
IsOursWholly(entry) == entry = {"us"}

\* _is_ours: any command of the entry carries one of our markers
IsOurs(entry) == "us" \in entry

\* entries that are no object are dropped with ours
NotOurs(entries) == Only(entries, {e \in Entry : e # {} /\ ~ IsOurs(e)})

\* _merge_hooks: in the events we register, ours last
MergeHooks(hooks, events) ==
  [e \in DOMAIN hooks |->
     IF e \in events THEN Append(NotOurs(hooks[e]), {"us"}) ELSE hooks[e]]

\* _strip_hooks: in every event
StripHooks(hooks) == [e \in DOMAIN hooks |-> NotOurs(hooks[e])]

\* install(threshold, step, disable_autocompact): what it writes for every
\* CLI.  Claude's thresholds go into its environment, the others' are read
\* from the shell's; OpenCode gets a plugin and no hooks.
ClaudeInstall(s, threshold, disable) ==
  [s EXCEPT !.hooks = MergeHooks(@, Events("claude")),
            !.switch = IF disable THEN Mark("claude") ELSE @,
            !.tuning = IF disable THEN {} ELSE @,
            !.keys = IF threshold THEN @ \union {"tokens"} ELSE @]

CodexInstall(s, disable) ==
  [s EXCEPT !.hooks = MergeHooks(@, Events("codex")),
            !.switch = IF disable THEN Mark("codex") ELSE @,
            !.feature = "true"]

GeminiInstall(s, disable) ==
  [s EXCEPT !.hooks = MergeHooks(@, Events("gemini")),
            !.switch = IF disable THEN Mark("gemini") ELSE @]

OpenCodeInstall(s, disable) ==
  [s EXCEPT !.switch = IF disable THEN Mark("opencode") ELSE @,
            !.plugin = TRUE]

Install(cli, s, threshold, disable) ==
  CASE cli = "claude" -> ClaudeInstall(s, threshold, disable)
    [] cli = "codex" -> CodexInstall(s, disable)
    [] cli = "gemini" -> GeminiInstall(s, disable)
    [] OTHER -> OpenCodeInstall(s, disable)

\* uninstall: a switch that holds the value install writes goes, whoever
\* wrote it; codex's feature line stays as it is.
Unswitched(cli, switch) == IF switch = Mark(cli) THEN "none" ELSE switch

ClaudeUninstall(s) ==
  [s EXCEPT !.hooks = StripHooks(@), !.switch = Unswitched("claude", @), !.keys = @ \ {"tokens"}]

CodexUninstall(s) ==
  [s EXCEPT !.hooks = StripHooks(@), !.switch = Unswitched("codex", @)]

GeminiUninstall(s) ==
  [s EXCEPT !.hooks = StripHooks(@), !.switch = Unswitched("gemini", @)]

OpenCodeUninstall(s) ==
  [s EXCEPT !.plugin = FALSE, !.switch = Unswitched("opencode", @)]

Uninstall(cli, s) ==
  CASE cli = "claude" -> ClaudeUninstall(s)
    [] cli = "codex" -> CodexUninstall(s)
    [] cli = "gemini" -> GeminiUninstall(s)
    [] OTHER -> OpenCodeUninstall(s)

-----------------------------------------------------------------------------
Users(entries) == Only(entries, {{"user"}})
OursIn(entries) == Len(Only(entries, {e \in Entry : "us" \in e}))

(***************************************************************************)
(* Installing twice is installing once, whatever an earlier version, the    *)
(* user or another tool left in the file: one entry of ours runs per event. *)
(* Uninstalling leaves none running, even when the hooks were edited or     *)
(* moved to other events in between.  Neither touches or reorders an entry  *)
(* that is the user's alone.  What does not come back, though the README    *)
(* calls all of it reversible (README.md:305): a command of theirs that     *)
(* shares an entry with ours, a compaction setting the user had, claude's   *)
(* two tuning settings, and codex's hooks turned off.                       *)
(***************************************************************************)
HooksReversible(cli, s, threshold, disable) ==
  LET in == Install(cli, s, threshold, disable)
      out == Uninstall(cli, in)
      clean == s.hooks = [e \in DOMAIN s.hooks |-> Users(s.hooks[e])]
  IN  /\ Install(cli, in, threshold, disable) = in
      /\ \A e \in DOMAIN s.hooks :
           /\ Users(in.hooks[e]) = Users(s.hooks[e])
           /\ Users(out.hooks[e]) = Users(s.hooks[e])
           /\ e \in Events(cli) => OursIn(in.hooks[e]) = 1
           /\ cli # "opencode" => OursIn(out.hooks[e]) = 0
      /\ ~ out.plugin
      /\ clean => out.hooks = s.hooks
      /\ out.keys = s.keys \ {"tokens"}
      /\ out.switch = s.switch <=>
           \/ s.switch = "none"
           \/ s.switch = "kept" /\ ~ disable
      /\ out.tuning = s.tuning <=> s.tuning = {} \/ ~ disable
      /\ out.feature = s.feature <=> cli # "codex" \/ s.feature = "true"
=============================================================================
