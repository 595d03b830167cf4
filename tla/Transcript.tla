----------------------------- MODULE Transcript -----------------------------
(***************************************************************************)
(* What the guard and the launcher read out of a session's transcript: the  *)
(* context's size, whether the user has spoken since a hand-off, and the    *)
(* user messages it quotes (reverify/rollover_harness.py, and collect in    *)
(* plugins/opencode/reverify-rollover.js).                                  *)
(*                                                                          *)
(* A transcript is the list of its lines, oldest first.  A line is [kind,   *)
(* tokens, at, size, whole]: "usage" is the model's turn with its token     *)
(* count, "side" the turn of a sub-agent, "human" a message the user typed, *)
(* "angled" one that begins with "<", "event" Codex's own notice of one,    *)
(* "injected" any other line of the user's side (a tool result, a command   *)
(* echo, a sub-agent's order, a <tag> block); whole is FALSE for a line     *)
(* that does not parse.                                                     *)
(***************************************************************************)
EXTENDS Integers, Sequences

CONSTANTS TailBytes,    \* how much of the end of a long transcript is read
          NoTime        \* the time of a line without a stamp
ASSUME TailAssumption == TailBytes \in Nat /\ NoTime \in Int

Reader == {"claude", "codex", "gemini", "opencode"}

Line == [kind : {"usage", "side", "human", "angled", "event", "injected"}, tokens : Nat, at : Int,
         size : Nat, whole : BOOLEAN]

\* The bytes from line i to the end.
SizeFrom(lines, i) ==
  LET size[j \in 0..Len(lines)] ==
        IF j = 0 THEN 0 ELSE size[j - 1] + lines[Len(lines) - j + 1].size
  IN  size[Len(lines) - i + 1]

\* The positions of the lines read: all of a short transcript; of a long one
\* those that start after the first byte of its last TailBytes.
TailOf(lines) ==
  IF SizeFrom(lines, 1) <= TailBytes THEN DOMAIN lines
  ELSE {i \in DOMAIN lines : SizeFrom(lines, i) < TailBytes}

\* The token count comes from the newest line that has one, not a
\* sub-agent's; a count of zero is passed over.
Usages(lines, S) == {i \in S : lines[i].whole /\ lines[i].kind = "usage" /\ lines[i].tokens > 0}

Latest(S) == CHOOSE i \in S : \A j \in S : j <= i
Earliest(S) == CHOOSE i \in S : \A j \in S : i <= j

NoTokens == -1

\* Claude Code: the tail, then the whole file.
ClaudeTokens(lines) ==
  IF Usages(lines, TailOf(lines)) # {} THEN lines[Latest(Usages(lines, TailOf(lines)))].tokens
  ELSE IF Usages(lines, DOMAIN lines) # {} THEN lines[Latest(Usages(lines, DOMAIN lines))].tokens
  ELSE NoTokens

\* Codex and Gemini: the tail only.
CodexTokens(lines) ==
  IF Usages(lines, TailOf(lines)) # {} THEN lines[Latest(Usages(lines, TailOf(lines)))].tokens
  ELSE NoTokens
GeminiTokens(lines) == CodexTokens(lines)

\* OpenCode's database is read whole; its last count is taken, zero or not,
\* and its sub-agents have sessions of their own.
OpenCodeTokens(lines) ==
  LET counted == {i \in DOMAIN lines : lines[i].whole /\ lines[i].kind = "usage"}
  IN  IF counted = {} THEN NoTokens ELSE lines[Latest(counted)].tokens

Tokens(cli, lines) ==
  CASE cli = "claude" -> ClaudeTokens(lines)
    [] cli = "codex" -> CodexTokens(lines)
    [] cli = "gemini" -> GeminiTokens(lines)
    [] OTHER -> OpenCodeTokens(lines)

-----------------------------------------------------------------------------
\* The lines that hold the bytes "user" in quotes and parse: only these are
\* handed to an extractor.  A Codex event names its type user_message.
Readable(line) == line.whole /\ line.kind \in {"human", "angled", "injected"}

\* The extractors: Claude's _human_text and Gemini's take messages, Codex's
\* takes events as well.  None takes a text that begins with "<", the mark of
\* an injected block.
HumanText(line) == line.kind = "human"
CodexUserText(line) == line.kind \in {"human", "event"}
Extracts(cli, line) == IF cli = "codex" THEN CodexUserText(line) ELSE HumanText(line)

\* Mutant: a line without a stamp ends the search.
MessageAfterStopping(cli, lines, since) ==
  LET read == {i \in TailOf(lines) : Readable(lines[i])}
      stale == {i \in read : lines[i].at = NoTime \/ lines[i].at < since}
  IN  \E i \in read : /\ \A j \in stale : j < i
                      /\ Extracts(cli, lines[i])

\* _message_after: newest first through the tail, past lines without a
\* stamp, up to the first one stamped before since.
MessageAfter(cli, lines, since) ==
  LET read == {i \in TailOf(lines) : Readable(lines[i]) /\ lines[i].at # NoTime}
      stale == {i \in read : lines[i].at < since}
  IN  \E i \in read : /\ \A j \in stale : j < i
                      /\ Extracts(cli, lines[i])

\* OpenCode's launcher does not look.
UserMessageAfter(cli, lines, since) == cli # "opencode" /\ MessageAfter(cli, lines, since)

\* The first and the latest user message of the whole transcript (0: none).
Quotable(cli, lines) ==
  {i \in DOMAIN lines : Readable(lines[i]) /\ Extracts(cli, lines[i])}
FirstAnchor(cli, lines) == IF Quotable(cli, lines) = {} THEN 0 ELSE Earliest(Quotable(cli, lines))
LastAnchor(cli, lines) == IF Quotable(cli, lines) = {} THEN 0 ELSE Latest(Quotable(cli, lines))

-----------------------------------------------------------------------------
Spoken(lines, since) == {i \in DOMAIN lines : /\ lines[i].kind \in {"human", "angled", "event"}
                                              /\ lines[i].at # NoTime /\ lines[i].at >= since}
Ordered(lines) == \A i, j \in DOMAIN lines :
                    i < j /\ lines[i].at # NoTime /\ lines[j].at # NoTime => lines[i].at <= lines[j].at

(***************************************************************************)
(* A pending launch is called off only when the user did speak, and then    *)
(* the hand-off quotes something at least as new; where lines are in order  *)
(* of time, a word is missed only by OpenCode, beyond the tail, in a line   *)
(* that did not parse, as a Codex event, or because it begins with "<"      *)
(* (rollover_harness.py:204-209).                                           *)
(***************************************************************************)
WordsHeard(cli, lines, since) ==
  LET heard == UserMessageAfter(cli, lines, since)
  IN  /\ heard => /\ Spoken(lines, since) # {}
                  /\ \E i \in Spoken(lines, since) : i <= LastAnchor(cli, lines)
      /\ Ordered(lines) /\ ~heard =>
           \A i \in Spoken(lines, since) :
             \/ cli = "opencode" \/ i \notin TailOf(lines) \/ ~lines[i].whole
             \/ lines[i].kind \in {"angled", "event"}
      /\ FirstAnchor(cli, lines) <= LastAnchor(cli, lines)

(***************************************************************************)
(* The count is never an older one than the newest complete non-zero count  *)
(* of the main conversation.  Claude Code always finds it; Codex and Gemini *)
(* give none at all when it lies before the tail, and a guard without a     *)
(* count lets the session grow.                                             *)
(***************************************************************************)
CountsCurrent(cli, lines) ==
  LET counted == Usages(lines, DOMAIN lines)
      count == Tokens(cli, lines)
  IN  CASE cli = "claude" -> IF counted = {} THEN count = NoTokens
                             ELSE count = lines[Latest(counted)].tokens
        [] cli \in {"codex", "gemini"} ->
             IF count = NoTokens
             THEN \A i \in counted : SizeFrom(lines, i) >= TailBytes
             ELSE count = lines[Latest(counted)].tokens
        [] OTHER -> count > 0 => count = lines[Latest(counted)].tokens
=============================================================================
