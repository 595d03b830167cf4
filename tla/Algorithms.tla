----------------------------- MODULE Algorithms -----------------------------
(***************************************************************************)
(* Calls of the pure algorithms, one to a behaviour: op names the algorithm *)
(* and arg holds what it is called with.  The constants are the arguments;  *)
(* each assumption says what the callers pass.                              *)
(***************************************************************************)
EXTENDS BoundedViews, HookInstall, Transcript, SemanticClaims, ByteClaims,
        ImageClaims, InstructionClaims, Protocol, Emulator, Equivalence

CONSTANTS
  HookEvent,       \* the names of hook events
  Views,           \* <<pin, n>>
  Merges,          \* <<list, update, k>>
  Contexts,        \* <<lens, max, limit>>
  Installs,        \* <<cli, settings, threshold, disable>>
  Listens,         \* <<cli, lines, since>>
  Graphs,          \* <<program, f, g, rva>>
  Fallbacks,       \* <<program, t, u, name>>
  Translations,    \* <<image, addr>>
  Reads,           \* <<image, off, expected, n>>
  Searches,        \* <<image, pattern, off>>
  Decodings,       \* <<data, claim>>
  Tables,          \* <<file, claim>>
  Varints,         \* <<value, rest, pad>>
  Payloads,        \* <<records, last, cut, claim>>
  Emulations,      \* <<program, max>>
  Provings,        \* <<e, f>>
  Comparisons      \* <<setup, outputs, candidates>>

\* established is asked for at least one fact; lists are bounded by a
\* positive number, and contexts by a positive budget of texts that have one.
ASSUME ViewsAssumption == Views \subseteq Seq(BOOLEAN) \X (Nat \ {0})
ASSUME MergesAssumption == /\ Merges \subseteq Seq(Nat) \X Seq(Nat) \X (Nat \ {0})
                           /\ \A a \in Merges : IsInjective(a[1])
ASSUME ContextsAssumption == Contexts \subseteq Seq(Nat \ {0}) \X (Nat \ {0}) \X (Nat \ {0})

\* any settings with lists of entries, any transcript
ASSUME InstallsAssumption ==
  \A a \in Installs : /\ a[1] \in Cli /\ a[2] \in Settings(a[1], HookEvent, Seq(Entry))
                      /\ a[3] \in BOOLEAN /\ a[4] \in BOOLEAN
ASSUME ListensAssumption == Listens \subseteq Reader \X Seq(Line) \X Int

\* f and g are functions the engine found; the fallback is asked anything
ASSUME GraphsAssumption ==
  \A a \in Graphs : /\ IsProgram(a[1])
                    /\ a[2] \in a[1].starts /\ a[3] \in a[1].starts /\ a[4] \in Nat
ASSUME FallbacksAssumption ==
  \A a \in Fallbacks : IsProgram(a[1]) /\ IsTarget(a[2]) /\ IsTarget(a[3])

\* any image, any bytes
ASSUME TranslationsAssumption == \A a \in Translations : IsImage(a[1]) /\ a[2] \in Nat
ASSUME ReadsAssumption ==
  \A a \in Reads : /\ IsImage(a[1]) /\ a[2] \in Int /\ a[3] \in Seq(Nat) /\ a[4] \in Nat
ASSUME SearchesAssumption ==
  \A a \in Searches : /\ IsImage(a[1]) /\ a[2] \in Seq(Nat \union {Wild}) /\ a[3] \in Nat
ASSUME DecodingsAssumption ==
  \A a \in Decodings : a[1] \in Seq(CodeByte) /\ IsInstructions(a[2])
ASSUME TablesAssumption == \A a \in Tables : IsFile(a[1])

\* a value with any bytes behind it; records, the last of them cut or not
ASSUME VarintsAssumption == Varints \subseteq Nat \X Seq(Byte) \X Nat
ASSUME PayloadsAssumption ==
  \A a \in Payloads : /\ a[1] \in Seq(Record) /\ a[2] \in Record
                      /\ a[3] \in Nat /\ a[3] < Len(BytesOf(a[2]))

\* any program, and a limit that is not negative
ASSUME EmulationsAssumption == Emulations \subseteq Seq(Instruction) \X Nat

\* two expressions; the code's and the candidate's values on as many inputs
ASSUME ProvingsAssumption == Provings \subseteq Expr \X Expr
ASSUME ComparisonsAssumption ==
  \A a \in Comparisons : /\ a[1].allowed \in BOOLEAN /\ a[1].builds \in BOOLEAN
                         /\ a[2] \in Seq(Int) /\ a[3] \in Seq(Int) /\ Len(a[3]) = Len(a[2])

VARIABLES op, arg

-----------------------------------------------------------------------------
Init == op = "none" /\ arg = <<>>

Call(name, inputs) == \E a \in inputs : op' = name /\ arg' = a

\* Ledger.established, Checkpoint.merge, context_for_directory
View == Call("view", Views)
Merge == Call("merge", Merges)
Context == Call("context", Contexts)

\* rollover install and uninstall; the readers of transcripts
InstallHooks == Call("install", Installs)
Listen == Call("listen", Listens)

\* claims about functions and calls
Graph == Call("graph", Graphs)
Fallback == Call("fallback", Fallbacks)

\* claims about bytes, instructions and tables
Translate == Call("translate", Translations)
ReadBytes == Call("bytes", Reads)
Search == Call("search", Searches)
Disassemble == Call("instructions", Decodings)
Table == Call("table", Tables)

\* varints, and claims about the fields of a payload
RoundTrip == Call("varint", Varints)
Dissect == Call("field", Payloads)

\* claims about what code does
Emulate == Call("emulate", Emulations)
Prove == Call("prove", Provings)
Compare == Call("compare", Comparisons)

Next ==
  /\ op = "none"
  /\ \/ View \/ Merge \/ Context
     \/ InstallHooks \/ Listen
     \/ Graph \/ Fallback
     \/ Translate \/ ReadBytes \/ Search
     \/ Disassemble \/ Table
     \/ RoundTrip \/ Dissect
     \/ Emulate \/ Prove \/ Compare

Spec == Init /\ [][Next]_<<op, arg>>

-----------------------------------------------------------------------------
(***************************************************************************)
(* What the bounded views of the ledger and the checkpoint keep.            *)
(***************************************************************************)
ViewsKeepWhatCounts ==
  /\ op = "view" => ViewPinsProofs(arg[1], arg[2])
  /\ op = "merge" => MergeKeepsNews(arg[1], arg[2], arg[3])
  /\ op = "context" => ContextWithinBudget(arg[1], arg[2], arg[3])

(***************************************************************************)
(* What installing and uninstalling the hooks leaves of the user's settings. *)
(***************************************************************************)
SettingsReversible == op = "install" => HooksReversible(arg[1], arg[2], arg[3], arg[4])

(***************************************************************************)
(* What is read out of a session's transcript.                              *)
(***************************************************************************)
TranscriptsRead ==
  op = "listen" => /\ WordsHeard(arg[1], arg[2], arg[3])
                   /\ CountsCurrent(arg[1], arg[2])

(***************************************************************************)
(* Claims about functions and calls, with the engine and without.           *)
(***************************************************************************)
SemanticsConsistent ==
  /\ op = "graph" => GraphVerdictsFit(arg[1], arg[2], arg[3], arg[4])
  /\ op = "fallback" => FallbackNeverGuesses(arg[1], arg[2], arg[3], arg[4])

(***************************************************************************)
(* Claims about bytes in every address space, instructions and tables.      *)
(***************************************************************************)
BytesJudgedTruly ==
  /\ op = "translate" => TranslationsAgree(arg[1], arg[2])
  /\ op = "bytes" => BytesTruthful(arg[1], arg[2], arg[3], arg[4])
  /\ op = "search" => SearchTruthful(arg[1], arg[2], arg[3])
  /\ op = "instructions" => InstructionsTruthful(arg[1], arg[2])
  /\ op = "table" => TablesTruthful(arg[1], arg[2])

(***************************************************************************)
(* Varints, dissected payloads and claims about their fields.               *)
(***************************************************************************)
ProtocolExact ==
  /\ op = "varint" => VarintExact(arg[1], arg[2], arg[3])
  /\ op = "field" => FieldsJustified(arg[1], arg[2], arg[3], arg[4])

(***************************************************************************)
(* The built-in emulator against the processor.                             *)
(***************************************************************************)
EmulatorExact == op = "emulate" => MachineFaithful(arg[1], arg[2])

(***************************************************************************)
(* Tests and proofs of equivalence against each other.                      *)
(***************************************************************************)
EquivalenceConsistent ==
  /\ op = "prove" => ProofsSurviveTesting(arg[1], arg[2])
  /\ op = "compare" => TestsHaveWitnesses(arg[1], arg[2], arg[3])
=============================================================================
