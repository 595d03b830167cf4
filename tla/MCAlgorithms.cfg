SPECIFICATION Spec
CONSTANTS
  Group = 4
  Width = 9
  Fixed <- FixedBytes
  Printable = {9, 10, 13}
  Spelled <- SmallSpelled
  Record <- SmallRecord
  Varints <- SmallVarints
  Payloads <- SmallPayloads
  Window = 2
  Symbol = {"f", "g", "entry"}
  Word = 16
  Half = 4
  Cells <- MemoryCells
  Top = 8
  RegXor <- BitwiseXor
  Bits = 2
  ShiftMax = 6
  MaxInputs = 4
  TailBytes = 4
  NoTime = 0
  DefaultLength = 3
  NoLength = NoLength
  NoClaim = NoClaim
  HookEvent = {"stop", "start", "before", "other"}
  Views <- SmallViews
  Merges <- SmallMerges
  Contexts <- SmallContexts
  Installs <- SmallInstalls
  Listens <- SmallListens
  Graphs <- SmallGraphs
  Fallbacks <- SmallFallbacks
  Translations <- SmallTranslations
  Reads <- SmallReads
  Searches <- SmallSearches
  Decodings <- SmallDecodings
  Tables <- SmallTables
  Emulations <- SmallEmulations
  Expr <- SmallExpr
  Depth <- SmallDepth
  Provings <- SmallProvings
  Comparisons <- SmallComparisons
INVARIANTS
  ViewsKeepWhatCounts
  SettingsReversible
  ProtocolExact
  
  SemanticsConsistent
  EmulatorExact
  EquivalenceConsistent
  TranscriptsRead
CHECK_DEADLOCK FALSE
