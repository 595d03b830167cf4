SPECIFICATION Spec
CONSTANTS
  None = None
  g = g
  h = h
  a = a
  b = b
  item = item
  Goal = {g, h}
  Item = {item}
  Claim = {a, b}
  Window = 2
  MaxTurns = 2
  MaxSessions = 2
  MaxRuns = 3
  MaxCrashes = 1
  MaxBatch = 2
INVARIANTS CrashLosesOneSession DriftBarren
PROPERTIES HistoryKept
CHECK_DEADLOCK FALSE
