SPECIFICATION Spec
CONSTANTS
  x = x
  cpu = cpu
  file = file
  va = va
  Loc = {x, cpu}
  LookedUp = {x}
  Form = {file, va}
  SheetForm = {file}
  Header <- OneHeader
  MaxLength = 2
  Written <- FourWays
  MaxRounds = 3
  MinInformation = 1
  KeepObserved = 1
  MaxBatch = 2
  MaxRuns = 2
INVARIANTS CreditedOnce CompletedRoundsSurvive
PROPERTIES ReadNeverCredited
CHECK_DEADLOCK FALSE
