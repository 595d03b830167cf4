SPECIFICATION Spec
CONSTANTS
  Id = {1, 2, 3, 4}
  NoId = NoId
  Key = {1, 2, 3, 4}
  Base <- MCBase
  Inputs <- Lists
  Passes = 2
  MinInformation = 1
INVARIANTS InvalidatedWithCause InOrderSettled ShortChainsSettled GroundedStandsAlone
CHECK_DEADLOCK FALSE
