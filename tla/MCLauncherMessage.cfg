SPECIFICATION LSpec
CONSTANTS
  Session <- TwoLaunches
  Kinds = {"launched"}
  Dir = Dir
  None = None
  Threshold = 1
  Step = 1
  Slack = 1
  Speakers <- FirstLaunch
  MaxTokens = 1
  MaxTime = 3
  MaxAsks = 0
  MaxSlips = 0
  MaxRollovers = 2
  MinInterval = 2
PROPERTIES MessageCancels
CHECK_DEADLOCK FALSE
