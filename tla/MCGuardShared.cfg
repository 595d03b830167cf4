SPECIFICATION Spec
CONSTANTS
  Session = {s1, s2}
  Kinds = {"launched"}
  Dir = Dir
  None = None
  Threshold = 1
  Step = 1
  Slack = 0
  Speakers = {}
  MaxTokens = 1
  MaxTime = 2
  MaxAsks = 1
  MaxSlips = 0
SYMMETRY Symmetry
INVARIANTS BlocksOnce
PROPERTIES ReceiptIsFresh
