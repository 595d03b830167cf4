SPECIFICATION FairSpec
CONSTANTS
  Session = {s1}
  Kinds = {"plain", "inline", "launched"}
  Dir = Dir
  None = None
  Threshold = 1
  Step = 1
  Slack = 1
  Speakers = {}
  MaxTokens = 2
  MaxTime = 2
  MaxAsks = 1
  MaxSlips = 1
INVARIANTS OneReceiptPerBlock BlocksOnce SuccessorsAccounted OpeningOnce
PROPERTIES RearmedFurtherUp AlwaysReleased
