SPECIFICATION FairSpec
CONSTANTS
  Pairs = 2
  NumMsgs = 1
  Threshold = 2
INVARIANTS ListsApart TokensAccounted
PROPERTIES EndsUnlessFlushLost
CHECK_DEADLOCK FALSE
