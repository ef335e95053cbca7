SPECIFICATION Spec
CONSTANTS
  NoXid = NoXid
  TPL = TPL
  Queues = {q1}
  Msgs = {m1}
  Xids = {x1}
  MaxOps = 2
  MaxCrash = 1
INVARIANTS AbortedNeverCommits
CHECK_DEADLOCK FALSE
