SPECIFICATION FairSpec
CONSTANTS
  NoXid = NoXid
  TPL = TPL
  Queues = {q1, q2}
  Msgs = {m1}
  Xids = {x1}
  MaxOps = 2
  MaxCrash = 2
INVARIANTS AllOrNothing BrokerAgrees ToldHolds DecidedInOrder
PROPERTIES CallsAndRecoveryEnd
CHECK_DEADLOCK FALSE
