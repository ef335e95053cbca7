SPECIFICATION Spec
CONSTANTS
  Objects <- MCObjects
  Counters <- MCCounters
  Gauges <- MCGauges
  Threads = {1, 2}
  Words = 4
  Garbage = {3}
  MaxReports = 1
  NoObject = NoObject
  NoSlot = NoSlot
  RawSlot = RawSlot
  Msgs = {m1, m2}
  Xids = {x1}
  RecMsgs = {m1}
  MaxCalls = 2
VIEW MCView
INVARIANTS CountsAgree NothingUnreported
CHECK_DEADLOCK FALSE
