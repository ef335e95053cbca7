SPECIFICATION Spec
CONSTANTS
  t1 = t1
  t2 = t2
  q1 = q1
  x1 = x1
  g1 = g1
  k1 = k1
  Thread = {t1, t2}
  QNames = {q1}
  XNames = {x1}
  GNames = {g1}
  Keys = {k1}
  NoArg = NoArg
  QueueArgs <- Args
  MinFiles = 1
  MaxFiles = 2
  Options <- StartOptions
  UnknownTypes = FALSE
  DestroyMayFail = FALSE
  MaxInc = 3
  MaxCrash = 2
  MaxFail = 1
SYMMETRY Threads
INVARIANTS ConfigTypeOK RecordHasJournal NoStrayBinding
PROPERTIES KeptSurvives
CHECK_DEADLOCK FALSE
