SPECIFICATION RSpec
CONSTANTS
  NumFiles = 4
  FilePages = 1
  PageDblks = 2
  SblkDblks = 2
  NumPages = 2
  MaxRid = 5
  Xids = {x1}
  NoXid = NoXid
  EnqSizes = {2}
  CtlDblks = 1
  SlowDisk = FALSE
  MaxCrash = 2
  InOrder = TRUE
  ReuseXids = FALSE
CONSTRAINTS SoundPosition LastCrash
INVARIANTS RecoversTheLog GoesOn EnqCountExact 
CHECK_DEADLOCK FALSE
 
