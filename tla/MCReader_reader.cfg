SPECIFICATION RdSpec
CONSTANTS
  NumFiles = 2
  FilePages = 1
  PageDblks = 2
  SblkDblks = 1
  NumPages = 2
  MaxRid = 4
  Xids = {x1}
  NoXid = NoXid
  EnqSizes = {2}
  CtlDblks = 1
  SlowDisk = FALSE
  MaxCrash = 1
  InOrder = TRUE
  ReuseXids = FALSE
  RdPages = 2
  RdPageDblks = 2
  Overtakes = FALSE
INVARIANTS RightContent   
CONSTRAINT LastCrash SoundPosition EntersNextFile
CHECK_DEADLOCK FALSE
