SPECIFICATION RSpec
CONSTANTS
  NumFiles = 4
  FilePages = 1
  PageDblks = 2
  SblkDblks = 2
  NumPages = 2
  MaxRid = 6
  Xids = {}
  NoXid = NoXid
  EnqSizes = {1, 3}
  CtlDblks = 1
  SlowDisk = FALSE
  MaxCrash = 1
  InOrder = TRUE
  ReuseXids = FALSE
CHECK_DEADLOCK FALSE
PROPERTIES MessagesSurvive
