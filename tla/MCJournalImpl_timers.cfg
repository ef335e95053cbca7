SPECIFICATION FairSpec
CONSTANTS
  NumFiles = 4
  FilePages = 1
  PageDblks = 4
  SblkDblks = 2
  NumPages = 2
  MaxRid = 2
  Xids = {}
  NoXid = NoXid
  EnqSizes = {1, 3}
  CtlDblks = 1
  SlowDisk = FALSE
  Threads = 1
INVARIANTS DirectIoAligned NothingForgotten StoppedIsWritten
PROPERTIES AcceptedIsCompleted CallReturns StopEnds
CHECK_DEADLOCK FALSE
