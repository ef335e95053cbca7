SPECIFICATION Spec
CONSTANTS
  NumFiles = 4
  FilePages = 1
  PageDblks = 1
  SblkDblks = 1
  NumPages = 2
  MaxRid = 6
  Xids = {}
  NoXid = NoXid
  EnqSizes = {1, 2}
  CtlDblks = 1
  SlowDisk = TRUE
INVARIANTS AioAccounted WaitsForKernel BusyIsHalfWritten
PROPERTIES NoLiveOverwritten
CHECK_DEADLOCK FALSE
