SPECIFICATION Spec
CONSTANTS
  NumFiles = 4
  FilePages = 4
  PageDblks = 2
  SblkDblks = 1
  NumPages = 2
  MaxRid = 4
  Xids = {x1, x2}
  NoXid = NoXid
  EnqSizes = {1}
  CtlDblks = 1
  SlowDisk = FALSE
SYMMETRY XidSymmetry
INVARIANTS TypeOK LockedByOneTxn SyncedIsOnDisk PendingIsUnwritten
PROPERTIES KeepsPromise
