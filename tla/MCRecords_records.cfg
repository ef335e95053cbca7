SPECIFICATION Spec
CONSTANTS
  DblkSize = 6
  EnqHdrSize = 3
  DeqHdrSize = 3
  TxnHdrSize = 2
  TailSize = 3
  MaxXid = 14
  MaxData = 14
  ExtDblks = 1
  PageSizes = {1, 2, 3}
INVARIANTS RoundTrip InBounds
CHECK_DEADLOCK FALSE
