CONSTANTS
  Names = {n1}
  Bids = {1, 2, 3, 4, 5, 6, 7, 8}
  CrashReplay = TRUE
  MaxRow = 2
  MaxOps = 1
  MaxTrans = 3
  MaxSeq = 1
  MaxId = 4
  MaxCrash = 2
SPECIFICATION Spec
CHECK_DEADLOCK FALSE
INVARIANT Recoverable
