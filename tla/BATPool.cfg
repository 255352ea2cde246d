SPECIFICATION FairSpec
CONSTANTS
  Threads = {t1, t2}
  Bats = {1, 2}
  FlagRaces = FALSE
  MaxWrite = 1
  MaxRef = 1
  MaxOps = 6
CHECK_DEADLOCK FALSE
INVARIANTS PointersLive FixesBalance  ContentsKept
 
