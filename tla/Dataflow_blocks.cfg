CONSTANTS
  Clients = {c1}
  Workers = {w1, w2}
  Size = 3
  Programs <- AllBlocksAndCalls
  Callees <- Body
  MayExit = FALSE
SPECIFICATION FairSpec
INVARIANTS TypeOK ArgsLive ScheduledOnce NoDanglingEvent SequentialResult DoneEmptyAtReturn
 
