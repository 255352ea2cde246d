CONSTANTS
  Clients = {c1, c2}
  Workers = {w1, w2}
  Size = 3
  Programs <- TwiceOrChain
  Callees = {}
  MayExit = TRUE
SPECIFICATION FairSpec
CHECK_DEADLOCK FALSE
 
PROPERTY WorkersStop
