SPECIFICATION Spec
CONSTANTS
    Defs <- NoCycle
    Restarts = {1, 3}
    Alters <- Narrow
    MaxOid = 3
    MaxCur = 6
INVARIANTS NoRepeat 
