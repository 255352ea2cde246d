SPECIFICATION Spec
CONSTANTS
  Bats = {1, 2}
  Priv = {}
  Initial = {1}
  Globals = TRUE
  Sublists = {}
  Trimmable = {1, 2}
  Droppable = {1, 2}
  Held = {}
  FreshOid = FALSE
  MaxVersion = 5
  MaxFailures = 1
  MaxCrashes = 2
INVARIANTS Recoverable ImageIsCurrent 
PROPERTIES IsAtomic
