SPECIFICATION Spec
CONSTANTS
  Bats = {1, 2, 3}
  Priv = {3}
  Initial = {1, 3}
  Globals = TRUE
  Sublists <- Pairs
  Trimmable = {1}
  Droppable = {2, 3}
  Held = {2}
  FreshOid = TRUE
  MaxVersion = 4
  MaxFailures = 0
  MaxCrashes = 2
INVARIANTS CommitIsDurable  StatusTells
PROPERTIES IsAtomic
