SPECIFICATION FairSpec
CONSTANTS
  Bats = {1, 2}
  Priv = {}
  Initial = {1, 2}
  Globals = FALSE
  Sublists <- One
  Trimmable = {1, 2}
  Droppable = {}
  Held = {}
  FreshOid = FALSE
  MaxVersion = 4
  MaxFailures = 1
  MaxCrashes = 1
PROPERTIES CommitEnds RestartEnds
