SPECIFICATION FairSpec
CONSTANTS
  sf = sf
  hs = hs
  Sources = {sf, hs}
  Priority <- MCPriority
  Strategy = "last_write_wins"
  Values = {1, 2}
  Workers = {1, 2}
  MaxRecords = 3
  MaxEdits = 3
  MaxFaults = 1
  Starts = {"empty", "linked"}
  MaxHasty = 1
  Reverting = TRUE
  Deleting = TRUE
  Editors = {sf, hs}
INVARIANTS  DuplicatesExplained OwnEchoDropped TombstonePropagates
PROPERTIES  Settles
CHECK_DEADLOCK FALSE
