SPECIFICATION FairSpec
CONSTANTS
  Operators = {o1, o2}
  Engines = {e1, e2}
  Routings = {{"a", "b"}, {"a"}}
  MaxRequests = 3
  MaxFaults = 1
  MaxCrashes = 1
INVARIANTS  ResolvedMeansApplied
PROPERTY QueueDrains
CHECK_DEADLOCK FALSE
