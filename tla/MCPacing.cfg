SPECIFICATION Spec
CONSTANTS
  Runners = {r1, r2}
  Limit = 2
  Period = 3
  MaxTime = 4
  MaxJobs = 2
  MaxWrites = 1
  MaxLatency = 1
INVARIANTS BurstBound ThrottlingExplained
CHECK_DEADLOCK FALSE
