SPECIFICATION FairSpec
CONSTANTS
  Runners = {r1, r2}
  JobType <- SweepFirst
  NumRecords = 3
  Malformed = {2}
  Deleted = {3}
  BatchSize = 3
  Aging = TRUE
  MaxFaults = 1
  MaxCrashes = 1
  MaxReruns = 1
  MaxCount = 0
INVARIANTS AppliedOnce CrashSkipsOne
PROPERTY JobsSettle
CHECK_DEADLOCK FALSE
