SPECIFICATION FairSpec
CONSTANTS
  Operators = {o1, o2}
  Engines = {e1}
  Sweep = sweep
  Modes = {"auto", "manual"}
  DeletePolicy = "propagate"
  MaxRequests = 2
  MaxSweeps = 2
  MaxProviderFaults = 1
  MaxStoreFaults = 1
  MaxCrashes = 1
INVARIANTS  AppliedMeansRepaired
 
CHECK_DEADLOCK FALSE
