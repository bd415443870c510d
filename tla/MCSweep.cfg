SPECIFICATION FairSpec
CONSTANTS
  NumRecords = 2
  Values = {1, 2}
  BatchSize = 1
  Modes = {"auto", "manual"}
  PolicySets <- Both
  Source = "salesforce"
  MaxEdits = 1
  MaxLost = 1
  MaxFaults = 1
  MaxCrashes = 1
INVARIANTS SweepComplete   
PROPERTIES  SweepFinishes
CHECK_DEADLOCK FALSE
