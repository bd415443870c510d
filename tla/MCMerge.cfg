SPECIFICATION Spec
CONSTANTS
  Fields = {name, phone}
  Sources = {salesforce, hubspot}
  Values = {v1, v2, v3}
  Times = {1, 2, 3}
  Priorities = {1, 2}
  EventsPerSource = 2
SYMMETRY ValueSymmetry
INVARIANTS ProvenanceTruthful BestWriterOwns
CHECK_DEADLOCK FALSE
