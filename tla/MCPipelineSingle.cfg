SPECIFICATION FairSpec
CONSTANTS
    Events = {e1, e2}
    NoEvent = NoEvent
    Replicas = {r1}
    MaxAttempts = 2
    MaxTopic = 3
    MaxFaults = 1
    MaxDbErrors = 1
    MaxDisruptions = 0
    MaxReplays = 0
INVARIANTS LossExplained StatusTruthful
PROPERTY EventuallySettled
CHECK_DEADLOCK FALSE
