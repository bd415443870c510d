SPECIFICATION Spec
CONSTANTS
    Events = {e1}
    NoEvent = NoEvent
    Replicas = {r1, r2}
    MaxAttempts = 3
    MaxTopic = 2
    MaxFaults = 2
    MaxDbErrors = 0
    MaxDisruptions = 0
    MaxReplays = 0
INVARIANT NoLoss
CHECK_DEADLOCK FALSE
