SPECIFICATION Spec
CONSTANTS
    Events = {e1}
    NoEvent = NoEvent
    Replicas = {r1, r2}
    MaxAttempts = 2
    MaxTopic = 1
    MaxFaults = 1
    MaxDbErrors = 0
    MaxDisruptions = 1
    MaxReplays = 1
SYMMETRY ReplicaSymmetry
INVARIANTS ApplyExclusive EffectsBounded
PROPERTIES RestIsFinal ImplementsContract
CHECK_DEADLOCK FALSE
