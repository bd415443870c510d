SPECIFICATION Spec
CONSTANTS
    Requests = {r1, r2}
    MaxSessions = 3
    MaxKeys = 3
    LoginMaxFailures = 1
    LoginThrottlePerMin = 1
    OIDCAutoProvision = TRUE
    Scenes <- SignInScenes
    MaxRequests = 3
    MaxFaults = 1
    MaxSecrets = 3
    MaxCodes = 2
INVARIANTS RotatedOnce SignedOut CodeUsedOnce EnabledMeansConfirmed LockoutHolds KeyRemains
PROPERTY ThrottleLifts
CHECK_DEADLOCK FALSE
