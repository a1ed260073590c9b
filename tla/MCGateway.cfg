SPECIFICATION GatewaySpec
SYMMETRY Symmetry
CONSTANTS
    Keys = {k1, k2}
    ValidKeys = {k1}
    Bodies <- MCBodies
    Requests = {r1, r2, r3}
    None = None
    MaxRequests = 2
    WindowSeconds = 2
    Second = 2
    MaxTime = 7
CHECK_DEADLOCK FALSE
INVARIANTS
    WindowBound
    RetryAfterSuffices
    RetryAfterIsTight
    StreamsWereScreened
    LengthLimitsAgree
    EveryRequestCounts
PROPERTIES
    RemainingIsSafe
