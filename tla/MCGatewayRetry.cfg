SPECIFICATION Spec
CONSTANTS
    r1 = r1
    r2 = r2
    r3 = r3
    k1 = k1
    g1 = g1
    g2 = g2
    p1 = p1
    p2 = p2
    Requests = {r1, r2, r3}
    Keys = {k1}
    Groups = {g1, g2}
    PrefixKeys = {}
    Request <- RetryRequest
    Limits <- RetryLimits
    Route <- RetryRoute
    NoKey = NoKey
    NoPrefix = NoPrefix
    NoLimit = NoLimit
    NoGroup = NoGroup
    RollingWindow = 2
    MaxQueued = 2
    MaxBackendFailures = 2
    CooldownUnit = 1
    MaxCooldown = 2
    PrefixLifetime = 1
    MaxPrefixes = 1
    MaxAttempts = 2
    MaxWaitCycles = 1
    MaxTime = 2
    MaxClockFaults = 1
    MaxRestarts = 0
CHECK_DEADLOCK FALSE
SYMMETRY RetrySymmetry
INVARIANTS QueueIndexExact OwnershipExact TokenBudget PrincipalExact RouteCapacityExact
PROPERTIES DispatchRespectsCooldown
