SPECIFICATION FairSpec
CONSTANTS
    r1 = r1
    r2 = r2
    r3 = r3
    k1 = k1
    g1 = g1
    g2 = g2
    p1 = p1
    p2 = p2
    Requests = {r1, r2, r3}
    Keys = {}
    Groups = {g1}
    PrefixKeys = {p1, p2}
    Request <- RelayRequest
    Limits <- RelayLimits
    Route <- QueueRoute
    NoKey = NoKey
    NoPrefix = NoPrefix
    NoLimit = NoLimit
    NoGroup = NoGroup
    RollingWindow = 2
    MaxQueued = 2
    MaxBackendFailures = 2
    CooldownUnit = 1
    MaxCooldown = 2
    PrefixLifetime = 2
    MaxPrefixes = 1
    MaxAttempts = 1
    MaxWaitCycles = 2
    MaxTime = 1
    MaxClockFaults = 1
    MaxRestarts = 0
CHECK_DEADLOCK FALSE
PROPERTIES EveryRequestEnds
