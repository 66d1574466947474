SPECIFICATION Spec
CONSTANTS
    r1 = r1
    r2 = r2
    r3 = r3
    k1 = k1
    g1 = g1
    g2 = g2
    p1 = p1
    p2 = p2
    Requests = {r1, r2, r3}
    Keys = {k1}
    Groups = {g1}
    PrefixKeys = {}
    Request <- QueueRequest
    Limits <- QueueLimits
    Route <- QueueRoute
    NoKey = NoKey
    NoPrefix = NoPrefix
    NoLimit = NoLimit
    NoGroup = NoGroup
    RollingWindow = 2
    MaxQueued = 1
    MaxBackendFailures = 2
    CooldownUnit = 1
    MaxCooldown = 2
    PrefixLifetime = 2
    MaxPrefixes = 1
    MaxAttempts = 1
    MaxWaitCycles = 1
    MaxTime = 4
    MaxClockFaults = 0
    MaxRestarts = 1
CHECK_DEADLOCK FALSE
SYMMETRY QueueSymmetry
INVARIANTS RecentStartsInWindow
