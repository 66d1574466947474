\* An update is interrupted and its resumption fails.
CONSTANTS
    MaxCore = 3
    Services <- MacServices
    t1 = t1  t2 = t2  None = None
    Threads = {t1}
    MaxCalls = 2
    MaxFaults = 1
    MaxCrashes = 1
SPECIFICATION Spec
PROPERTIES RolledBackIsRestored
