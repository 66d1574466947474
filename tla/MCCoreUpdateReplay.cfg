\* Updates to one release, to another, and back.
CONSTANTS
    MaxCore = 3
    Services <- MacServices
    t1 = t1  t2 = t2  None = None
    Threads = {t1}
    MaxCalls = 4
    MaxFaults = 0
    MaxCrashes = 0
SPECIFICATION Spec
PROPERTIES UpdatedIsActive
