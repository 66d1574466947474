\* Two threads, faults and a restart.
CONSTANTS
    MaxCore = 3
    Services <- MacServices
    t1 = t1  t2 = t2  None = None
    Threads = {t1, t2}
    MaxCalls = 3
    MaxFaults = 2
    MaxCrashes = 1
SPECIFICATION Spec
SYMMETRY ThreadSymmetry
INVARIANTS TypeOK OneHandoff ActiveIsInstalled RollbackMaterial
PROPERTIES HandoffIsVerified RollbackRestores JournalForward
