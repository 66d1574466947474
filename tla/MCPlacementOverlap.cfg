\* Operations on one group overlap.
CONSTANTS
    g1 = g1  g2 = g2  p1 = p1  p2 = p2  None = None
    Groups = {g1}
    Order <- TwoPhases
    Slots = {1}
    Threads = {p1, p2}
    Ops = {"stage", "start", "stop", "recover", "remove", "reconcile"}
    Overlap = TRUE
    MaxCalls = 4
    MaxFaults = 1
    MaxLost = 1
    MaxCrashes = 0
    MaxFailures = 2
SPECIFICATION Spec
SYMMETRY ThreadSymmetry
PROPERTIES RemovedIsFinal
