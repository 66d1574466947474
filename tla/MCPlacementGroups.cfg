\* Two groups that compete for a slot, one operation at a time on each.
CONSTANTS
    g1 = g1  g2 = g2  p1 = p1  p2 = p2  None = None
    Groups = {g1, g2}
    Order <- TwoGroups
    Slots = {1}
    Threads = {p1, p2}
    Ops = {"stage", "start", "stop", "recover", "remove", "reconcile"}
    Overlap = FALSE
    MaxCalls = 5
    MaxFaults = 2
    MaxLost = 1
    MaxCrashes = 1
    MaxFailures = 3
SPECIFICATION Spec
SYMMETRY ThreadSymmetry
INVARIANTS TypeOK IndexExact OneGroupPerSlot ProcessIsLeased RunningIsReady StoppedIsQuiet
PROPERTIES PhasesInOrder
