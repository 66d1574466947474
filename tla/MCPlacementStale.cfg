\* An operation outlives a stop and a start of its group; nothing fails.
CONSTANTS
    g1 = g1  g2 = g2  p1 = p1  p2 = p2  None = None
    Groups = {g1}
    Order <- TwoPhases
    Slots = {1}
    Threads = {p1, p2}
    Ops = {"stage", "start", "stop"}
    Overlap = TRUE
    MaxCalls = 4
    MaxFaults = 0
    MaxLost = 0
    MaxCrashes = 0
    MaxFailures = 0
SPECIFICATION Spec
INVARIANTS RunningIsReady
