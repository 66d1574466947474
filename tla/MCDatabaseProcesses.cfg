\* Two processes have the file open; two callers of one of them and one of the other
\* send transactions under one key.
CONSTANTS
    r1 = r1  r2 = r2  k1 = k1  k2 = k2  k3 = k3  a = a  b = b
    c1 = c1  c2 = c2  c3 = c3  m1 = m1  m2 = m2  None = None
    Ids = {r1, r2}
    Keys = {k1}
    Payloads = {a, b}
    MaxRevision = 2
    Managers = {m1, m2}
    Clients = {c1, c2, c3}
    ManagerOf <- TwoProcesses
    Templates <- PairTemplates
    QueueCapacity = 2
SPECIFICATION LiveSpec
INVARIANTS AppliedOnce ReplayTableExact
PROPERTIES StoreSpec EveryWriteAnswered
