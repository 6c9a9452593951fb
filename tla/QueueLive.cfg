SPECIFICATION FairSpec
CONSTANTS
    w1 = w1
    w2 = w2
    c1 = c1
    g1 = g1
    g2 = g2
    g3 = g3
    s1 = s1
    s2 = s2
    f1 = f1
    NoFence = NoFence
    NoGroup = NoGroup
    NoThread = NoThread
    Workers = {w1, w2}
    Clients = {c1}
    Groups = {g1, g2, g3}
    Semaphores = {s1, s2}
    Fences = {f1}
    WaitsOf <- MCChainWaits
    SignalsOf <- MCChainSignals
    FenceOf <- MCChainFence
    Capacity = 1
    MaxTimes = 1
    AllocFails = FALSE
CHECK_DEADLOCK FALSE
INVARIANTS WaitCountIsExact
PROPERTIES WaitAllOutlastsGroups DispatchCompletes WaitsReturn
