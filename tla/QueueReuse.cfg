SPECIFICATION Spec
CONSTANTS
    w1 = w1
    w2 = w2
    c1 = c1
    g1 = g1
    g2 = g2
    g3 = g3
    s1 = s1
    s2 = s2
    f1 = f1
    NoFence = NoFence
    NoGroup = NoGroup
    NoThread = NoThread
    Workers = {w1, w2}
    Clients = {c1}
    Groups = {g1, g2, g3}
    Semaphores = {s1, s2}
    Fences = {f1}
    WaitsOf <- MCJoinWaits
    SignalsOf <- MCJoinSignals
    FenceOf <- MCJoinFence
    Capacity = 1
    MaxTimes = 2
    AllocFails = TRUE
SYMMETRY MCSymmetry
CHECK_DEADLOCK FALSE
INVARIANTS RunsOnce
PROPERTIES TryWaitIsFinal ImplementsDispatchOrder
