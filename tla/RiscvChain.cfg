SPECIFICATION FairSpec
CONSTANTS
    c1 = c1
    c2 = c2
    w = w
    g1 = g1
    g2 = g2
    g3 = g3
    s1 = s1
    s2 = s2
    f1 = f1
    NoFence = NoFence
    NoGroup = NoGroup
    Clients = {c1}
    Worker = w
    Groups = {g1, g2, g3}
    Semaphores = {s1, s2}
    Fences = {f1}
    WaitsOf <- MCWaits
    SignalsOf <- MCSignals
    FenceOf <- MCFence
    MaxTimes = 2
CHECK_DEADLOCK FALSE
INVARIANTS WaitAllMeansUnused FailurePropagates IInv
PROPERTIES TryWaitIsFinal ImplementsDispatchOrder DispatchCompletes CallsReturn
