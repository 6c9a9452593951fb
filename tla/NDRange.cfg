SPECIFICATION FairSpec
CONSTANTS
    t1 = t1
    t2 = t2
    g1 = g1
    g2 = g2
    g3 = g3
    NoThread = NoThread
    Threads = {t1, t2}
    Groups = {g1, g2, g3}
    Slices = 3
    Capacity = 3
CHECK_DEADLOCK FALSE
INVARIANTS LocalsOutlive NDRangeIsWhole
PROPERTIES GroupEnds
