SPECIFICATION FairSpec
CONSTANTS
    t1 = t1  t2 = t2  t3 = t3  r1 = r1  r2 = r2  r3 = r3  r4 = r4
    Threads = {t1, t2, t3}
    Refs = {r1, r2, r3, r4}
    Anchor = Anchor
    NoRef = NoRef
    MaxCount = 2
CHECK_DEADLOCK FALSE
INVARIANTS DestroyedLast IInv
PROPERTIES StaysInvalid IsDestroyed
