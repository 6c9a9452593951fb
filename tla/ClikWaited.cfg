SPECIFICATION FairSpec
CONSTANTS
    c1 = c1
    c2 = c2
    Clients = {c1, c2}
    MaxCommands = 4
    Overlap = FALSE
CHECK_DEADLOCK FALSE
INVARIANTS IInv
PROPERTIES WaitOutlastsCommands ImplementsInOrder CallsReturn
