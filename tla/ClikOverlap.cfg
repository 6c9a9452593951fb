SPECIFICATION FairSpec
CONSTANTS
    c1 = c1
    c2 = c2
    Clients = {c1}
    MaxCommands = 4
    Overlap = TRUE
CHECK_DEADLOCK FALSE
PROPERTIES WaitReturns
