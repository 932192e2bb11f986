SPECIFICATION FairSpec
CONSTANTS
    u1 = u1
    u2 = u2
    Users = {u1, u2}
    MaxCommands = 2
    MaxEvents <- NoEvents
PROPERTIES CommandEnds FreeReturns
CHECK_DEADLOCK FALSE
