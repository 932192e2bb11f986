SPECIFICATION Spec
CONSTANTS
    u1 = u1
    u2 = u2
    Users = {u1, u2}
    MaxCommands = 2
    MaxEvents <- MainEvents
SYMMETRY UserSymmetry
INVARIANTS TypeOK ReplyIsOwn LockHeldByReader FreedIsUnused YankNoticed EventsInOrder
CHECK_DEADLOCK FALSE
