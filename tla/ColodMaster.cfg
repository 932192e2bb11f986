\* The colod of a master dies.
SPECIFICATION Spec
CONSTANTS
    Node = {n1, n2}
    First = n1
    Faults = {"colod master"}
    AnyTime = {}
    DuringStandby = {}
    MaxFaults = 1
    MaxStandby = 0
INVARIANT GuestHasRecentData
CHECK_DEADLOCK FALSE
