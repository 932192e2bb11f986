\* Nodes are taken out of use, and one crashes before they are in use again.
SPECIFICATION Spec
CONSTANTS
    Node = {n1, n2}
    First = n1
    Faults = {"crash"}
    AnyTime = {}
    DuringStandby = {"crash"}
    MaxFaults = 1
    MaxStandby = 1
INVARIANT GuestHasRecentData
CHECK_DEADLOCK FALSE
