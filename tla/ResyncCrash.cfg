\* Nodes are taken out of use, and the one that is primary next crashes while it
\* copies its disk to the other.
SPECIFICATION Spec
CONSTANTS
    Node = {n1, n2}
    First = n1
    Faults = {"crash resync"}
    AnyTime = {}
    DuringStandby = {"crash resync"}
    MaxFaults = 1
    MaxStandby = 1
INVARIANT GuestHasRecentData
CHECK_DEADLOCK FALSE
