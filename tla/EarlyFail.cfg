\* qemu fails before the pair has settled.
SPECIFICATION Spec
CONSTANTS
    Node = {n1, n2}
    First = n1
    Faults = {"fail"}
    AnyTime = {"fail"}
    DuringStandby = {}
    MaxFaults = 1
    MaxStandby = 0
INVARIANT GuestHasRecentData
CHECK_DEADLOCK FALSE
