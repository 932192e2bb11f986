\* Both daemons fail.
SPECIFICATION FairSpec
CONSTANTS
    Node = {n1, n2}
    First = n1
    Faults = {"both"}
    AnyTime = {}
    DuringStandby = {}
    MaxFaults = 1
    MaxStandby = 0
PROPERTY SettlesAgain
CHECK_DEADLOCK FALSE
