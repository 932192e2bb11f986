\* The primary crashes before its peer has a score.
SPECIFICATION FairSpec
CONSTANTS
    Node = {n1, n2}
    First = n1
    Faults = {"crash unscored"}
    AnyTime = {"crash unscored"}
    DuringStandby = {}
    MaxFaults = 1
    MaxStandby = 0
PROPERTY SettlesAgain
CHECK_DEADLOCK FALSE
