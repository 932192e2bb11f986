\* Two nodes.  Every fault but the death of a master's colod in a settled pair; the
\* first one, if it is not a failure of one qemu or of the link, also before the
\* pair has settled, and a few kinds after a standby.
SPECIFICATION FairSpec
CONSTANTS
    Node = {n1, n2}
    First = n1
    Faults = {"crash", "crash unscored", "crash resync", "fail", "link", "both", "colod slave"}
    AnyTime = {"crash", "crash unscored", "crash resync", "both", "colod slave"}
    DuringStandby = {"crash unscored", "both"}
    MaxFaults = 4
    MaxStandby = 3
INVARIANTS TypeOK GuestHasRecentData RoleReported
PROPERTY Resettles
CHECK_DEADLOCK FALSE
