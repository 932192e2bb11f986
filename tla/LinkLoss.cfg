\* Links that flap around a migration; corosync delivers within 100 ms.
SPECIFICATION Spec
CONSTANTS
    Nodes = {n1, n2}
    Daemons = {n1}
    Startups = {{n1}}
    Replicating = FALSE
    PeerMessages = {"YELLOW", "UNYELLOW"}
    Inputs = {"start_migration", "NBD_BAD", "link_down", "link_up", "peer", "DISK_BAD"}
    MaxInputs = 4
    MaxInbox = 1
    MaxLost = 0
    QueueSize = 2
    ArrayLen = 1
INVARIANT LinkLossNoticed
\* A daemon may end, and one that idles without inputs is at rest.
CHECK_DEADLOCK FALSE
