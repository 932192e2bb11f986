\* Both daemons of a pair lose the replication connection.
SPECIFICATION Spec
CONSTANTS
    Nodes = {n1, n2}
    Daemons = {n1, n2}
    Startups = {{n1}}
    Replicating = TRUE
    PeerMessages = {}
    Inputs = {"COLO_EXIT"}
    MaxInputs = 2
    MaxInbox = 2
    MaxLost = 0
    QueueSize = 3
    ArrayLen = 1
INVARIANT OneSurvives
\* A daemon may end, and one that idles without inputs is at rest.
CHECK_DEADLOCK FALSE
