\* An event comes to a secondary while its startup command runs.
SPECIFICATION Spec
CONSTANTS
    Nodes = {n1, n2}
    Daemons = {n1}
    Startups = {{}}
    Replicating = FALSE
    PeerMessages = {}
    Inputs = {"quit"}
    MaxInputs = 1
    MaxInbox = 1
    MaxLost = 0
    QueueSize = 3
    ArrayLen = 1
INVARIANT SecondaryInterrupted
\* A daemon may end, and one that idles without inputs is at rest.
CHECK_DEADLOCK FALSE
