\* A replicating pair: errors, crashes, lost and duplicate messages.
SPECIFICATION Spec
CONSTANTS
    Nodes = {n1, n2}
    Daemons = {n1, n2}
    Startups = {{n1}}
    Replicating = TRUE
    PeerMessages = {}
    Inputs = {"NBD_BAD", "crash", "error"}
    MaxInputs = 2
    MaxInbox = 2
    MaxLost = 1
    QueueSize = 3
    ArrayLen = 1
INVARIANTS OneOwner FailureAnnounced MarkedIsTimed
\* A daemon may end, and one that idles without inputs is at rest.
CHECK_DEADLOCK FALSE
