\* A replicating pair with fairness: errors, crashes, a lost message.
SPECIFICATION FairSpec
CONSTANTS
    Nodes = {n1, n2}
    Daemons = {n1, n2}
    Startups = {{n1}}
    Replicating = TRUE
    PeerMessages = {}
    Inputs = {"NBD_BAD", "crash"}
    MaxInputs = 2
    MaxInbox = 1
    MaxLost = 1
    QueueSize = 3
    ArrayLen = 1
PROPERTIES SyncResolves FailureTakesEffect
\* A daemon may end, and one that idles without inputs is at rest.
CHECK_DEADLOCK FALSE
