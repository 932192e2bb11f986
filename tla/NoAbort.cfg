\* A client quits the daemon while a command of its main coroutine runs.
SPECIFICATION Spec
CONSTANTS
    Nodes = {n1, n2}
    Daemons = {n1}
    Startups = {{n1}}
    Replicating = FALSE
    PeerMessages = {}
    Inputs = {"start_migration", "quit", "self"}
    MaxInputs = 3
    MaxInbox = 1
    MaxLost = 0
    QueueSize = 3
    ArrayLen = 1
INVARIANT NoAbort
\* A daemon may end, and one that idles without inputs is at rest.
CHECK_DEADLOCK FALSE
