\* A daemon started as primary or as secondary, with any two inputs.
SPECIFICATION FairSpec
CONSTANTS
    Nodes = {n1, n2}
    Daemons = {n1}
    Startups = {{n1}, {}}
    Replicating = FALSE
    PeerMessages <- AllMessages
    Inputs <- AllInputs
    MaxInputs = 2
    MaxInbox = 1
    MaxLost = 0
    QueueSize = 3
    ArrayLen = 1
INVARIANTS TypeOK NoLostWakeup MigrationInterrupted
PROPERTIES FailedIsFinal SleepsFromStart FailureHandled QuitFinishes
\* A daemon may end, and one that idles without inputs is at rest.
CHECK_DEADLOCK FALSE
