\* Two daemons, one of which monitors its interface; corosync delivers a message
\* before a third one is sent.
SPECIFICATION FairSpec
CONSTANTS
    Nodes = {n1, n2}
    Daemons = {n1, n2}
    Monitored = {n1}
    MaxInbox = 2
    MaxLost = 0
INVARIANTS TypeOK TimerIsCurrent AtRestAgreed PeerAgrees
PROPERTIES ImplementsLink LinkLossReported
\* The coroutines may have quit.
CHECK_DEADLOCK FALSE
