\* Two clients, the watchdog on or off, and the end of the daemon at any time.
SPECIFICATION FairDaemonSpec
CONSTANTS
    Clients = {k1, k2}
    MaxRequests = 3
INVARIANTS StoppedIsOwned WatchdogHasOneSource
PROPERTIES GuestContinued DaemonEnds
CHECK_DEADLOCK FALSE
