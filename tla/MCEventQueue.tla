---------------------------- MODULE MCEventQueue ----------------------------
(***************************************************************************)
(* The event queue for TLC: three slots and five events in all.            *)
(***************************************************************************)
EXTENDS EventQueue

\* An event of each class, and a second one of the classes whose order counts.
MCEvents == {"FAILED", "PEER_FAILOVER", "FAILOVER_SYNC", "FAILOVER_WIN",
             "YELLOW", "START_MIGRATION"}

\* The sets main_coroutine.c installs, by state.
MCInterruptSets ==
    {{}, {"FAILOVER_SYNC"},
     {"FAILOVER_SYNC", "FAILOVER_WIN", "YELLOW", "UNYELLOW"}}
=============================================================================
