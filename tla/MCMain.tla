------------------------------- MODULE MCMain -------------------------------
(***************************************************************************)
(* The main coroutine for TLC: one daemon whose peer is only seen by the   *)
(* messages it sends, booted as a primary or as a secondary, or the two    *)
(* daemons of a replicating pair.  Each configuration names the inputs     *)
(* that may happen and how many of them.                                   *)
(***************************************************************************)
EXTENDS MainCoroutine

AllMessages == ColodMessage \cup {"LEFT"}

AllInputs ==
    {"start_migration", "autoquit", "qemu_failed", "set_peer", "clear_peer", "quit",
     "execute", "client_yank", "health",                    \* clients
     "hup", "qmp_error", "self", "fatal", "error", "yank",  \* the QMP connection
     "NBD_BAD", "DISK_BAD", "MIGRATION_FAILED", "COLO_EXIT", "RESET",
     "link_down", "link_up", "peer", "crash"}
=============================================================================
