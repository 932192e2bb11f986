------------------------------- MODULE Daemon -------------------------------
(***************************************************************************)
(* daemon_mainloop: what a daemon consists of and the order in which it is *)
(* torn down, with watchdog.c and the clients in detail.  Each free runs   *)
(* the main loop until its part has ended, so that the parts which are     *)
(* freed later go on working meanwhile.  When colod_main_free and qmp_free *)
(* return is said in MainCoroutine and QmpChannel; here they just do.      *)
(***************************************************************************)
EXTENDS Client

VARIABLES
    phase,      \* the call of daemon_mainloop that runs the main loop
    watchdog    \* struct ColodWatchdog and the sources attached for it

daemonVars == <<vars, phase, watchdog>>

\* due: the interval has passed since the timer was set.
\* aborted: the assertion at the end of the coroutine has failed.
Watchdog ==
    [interval : BOOLEAN, pc : {"start", "timer", "check", "ended"},
     timer_id : BOOLEAN, due : BOOLEAN, quit : BOOLEAN,
     idles : Nat, timers : Nat, commands : Nat, sleep : Sleep, aborted : BOOLEAN]

Sources(w) == w.idles + w.timers + w.commands

\* The state is of its type.
DaemonTypeOK ==
    /\ TypeOK
    /\ phase \in {"run", "main", "watchdog", "clients", "done"}
    /\ watchdog \in Watchdog

colod_watchdog_new(interval) ==
    [interval |-> interval, pc |-> IF interval THEN "start" ELSE "ended",
     timer_id |-> FALSE, due |-> FALSE, quit |-> FALSE,
     idles |-> IF interval THEN 1 ELSE 0, timers |-> 0, commands |-> 0,
     sleep |-> "not yet", aborted |-> FALSE]

DaemonInit ==
    /\ Init
    /\ phase = "run"
    /\ \E interval \in BOOLEAN : watchdog = colod_watchdog_new(interval)
-----------------------------------------------------------------------------
(* The watchdog.  A step of its coroutine is dispatched by a source, which *)
(* is gone after the step: idles, timers or commands is one lower in w.    *)

\* colod_watchdog_co: the coroutine has returned, and no other source may be left.
Ended(w) ==
    [w EXCEPT !.pc = "ended", !.idles = 0, !.timers = 0, !.commands = 0,
              !.aborted = Sources(w) > 0]

WatchdogLoop(w) ==
    IF w.quit THEN Ended(w)
    ELSE [w EXCEPT !.pc = "timer", !.timer_id = TRUE, !.due = FALSE, !.timers = @ + 1]

\* Mutation: the timer that has fired is not forgotten.
ResumedTimerKept(w) ==
    CASE w.pc = "start" -> WatchdogLoop(w)
      [] w.pc = "timer" -> IF w.quit THEN Ended(w)
                           ELSE [w EXCEPT !.pc = "check", !.commands = 1]
      [] OTHER -> w

\* _colod_watchdog_co, resumed by a source other than that of its command.
Resumed(w) ==
    CASE w.pc = "start" -> WatchdogLoop(w)
      [] w.pc = "timer" -> IF w.quit THEN Ended(w)
                           ELSE [w EXCEPT !.pc = "check", !.timer_id = FALSE, !.commands = 1]
      [] OTHER -> w

\* The first idle source, or the one that colo_watchdog_free has added.
WatchdogIdle ==
    /\ watchdog.idles > 0
    /\ watchdog' = Resumed([watchdog EXCEPT !.idles = @ - 1])
    /\ IdleDispatch
    /\ UNCHANGED <<listener, guest, failed, requests, phase>>

\* The interval passes.
IntervalPasses ==
    /\ watchdog.timers > 0 /\ ~watchdog.due
    /\ watchdog' = [watchdog EXCEPT !.due = TRUE]
    /\ UNCHANGED <<vars, phase>>

\* The timer is of lower priority than the progress sources, which go first.
WatchdogTimer ==
    /\ watchdog.timers > 0 /\ watchdog.due
    /\ watchdog' = Resumed([watchdog EXCEPT !.timers = @ - 1])
    /\ IdleDispatch
    /\ UNCHANGED <<listener, guest, failed, requests, phase>>

\* The health check falls asleep beside the lock, as a client's command does.
WatchdogFallsAsleep ==
    /\ watchdog.pc = "check" /\ watchdog.sleep = "not yet"
    /\ watchdog' = [watchdog EXCEPT !.sleep = "asleep"]
    /\ UNCHANGED <<vars, phase>>

\* colod_check_health_co returns; after an error the watchdog ends.
WatchdogChecked ==
    /\ watchdog.pc = "check" /\ watchdog.commands > 0 /\ watchdog.sleep # "asleep"
    /\ LET w == [watchdog EXCEPT !.commands = @ - 1, !.sleep = "not yet"] IN
       \/ watchdog' = WatchdogLoop(w) /\ UNCHANGED failed
       \/ watchdog' = Ended(w) /\ failed' = TRUE
    /\ UNCHANGED <<client, listener, guest, requests, phase>>

\* By an event of qemu or by a command (colod_execute_nocheck_co).
colod_watchdog_refresh ==
    /\ watchdog.timer_id
    /\ watchdog' = [watchdog EXCEPT !.due = FALSE,
                      !.timers = IF @ > 0 THEN @ ELSE @ + 1]
    /\ UNCHANGED <<vars, phase>>

\* Another source of idle priority: a wake of the main coroutine, or the watch of
\* the event coroutine.
DaemonIdleSource ==
    /\ OtherIdleSource
    /\ watchdog' = [watchdog EXCEPT !.sleep = IF @ = "asleep" THEN "woken" ELSE @]
    /\ UNCHANGED phase
-----------------------------------------------------------------------------
(* daemon_mainloop. *)

\* g_main_loop_run returns, after a request of a client or by the main
\* coroutine, and colod_main_free waits for the main coroutine.
colod_main_free ==
    /\ phase = "run"
    /\ phase' = "main"
    /\ UNCHANGED <<vars, watchdog>>

\* Mutation: the coroutine is not woken.
WatchdogQuitOnly(w) ==
    IF ~w.interval THEN w ELSE [w EXCEPT !.quit = TRUE, !.timers = 0, !.timer_id = FALSE]

WatchdogQuit(w) ==
    IF ~w.interval THEN w
    ELSE [w EXCEPT !.quit = TRUE, !.timer_id = FALSE,
                   !.timers = IF w.timer_id THEN 0 ELSE @,
                   !.idles = IF w.timer_id THEN @ + 1 ELSE @]

\* colod_main_free has returned; cpg_free, and colo_watchdog_free begins.
colo_watchdog_free ==
    /\ phase = "main"
    /\ phase' = "watchdog"
    /\ watchdog' = WatchdogQuit(watchdog)
    /\ UNCHANGED vars

\* The watchdog has ended.
FreeClients ==
    /\ phase = "watchdog" /\ watchdog.pc = "ended"
    /\ phase' = "clients"
    /\ client_listener_free
    /\ UNCHANGED watchdog

\* All clients are gone; qmp_free.
Done ==
    /\ phase = "clients"
    /\ phase' = "done"
    /\ Freed
    /\ UNCHANGED watchdog

WatchdogStep == WatchdogIdle \/ IntervalPasses \/ WatchdogTimer \/ WatchdogChecked
Teardown == colo_watchdog_free \/ FreeClients \/ Done

DaemonNext ==
    \/ WatchdogStep \/ WatchdogFallsAsleep \/ DaemonIdleSource
    \/ colod_watchdog_refresh \/ colod_main_free \/ Teardown
    \/ /\ \/ client_listener_new_client
          \/ \E k \in Clients : ClientStep(k)
       /\ UNCHANGED <<phase, watchdog>>

DaemonSpec == DaemonInit /\ [][DaemonNext]_daemonVars

\* A command that does not sleep returns (CommandEnds of QmpChannel), a reply is
\* written within its timeout, and a closed connection is readable; the sources of
\* the watchdog are dispatched, and daemon_mainloop goes on.  Clients need not send
\* anything, a daemon need not quit, there need not be any source of idle priority,
\* and qemu may send events so often that the interval never passes.
FairDaemonSpec ==
    /\ DaemonSpec
    /\ \A k \in Clients : WF_daemonVars(Resumes(k) /\ UNCHANGED <<phase, watchdog>>)
    /\ WF_daemonVars(WatchdogIdle) /\ WF_daemonVars(WatchdogTimer)
    /\ WF_daemonVars(WatchdogChecked) /\ WF_daemonVars(Teardown)
-----------------------------------------------------------------------------
\* A watchdog that has not ended is resumed by exactly one source, and by its
\* timer exactly when timer_id says so.  Hence refreshing the timer never adds a
\* second one, colo_watchdog_free wakes the coroutine exactly when nothing else
\* will, and the assertion at the end of the coroutine holds.
WatchdogHasOneSource ==
    /\ watchdog.pc # "ended" => Sources(watchdog) = 1
    /\ watchdog.timer_id => watchdog.timers = 1
    /\ watchdog.timers = 1 => watchdog.timer_id
    /\ ~watchdog.aborted

\* daemon_mainloop returns: the frees end in their order, whatever the watchdog
\* and the clients are doing and go on to do until it is their turn.  Except that
\* a command may sleep from some time on, for which nobody is left to wake it.
DaemonEnds ==
    \/ phase = "main" ~> phase = "done"
    \/ <>[](\/ \E k \in Clients : Asleep(k)
            \/ watchdog.sleep = "asleep")
=============================================================================
