---------------------------- MODULE DaemonProofs ----------------------------
(***************************************************************************)
(* The watchdog and the clients of a daemon that is torn down.             *)
(* WatchdogHasOneSource is not inductive: that one source is attached says *)
(* nothing of what is attached after it was dispatched.  WatchdogOK says   *)
(* which one it is, wherever the coroutine waits; in its timer's place it  *)
(* may be the idle source of colo_watchdog_free, and then quit is set.     *)
(***************************************************************************)
EXTENDS Daemon, ClientProofs

WatchdogOK(w) ==
    /\ w \in Watchdog
    /\ ~w.aborted
    /\ w.pc = "start" => w.idles = 1 /\ w.timers = 0 /\ w.commands = 0 /\ ~w.timer_id
    /\ w.pc = "timer" =>
          /\ w.commands = 0
          /\ \/ w.timer_id /\ w.timers = 1 /\ w.idles = 0 /\ ~w.quit
             \/ ~w.timer_id /\ w.timers = 0 /\ w.idles = 1 /\ w.quit
    /\ w.pc = "check" => w.idles = 0 /\ w.timers = 0 /\ w.commands = 1 /\ ~w.timer_id
    /\ w.pc = "ended" => w.idles = 0 /\ w.timers = 0 /\ w.commands = 0 /\ ~w.timer_id

WatchdogInv == WatchdogOK(watchdog)

DaemonInv ==
    IInv /\ WatchdogInv /\ phase \in {"run", "main", "watchdog", "clients", "done"}

LEMMA WatchdogInit == DaemonInit => WatchdogInv
  <1> SUFFICES ASSUME NEW interval \in BOOLEAN, watchdog = colod_watchdog_new(interval)
               PROVE  WatchdogInv
    BY DEF DaemonInit
  <1>1. watchdog \in Watchdog
    BY DEF colod_watchdog_new, Watchdog, Sleep
  <1>2. /\ watchdog.pc = IF interval THEN "start" ELSE "ended"
        /\ watchdog.idles = IF interval THEN 1 ELSE 0
        /\ watchdog.timers = 0 /\ watchdog.commands = 0
        /\ watchdog.timer_id = FALSE /\ watchdog.aborted = FALSE
    BY DEF colod_watchdog_new
  <1> QED
    BY <1>1, <1>2 DEF WatchdogInv, WatchdogOK

\* What a record of the watchdog is made of.
LEMMA Fields ==
    ASSUME NEW w \in Watchdog
    PROVE  /\ w.pc \in {"start", "timer", "check", "ended"}
           /\ w.timer_id \in BOOLEAN /\ w.quit \in BOOLEAN
           /\ w.idles \in Nat /\ w.timers \in Nat /\ w.commands \in Nat
           /\ \A n \in Nat : /\ [w EXCEPT !.idles = n] \in Watchdog
                           /\ [w EXCEPT !.timers = n] \in Watchdog
  BY DEF Watchdog

\* The coroutine has been resumed by its only source, and ends, sets its timer,
\* or begins a check.
LEMMA ResumedOK ==
    ASSUME NEW w \in Watchdog, w.idles = 0, w.timers = 0, w.commands = 0, ~w.aborted,
           w.pc = "timer" \/ ~w.timer_id
    PROVE  /\ ~w.timer_id => WatchdogOK(Ended(w)) /\ WatchdogOK(WatchdogLoop(w))
           /\ w.pc \in {"start", "timer"} /\ (w.quit => ~w.timer_id) => WatchdogOK(Resumed(w))
  <1>1. ASSUME ~w.timer_id PROVE WatchdogOK(Ended(w))
    <2>1. (Sources(w) > 0) = FALSE
      BY DEF Sources
    <2>2. Ended(w) = [w EXCEPT !.pc = "ended", !.idles = 0, !.timers = 0, !.commands = 0,
                               !.aborted = FALSE]
      BY <2>1 DEF Ended
    <2>3. Ended(w) \in Watchdog
      BY <2>2 DEF Watchdog
    <2> QED
      BY <1>1, <2>2, <2>3 DEF WatchdogOK, Watchdog
  <1>2. ASSUME ~w.timer_id PROVE WatchdogOK(WatchdogLoop(w))
    <2>1. CASE w.quit
      BY <1>1, <1>2, <2>1 DEF WatchdogLoop
    <2>2. CASE ~w.quit
      <3>0. w.timers + 1 = 1
        OBVIOUS
      <3>1. WatchdogLoop(w) = [w EXCEPT !.pc = "timer", !.timer_id = TRUE, !.due = FALSE, !.timers = 1]
        BY <2>2, <3>0, Zenon DEF WatchdogLoop
      <3>2. 1 \in Nat
        OBVIOUS
      <3>3. WatchdogLoop(w) \in Watchdog
        BY <3>1, <3>2, Zenon DEF Watchdog
      <3> QED
        BY <2>2, <3>1, <3>3 DEF WatchdogOK, Watchdog
    <2> QED
      BY <2>1, <2>2
  <1>3. ASSUME w.pc = "timer", ~w.quit PROVE WatchdogOK(Resumed(w))
    <2>1. Resumed(w) = [w EXCEPT !.pc = "check", !.timer_id = FALSE, !.commands = 1]
      BY <1>3 DEF Resumed
    <2>2. 1 \in Nat
      OBVIOUS
    <2>3. Resumed(w) \in Watchdog
      BY <2>1, <2>2, Zenon DEF Watchdog
    <2> QED
      BY <1>3, <2>1, <2>3 DEF WatchdogOK, Watchdog
  <1> QED
    BY <1>1, <1>2, <1>3 DEF Resumed

LEMMA IdleKeeps == WatchdogInv /\ WatchdogIdle => WatchdogInv'
  <1> SUFFICES ASSUME WatchdogInv, WatchdogIdle PROVE WatchdogInv'
    OBVIOUS
  <1> DEFINE w == [watchdog EXCEPT !.idles = @ - 1]
  <1>1. /\ w \in Watchdog /\ w.idles = 0 /\ w.timers = 0 /\ w.commands = 0 /\ ~w.aborted
        /\ ~w.timer_id /\ w.pc \in {"start", "timer"}
    <2>1. /\ watchdog \in Watchdog /\ watchdog.idles = 1 /\ watchdog.timers = 0
          /\ watchdog.commands = 0 /\ ~watchdog.aborted /\ ~watchdog.timer_id
          /\ watchdog.pc \in {"start", "timer"}
      BY Fields DEF WatchdogInv, WatchdogOK, WatchdogIdle
    <2>2. w = [watchdog EXCEPT !.idles = 0]
      BY <2>1
    <2>3. w \in Watchdog
      BY <2>1, <2>2, Fields
    <2> QED
      BY <2>1, <2>2, <2>3 DEF Watchdog
  <1>2. watchdog' = Resumed(w)
    BY DEF WatchdogIdle
  <1> HIDE DEF w
  <1> QED
    BY <1>1, <1>2, ResumedOK DEF WatchdogInv

LEMMA TimerKeeps == WatchdogInv /\ (IntervalPasses \/ WatchdogTimer) => WatchdogInv'
  <1> SUFFICES ASSUME WatchdogInv, IntervalPasses \/ WatchdogTimer PROVE WatchdogInv'
    OBVIOUS
  <1>1. CASE IntervalPasses
    <2>1. watchdog \in Watchdog /\ watchdog' = [watchdog EXCEPT !.due = TRUE]
      BY <1>1 DEF IntervalPasses, WatchdogInv, WatchdogOK
    <2>2. watchdog' \in Watchdog
      BY <2>1 DEF Watchdog
    <2> QED
      BY <2>1, <2>2 DEF WatchdogInv, WatchdogOK, Watchdog
  <1>2. CASE WatchdogTimer
    <2> DEFINE w == [watchdog EXCEPT !.timers = @ - 1]
    <2>0. /\ watchdog \in Watchdog /\ watchdog.idles = 0 /\ watchdog.timers = 1
          /\ watchdog.commands = 0 /\ ~watchdog.aborted /\ watchdog.timer_id
          /\ watchdog.pc = "timer" /\ ~watchdog.quit
      BY <1>2, Fields DEF WatchdogInv, WatchdogOK, WatchdogTimer
    <2>1. /\ w \in Watchdog /\ w.idles = 0 /\ w.timers = 0 /\ w.commands = 0 /\ ~w.aborted
          /\ w.pc = "timer" /\ w.timer_id /\ w.quit = watchdog.quit
      <3>1. w = [watchdog EXCEPT !.timers = 0]
        BY <2>0
      <3>2. w \in Watchdog
        BY <2>0, <3>1, Fields
      <3> QED
        BY <2>0, <3>1, <3>2 DEF Watchdog
    <2>2. watchdog' = Resumed(w)
      BY <1>2 DEF WatchdogTimer
    <2> HIDE DEF w
    <2> QED
      BY <2>0, <2>1, <2>2, ResumedOK DEF WatchdogInv
  <1> QED
    BY <1>1, <1>2

LEMMA CheckKeeps == WatchdogInv /\ WatchdogChecked => WatchdogInv'
  <1> SUFFICES ASSUME WatchdogInv, WatchdogChecked PROVE WatchdogInv'
    OBVIOUS
  <1> DEFINE w == [watchdog EXCEPT !.commands = @ - 1, !.sleep = "not yet"]
  <1>1. /\ w \in Watchdog /\ w.idles = 0 /\ w.timers = 0 /\ w.commands = 0 /\ ~w.aborted
        /\ ~w.timer_id
    <2>1. /\ watchdog \in Watchdog /\ watchdog.idles = 0 /\ watchdog.timers = 0
          /\ watchdog.commands = 1 /\ ~watchdog.aborted /\ ~watchdog.timer_id
      BY Fields DEF WatchdogInv, WatchdogOK, WatchdogChecked
    <2>2. w = [watchdog EXCEPT !.commands = 0, !.sleep = "not yet"]
      BY <2>1
    <2>3. w \in Watchdog
      BY <2>1, <2>2 DEF Watchdog, Sleep
    <2> QED
      BY <2>1, <2>2, <2>3 DEF Watchdog
  <1>2. watchdog' \in {WatchdogLoop(w), Ended(w)}
    BY DEF WatchdogChecked
  <1> HIDE DEF w
  <1> QED
    BY <1>1, <1>2, ResumedOK DEF WatchdogInv

LEMMA RefreshKeeps == WatchdogInv /\ colod_watchdog_refresh => WatchdogInv'
  <1> SUFFICES ASSUME WatchdogInv, colod_watchdog_refresh PROVE WatchdogInv'
    OBVIOUS
  <1>1. watchdog \in Watchdog /\ watchdog.timer_id /\ watchdog.pc = "timer" /\ watchdog.timers = 1
    BY DEF WatchdogInv, WatchdogOK, colod_watchdog_refresh, Watchdog
  <1>2. watchdog' = [watchdog EXCEPT !.due = FALSE, !.timers = 1]
    BY <1>1 DEF colod_watchdog_refresh
  <1>3. watchdog' \in Watchdog
    BY <1>1, <1>2 DEF Watchdog
  <1> QED
    BY <1>1, <1>2, <1>3 DEF WatchdogInv, WatchdogOK, Watchdog

LEMMA QuitKeeps == WatchdogInv /\ colo_watchdog_free => WatchdogInv'
  <1> SUFFICES ASSUME WatchdogInv, colo_watchdog_free PROVE WatchdogInv'
    OBVIOUS
  <1>0. watchdog \in Watchdog
    BY DEF WatchdogInv, WatchdogOK
  <1>1. CASE ~watchdog.interval
    BY <1>1 DEF WatchdogInv, colo_watchdog_free, WatchdogQuit
  <1>2. CASE watchdog.interval /\ watchdog.timer_id
    <2>1. watchdog.pc = "timer" /\ watchdog.idles = 0 /\ watchdog.commands = 0
      BY <1>2 DEF WatchdogInv, WatchdogOK, Watchdog
    <2>2. watchdog' = [watchdog EXCEPT !.quit = TRUE, !.timer_id = FALSE, !.timers = 0, !.idles = 1]
      BY <1>2, <2>1 DEF colo_watchdog_free, WatchdogQuit
    <2>3. watchdog' \in Watchdog
      BY <1>0, <2>2 DEF Watchdog
    <2> QED
      BY <1>0, <2>1, <2>2, <2>3 DEF WatchdogInv, WatchdogOK, Watchdog
  <1>3. CASE watchdog.interval /\ ~watchdog.timer_id
    <2>1. watchdog' = [watchdog EXCEPT !.quit = TRUE, !.timer_id = FALSE]
      BY <1>0, <1>3 DEF colo_watchdog_free, WatchdogQuit, Watchdog
    <2>2. watchdog' \in Watchdog
      BY <1>0, <2>1 DEF Watchdog
    <2> QED
      BY <1>0, <1>3, <2>1, <2>2 DEF WatchdogInv, WatchdogOK, Watchdog
  <1> QED
    BY <1>1, <1>2, <1>3

LEMMA SleepKeeps == WatchdogInv /\ (WatchdogFallsAsleep \/ DaemonIdleSource) => WatchdogInv'
  <1> SUFFICES ASSUME WatchdogInv, WatchdogFallsAsleep \/ DaemonIdleSource PROVE WatchdogInv'
    OBVIOUS
  <1>1. watchdog \in Watchdog
    BY DEF WatchdogInv, WatchdogOK
  <1>2. PICK sleep \in Sleep : watchdog' = [watchdog EXCEPT !.sleep = sleep]
    BY <1>1 DEF WatchdogFallsAsleep, DaemonIdleSource, Watchdog, Sleep
  <1>3. watchdog' \in Watchdog
    BY <1>1, <1>2 DEF Watchdog
  <1> QED
    BY <1>1, <1>2, <1>3 DEF WatchdogInv, WatchdogOK, Watchdog

\* The clients see of the watchdog only that it may report a failure.
LEMMA FailureKeeps ==
    ASSUME IInv, failed' \in BOOLEAN, failed => failed', UNCHANGED <<client, listener, guest, requests>>
    PROVE  IInv'
  BY DEF IInv, TypeOK, QuitIsTeardown, NewIsFresh, StoppedIsOwned

LEMMA DaemonKeeps == DaemonInv /\ [DaemonNext]_daemonVars => DaemonInv'
  <1> SUFFICES ASSUME DaemonInv, [DaemonNext]_daemonVars PROVE DaemonInv'
    OBVIOUS
  <1>0. IInv /\ WatchdogInv /\ phase \in {"run", "main", "watchdog", "clients", "done"}
    BY DEF DaemonInv
  <1>1. ASSUME UNCHANGED watchdog PROVE WatchdogInv'
    BY <1>0, <1>1 DEF WatchdogInv
  <1>2. CASE UNCHANGED daemonVars
    BY <1>0, <1>1, <1>2, NothingKeeps DEF daemonVars, DaemonInv
  <1>3. CASE IntervalPasses \/ WatchdogFallsAsleep \/ colod_watchdog_refresh
    <2>1. UNCHANGED vars /\ UNCHANGED phase
      BY <1>3 DEF IntervalPasses, WatchdogFallsAsleep, colod_watchdog_refresh
    <2> QED
      BY <1>0, <1>3, <2>1, NothingKeeps, TimerKeeps, SleepKeeps, RefreshKeeps DEF DaemonInv
  <1>9. CASE WatchdogIdle \/ WatchdogTimer \/ DaemonIdleSource
    <2>1. /\ IdleDispatch /\ UNCHANGED <<listener, guest, failed, requests>>
          /\ UNCHANGED phase
      BY <1>9 DEF WatchdogIdle, WatchdogTimer, DaemonIdleSource, OtherIdleSource
    <2> QED
      BY <1>0, <1>9, <2>1, WokenKeeps, IdleKeeps, TimerKeeps, SleepKeeps DEF DaemonInv
  <1>4. CASE WatchdogChecked
    <2>1. failed' \in BOOLEAN /\ (failed => failed')
      <3>1. failed \in BOOLEAN
        BY <1>0 DEF IInv, TypeOK
      <3>2. failed' = failed \/ failed' = TRUE
        BY <1>4 DEF WatchdogChecked
      <3> QED
        BY <3>1, <3>2, Zenon
    <2>2. UNCHANGED <<client, listener, guest, requests>> /\ UNCHANGED phase
      BY <1>4 DEF WatchdogChecked
    <2> QED
      BY <1>0, <1>4, <2>1, <2>2, FailureKeeps, CheckKeeps DEF DaemonInv
  <1>5. CASE colod_main_free
    BY <1>0, <1>1, <1>5, NothingKeeps DEF colod_main_free, DaemonInv
  <1>6. CASE colo_watchdog_free
    BY <1>0, <1>6, NothingKeeps, QuitKeeps DEF colo_watchdog_free, DaemonInv
  <1>7. CASE FreeClients \/ Done
    BY <1>0, <1>1, <1>7, FreeKeeps DEF FreeClients, Done, DaemonInv
  <1>8. CASE (client_listener_new_client \/ \E k \in Clients : ClientStep(k))
             /\ UNCHANGED <<phase, watchdog>>
    BY <1>0, <1>1, <1>8, NewClientKeeps, ClientKeeps DEF DaemonInv
  <1> QED
    BY <1>2, <1>3, <1>4, <1>5, <1>6, <1>7, <1>8, <1>9 DEF DaemonNext, WatchdogStep, Teardown

LEMMA DaemonInvariant == DaemonSpec => []DaemonInv
  <1>1. DaemonInit => DaemonInv
    BY InitIInv, WatchdogInit DEF DaemonInit, DaemonInv
  <1> QED
    BY <1>1, DaemonKeeps, PTL DEF DaemonSpec

\* watchdog.c: at every moment, whatever the order of timer, health check, QMP
\* events and teardown, one source resumes the watchdog and timer_id tells which:
\* the assertion of colod_watchdog_co holds, and colo_watchdog_free is not deaf.
THEOREM WatchdogResumed == DaemonSpec => []WatchdogHasOneSource
  <1>1. DaemonInv => WatchdogHasOneSource
    <2> SUFFICES ASSUME WatchdogOK(watchdog) PROVE WatchdogHasOneSource
      BY DEF DaemonInv, WatchdogInv
    <2>1. watchdog \in Watchdog
      BY DEF WatchdogOK
    <2> QED
      BY <2>1, Fields DEF WatchdogOK, WatchdogHasOneSource, Sources
  <1> QED
    BY <1>1, DaemonInvariant, PTL

\* client.c within daemon_mainloop: while the main coroutine and the watchdog are
\* being freed, clients go on to stop and continue the guest, and it still never
\* stays stopped without a client that answers for it.
THEOREM DaemonStoppedOwned == DaemonSpec => []StoppedIsOwned
  <1>1. DaemonInv => StoppedIsOwned
    BY DEF DaemonInv, IInv
  <1> QED
    BY <1>1, DaemonInvariant, PTL
=============================================================================
