---------------------------- MODULE MainCoroutine ----------------------------
(***************************************************************************)
(* main_coroutine.c: the state machine of the COLO heartbeat daemon, with  *)
(* the parts of the event loop, of the QMP client (qmp.c), of the yellow   *)
(* coroutine and of the raise-timeout coroutine that decide when it runs.  *)
(*                                                                         *)
(* Each daemon is a single-threaded GLib main loop.  The main coroutine    *)
(* yields to the loop inside colod_event_wait, while it waits for a QMP    *)
(* event and while a QMP command is under way, and any source attached for *)
(* it resumes it.  Callbacks run only while it has yielded.  node[n] is    *)
(* the state of daemon n: struct ColodMainCoroutine, the event queue as    *)
(* the list of the queued events in order of arrival (see EventQueue), the *)
(* sources attached for the coroutine, the QMP connection, and pc, the     *)
(* place where the coroutine has yielded or is running.                    *)
(***************************************************************************)
EXTENDS ColodEvents, Cpg

CONSTANTS
    Startups,      \* the sets of nodes that may be started with primary_startup
    Replicating,   \* TRUE: start where both daemons are in COLO_RUNNING
    Inputs,        \* the inputs that may happen, by name
    PeerMessages,  \* what a node that is not in Daemons may send
    MaxInputs,     \* bound on the number of inputs
    QueueSize,     \* the size of the event queue (32 in the code)
    ArrayLen       \* number of commands in each configured command array

ASSUME MainAssumption ==
    /\ PeerMessages \subseteq ColodMessage \cup {"LEFT"}
    /\ Startups \subseteq SUBSET Nodes
    /\ Replicating \in BOOLEAN
    /\ MaxInputs \in Nat
    /\ QueueSize \in Nat
    /\ ArrayLen \in Nat

VARIABLES node, inputs

vars == <<node, inputs, cpgVars>>

MainState ==
    {"SECONDARY_STARTUP", "SECONDARY_WAIT", "SECONDARY_COLO_RUNNING",
     "PRIMARY_STARTUP", "PRIMARY_WAIT", "PRIMARY_START_MIGRATION",
     "PRIMARY_COLO_RUNNING", "FAILOVER_SYNC", "FAILOVER",
     "FAILED_PEER_FAILOVER", "FAILED", "QUIT", "AUTOQUIT"}

\* The places where the coroutine may be, by what it waits for there.
EventPc == {"sw_event", "cr_event", "pw_event", "sm_event", "fs_event",
            "failed_event", "aq_event"}
WaitPc == {"sw_resume", "cr_resume1", "cr_resume2", "sm_preswitch", "sm_colo"}
ArrayPc == {"sm_start", "sm_switch", "fo_array"}
CommandPc == {"startup", "sm_caps", "sm_continue", "sm_cancel", "fo_yank",
              "failed_stop"}
TimedPc == {"sm_preswitch", "sm_colo", "cr_timer"}
EndPc == {"done", "abort"}
Pc == EventPc \cup WaitPc \cup ArrayPc \cup CommandPc \cup EndPc
        \cup {"start", "cr_timer"}

NodeState ==
    [state : MainState,
     transitioning : BOOLEAN, failed : BOOLEAN, peer_failed : BOOLEAN,
     yellow : BOOLEAN, peer_yellow : BOOLEAN, qemu_quit : BOOLEAN,
     peer_failover : BOOLEAN, primary : BOOLEAN, replication : BOOLEAN,
     peer : BOOLEAN,                     \* a peer name is set
     queue : Seq(ColodEvent),            \* in order of arrival
     interrupting : SUBSET ColodEvent,
     \* Sources attached for the coroutine, in the order they were attached:
     \* the idle source of colod_main_new, the wakes of colod_event_queue, the
     \* high priority sources of qmp_wait_event_cb, and the ones that
     \* qmp_read_line and colod_lock_co resume themselves with.
     sources : Seq({"start", "wake", "fired", "self"}),
     \* 0, the id of an attached wake, or the id of the wake being dispatched.
     wake_source_id : {"none", "set", "cur"},
     \* How the coroutine was resumed; "no" if it has yielded.
     run : {"no", "wake", "plain", "reply", "timer", "removed"},
     pc : Pc,
     cmd : BOOLEAN,                      \* a command is under way at pc
     io : BOOLEAN,                       \* and waits for the channel
     left : Nat,                         \* commands left of the array at pc
     fired : BOOLEAN,                    \* the awaited QMP event has come
     qmp_error : BOOLEAN, did_yank : BOOLEAN,
     timeout : {"low", "high"},
     raise : {"none", "start", "stop", "resume"},
     link : LinkState,
     loop : {"run", "quit", "teardown", "dead"}]

\* The state of a daemon is of its type, and its queue within its limit.
TypeOK ==
    /\ node \in [Daemons -> NodeState]
    /\ \A n \in Daemons : Len(node[n].queue) <= QueueSize
    /\ inputs \in Nat
    /\ CpgTypeOK
-----------------------------------------------------------------------------
InitNode(primary_startup) ==
    [state |-> IF ~Replicating THEN "SECONDARY_STARTUP"
               ELSE IF primary_startup THEN "PRIMARY_COLO_RUNNING"
               ELSE "SECONDARY_COLO_RUNNING",
     transitioning |-> FALSE, failed |-> FALSE, peer_failed |-> FALSE,
     yellow |-> FALSE, peer_yellow |-> FALSE, qemu_quit |-> FALSE,
     peer_failover |-> FALSE, primary |-> primary_startup,
     replication |-> Replicating, peer |-> Replicating,
     queue |-> << >>,
     interrupting |-> IF Replicating THEN AlwaysInterrupting \cup {"FAILOVER_SYNC"}
                      ELSE AlwaysInterrupting,
     sources |-> IF Replicating THEN << >> ELSE <<"start">>,
     wake_source_id |-> "none", run |-> "no",
     pc |-> IF Replicating THEN "cr_event" ELSE "start",
     cmd |-> FALSE, io |-> FALSE, left |-> 0, fired |-> FALSE,
     qmp_error |-> FALSE, did_yank |-> FALSE, timeout |-> "low",
     raise |-> "none", link |-> "green", loop |-> "run"]

Init ==
    /\ \E primaries \in Startups :
          node = [n \in Daemons |-> InitNode(n \in primaries)]
    /\ inputs = 0
    /\ CpgInit
-----------------------------------------------------------------------------
(***************************************************************************)
(* What the functions of the source do to the state s of a daemon.         *)
(***************************************************************************)

\* Mutation: only interrupting events wake.
QueueEventInterruptingOnly(s, e) ==
    LET wakes == s.wake_source_id = "none" /\ e \in s.interrupting
        drop == LastIs(s.queue, s.interrupting, e) \/ Len(s.queue) = QueueSize
    IN  [s EXCEPT
           !.sources = IF wakes THEN Append(@, "wake") ELSE @,
           !.wake_source_id = IF wakes THEN "set" ELSE @,
           !.queue = IF drop THEN @ ELSE Append(@, e)]

\* Mutation: the queue has no limit.
QueueEventUnlimited(s, e) ==
    LET wakes == /\ s.wake_source_id = "none"
                 /\ s.queue = << >> \/ e \in s.interrupting
    IN  [s EXCEPT
           !.sources = IF wakes THEN Append(@, "wake") ELSE @,
           !.wake_source_id = IF wakes THEN "set" ELSE @,
           !.queue = IF LastIs(@, s.interrupting, e) THEN @ ELSE Append(@, e)]

\* Mutation: only a coroutine in colod_event_wait is woken.
QueueEventWaitedFor(s, e) ==
    LET wakes == /\ s.wake_source_id = "none" /\ s.pc \in EventPc
                 /\ s.queue = << >> \/ e \in s.interrupting
        drop == LastIs(s.queue, s.interrupting, e) \/ Len(s.queue) = QueueSize
    IN  [s EXCEPT
           !.sources = IF wakes THEN Append(@, "wake") ELSE @,
           !.wake_source_id = IF wakes THEN "set" ELSE @,
           !.queue = IF drop THEN @ ELSE Append(@, e)]

\* Wake the coroutine for the first event and for an interrupting one unless
\* a wake is on its way; drop an event like the last one, and any event if
\* the queue is full.
colod_event_queue(s, e) ==
    LET wakes == /\ s.wake_source_id = "none"
                 /\ s.queue = << >> \/ e \in s.interrupting
        drop == LastIs(s.queue, s.interrupting, e) \/ Len(s.queue) = QueueSize
    IN  [s EXCEPT
           !.sources = IF wakes THEN Append(@, "wake") ELSE @,
           !.wake_source_id = IF wakes THEN "set" ELSE @,
           !.queue = IF drop THEN @ ELSE Append(@, e)]

\* Mutation: any pending event counts (eventqueue_pending).
InterruptedByAny(s) == s.queue # << >>

\* eventqueue_pending_interrupt of the daemon's queue.
Interrupted(s) == PendingInterrupt(s.queue, s.interrupting)

\* The coroutine yields with G_SOURCE_REMOVE: the source that resumed it is
\* destroyed, and event_wake_source_destroy_cb clears wake_source_id whichever
\* wake that was.
Yield(s) ==
    [s EXCEPT !.run = "no",
              !.wake_source_id = IF s.run = "wake" THEN "none" ELSE @]

\* qmp_wait_event_co up to its yield.
WaitEvent(s, pc) == Yield([s EXCEPT !.pc = pc, !.fired = FALSE])

\* A QMP command is written; the coroutine may go on in the same dispatch.
Execute(s, pc) ==
    [s EXCEPT !.pc = pc, !.cmd = TRUE, !.io = FALSE,
              !.run = IF @ = "reply" THEN "plain" ELSE @]

\* colod_execute_array_co before its first command.
ExecuteArray(s, pc) == [s EXCEPT !.pc = pc, !.left = ArrayLen]

\* colod_raise_timeout_coroutine: does nothing while one is alive.
RaiseTimeout(s) ==
    IF s.raise # "none" THEN s
    ELSE [s EXCEPT !.timeout = "high", !.raise = "start"]

\* The sources colod_assert_remove_one_source finds: the attached ones, and the
\* one being dispatched.
SourcesLeft(s) == Len(s.sources) + (IF s.run = "removed" THEN 0 ELSE 1)

\* colod_main_co after the coroutine has returned: no source may be left but
\* the one being dispatched.
Finish(s) ==
    [s EXCEPT !.state = "QUIT", !.run = "no", !.wake_source_id = "none",
              !.sources = << >>,
              !.pc = IF SourcesLeft(s) > 1 THEN "abort" ELSE "done"]

\* The loop of _colod_main_co from its top to the first point where the state
\* st waits or executes something.
EnterState(s, st) ==
    LET t == [s EXCEPT !.transitioning = FALSE, !.state = st, !.left = 0]
        colo == [t EXCEPT !.replication = TRUE,
                          !.interrupting = AlwaysInterrupting \cup {"FAILOVER_SYNC"}]
    IN  CASE st = "SECONDARY_STARTUP" -> Execute(t, "startup")
          [] st = "SECONDARY_WAIT" ->
               WaitEvent([t EXCEPT !.interrupting = AlwaysInterrupting \cup
                            {"FAILOVER_SYNC", "FAILOVER_WIN", "YELLOW", "UNYELLOW"}],
                         "sw_resume")
          [] st \in {"SECONDARY_COLO_RUNNING", "PRIMARY_COLO_RUNNING"} ->
               IF s.primary THEN WaitEvent(colo, "cr_resume1")
               ELSE [colo EXCEPT !.pc = "cr_event"]
          [] st \in {"PRIMARY_STARTUP", "PRIMARY_WAIT"} ->
               [t EXCEPT !.state = "PRIMARY_WAIT", !.primary = TRUE,
                         !.replication = FALSE, !.pc = "pw_event"]
          [] st = "PRIMARY_START_MIGRATION" ->
               Execute([t EXCEPT !.interrupting =
                          AlwaysInterrupting \cup {"FAILOVER_SYNC"}], "sm_caps")
          [] st = "FAILOVER_SYNC" -> [t EXCEPT !.pc = "fs_event"]
          [] st = "FAILOVER" ->
               Execute([t EXCEPT !.interrupting = AlwaysInterrupting], "fo_yank")
          [] st \in {"FAILED", "FAILED_PEER_FAILOVER"} ->
               Execute([t EXCEPT !.state = "FAILED", !.failed = TRUE,
                                 !.peer_failover = @ \/ st = "FAILED_PEER_FAILOVER",
                                 !.timeout = "low"], "failed_stop")
          [] st = "AUTOQUIT" -> [t EXCEPT !.failed = TRUE, !.pc = "aq_event"]
          [] st = "QUIT" -> Finish(t)

\* Mutation: a daemon that fails because its peer takes over keeps it secret.
EnterMessagesSilent(st) ==
    CASE st = "FAILOVER_SYNC" -> <<"FAILOVER">>
      [] st \in {"FAILED", "AUTOQUIT"} -> <<"FAILED">>
      [] OTHER -> << >>

\* The messages sent on that way.
EnterMessages(st) ==
    CASE st = "FAILOVER_SYNC" -> <<"FAILOVER">>
      [] st \in {"FAILED", "FAILED_PEER_FAILOVER", "AUTOQUIT"} -> <<"FAILED">>
      [] OTHER -> << >>

\* event_always_interrupting and handle_always_interrupting.
handle_always_interrupting(e) ==
    IF e = "PEER_FAILOVER" THEN "FAILED_PEER_FAILOVER" ELSE e
-----------------------------------------------------------------------------
(***************************************************************************)
(* Steps of the event loop of a daemon.                                    *)
(***************************************************************************)

Running(n) == node[n].run # "no"

\* The daemon is in its main loop, where callbacks may run.
Looping(n) ==
    node[n].run = "no" /\ node[n].pc \notin EndPc /\ node[n].loop # "dead"

Step(n, s, msgs) == node' = [node EXCEPT ![n] = s] /\ Send(n, msgs)

\* A step of the coroutine that takes no input.
Continue(n, s) == Step(n, s, << >>) /\ UNCHANGED inputs

Goto(n, s, st) == Step(n, EnterState(s, st), EnterMessages(st))

\* Idle sources are dispatched in the order in which they were attached; the
\* high priority ones may overtake them, and may be overtaken by idle sources
\* of the round of dispatches in which they were attached.
DispatchSource(n) ==
    /\ Looping(n)
    /\ \E i \in 1 .. Len(node[n].sources) :
         LET src == node[n].sources[i]
             own == /\ src = "wake" /\ node[n].wake_source_id = "set"
                    /\ \A j \in (i + 1) .. Len(node[n].sources) :
                          node[n].sources[j] # "wake"
         IN  /\ i = 1 \/ src = "fired"
             /\ Continue(n, [node[n] EXCEPT
                  !.sources = RemoveAt(@, i),
                  !.run = IF src = "wake" THEN "wake" ELSE "plain",
                  !.wake_source_id = IF own THEN "cur" ELSE @])

\* A high priority source is attached: the sources that become ready from now
\* on wait for it, only the rest of the present round may come before it.
HighPending(s) == \E i \in 1 .. Len(s.sources) : s.sources[i] = "fired"

\* The reply to the command under way, or the end of its timeout.
DispatchReply(n) ==
    /\ Looping(n) /\ ~HighPending(node[n])
    /\ node[n].cmd /\ node[n].io
    /\ Continue(n, [node[n] EXCEPT !.run = "reply", !.io = FALSE])

\* The timeout of qmp_wait_event_co and the ten seconds of colo_running_co.
DispatchTimer(n) ==
    /\ Looping(n)
    /\ node[n].pc \in TimedPc
    /\ HighPending(node[n]) => node[n].fired
    /\ Continue(n, [node[n] EXCEPT !.run = "timer"])

\* An input of the environment, from the bounded supply.
Input(name) == name \in Inputs /\ inputs < MaxInputs /\ inputs' = inputs + 1
-----------------------------------------------------------------------------
(***************************************************************************)
(* The functions that wait, common to all states.                          *)
(***************************************************************************)

\* colod_event_wait: wake_source_id is cleared if it is the current source.
Woken(s) ==
    [s EXCEPT !.wake_source_id = IF @ = "cur" THEN "none" ELSE @]

\* It yields if there is no event, and if another wake is on its way.
MustYield(s) == s.queue = << >> \/ Woken(s).wake_source_id = "set"

EventYield(n) ==
    /\ Running(n) /\ node[n].pc \in EventPc
    /\ MustYield(node[n])
    /\ Continue(n, Yield(Woken(node[n])))

\* At pc, colod_event_wait returns the event at position i of the queue.
Gets(n, pc, i) ==
    /\ Running(n) /\ node[n].pc = pc
    /\ ~MustYield(node[n])
    /\ IsFirst(node[n].queue, node[n].interrupting, i)

Without(n, i) == [Woken(node[n]) EXCEPT !.queue = RemoveAt(@, i)]

\* colod_qmp_event_wait_co: resumed by something that is neither the event nor
\* the timeout, it expects an event in the queue, and waits again unless that
\* event interrupts.
QmpEventWait(n) ==
    /\ Running(n) /\ node[n].pc \in WaitPc
    /\ ~node[n].fired /\ node[n].run # "timer"
    /\ ~Interrupted(node[n])
    /\ Continue(n, IF node[n].queue = << >>
                   THEN [Yield(node[n]) EXCEPT !.pc = "abort"]
                   ELSE WaitEvent(node[n], node[n].pc))

\* At pc, qmp_wait_event_co returns, for the reason why.
Awaited(n, pc, why) ==
    /\ Running(n) /\ node[n].pc = pc
    /\ CASE why = "event" -> node[n].fired
         [] why = "timeout" -> ~node[n].fired /\ node[n].run = "timer"
         [] why = "interrupt" -> /\ ~node[n].fired /\ node[n].run # "timer"
                                 /\ Interrupted(node[n])

\* The wait is over; g_source_remove has removed its timeout.
EndWait(s) ==
    [s EXCEPT !.fired = FALSE, !.run = IF @ = "timer" THEN "removed" ELSE @]

\* A command under way: not answered yet when something else resumes it.
CommandYield(n) ==
    /\ Running(n) /\ node[n].cmd /\ node[n].run # "reply"
    /\ Continue(n, [Yield(node[n]) EXCEPT !.io = TRUE])

\* _colod_execute_nocheck_co when the command of any coroutine is over: no
\* reply makes the QMP connection fail for good, and a yank, be it older than
\* the command, asks for a failover.
Checked(s, result, yanked) ==
    IF result = "fatal"
    THEN colod_event_queue([s EXCEPT !.qmp_error = TRUE], "FAILED")
    ELSE IF s.did_yank \/ yanked
    THEN colod_event_queue([s EXCEPT !.did_yank = FALSE], "FAILOVER_SYNC")
    ELSE s

Executed(s, result, yanked) ==
    Checked([s EXCEPT !.cmd = FALSE, !.io = FALSE], result, yanked)

\* At pc, _colod_execute_co returns: "ok", "error" (COLOD_ERROR_QMP: qemu
\* replied with an error) or "fatal".  A yank takes a timeout, so the coroutine
\* has yielded before it.  Only success comes for free.
Returns(n, pc, result, yanked) ==
    /\ Running(n) /\ node[n].pc = pc /\ node[n].cmd
    /\ node[n].qmp_error => result = "fatal"
    /\ yanked => node[n].run = "reply"
    /\ CASE result = "ok" /\ ~yanked -> UNCHANGED inputs
         [] result = "fatal" /\ (node[n].qmp_error \/ node[n].qemu_quit) ->
              UNCHANGED inputs
         [] OTHER -> Input(IF result = "ok" THEN "yank" ELSE result)
-----------------------------------------------------------------------------
(***************************************************************************)
(* The states of the main coroutine.                                       *)
(***************************************************************************)

Start(n) ==
    /\ Running(n) /\ node[n].pc = "start"
    /\ LET st == IF node[n].primary THEN "PRIMARY_STARTUP" ELSE "SECONDARY_STARTUP"
       IN  Step(n, EnterState(node[n], st), <<"HELLO">>)
    /\ UNCHANGED inputs

colod_secondary_startup_co(n) ==
    \E result \in {"ok", "error", "fatal"}, yanked \in BOOLEAN :
        /\ Returns(n, "startup", result, yanked)
        /\ Goto(n, Executed(node[n], result, yanked),
                IF result = "ok" THEN "SECONDARY_WAIT" ELSE "FAILED")

\* The event that interrupted the wait for RESUME is taken, and all but the
\* always interrupting ones are discarded.
SecondaryDiscard(n) ==
    \E i \in 1 .. Len(node[n].queue) :
        /\ Gets(n, "sw_event", i)
        /\ LET e == node[n].queue[i]
               s == Without(n, i)
           IN  IF e \in AlwaysInterrupting
               THEN Goto(n, s, handle_always_interrupting(e))
               ELSE Step(n, WaitEvent(IF e = "FAILOVER_SYNC"
                                      THEN [s EXCEPT !.peer_failed = FALSE]
                                      ELSE s, "sw_resume"), << >>)
        /\ UNCHANGED inputs

colod_secondary_wait_co(n) ==
    \/ /\ Awaited(n, "sw_resume", "event")
       /\ Goto(n, RaiseTimeout(EndWait(node[n])), "SECONDARY_COLO_RUNNING")
       /\ UNCHANGED inputs
    \/ /\ Awaited(n, "sw_resume", "interrupt")
       /\ Continue(n, [EndWait(node[n]) EXCEPT !.pc = "sw_event"])
    \/ SecondaryDiscard(n)

\* The primary has lost its link, and the secondary has not.
LinkLost(s) == s.primary /\ s.yellow /\ ~s.peer_yellow

ColoRunningEvent(n) ==
    \E i \in 1 .. Len(node[n].queue) :
        /\ Gets(n, "cr_event", i)
        /\ LET e == node[n].queue[i]
               s == Without(n, i)
           IN  IF e = "FAILOVER_SYNC" THEN Goto(n, s, "FAILOVER_SYNC")
               ELSE IF e \in AlwaysInterrupting
               THEN Goto(n, s, handle_always_interrupting(e))
               ELSE IF e \in {"YELLOW", "UNYELLOW"} /\ LinkLost(s)
               THEN Goto(n, s, "FAILED")
               ELSE Step(n, s, << >>)
        /\ UNCHANGED inputs

colod_colo_running_co(n) ==
    \/ /\ Awaited(n, "cr_resume1", "event")
       /\ Continue(n, WaitEvent(EndWait(node[n]), "cr_resume2"))
    \/ /\ Awaited(n, "cr_resume2", "event")
       /\ Continue(n, Yield([EndWait(node[n]) EXCEPT !.pc = "cr_timer"]))
    \/ /\ \E pc \in {"cr_resume1", "cr_resume2"} : Awaited(n, pc, "interrupt")
       /\ Continue(n, [EndWait(node[n]) EXCEPT !.pc = "cr_event"])
    \/ /\ Running(n) /\ node[n].pc = "cr_timer"
       /\ IF node[n].run = "timer" /\ LinkLost(node[n])
          THEN Goto(n, node[n], "FAILED")
          ELSE Step(n, [node[n] EXCEPT !.pc = "cr_event"], << >>)
       /\ UNCHANGED inputs
    \/ ColoRunningEvent(n)

\* Mutation: a failure of the standalone primary is ignored.
PrimaryWaitIgnoresFailure(n) ==
    \E i \in 1 .. Len(node[n].queue) :
        /\ Gets(n, "pw_event", i)
        /\ LET e == node[n].queue[i]
               s == Without(n, i)
           IN  IF e = "START_MIGRATION" THEN Goto(n, s, "PRIMARY_START_MIGRATION")
               ELSE IF e \in {"QUIT", "AUTOQUIT"} THEN Goto(n, s, e)
               ELSE Step(n, s, << >>)
        /\ UNCHANGED inputs

colod_primary_wait_co(n) ==
    \E i \in 1 .. Len(node[n].queue) :
        /\ Gets(n, "pw_event", i)
        /\ LET e == node[n].queue[i]
               s == Without(n, i)
           IN  IF e = "START_MIGRATION" THEN Goto(n, s, "PRIMARY_START_MIGRATION")
               ELSE IF e \in {"FAILED", "QUIT", "AUTOQUIT"} THEN Goto(n, s, e)
               ELSE Step(n, s, << >>)
        /\ UNCHANGED inputs

\* Label qmp_error of colod_primary_start_migration_co, by the result.
MigrationError(n, s, result) ==
    IF result = "error" THEN Step(n, Execute(s, "sm_cancel"), << >>)
    ELSE Goto(n, s, "FAILED")

\* migrate-set-capabilities, and the commands of the two arrays.
MigrationCommands(n) ==
    \E pc \in {"sm_caps", "sm_start", "sm_switch"},
       result \in {"ok", "error", "fatal"}, yanked \in BOOLEAN :
        /\ Returns(n, pc, result, yanked)
        /\ LET s == Executed(node[n], result, yanked)
           IN  IF result # "ok" THEN MigrationError(n, s, result)
               ELSE IF pc # "sm_caps" THEN Step(n, s, << >>)
               ELSE IF Interrupted(s)
               THEN Step(n, [s EXCEPT !.pc = "sm_event"], << >>)
               ELSE Step(n, ExecuteArray(s, "sm_start"), << >>)

\* The head of the loop of colod_execute_array_co, while commands are left.
ArrayNext(n) ==
    /\ Running(n) /\ node[n].pc \in ArrayPc /\ ~node[n].cmd
    /\ node[n].left > 0
    /\ IF ~Interrupted(node[n])
       THEN Step(n, Execute([node[n] EXCEPT !.left = @ - 1], node[n].pc), << >>)
       ELSE IF node[n].pc = "fo_array"
       THEN Goto(n, [node[n] EXCEPT !.left = 0], "FAILED")
       ELSE Step(n, [node[n] EXCEPT !.pc = "sm_event", !.left = 0], << >>)
    /\ UNCHANGED inputs

ArrayDone(n, pc) ==
    Running(n) /\ node[n].pc = pc /\ ~node[n].cmd /\ node[n].left = 0

\* migrate-continue; whenever it does not go on, the timeout is lowered.
MigrationContinue(n) ==
    \E result \in {"ok", "error", "fatal"}, yanked \in BOOLEAN :
        /\ Returns(n, "sm_continue", result, yanked)
        /\ LET s == Executed(node[n], result, yanked)
               low == [s EXCEPT !.timeout = "low"]
           IN  IF result # "ok" THEN MigrationError(n, low, result)
               ELSE IF Interrupted(s)
               THEN Step(n, [low EXCEPT !.pc = "sm_event"], << >>)
               ELSE Step(n, WaitEvent(s, "sm_colo"), << >>)

\* The waits for pre-switchover and for colo.
MigrationWaits(n) ==
    \E why \in {"event", "timeout", "interrupt"}, pc \in {"sm_preswitch", "sm_colo"} :
        /\ Awaited(n, pc, why)
        /\ LET s == EndWait(node[n])
               failed == IF pc = "sm_colo" THEN [s EXCEPT !.timeout = "low"] ELSE s
           IN  CASE why = "timeout" -> Goto(n, failed, "FAILED")
                 [] why = "interrupt" ->
                      Step(n, [failed EXCEPT !.pc = "sm_event"], << >>)
                 [] why = "event" ->
                      IF pc = "sm_preswitch"
                      THEN Step(n, ExecuteArray(s, "sm_switch"), << >>)
                      ELSE Goto(n, s, "PRIMARY_COLO_RUNNING")
        /\ UNCHANGED inputs

\* Labels handle_event and failover.
MigrationEvent(n) ==
    \/ /\ \E i \in 1 .. Len(node[n].queue) :
            /\ Gets(n, "sm_event", i)
            /\ LET e == node[n].queue[i]
               IN  IF e = "FAILOVER_SYNC"
                   THEN Step(n, Execute(Without(n, i), "sm_cancel"), << >>)
                   ELSE Goto(n, Without(n, i), handle_always_interrupting(e))
       /\ UNCHANGED inputs
    \/ \E result \in {"ok", "error", "fatal"}, yanked \in BOOLEAN :
         /\ Returns(n, "sm_cancel", result, yanked)
         /\ Goto(n, Executed(node[n], result, yanked),
                 IF result = "ok" THEN "FAILOVER_SYNC" ELSE "FAILED")

colod_primary_start_migration_co(n) ==
    \/ MigrationCommands(n)
    \/ /\ ArrayDone(n, "sm_start")
       /\ Step(n, IF Interrupted(node[n]) THEN [node[n] EXCEPT !.pc = "sm_event"]
                  ELSE WaitEvent([node[n] EXCEPT !.transitioning = TRUE],
                                 "sm_preswitch"), << >>)
       /\ UNCHANGED inputs
    \/ /\ ArrayDone(n, "sm_switch")
       /\ Step(n, IF Interrupted(node[n]) THEN [node[n] EXCEPT !.pc = "sm_event"]
                  ELSE Execute(RaiseTimeout(node[n]), "sm_continue"), << >>)
       /\ UNCHANGED inputs
    \/ MigrationContinue(n)
    \/ MigrationWaits(n)
    \/ MigrationEvent(n)

colod_failover_sync_co(n) ==
    \E i \in 1 .. Len(node[n].queue) :
        /\ Gets(n, "fs_event", i)
        /\ LET e == node[n].queue[i]
               s == Without(n, i)
           IN  IF e = "FAILOVER_WIN" THEN Goto(n, s, "FAILOVER")
               ELSE IF e \in AlwaysInterrupting
               THEN Goto(n, s, handle_always_interrupting(e))
               ELSE Step(n, s, << >>)
        /\ UNCHANGED inputs

\* The yank sets did_yank, and the first command after it finds the flag.
FailoverYank(n) ==
    \E result \in {"ok", "error", "fatal"} :
        /\ Returns(n, "fo_yank", result, FALSE)
        /\ LET s == [node[n] EXCEPT !.cmd = FALSE, !.io = FALSE]
           IN  IF result = "ok"
               THEN Step(n, ExecuteArray([s EXCEPT !.did_yank = TRUE,
                                                   !.transitioning = TRUE],
                                         "fo_array"), << >>)
               ELSE Goto(n, [s EXCEPT !.qmp_error = @ \/ result = "fatal"], "FAILED")

colod_failover_co(n) ==
    \/ FailoverYank(n)
    \/ \E result \in {"ok", "error", "fatal"}, yanked \in BOOLEAN :
         /\ Returns(n, "fo_array", result, yanked)
         /\ LET s == Executed(node[n], result, yanked)
            IN  IF result = "fatal" THEN Goto(n, s, "FAILED") ELSE Step(n, s, << >>)
    \/ /\ ArrayDone(n, "fo_array")
       /\ Goto(n, [node[n] EXCEPT !.peer = FALSE], "PRIMARY_WAIT")
       /\ UNCHANGED inputs

\* do_autoquit: g_main_loop_quit, which takes effect when the loop is back.
LoopQuit(s) == [s EXCEPT !.loop = IF @ = "run" THEN "quit" ELSE @]

\* STATE_FAILED after MESSAGE_FAILED has been sent.
Failed(n) ==
    \/ \E result \in {"ok", "error", "fatal"}, yanked \in BOOLEAN :
         /\ Returns(n, "failed_stop", result, yanked)
         /\ Step(n, [Executed(node[n], result, yanked) EXCEPT !.pc = "failed_event"],
                 << >>)
    \/ /\ \E i \in 1 .. Len(node[n].queue) :
            /\ Gets(n, "failed_event", i)
            /\ LET e == node[n].queue[i]
                   s == Without(n, i)
               IN  IF e = "PEER_FAILOVER"
                   THEN Step(n, [s EXCEPT !.peer_failover = TRUE], << >>)
                   ELSE IF e = "QUIT" \/ (e = "AUTOQUIT" /\ ~s.qemu_quit)
                   THEN Goto(n, s, e)
                   ELSE Step(n, IF e = "AUTOQUIT" THEN LoopQuit(s) ELSE s, << >>)
       /\ UNCHANGED inputs

\* STATE_AUTOQUIT after MESSAGE_FAILED has been sent.
Autoquit(n) ==
    \E i \in 1 .. Len(node[n].queue) :
        /\ Gets(n, "aq_event", i)
        /\ LET e == node[n].queue[i]
               s == Without(n, i)
           IN  IF e = "QUIT" THEN Goto(n, s, "QUIT")
               ELSE Step(n, IF e = "PEER_FAILOVER"
                            THEN [s EXCEPT !.peer_failover = TRUE]
                            ELSE IF e = "FAILED" /\ s.qemu_quit THEN LoopQuit(s)
                            ELSE s, << >>)
        /\ UNCHANGED inputs
-----------------------------------------------------------------------------
(***************************************************************************)
(* The callbacks, which run while the coroutine has yielded.  colod_main_  *)
(* free removes them before it waits for the coroutine to end.             *)
(***************************************************************************)
Notified(n) == node[n].loop \in {"run", "quit"}

QmpFailures == {"NBD_BAD", "DISK_BAD", "MIGRATION_FAILED", "COLO_EXIT", "RESET"}
QmpProgress == {"STOP", "RESUME", "PRE_SWITCHOVER", "COLO"}

\* The QMP event that the main coroutine waits for at pc.
AwaitedEvent(pc) ==
    CASE pc \in {"sw_resume", "cr_resume1", "cr_resume2"} -> "RESUME"
      [] pc = "sm_preswitch" -> "PRE_SWITCHOVER"
      [] pc = "sm_colo" -> "COLO"
      [] OTHER -> "nothing"

Expects(s, e) == e = AwaitedEvent(s.pc) /\ ~s.fired

\* colod_qmp_event_cb.
colod_qmp_event_cb(s, e) ==
    CASE e \in {"NBD_BAD", "COLO_EXIT"} -> colod_event_queue(s, "FAILOVER_SYNC")
      [] e = "DISK_BAD" ->
           colod_event_queue([s EXCEPT !.yellow = TRUE, !.link = "off"], "YELLOW")
      [] e = "MIGRATION_FAILED" /\ s.state = "PRIMARY_START_MIGRATION" ->
           colod_event_queue(s, "FAILOVER_SYNC")
      [] e = "RESET" -> RaiseTimeout(s)
      [] OTHER -> s

\* The callbacks of the waits: of the main coroutine (qmp_wait_event_cb), and
\* of the raise-timeout coroutine.
WaitEventCb(s, e) ==
    LET t == [s EXCEPT
                !.raise = IF @ = "stop" /\ e = "STOP" THEN "resume"
                          ELSE IF @ = "resume" /\ e = "RESUME" THEN "none" ELSE @,
                !.timeout = IF s.raise = "resume" /\ e = "RESUME" THEN "low" ELSE @]
    IN  IF Expects(s, e)
        THEN [t EXCEPT !.fired = TRUE, !.sources = Append(@, "fired")]
        ELSE t

\* notify_event.
NotifyEvent(n, e) ==
    WaitEventCb(IF Notified(n) THEN colod_qmp_event_cb(node[n], e) ELSE node[n], e)

NotifyMessages(n, e) ==
    IF Notified(n) /\ e = "DISK_BAD" THEN <<"YELLOW">> \o Revert(node[n].link)
    ELSE << >>

\* qemu sends an event, which the event coroutine or a client's command reads.
QmpEvent(n, e) ==
    /\ Looping(n) /\ ~node[n].qemu_quit /\ ~HighPending(node[n])
    /\ \/ e \in QmpFailures /\ Input(e)
       \/ /\ \/ Expects(node[n], e)
             \/ node[n].raise = "stop" /\ e = "STOP"
             \/ node[n].raise = "resume" /\ e = "RESUME"
          /\ UNCHANGED inputs
    /\ Step(n, NotifyEvent(n, e), NotifyMessages(n, e))

\* The main coroutine reads an event, of which perhaps nobody takes note,
\* before the reply to its command, or finds the channel locked: it attaches
\* an idle source for itself and yields.
CommandSelf(n, e) ==
    /\ Running(n) /\ node[n].cmd
    /\ e \in (Inputs \cap QmpFailures) \cup {"none"}
    /\ node[n].pc = "fo_yank" => e = "none"
    /\ Input("self")
    /\ Step(n, [Yield([NotifyEvent(n, e) EXCEPT !.sources = Append(@, "self")])
                  EXCEPT !.io = FALSE], NotifyMessages(n, e))

\* qemu has closed the connection; the event coroutine may notice first.
colod_hup_cb(n) ==
    /\ Looping(n) /\ Notified(n) /\ ~node[n].qemu_quit
    /\ Input("hup")
    /\ Step(n, colod_event_queue([node[n] EXCEPT !.qemu_quit = TRUE], "FAILED"), << >>)

QmpSetError(n) ==
    /\ Looping(n) /\ ~node[n].qmp_error
    /\ Input("qmp_error")
    /\ Step(n, [node[n] EXCEPT !.qmp_error = TRUE], << >>)

\* Mutation: the peer's failure is noted, and nobody is told.
PeerFailedUnqueued(s) == [s EXCEPT !.peer_failed = TRUE]

\* colod_cpg_event_cb: the peer has left the group, or says that it failed.
PeerFailed(s) == colod_event_queue([s EXCEPT !.peer_failed = TRUE], "FAILOVER_SYNC")

\* Mutation: whose message it is makes no difference.
FailoverMessageAny(s, own) == colod_event_queue(s, "FAILOVER_WIN")

\* MESSAGE_FAILOVER: whose is delivered first wins.
FailoverMessage(s, own) ==
    colod_event_queue(s, IF own THEN "FAILOVER_WIN" ELSE "PEER_FAILOVER")

colod_cpg_event_cb(s, msg, own) ==
    CASE msg = "LEFT" -> PeerFailed(s)
      [] msg = "FAILOVER" -> FailoverMessage(s, own)
      [] msg = "FAILED" /\ ~own -> PeerFailed(s)
      [] msg \in {"YELLOW", "UNYELLOW"} /\ ~own ->
           colod_event_queue([s EXCEPT !.peer_yellow = msg = "YELLOW"], "YELLOW")
      [] OTHER -> s

\* colod_cpg_deliver and colod_cpg_confchg, with the callback.
CpgDispatch(n) ==
    /\ Looping(n)
    /\ inbox[n] # << >>
    /\ LET d == Head(inbox[n])
       IN  /\ node' = [node EXCEPT ![n] =
                         IF Notified(n) THEN colod_cpg_event_cb(@, d.msg, d.from = n)
                         ELSE @]
           /\ colod_cpg_send(n, Taken(n), Unmark(n),
                CASE d.msg = "LEFT" -> Marked(n)
                  [] d.msg = "HELLO" /\ Notified(n) /\ node[n].yellow -> <<"YELLOW">>
                  [] OTHER -> << >>)
    /\ UNCHANGED <<members, inputs>>

Retransmit(n) ==
    Looping(n) /\ colod_cpg_retransmit_cb(n) /\ UNCHANGED <<node, inputs>>

\* external: a peer that is not modelled sends a message, or leaves.
PeerMessage(n, p, m) ==
    /\ n \in members
    /\ Input("peer")
    /\ inbox' = [inbox EXCEPT ![n] = Append(@, [msg |-> m, from |-> p])]
    /\ UNCHANGED <<node, members, retransmit, retransmit_timer, lost>>

\* The yellow coroutine as seen from outside: when the link has been down (up)
\* for 500 ms it tells the peer; when the link comes back within the next
\* second it takes that back ...
LinkChange(n) ==
    /\ Looping(n)
    /\ \E t \in LinkTransition :
         /\ node[n].link = t[1]
         /\ Input(t[2])
         /\ Step(n, [node[n] EXCEPT !.link = t[3]], <<t[4]>>)

\* Mutation: the main coroutine finds out when it happens to look.
YellowEventUnqueued(n) ==
    /\ Looping(n) /\ node[n].link \in {"to_yellow", "to_green"}
    /\ LET yellow == node[n].link = "to_yellow"
       IN  Continue(n, [node[n] EXCEPT !.yellow = yellow,
                                       !.link = IF yellow THEN "yellow" ELSE "green"])

\* ... and otherwise it notifies the main coroutine.
colod_yellow_event_cb(n) ==
    /\ Looping(n) /\ node[n].link \in {"to_yellow", "to_green"}
    /\ LET yellow == node[n].link = "to_yellow"
       IN  Continue(n, colod_event_queue(
             [node[n] EXCEPT !.yellow = yellow,
                             !.link = IF yellow THEN "yellow" ELSE "green"],
             IF yellow THEN "YELLOW" ELSE "UNYELLOW"))

\* The raise-timeout coroutine starts to wait for STOP.
RaiseStart(n) ==
    /\ Looping(n) /\ node[n].raise = "start"
    /\ Continue(n, [node[n] EXCEPT !.raise = "stop"])
-----------------------------------------------------------------------------
(***************************************************************************)
(* What clients and the watchdog ask of the main coroutine.                *)
(***************************************************************************)
colod_start_migration(n) ==
    /\ Looping(n) /\ node[n].state = "PRIMARY_WAIT"
    /\ Input("start_migration")
    /\ Step(n, colod_event_queue(node[n], "START_MIGRATION"), << >>)

colod_autoquit(n) ==
    /\ Looping(n)
    /\ Input("autoquit")
    /\ Step(n, colod_event_queue(node[n], "AUTOQUIT"), << >>)

colod_qemu_failed(n) ==
    /\ Looping(n)
    /\ Input("qemu_failed")
    /\ Step(n, colod_event_queue(node[n], "FAILED"), << >>)

\* Mutation: the wrong flag is reset.
SetPeerForgives(n) ==
    /\ Looping(n)
    /\ Input("set_peer")
    /\ Step(n, [node[n] EXCEPT !.peer = TRUE, !.failed = FALSE,
                               !.peer_yellow = FALSE], << >>)

colod_set_peer(n) ==
    /\ Looping(n)
    /\ Input("set_peer")
    /\ Step(n, [node[n] EXCEPT !.peer = TRUE, !.peer_failed = FALSE,
                               !.peer_yellow = FALSE], << >>)

colod_clear_peer(n) ==
    /\ Looping(n)
    /\ Input("clear_peer")
    /\ Step(n, [node[n] EXCEPT !.peer = FALSE], << >>)

colod_quit(n) ==
    /\ Looping(n) /\ node[n].loop = "run"
    /\ Input("quit")
    /\ Step(n, LoopQuit(node[n]), << >>)

\* A client has a command executed (colod_execute_nocheck_co).
ClientExecute(n) ==
    /\ Looping(n)
    /\ Input("execute")
    /\ \E result \in {"ok", "fatal"}, yanked \in BOOLEAN :
         /\ node[n].qmp_error => result = "fatal"
         /\ Step(n, Checked(node[n], result, yanked), << >>)

colod_yank_co(n) ==
    /\ Looping(n)
    /\ Input("client_yank")
    /\ \E ok \in BOOLEAN :
         Step(n, IF ok
                 THEN colod_event_queue([node[n] EXCEPT !.did_yank = FALSE],
                                        "FAILOVER_SYNC")
                 ELSE colod_event_queue([node[n] EXCEPT !.qmp_error = TRUE],
                                        "FAILED"), << >>)

\* What qemu_query_status_co makes of the answers to query-status and
\* query-colo-status, if they are understood.
QemuMode == [primary : BOOLEAN, replication : BOOLEAN]

\* colod_check_health_co as it ends: qemu does not answer or is not understood,
\* or its mode is compared with what the daemon believes by then.
colod_check_health_co(n) ==
    /\ Looping(n)
    /\ Input("health")
    /\ \E result \in {"ok", "fatal"}, yanked \in BOOLEAN :
         LET s == Checked(node[n], result, yanked)
         IN  /\ node[n].qmp_error => result = "fatal"
             /\ \/ Step(n, colod_event_queue(s, "FAILED"), << >>)
                \/ /\ result = "ok"
                   /\ \E mode \in QemuMode :
                        Step(n, IF \/ s.transitioning
                                   \/ mode.primary = s.primary
                                        /\ mode.replication = s.replication
                                THEN s ELSE colod_event_queue(s, "FAILED"), << >>)
-----------------------------------------------------------------------------
(***************************************************************************)
(* The end of a daemon.                                                    *)
(***************************************************************************)

\* Mutation: EVENT_QUIT goes out before the main loop has returned, if at all.
MainFreeSilent(n) ==
    /\ Looping(n) /\ node[n].loop = "quit"
    /\ Step(n, [node[n] EXCEPT
                  !.loop = "teardown", !.link = "off", !.raise = "none",
                  !.timeout = IF node[n].raise # "none" THEN "low" ELSE @],
            Revert(node[n].link))
    /\ UNCHANGED inputs

\* The main loop has returned: QUIT is queued and the callbacks are removed.
colod_main_free(n) ==
    /\ Looping(n) /\ node[n].loop = "quit"
    /\ Step(n, [colod_event_queue(node[n], "QUIT") EXCEPT
                  !.loop = "teardown", !.link = "off", !.raise = "none",
                  !.timeout = IF node[n].raise # "none" THEN "low" ELSE @],
            Revert(node[n].link))
    /\ UNCHANGED inputs

Dead(s) ==
    [s EXCEPT !.loop = "dead", !.pc = "done", !.run = "no", !.sources = << >>,
              !.queue = << >>, !.wake_source_id = "none", !.cmd = FALSE, !.io = FALSE,
              !.fired = FALSE]

\* The process exits, aborts or is killed, and corosync notices.
Exit(n) ==
    /\ node[n].loop # "dead"
    /\ \/ node[n].pc \in EndPc /\ UNCHANGED inputs
       \/ Input("crash")
    /\ node' = [node EXCEPT ![n] = Dead(@)]
    /\ Leave(n)
-----------------------------------------------------------------------------
\* The steps of the main coroutine.
MainCo(n) ==
    \/ Start(n)
    \/ EventYield(n) \/ QmpEventWait(n) \/ CommandYield(n) \/ ArrayNext(n)
    \/ colod_secondary_startup_co(n) \/ colod_secondary_wait_co(n)
    \/ colod_colo_running_co(n) \/ colod_primary_wait_co(n)
    \/ colod_primary_start_migration_co(n)
    \/ colod_failover_sync_co(n) \/ colod_failover_co(n)
    \/ Failed(n) \/ Autoquit(n)

\* What the daemon's event loop does without being asked.
Loop(n) ==
    \/ DispatchSource(n) \/ DispatchReply(n) \/ DispatchTimer(n)
    \/ CpgDispatch(n) \/ Retransmit(n)
    \/ colod_yellow_event_cb(n) \/ RaiseStart(n)
    \/ colod_main_free(n)

\* What the environment does to it.
Environment(n) ==
    \/ \E e \in QmpFailures \cup QmpProgress : QmpEvent(n, e)
    \/ \E e \in QmpFailures \cup {"none"} : CommandSelf(n, e)
    \/ colod_hup_cb(n) \/ QmpSetError(n)
    \/ \E p \in Nodes \ Daemons, m \in PeerMessages : PeerMessage(n, p, m)
    \/ LinkChange(n)
    \/ colod_start_migration(n) \/ colod_autoquit(n) \/ colod_qemu_failed(n)
    \/ colod_set_peer(n) \/ colod_clear_peer(n) \/ colod_quit(n)
    \/ ClientExecute(n) \/ colod_yank_co(n) \/ colod_check_health_co(n)

\* A resumed coroutine runs until it yields without waiting for anything: the
\* steps other daemons take in the meantime are independent of it and are
\* taken to come before or after.
Next ==
    \E n \in Daemons :
        /\ \A m \in Daemons \ {n} : ~Running(m)
        /\ MainCo(n) \/ Loop(n) \/ Environment(n) \/ Exit(n)

Spec == Init /\ [][Next]_vars
-----------------------------------------------------------------------------
\* A daemon that has yielded with work to do will be resumed: an event in the
\* queue of a coroutine in colod_event_wait, or an interrupting event in the
\* queue of a primary that waits for QMP, comes with an attached source.  The
\* sources are one-shot, wake_source_id suppresses new ones, and the destroy
\* notification of one wake clears the id of another.
NoLostWakeup ==
    \A n \in Daemons :
        LET s == node[n]
        IN  /\ Looping(n)
            /\ \/ s.pc \in EventPc /\ s.queue # << >>
               \/ s.pc \in WaitPc \ {"sw_resume"} /\ Interrupted(s)
            => s.sources # << >>

\* A migration that is interrupted finds, at label handle_event, an event that
\* its handler knows, also if colod_event_wait has to yield there: neither the
\* assertion before it nor the abort() of handle_always_interrupting is
\* reached.
MigrationInterrupted ==
    \A n \in Daemons :
        node[n].pc = "sm_event" =>
            \E i \in 1 .. Len(node[n].queue) :
                /\ IsFirst(node[n].queue, node[n].interrupting, i)
                /\ node[n].queue[i] \in AlwaysInterrupting \cup {"FAILOVER_SYNC"}

\* A primary that has lost its link to a secondary that has not does not go on
\* replicating: whenever it is in that situation in its event loop, an event
\* that makes it look again or leave is queued.  Events are merged with the
\* last one and dropped by a full queue, and the test at the end of the ten
\* seconds is skipped if something resumes the coroutine earlier.
LinkLossNoticed ==
    \A n \in Daemons :
        /\ Looping(n) /\ node[n].pc = "cr_event"
        /\ LinkLost(node[n])
        => \E i \in 1 .. Len(node[n].queue) :
             node[n].queue[i] \in AlwaysInterrupting
                                    \cup {"FAILOVER_SYNC", "YELLOW", "UNYELLOW"}

\* A daemon that has failed, and tells its clients so, never owns the guest
\* again.
FailedIsFinal ==
    [][\A n \in Daemons : node[n].failed =>
         node'[n].failed /\ node'[n].state \in {"FAILED", "AUTOQUIT", "QUIT"}]_vars

\* The node takes over, or has taken over, the guest as a standalone primary.
Owns(n) ==
    node[n].loop # "dead" /\ node[n].state \in {"FAILOVER", "PRIMARY_WAIT"}

\* When replication breaks, at most one daemon takes over the guest.
OneOwner == \A m, n \in Daemons : Owns(m) /\ Owns(n) => m = n

\* A failure is not forgotten: until its peer knows, the MESSAGE_FAILED of a
\* failed daemon is under way or marked for retransmission.
FailureAnnounced ==
    \A n, p \in Daemons :
        /\ n # p /\ node[n].failed /\ Looping(n) /\ node[p].loop \in {"run", "quit"}
        => \/ node[p].peer_failed
           \/ "FAILED" \in retransmit[n]
           \/ \E i \in 1 .. Len(inbox[p]) : inbox[p][i] = [msg |-> "FAILED", from |-> n]

-----------------------------------------------------------------------------
(***************************************************************************)
(* Fairness.  A GLib main loop dispatches every attached source, replies   *)
(* and timeouts of QMP commands included, and a resumed coroutine runs     *)
(* until it yields.  Corosync delivers what was sent.  Nothing is assumed  *)
(* of qemu, of the link, of clients or of failures.                        *)
(***************************************************************************)
Fairness ==
    \A n \in Daemons :
        /\ WF_vars(MainCo(n))
        /\ WF_vars(DispatchSource(n)) /\ WF_vars(DispatchReply(n))
        /\ WF_vars(DispatchTimer(n))
        /\ WF_vars(CpgDispatch(n)) /\ WF_vars(Retransmit(n))
        /\ WF_vars(colod_main_free(n))

FairSpec == Spec /\ Fairness

\* A failover is always decided: a daemon that asks for it stays no longer in
\* FAILOVER_SYNC than its own or its peer's message takes, even if the message
\* was lost at first.
SyncResolves ==
    \A n \in Daemons :
        (node[n].state = "FAILOVER_SYNC" /\ node[n].loop # "dead")
          ~> (node[n].state # "FAILOVER_SYNC" \/ node[n].loop = "dead")

\* When a daemon has failed or is gone, its peer does not go on replicating.
FailureTakesEffect ==
    \A n, p \in Daemons :
        (node[n].failed \/ node[n].loop = "dead")
          ~> (node[p].loop = "dead" \/ ~node[p].replication
                \/ node[p].state \notin {"PRIMARY_COLO_RUNNING",
                                         "SECONDARY_COLO_RUNNING"})

\* A secondary that sleeps until qemu resumes, on top of an interrupting event
\* and with no source attached that would have it look at its queue.
Asleep(n) ==
    /\ Looping(n) /\ node[n].pc = "sw_resume"
    /\ Interrupted(node[n]) /\ node[n].sources = << >>

\* No event puts a daemon to sleep: only a secondary that begins its wait with an
\* event in the queue, whose wake it has spent before, may be asleep; one that
\* comes during the wait, in whatever company, has a source that wakes it.
SleepsFromStart ==
    [][\A n \in Daemons : ~Asleep(n) /\ Asleep(n)' => Running(n)]_vars

\* An EVENT_FAILED that is in the queue makes the daemon fail: no wait is deaf to
\* it, and no state discards it.  The one exception is a secondary that sleeps
\* like that for ever, because qemu never resumes.
FailureHandled ==
    \A n \in Daemons :
        \/ (\E i \in 1 .. Len(node[n].queue) : node[n].queue[i] = "FAILED")
              ~> (node[n].failed \/ node[n].pc \in EndPc \/ node[n].loop = "dead")
        \/ <>[]Asleep(n)

\* colod_main_free returns: once the main loop has been told to quit, the main
\* coroutine comes to its end, unless it is such a secondary.
QuitFinishes ==
    \A n \in Daemons :
        \/ (node[n].loop = "quit") ~> (node[n].pc \in EndPc \/ node[n].loop = "dead")
        \/ <>[]Asleep(n)
-----------------------------------------------------------------------------
(***************************************************************************)
(* What assertions and comments of the source say, and the code does not   *)
(* keep up (see the README).                                               *)
(***************************************************************************)

\* No assertion of the main coroutine fails: a wait for QMP that is resumed
\* without its event finds an event in the queue, and the coroutine ends with
\* no source left.
NoAbort == \A n \in Daemons : node[n].pc # "abort"

\* A secondary that waits for qemu to resume is interrupted by the events it has
\* to discard or to follow: with one in its queue it is about to be resumed.
SecondaryInterrupted == \A n \in Daemons : ~Asleep(n)

\* The message of the daemon that lost the failover does no harm to the one
\* that won: when both ask and nothing else goes wrong, one survives.
OneSurvives == \E n \in Daemons : ~node[n].failed
=============================================================================
