------------------------------ MODULE QmpChannel ------------------------------
(***************************************************************************)
(* qmp.c with the lock of coutil.h: the coroutines of a daemon send their  *)
(* commands to qemu over one channel, and over a second one when the first *)
(* has to be yanked.  Per channel there are a lock, a handshake coroutine, *)
(* which holds it first, and an event coroutine, which reads while nobody  *)
(* has a command under way.                                                *)
(*                                                                         *)
(* A coroutine that waits for a lock has a progress source attached        *)
(* (util.c): it is not polled for, and it is ready when the main loop      *)
(* comes to sources of idle priority for another reason.  `ready' are the  *)
(* waiters for which that has happened.  qemu is external.                 *)
(***************************************************************************)
EXTENDS Integers, Sequences

CONSTANTS
    Users,         \* coroutines that send commands
    MaxCommands,   \* bound on the calls of the users
    MaxEvents      \* per channel, bound on the events qemu sends

Channel == {"main", "yank"}
Coroutines == Users \cup Channel   \* a channel names its handshake coroutine

ASSUME QmpAssumption ==
    /\ Users \cap {"main", "yank", "events", "none"} = {}
    /\ MaxCommands \in Nat /\ MaxEvents \in [Channel -> Nat]

VARIABLES
    co,         \* per coroutine, the commands it is in and where it is
    ready,      \* waiters whose progress source is to be dispatched
    event_co,   \* per channel, where its event coroutine is
    lock,       \* per channel, holder and count
    state,      \* error, did_yank and inflight of ColodQmpState
    phase,      \* "run", "free" during qmp_free, "freed" after it
    wire,       \* per channel, the complete lines qemu has sent
    pending,    \* per channel, the commands qemu has not answered
    closed,     \* whether the channels are shut down
    issued,     \* number of calls by the users, which identifies commands
    sent,       \* per channel, number of events
    notified    \* the events for which the callbacks were called

qemuVars == <<wire, pending, closed, sent>>
vars == <<co, ready, event_co, lock, state, phase, qemuVars, issued, notified>>

\* A call of __qmp_execute_co, or of the handshake's qmp_read_line_co.
Command == {"command", "query-yank", "yank", "greeting", "qmp_capabilities"}
Frame == [chan : Channel, cmd : Command, yank : BOOLEAN, id : Nat]
Line == [type : {"reply", "event"}, of : Nat]

FrameOf(chan, cmd, yank, id) ==
    [chan |-> chan, cmd |-> cmd, yank |-> yank, id |-> id]

NoHolder == [holder |-> "none", count |-> 0]

\* did_yank: not set, or set, by a command that timed out or by the yank of
\* colod_failover_co, whichever was last.
Yanked == {"no", "command", "failover"}

\* The state is of its type.
TypeOK ==
    /\ co \in [Coroutines ->
                 [pc : {"idle", "lock", "write", "read", "self", "ended"},
                  frames : Seq(Frame)]]
    /\ ready \subseteq Coroutines
    /\ event_co \in [Channel -> {"watch", "read", "ended"}]
    /\ lock \in [Channel ->
                   [holder : Coroutines \cup {"events", "none"}, count : Nat]]
    /\ state \in [error : BOOLEAN, did_yank : Yanked, inflight : Nat]
    /\ phase \in {"run", "free", "freed"}
    /\ wire \in [Channel -> Seq(Line)]
    /\ pending \in [Channel -> Seq(Nat)]
    /\ closed \in BOOLEAN
    /\ issued \in Nat
    /\ sent \in [Channel -> Nat]
    /\ notified \in Seq(Nat)

\* qmp_new: each handshake coroutine holds its lock and has an idle source.
Init ==
    /\ co = [p \in Coroutines |->
               IF p \in Users THEN [pc |-> "idle", frames |-> << >>]
               ELSE [pc |-> "self",
                     frames |-> <<FrameOf(p, "greeting", FALSE, 0)>>]]
    /\ ready = {}
    /\ event_co = [c \in Channel |-> "watch"]
    /\ lock = [c \in Channel |-> [holder |-> c, count |-> 1]]
    /\ state = [error |-> FALSE, did_yank |-> "no", inflight |-> 4]
    /\ phase = "run"
    /\ wire = [c \in Channel |-> << >>]
    /\ pending = [c \in Channel |-> <<0>>]
    /\ closed = FALSE
    /\ issued = 0
    /\ sent = [c \in Channel |-> 0]
    /\ notified = << >>
-----------------------------------------------------------------------------
Waiters == {p \in Coroutines : co[p].pc = "lock"}

\* The innermost call p is in, and the calls around it.
Top(p) == co[p].frames[Len(co[p].frames)]
Outer(p) == SubSeq(co[p].frames, 1, Len(co[p].frames) - 1)

Taken(c) == wire' = [wire EXCEPT ![c] = Tail(@)]

\* The main loop dispatches a source of idle priority: the progress sources
\* are checked in the same iteration and found ready.
IdleDispatch == ready' = ready \cup Waiters

\* Mutation: the callbacks are not called for events read by a command.
NotifyNone(c, line) == UNCHANGED notified

\* notify_event, unless the channel discards its events.
notify_event(c, line) ==
    notified' = IF c = "main" /\ phase = "run" THEN Append(notified, line.of)
                ELSE notified

\* Mutation: a command counts as in flight once it has the lock.
ExecuteUncounted(p, outer, f) ==
    LET free == lock[f.chan].holder \in {"none", p}
    IN  /\ state' = IF free THEN [state EXCEPT !.inflight = @ + 1] ELSE state
        /\ lock' = IF free THEN [lock EXCEPT ![f.chan] = [holder |-> p, count |-> @.count + 1]]
                   ELSE lock
        /\ co' = [co EXCEPT ![p] = [pc |-> IF free THEN "write" ELSE "lock",
                                    frames |-> Append(outer, f)]]

\* p, inside of the calls outer, calls __qmp_execute_co: inflight++, and
\* colod_lock_co as far as it comes without yielding.
__qmp_execute_co(p, outer, f) ==
    LET free == lock[f.chan].holder \in {"none", p}
    IN  /\ state' = [state EXCEPT !.inflight = @ + 1]
        /\ lock' = IF free THEN [lock EXCEPT ![f.chan] = [holder |-> p, count |-> @.count + 1]]
                   ELSE lock
        /\ co' = [co EXCEPT ![p] = [pc |-> IF free THEN "write" ELSE "lock",
                                    frames |-> Append(outer, f)]]

\* Mutation: the lock of the channel is kept when a yank has failed.
ReturnLocked(p, err, yanked) ==
    /\ co' = [co EXCEPT ![p] = [pc |-> IF p \in Users THEN "idle" ELSE "ended",
                                frames |-> << >>]]
    /\ lock' = [c \in Channel |-> IF lock[c].holder = p /\ (c = "yank" \/ ~err)
                                  THEN NoHolder ELSE lock[c]]
    /\ state' = [error |-> state.error \/ err, did_yank |-> yanked,
                 inflight |-> state.inflight - Len(co[p].frames)]

\* Mutation: the yank flag stays set when its command returns.
ReturnUncleared(p, err, yanked) ==
    /\ co' = [co EXCEPT ![p] = [pc |-> IF p \in Users THEN "idle" ELSE "ended",
                                frames |-> << >>]]
    /\ lock' = [c \in Channel |-> IF lock[c].holder = p THEN NoHolder ELSE lock[c]]
    /\ state' = [state EXCEPT !.error = @ \/ err,
                              !.inflight = @ - Len(co[p].frames)]

\* All calls p is in return and release their locks; err says whether with
\* qmp_set_error, yanked what becomes of did_yank.
Return(p, err, yanked) ==
    /\ co' = [co EXCEPT ![p] = [pc |-> IF p \in Users THEN "idle" ELSE "ended",
                                frames |-> << >>]]
    /\ lock' = [c \in Channel |-> IF lock[c].holder = p THEN NoHolder ELSE lock[c]]
    /\ state' = [error |-> state.error \/ err, did_yank |-> yanked,
                 inflight |-> state.inflight - Len(co[p].frames)]

\* A write or a read has failed: qmp_set_error, in a nested call by the outer
\* one as well.
Fail(p) == Return(p, TRUE, state.did_yank)
-----------------------------------------------------------------------------
\* A coroutine calls qmp_execute_co.
qmp_execute_co(u) ==
    /\ phase = "run" /\ co[u].pc = "idle" /\ issued < MaxCommands
    /\ __qmp_execute_co(u, << >>, FrameOf("main", "command", TRUE, issued + 1))
    /\ issued' = issued + 1
    /\ UNCHANGED <<ready, event_co, phase, qemuVars, notified>>

\* A coroutine calls qmp_yank_co itself: colod_yank_co or colod_failover_co.
qmp_yank_co(u) ==
    /\ phase = "run" /\ co[u].pc = "idle" /\ issued < MaxCommands
    /\ __qmp_execute_co(u, << >>, FrameOf("yank", "query-yank", FALSE, issued + 1))
    /\ issued' = issued + 1
    /\ UNCHANGED <<ready, event_co, phase, qemuVars, notified>>

\* The progress source of a waiter is dispatched; if the lock is still held,
\* the next one is attached.
colod_lock_co(p) ==
    /\ p \in ready
    /\ ready' = ready \ {p}
    /\ LET c == Top(p).chan
       IN  IF lock[c].holder = "none"
           THEN /\ lock' = [lock EXCEPT ![c] = [holder |-> p, count |-> 1]]
                /\ co' = [co EXCEPT ![p].pc = "write"]
           ELSE UNCHANGED <<lock, co>>
    /\ UNCHANGED <<event_co, state, phase, qemuVars, issued, notified>>

\* The command is written, or the write fails or times out.
colod_channel_write_timeout_co(p) ==
    /\ co[p].pc = "write"
    /\ \/ /\ ~closed
          /\ pending' = [pending EXCEPT ![Top(p).chan] = Append(@, Top(p).id)]
          /\ co' = [co EXCEPT ![p].pc = "read"]
          /\ UNCHANGED <<lock, state>>
       \/ Fail(p) /\ UNCHANGED pending
    /\ UNCHANGED <<ready, event_co, phase, wire, closed, sent, issued,
                   notified>>

\* The idle source that p has attached: at its start, and after an event.
Resume(p) ==
    /\ co[p].pc = "self"
    /\ co' = [co EXCEPT ![p].pc = "read"]
    /\ IdleDispatch
    /\ UNCHANGED <<event_co, lock, state, phase, qemuVars, issued, notified>>

\* The innermost call has got a reply, which is an error unless ok.  It
\* returns to
\*   - the caller of qmp_execute_co, colod_execute_nocheck_co, which clears the
\*     yank flag, whoever has set it, and queues FAILOVER_SYNC, unless there is
\*     an error;
\*   - qmp_yank_co, which goes on with the second command without yielding;
\*   - qmp_yank_co, which returns to the read that timed out, to colod_yank_co,
\*     which clears the flag at once, or to colod_failover_co, which leaves it;
\*   - the handshake.
Replied(p, ok) ==
    CASE Top(p).cmd = "command" ->
           Return(p, FALSE, IF state.error THEN state.did_yank ELSE "no")
      [] Top(p).cmd \in {"query-yank", "yank"} /\ ~ok ->
           Return(p, Outer(p) # << >>, state.did_yank)
      [] Top(p).cmd = "query-yank" /\ ok ->
           /\ co' = [co EXCEPT ![p] =
                [pc |-> "write",
                 frames |-> Append(Outer(p), [Top(p) EXCEPT !.cmd = "yank"])]]
           /\ UNCHANGED <<lock, state>>
      [] Top(p).cmd = "yank" /\ ok /\ Outer(p) # << >> ->
           /\ co' = [co EXCEPT ![p] = [pc |-> "read",
                                       frames |-> <<[Outer(p)[1] EXCEPT !.yank = FALSE]>>]]
           /\ lock' = [lock EXCEPT !["yank"] = NoHolder]
           /\ state' = [state EXCEPT !.inflight = @ - 1, !.did_yank = "command"]
      [] Top(p).cmd = "yank" /\ ok /\ Outer(p) = << >> ->
           \E left \in {"no", "failover"} : Return(p, FALSE, left)
      [] Top(p).cmd = "greeting" ->
           __qmp_execute_co(p, co[p].frames, FrameOf(p, "qmp_capabilities", FALSE, 0))
      [] Top(p).cmd = "qmp_capabilities" ->
           Return(p, ~ok, state.did_yank)

\* qmp_read_line_co reads a line: an event goes to the callbacks, and the
\* coroutine reads on, on the main channel after a round of the main loop.
qmp_read_line_co(p) ==
    /\ co[p].pc = "read"
    /\ LET c == Top(p).chan
           line == Head(wire[c])
       IN  /\ wire[c] # << >>
           /\ Taken(c)
           /\ IF line.type = "event"
              THEN /\ notify_event(c, line)
                   /\ co' = [co EXCEPT ![p].pc = IF c = "main" THEN "self" ELSE @]
                   /\ UNCHANGED <<lock, state>>
              ELSE /\ \E ok \in BOOLEAN : Replied(p, ok)
                   /\ UNCHANGED notified
    /\ UNCHANGED <<ready, event_co, phase, pending, closed, sent, issued>>

\* Mutation: after a timeout the next command may go ahead.
TimeoutForgotten(p) ==
    /\ co[p].pc = "read"
    /\ Return(p, FALSE, state.did_yank)
    /\ UNCHANGED <<ready, event_co, phase, qemuVars, issued, notified>>

\* The read times out, perhaps although a line has come: a command yanks, once.
Timeout(p) ==
    /\ co[p].pc = "read"
    /\ IF Top(p).yank
       THEN __qmp_execute_co(p, co[p].frames, FrameOf("yank", "query-yank", FALSE, Top(p).id))
       ELSE Fail(p)
    /\ UNCHANGED <<ready, event_co, phase, qemuVars, issued, notified>>

\* The read finds the channel closed.
Eof(p) ==
    /\ co[p].pc = "read" /\ closed /\ wire[Top(p).chan] = << >>
    /\ Fail(p)
    /\ UNCHANGED <<ready, event_co, phase, qemuVars, issued, notified>>
-----------------------------------------------------------------------------
\* Mutation: the event coroutine reads although a command is under way.
EventWakesUnlocked(c) ==
    /\ event_co[c] = "watch"
    /\ IdleDispatch
    /\ event_co' = [event_co EXCEPT ![c] = "read"]
    /\ UNCHANGED <<co, lock, state, phase, qemuVars, issued, notified>>

\* The watch of the event coroutine is dispatched; it is of idle priority and
\* stays while the lock is held.
EventWakes(c) ==
    /\ event_co[c] = "watch"
    /\ IdleDispatch
    /\ IF lock[c].holder = "none"
       THEN /\ lock' = [lock EXCEPT ![c] = [holder |-> "events", count |-> 1]]
            /\ event_co' = [event_co EXCEPT ![c] = "read"]
       ELSE UNCHANGED <<lock, event_co>>
    /\ UNCHANGED <<co, state, phase, qemuVars, issued, notified>>

\* There is a line to read, or the end of the channel.
LineReady(c) == (wire[c] # << >> \/ closed) /\ EventWakes(c)

\* There is the beginning of a line; the rest may take its time.
LineBegins(c) ==
    /\ wire[c] = << >> /\ ~closed
    /\ pending[c] # << >> \/ sent[c] < MaxEvents[c]
    /\ EventWakes(c)

\* The event coroutine reads a line; a reply there is an error.
qmp_event_co(c) ==
    /\ event_co[c] = "read" /\ wire[c] # << >>
    /\ Taken(c)
    /\ event_co' = [event_co EXCEPT ![c] = "watch"]
    /\ lock' = [lock EXCEPT ![c] = NoHolder]
    /\ IF Head(wire[c]).type = "event"
       THEN notify_event(c, Head(wire[c])) /\ UNCHANGED state
       ELSE state' = [state EXCEPT !.error = TRUE] /\ UNCHANGED notified
    /\ UNCHANGED <<co, ready, phase, pending, closed, issued, sent>>

\* Mutation: the event coroutine ends, but counts as in flight.
EventFailsCounted(c) ==
    /\ event_co[c] = "read"
    /\ event_co' = [event_co EXCEPT ![c] = "ended"]
    /\ lock' = [lock EXCEPT ![c] = NoHolder]
    /\ state' = [state EXCEPT !.error = TRUE]
    /\ UNCHANGED <<co, ready, phase, qemuVars, issued, notified>>

\* The line does not become complete in time, or the channel is closed: the
\* event coroutine ends.
EventFails(c) ==
    /\ event_co[c] = "read"
    /\ event_co' = [event_co EXCEPT ![c] = "ended"]
    /\ lock' = [lock EXCEPT ![c] = NoHolder]
    /\ state' = [state EXCEPT !.error = TRUE, !.inflight = @ - 1]
    /\ UNCHANGED <<co, ready, phase, qemuVars, issued, notified>>

\* Any other source of idle priority: a wake of the main coroutine, or the
\* timer of the watchdog, which is of even lower priority.
OtherIdleSource ==
    /\ IdleDispatch
    /\ UNCHANGED <<co, event_co, lock, state, phase, qemuVars, issued, notified>>

\* qmp_free removes the callbacks and shuts the channels down.
qmp_free ==
    /\ phase = "run"
    /\ phase' = "free"
    /\ closed' = TRUE
    /\ UNCHANGED <<co, ready, event_co, lock, state, wire, pending,
                   sent, issued, notified>>

\* The loop at the end of qmp_free is left, and the state is freed.
Freed ==
    /\ phase = "free" /\ state.inflight = 0
    /\ phase' = "freed"
    /\ UNCHANGED <<co, ready, event_co, lock, state, qemuVars, issued, notified>>
-----------------------------------------------------------------------------
\* qemu answers the oldest command; its greeting answers the connection.
QemuReplies(c) ==
    /\ ~closed /\ pending[c] # << >>
    /\ wire' = [wire EXCEPT ![c] = Append(@, [type |-> "reply", of |-> Head(pending[c])])]
    /\ pending' = [pending EXCEPT ![c] = Tail(@)]
    /\ UNCHANGED <<co, ready, event_co, lock, state, phase, closed, sent, issued,
                   notified>>

QemuSendsEvent(c) ==
    /\ ~closed /\ sent[c] < MaxEvents[c]
    /\ sent' = [sent EXCEPT ![c] = @ + 1]
    /\ wire' = [wire EXCEPT ![c] = Append(@, [type |-> "event", of |-> sent[c] + 1])]
    /\ UNCHANGED <<co, ready, event_co, lock, state, phase, pending, closed,
                   issued, notified>>

\* qemu has died: both channels are closed.
QemuDies ==
    /\ phase = "run"
    /\ closed' = TRUE
    /\ UNCHANGED <<co, ready, event_co, lock, state, phase, wire, pending,
                   sent, issued, notified>>

Coroutine(p) ==
    \/ colod_lock_co(p)
    \/ colod_channel_write_timeout_co(p)
    \/ Resume(p)
    \/ qmp_read_line_co(p)
    \/ Timeout(p)
    \/ Eof(p)

EventCoroutine(c) == LineReady(c) \/ qmp_event_co(c) \/ EventFails(c)

Next ==
    \/ \E u \in Users : qmp_execute_co(u) \/ qmp_yank_co(u)
    \/ \E p \in Coroutines : Coroutine(p)
    \/ \E c \in Channel : EventCoroutine(c)
    \/ OtherIdleSource \/ qmp_free \/ Freed
    \/ \E c \in Channel : LineBegins(c) \/ QemuReplies(c) \/ QemuSendsEvent(c)
    \/ QemuDies

Spec == Init /\ [][Next]_vars

\* Sources that are ready are dispatched and timeouts expire.  Nothing is assumed
\* of other work of idle priority: a waiter is resumed if there happens to be any.
FairSpec ==
    /\ Spec
    /\ \A p \in Coroutines : WF_vars(Coroutine(p))
    /\ \A c \in Channel : WF_vars(EventCoroutine(c))
    /\ WF_vars(Freed)
-----------------------------------------------------------------------------
\* While no error has been noted, a reply that is about to be read is the
\* answer to the command its reader has sent: neither the late answer to an
\* earlier command, nor one taken away by the event coroutine.
ReplyIsOwn ==
    \A c \in Channel :
        ~state.error /\ wire[c] # << >> /\ Head(wire[c]).type = "reply" =>
            \E p \in Coroutines :
                /\ lock[c].holder = p
                /\ \E i \in 1 .. Len(co[p].frames) :
                      /\ co[p].frames[i].chan = c
                      /\ co[p].frames[i].id = Head(wire[c]).of

\* The frames of p that have the lock of c.
Holding(p, c) ==
    {i \in 1 .. Len(co[p].frames) :
        co[p].frames[i].chan = c /\ ~(co[p].pc = "lock" /\ i = Len(co[p].frames))}

\* A lock is held exactly by those who are between colod_lock_co and
\* colod_unlock_co, on whatever way they got there: none is leaked, and no two
\* coroutines read from the same channel.
LockHeldByReader ==
    \A c \in Channel :
        /\ \A p \in Coroutines : (lock[c].holder = p) = (Holding(p, c) # {})
        /\ (lock[c].holder = "events") = (event_co[c] = "read")
        /\ (lock[c].holder = "none") = (lock[c].count = 0)

\* When qmp_free returns, no coroutine is inside of qmp.c.
FreedIsUnused ==
    phase = "freed" =>
        /\ \A p \in Coroutines : co[p].frames = << >>
        /\ \A c \in Channel : event_co[c] = "ended"

\* The yank of a command is not forgotten: while the flag it has set is there, the
\* command is still to return and to look at it, or there is an error, which makes
\* the node fail.  So the only flag that a command finds long after the yank is
\* the one that colod_failover_co has left.
YankNoticed ==
    state.did_yank = "command" =>
        \/ state.error
        \/ \E p \in Users :
              /\ co[p].frames # << >>
              /\ co[p].frames[1].cmd = "command" /\ ~co[p].frames[1].yank

\* Events come to the callbacks in order and none is lost, whoever reads them:
\* what was notified and what is under way is what qemu has sent, in the order
\* in which it was sent.
EventsInOrder ==
    LET line == wire["main"]
        left == {i \in 1 .. Len(line) : line[i].type = "event"}
        seen == Len(notified)
    IN  phase = "run" =>
            /\ \A i \in 1 .. seen : notified[i] = i
            /\ {line[i].of : i \in left} = seen + 1 .. sent["main"]
            /\ \A i, j \in left : i < j => line[i].of < line[j].of

\* A waiter that nothing resumes: the lock is free, but its progress source is
\* looked at only when the main loop has other work of idle priority.
Starved(p) ==
    co[p].pc = "lock" /\ p \notin ready /\ lock[Top(p).chan].holder = "none"

\* A waiter that sleeps like that, or waits for one that does.
SleepsBesideLock(p) ==
    \/ Starved(p)
    \/ \E q \in Coroutines :
          co[p].pc = "lock" /\ lock[Top(p).chan].holder = q /\ Starved(q)

\* Every command comes to an end, with qemu silent and with qemu dead, unless the
\* daemon is so quiet that from some time on it sleeps beside a free lock: no lock
\* is held for ever, and no two coroutines wait for each other.
CommandEnds ==
    \A u \in Users :
        \/ co[u].frames # << >> ~> co[u].frames = << >>
        \/ <>[]SleepsBesideLock(u)

\* qmp_free returns, with the same exception.
FreeReturns ==
    (phase = "free" ~> phase = "freed") \/ <>[](\E u \in Users : SleepsBesideLock(u))
=============================================================================
