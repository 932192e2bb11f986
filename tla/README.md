# A TLA+ model of the COLO heartbeat daemon

`colod` runs beside qemu on each of two nodes.  The qemu of the primary
replicates the guest to the qemu of the secondary (COLO); when one side fails,
the daemons decide through corosync which side takes over the guest.  Above
them Pacemaker starts, stops and promotes both through a resource agent.  This
project models the daemon and the agent, checks them with TLC and proves parts
of them with TLAPS.

## The system

| Component | State | Operations | Interacts with |
| --- | --- | --- | --- |
| Main coroutine (`main_coroutine.c`) | one of 13 states, flags (`failed`, `peer_failed`, `yellow`, `peer_yellow`, `transitioning`, ...), the event queue, `wake_source_id`, the sources that will resume it | one function per state; callbacks for QMP events, QMP hangup, cluster messages and the link; requests of clients | everything |
| Event queue (`eventqueue.c`) | sorted sequence, counter, interrupting set | add, remove, peek, last, set_interrupting | main coroutine |
| Cluster messages (`cpg.c`) | `retransmit[]`, the 100 ms timer | send, retransmit, deliver, configuration change | corosync; main and yellow coroutine |
| Yellow coroutine (`yellow_coroutine.c`) | where it waits, which event it waits for, its timer | netlink events, timeouts, shutdown | netlink, cpg, main coroutine |
| QMP client (`qmp.c`) | two channels with a lock each, error, yank flag, timeout, callbacks | execute, yank, wait for an event, event coroutine | qemu; main coroutine, clients, watchdog |
| Raise-timeout coroutine | alive or not, what it waits for | start, STOP, RESUME, free | QMP client, main coroutine |
| Clients (`client.c`) | connections, who has stopped the guest | management commands | main coroutine, QMP client |
| Watchdog (`watchdog.c`) | where its coroutine waits, its timer | health check, refresh, free | main coroutine, QMP client |
| Life cycle (`daemon.c`) | the main loop, what has been freed | start, run, teardown | all |
| Resource agent (`colo`) | the master score of each node | start, stop, demote, promote, notify, monitor | Pacemaker, clients, qemu |

A daemon has one thread, and all concurrency is in the GLib main loop: a
coroutine yields, callbacks run, and any source that was attached for the
coroutine resumes it, whatever it was waiting for.  What is hard is therefore

* *wakeups*: `_colod_event_queue` attaches one wake and suppresses others while
  `wake_source_id` is set; a wake may resume a coroutine that waits for
  something else, and its destruction clears the id of another wake;
* *interruption*: events are queued while a QMP command or a wait is under way,
  and the interrupting set changes from state to state;
* *agreement*: both daemons may ask for the failover, messages may be lost
  (`cpg_mcast_joined` is not checked) and duplicated (retransmission), and a
  node may die at any time;
* *time*: timeouts race with answers, delays with a link that flaps;
* *the end*: each free waits for a coroutine that has to notice, while the parts
  that are freed later go on;
* *the data*: the score that tells Pacemaker who has the recent data is set
  in several steps on two nodes, any of which may crash in between.

`PROJECT.json` lists these as hazards, each at its line.

## The modules

| Module | Models | How |
| --- | --- | --- |
| `ColodEvents` | events, and what the queue gives back | operators on the list of queued events in order of arrival; the link states and their transitions |
| `PriorityFifo` | what the event queue promises | abstract specification: list, interrupting set, returned value |
| `EventQueue` | `eventqueue.c` | the sorted sequence with sequence numbers, `used`, and the comparator, which truncates to an int; refines `PriorityFifo` |
| `Cpg` | `cpg.c` | per node an inbox in corosync's agreed order, the marks and the timer; corosync is external |
| `MainCoroutine` | `main_coroutine.c` and what it needs of `qmp.c`, `raise_timeout_coroutine.c`, `coutil.c` and `client.c` | see below |
| `YellowLink` | what the yellow coroutine promises | abstract specification: link state, last message, last notification |
| `YellowCoroutine` | `yellow_coroutine.c` with `Cpg` | refines `YellowLink` |
| `QmpChannel` | `qmp.c`, the lock of `coutil.h`, reads and writes of `coutil.c`, the progress source of `util.c` | see below; qemu is external |
| `Client` | `client.c` | connections, requests, the bookkeeping of `stop` and `cont`, `client_listener_free` |
| `Daemon` | `watchdog.c` and `daemon_mainloop` | extends `Client`: the watchdog and the frees in their order, with the clients working through them |
| `ResourceAgent` | `colo`, on two nodes, with what it sees of `colod` | see below; Pacemaker, qemu and the faults are external |
| `MCEventQueue`, `MCMain`, `MCQmpChannel` | instances for TLC | |
| `EventQueueProofs`, `CpgProofs`, `MainCoroutineProofs`, `YellowCoroutineProofs`, `QmpChannelProofs`, `ClientProofs`, `DaemonProofs`, `ResourceAgentProofs` | theorems | |

`MainCoroutine` uses the queue as the list that `PriorityFifo` keeps, and the
link as the transitions of `YellowLink`: the two refinements are what entitles
it to do so.

### MainCoroutine

`node[n]` is the state of a daemon.  The fields up to `peer` are the fields of
`struct ColodMainCoroutine`; `queue` and `interrupting` are its event queue;
`sources` is the list of idle sources attached for the coroutine (`start`,
`wake`, `fired` of `qmp_wait_event_cb`, `self` of a command that resumes itself);
`pc` is the yield at which the coroutine is, named after the state and the
reason; `run` says by which kind of source it was resumed and is `"no"` while it
has yielded.  A dispatch (`DispatchSource`, `DispatchReply`, `DispatchTimer`)
sets `run`; the coroutine then takes steps (`MainCo`) until it yields, and
nothing else happens in the daemon before.  Callbacks and requests require
`Looping`: the coroutine has yielded.

Each function of a state is an action with the function's name.
`EnterState(s, st)` is the loop of `_colod_main_co` from its top to the first
yield or command of state `st`, with `EnterMessages(st)` the messages sent on
that way, so that a transition is one step, as in the code.
`Checked`/`Executed` is what every command does at its end: a failed command
queues `FAILED`, a yank queues `FAILOVER_SYNC`.

Abstractions: the text of commands and events; a command has the outcomes ok,
error (qemu's), fatal (no answer), each with or without a yank; a command array
has `ArrayLen` commands; the wait for the lock of a QMP channel and an event
that is read while a command is under way are both `CommandSelf` (`QmpChannel`
has the two in detail); what `qmp_yank_co` does on
the second channel is one command.  `colod_main_free` removes all callbacks in
one step.  A daemon that is dead stays dead, so a restart is a new instance.

### QmpChannel

`co[p].frames` is the stack of calls a coroutine is in: a command that times out
runs `query-yank` and `yank` on the second channel inside of its read, so two
locks may be held at once.  `pc` is where the innermost call has yielded.  The
two handshake coroutines are the two members of `Channel`; they hold their locks
from `qmp_new` on, and take them a second time for `qmp_capabilities`.  `wire`
holds complete lines; `LineBegins` is the beginning of a line, which wakes the
event coroutine and need not be followed by the rest in time.  A reply names the
command it answers, and whether it is an error is chosen when it is read.  qemu
sends valid JSON: a line that does not parse is left out.  The end of
`colod_execute_nocheck_co`, which looks at the yank flag and the error, is part
of the command's return.  `did_yank` says who has set the flag: a yank of a
command is looked at when that command returns, and `colod_yank_co` takes its own
back, but `colod_failover_co` (`main_coroutine.c:565`) leaves it for whichever
command returns next.

A coroutine that waits for a lock is in `ready` once its progress source will be
dispatched.  That source is never ready by itself (`progress_source_prepare`
returns FALSE without a timeout): the waiter gets its turn in an iteration of the
main loop that reaches idle priority for another reason.  These reasons are
`Resume`, the event coroutine's watch, and `OtherIdleSource`, which need not come.
A waiter may therefore sleep beside a lock that is free (`Starved`).

### Client

A command is under way between two steps of its client; since commands are
serialised by the lock, what one does to the guest and what its client notes of
it are one step.  Of the lock itself there is `sleep`: a command may fall asleep
beside it (`SleepsBesideLock` of `QmpChannel`) and then returns only after a source
of idle priority was dispatched.  A command without an answer leaves open whether qemu has done
it.  Two things are not tracked because the code does not: a `stop` that a client
sends as a raw QMP command, and `stop`s by qemu or by others.

### Daemon

`watchdog` is `struct ColodWatchdog` with the numbers of idle and timeout sources
attached for its coroutine and of commands under way for it.  A step of the
coroutine is the dispatch of one of them.  Its health check may sleep beside the
lock like the commands of clients; each of its idle sources wakes whoever sleeps.  `phase` is the free of
`daemon_mainloop` that runs the main loop.  `colod_main_free` and `qmp_free`
just return here: that they do is `QuitFinishes` of `MainCoroutine` and
`FreeReturns` of `QmpChannel`.

### ResourceAgent

`todo` holds the calls of Pacemaker's transition; the head is the call that is
under way, and where a call has effects that others can see in between, it is
replaced by what remains of it (`stop` by `kill` and `score`, `promote` by
`promoted`, `new_peer` by `resync` and `set-peer`).  Monitors run beside it on
the node that has no call, and colod and qemu take their steps at any moment.
Pacemaker is modelled by what the agent relies on: calls of one transition come
one after the other; a failed instance is stopped, a failed master demoted first;
stops and starts are announced to the other instance; a node that is gone is
fenced and the other one told; the instance with the highest positive score is
promoted if there is no master.

`colod[n].status` is the answer to `query-status`.  `current` is the set of
nodes whose disk has all that the guest has written: a write by a guest that runs
alone makes its node the only one, the mirror job makes its target useless until
the migration is through.

A fault happens when the pair has settled (replicates, with scores 101 and 100).
The first fault of all may come earlier, between any two steps: before the pair
has settled for the first time if its kind is in `AnyTime`, and in the stop or the
restart that a standby has caused if it is in `DuringStandby`.  A second fault
comes only after the pair has recovered from the first; that the agent survives one
at a time is its own fault model.  A crash is of one of three kinds, by what it
leaves the peer with: about to take over without a score (`"crash unscored"`),
with a disk that a mirror was overwriting (`"crash resync"`), or neither
(`"crash"`).  The agent does not survive every kind at every moment.  What it
survives is `Agent.cfg`; what it does not survive, although a comment or the readme
says so, has configurations of its own, which are listed below.

`set-peer` and the reset of the peer's score are one step, since nobody reads
either in between but `new_peer` itself, and a crash between them leaves what a
crash before both leaves: the peer that was set is forgotten with its colod.

## The runs

`Boot.cfg` and the others name the inputs that may happen (`Inputs`), and
`MaxInputs` how many of them.  An input can come at any moment at which the
main loop runs.  A peer outside `Daemons` is seen by its messages.

| Run | Shows | Bounds |
| --- | --- | --- |
| `event_queue` | `HeadIsFirst`, `UsedIsLength`, `QueriesAgree`, refinement of `PriorityFifo` | 3 slots, 5 additions of 6 kinds of events, the 3 sets the code installs: the queue fills, drains and fills again, and the classes mix in every way |
| `boot` | `NoLostWakeup`, `MigrationInterrupted`, `FailedIsFinal`, `SleepsFromStart`; `FailureHandled`, `QuitFinishes` under fairness | a primary or a secondary, all 24 kinds of inputs, 2 of them: a request and an event that races with it, some of which queue two events at once; queue of 3, which can fill; with a queue of 2 a `QUIT` can be dropped, and `QuitFinishes` fails |
| `link_loss` | `LinkLossNoticed` | link of both sides, disk error, replication error, migrations; 4 inputs; one message under way |
| `cluster` | `OneOwner`, `FailureAnnounced`, `MarkedIsTimed` | two daemons that replicate, replication error, crash, command error; 2 inputs, 1 lost multicast, 2 messages under way, so that retransmissions duplicate |
| `cluster_live` | `SyncResolves`, `FailureTakesEffect` under fairness | the same with one message under way |
| `qmp` | `ReplyIsOwn`, `LockHeldByReader`, `FreedIsUnused`, `YankNoticed`, `EventsInOrder` | 2 users, 2 calls, 2 events on the main channel (the other one drops its events), both handshakes, timeouts and yanks, qemu dying and `qmp_free` at any moment: holder, waiter and event coroutine meet on both channels |
| `qmp_live` | `CommandEnds`, `FreeReturns` under fairness | the same without events |
| `daemon` | `StoppedIsOwned`, `WatchdogHasOneSource`; `GuestContinued`, `DaemonEnds` under fairness | 2 clients and 3 requests of all: one can stop, continue and break off while the other does; watchdog on or off; commands that sleep beside the lock, qemu's events, the health check's result and the end of the daemon at any moment |
| `agent` | `GuestHasRecentData`, `RoleReported`; `Resettles` under fairness | 2 nodes, 4 faults, 3 standbys of one or both nodes: the guest moves to the other node and back, and every cycle ends where the next begins; all kinds of faults but the death of a master's daemon; the first one before the pair has settled if it is a crash, a failure of both daemons or the death of a slave's daemon, and after a standby if it is an unscored crash or a failure of both daemons |
| `yellow` | `TimerIsCurrent`, `AtRestAgreed`, `PeerAgrees`, `LinkLossReported`, refinement of `YellowLink` | one monitored interface that changes without limit |

The queue sizes are small on purpose: the code's 32 would never fill in a small
instance.  With `QueueSize` 2 or 3 the drop of an event is reached, and all
invariants hold in spite of it.  `MaxInbox` bounds the messages under way to a
node.  A message that is under way while the timer expires is sent again, so
`MaxInbox` 1 means that corosync delivers within the 100 ms of the timer and 2
allows duplicates.

Two properties need that kind of premise, and it is part of what they say:

* `LinkLossNoticed` is checked with `MaxInbox` 1.  With 2 it fails: the
  duplicate of the `FAILOVER` message of an earlier failover is delivered during
  the ten seconds after the next migration, its wake skips the test for a lost
  link (`main_coroutine.c:725`), and no event makes the coroutine look again.
  `set_peer` is not among its inputs, since it resets `peer_yellow` without an
  event.
* `PeerAgrees` is checked with at most two messages under way and none lost.
  With three, or with one lost, `colod_cpg_retransmit` sends `YELLOW` and
  `UNYELLOW` in the order of the enumeration, not in the order they were sent
  (`cpg.c:52`), and the peer may keep the older state.

`CHECK_DEADLOCK FALSE` is used where a daemon may end or, with all inputs used
up, is at rest.

### Fairness

`FairSpec` of `MainCoroutine` assumes that a GLib main loop dispatches attached
sources, timers, and replies or the timeouts of commands; that a resumed
coroutine runs; that corosync delivers; and that a main loop that was told to
quit returns.  Nothing is assumed of qemu (a RESUME or the end of a migration
may never come), of the link, of clients, or of failures.  `FairSpec` of
`YellowCoroutine` is the same for its timers and for corosync.

`FairSpec` of `QmpChannel` assumes that reads and writes end, at the latest by
their timeout, and that ready sources are dispatched.  It assumes nothing of other
work of idle priority: the watchdog is off unless it is asked for (`daemon.c:214`,
`246`), `colo` never asks, and in the teardown it is gone.  So a holder may unlock
and the waiter sleep on, for ever if nothing else happens.  `CommandEnds` and
`FreeReturns` say that this is the only way not to return: whoever does not return
sleeps, from some time on always, beside a lock that is free or is held by one that
sleeps like that (`SleepsBesideLock`).  There is no other deadlock, although two
locks may be held at once.

`FairDaemonSpec` assumes that commands that do not sleep return (which is
`CommandEnds`), replies are written or time out after one second, a closed
connection is readable, that the sources of the watchdog are dispatched, and that
`daemon_mainloop` goes on.  A client need not send anything, a daemon need not
quit, nothing of idle priority need come, and the watchdog's interval need never
pass, since events and commands may refresh it for ever.  `GuestContinued` and
`DaemonEnds` have the exception that a command sleeps from some time on.

`MainCoroutine` does not have these sleepers: its fairness says that a command that
waits for a lock gets it.  Its liveness properties (`SyncResolves`,
`FailureTakesEffect`, `FailureHandled`, `QuitFinishes`) are therefore about daemons
in which no command sleeps for ever; for the others `QmpChannel` tells when that is.

`FairSpec` of `ResourceAgent` assumes that calls of the agent end (Pacemaker's
timeout ends them otherwise), that Pacemaker acts, that monitors recur, that
fenced nodes come back and standby ends, and that migration, mirror and failover
of a sound colod end.  Faults need not happen.

### Where code and comments disagree

Two runs are expected to find a violation; each states what a comment or an
assertion says.

* `no_abort`: a wake resumes a command that is waiting for an idle source of its
  own; when the coroutine then ends, that source is left and
  `colod_assert_remove_one_source` aborts.  There are other ways to it: a QMP event
  that fires together with the timeout of its wait leaves a source that resumes
  the next wait, whose assertion (`main_coroutine.c:247`) fails.
* `both_ask`: the comment at `main_coroutine.c:772` expects the message of the
  loser after the failover.  It may come during `FAILOVER_SYNC` or `FAILOVER`,
  where it makes the winner fail too.

More disagreements can be seen with the other configurations, which are not among
the runs; with each of them TLC finds a violation within seconds.  They say exactly
what the passing runs leave out.

`Asleep.cfg` (`SecondaryInterrupted`): the comment at `main_coroutine.c:651` wants
`SECONDARY_WAIT` to be interrupted by the events it has to discard.  An event that
comes while the startup command runs spends its wake on that command, and the wait
begins without a look at the queue.  If it is `QUIT`, `colod_main_free` hangs; the
smoke test `/quit_early/normal` does not reach this, because its qemu does not
answer.  `boot` shows how narrow this is: `SleepsFromStart` says that an event
which comes during the wait always has a source that wakes the coroutine, so that
only a wait that began with the event in the queue sleeps on it.  `FailureHandled`
and `QuitFinishes` except a secondary that stays such a sleeper for ever
(`<>[]Asleep`) and nothing else, and `NoLostWakeup` leaves this wait to
`SleepsFromStart`.

The scores are to "tell Pacemaker which host has the most recent data"
(`colo:652`).  Four configurations find the guest on an old disk
(`GuestHasRecentData`):

* `StandbyCrash.cfg`: the secondary is being stopped for a standby and has read its
  status when the primary crashes.  It takes over and the guest writes, then it is
  killed, and its score becomes 0 by the status from before.  The crashed node
  still has 101.
* `ResyncCrash.cfg`: a stop of both nodes leaves 11 and 10.  The node with 11 is
  promoted and starts the mirror (`colo:988`), which makes the disk of the other
  inconsistent, as `colo:990` says, but its score is taken away only at line 991.
  After a crash in between, the other one is promoted with its 10.  The window
  opens earlier, with the first write of the promoted guest: until line 991 the
  other one has 10 beside a disk that is out of date.
* `ColodMaster.cfg`: colod of the master dies, `qemu_colo_stop` gets no status and
  leaves the score at 101, the secondary takes over with its 100, and Pacemaker
  promotes the old primary again.  (The daemon of a slave that dies after a standby
  has the same effect with the 100 of the slave.)
* `EarlyFail.cfg`: qemu of the primary fails at the end of the migration, when the
  secondary replicates and the primary does not yet say so.  The secondary takes
  over without a score; the primary is stopped with 11 and promoted beside it.

The readme promises automatic failover, resynchronization and failback
(`readme.md:11`).  Two configurations find that the pair never settles again
(`SettlesAgain`).  `Resettles` excepts these two faults, by the state right after
them, and no other way to lose a score:

* `Unscored.cfg` (`UnscoredTakeover`): the primary crashes before the monitor of the
  secondary has set its score.  The secondary takes over and is not promoted; the
  other node, once synchronised, is to be promoted instead, cannot be, and is
  stopped, for ever.
* `BothDaemons.cfg` (`BothLost`): both daemons fail, both instances are stopped at
  once, and both scores become zero.

Known, and without a property because no document says what should be:
`set_peer` resets `peer_yellow` without an event (`main_coroutine.c:93`); a disk
error may send `UNYELLOW` after `YELLOW` (`:1083`); the health check tests
`transitioning` after its questions (`:499`); a standalone primary discards
`FAILOVER_SYNC` (`:770`); a raise-timeout coroutine that is still alive keeps the
next migration at the low timeout (`raise_timeout_coroutine.c:86`).

## The proofs

The theorems hold for every value of the constants allowed by the assumptions:
any set of daemons, any queue size, any length of arrays, any inputs, any
`MaxInbox` and `MaxLost`.  Four have hypotheses, which are given below:
`FailureIsAnnounced`, `OwnerUnique`, `PeerNotMisled` and `MostRecentData`.

* **Event queue** (`EventQueueProofs`): `IInv` says that the whole sequence is
  ordered (interrupting before others, sequence numbers ascending within a
  class), that all sequence numbers are below the counter, and that `used` is
  the length.  `HeadIsFirst` alone is not inductive: when the head is removed,
  nothing would be known of the rest.  The only premise is `MaxSeqno <= IntMax`:
  fewer than 2^31 events are queued while one waits, so that the comparator does
  not wrap.  Theorems `TypeCorrect`, `HeadCorrect`, `UsedCorrect`.

  The refinement of `PriorityFifo` (`FifoImplemented`) reads the abstract list
  off the sequence by rank: an entry is at the place that says how many entries
  are not younger (`Rank`, `InOrder`, `Arrival`).  That is a list at all only if no
  two entries have the same number, also across the two classes, which `RInv` adds
  to `IInv`.  Then the ranks are exactly 1 to the length, an addition gets the
  last rank, the removal of the head closes the gap at its rank, which is that of
  the first interrupting entry or of the oldest, and the sort of
  `eventqueue_set_interrupting` changes no rank.  `QueriesCorrect`: `eventqueue_last`
  and `eventqueue_pending_interrupt` answer the same as on the abstract list.
* **Cluster messages** (`CpgProofs`): lemmas that each operation keeps the type
  and `MarkedIsTimed`; used by the two modules that extend `Cpg`.
* **Main coroutine** (`MainCoroutineProofs`): `IInv` is `TypeOK`,
  `MarkedIsTimed` and for each daemon `NodeInv`, which consists of
  `WakeId` (`wake_source_id` is the id of a wake that is still attached, or of
  the one being dispatched), `Place` (which interrupting set is installed at
  which yield, and that label `handle_event` is reached with an interrupting
  event in the queue) and `Resumed` (which sources are attached for a coroutine
  with work to do; a wait whose event has fired *and* that is interrupted needs
  two sources, because the first one is spent on the event).  Why a wake is never
  missing: an event finds `wake_source_id` set only if a wake is attached, and a
  coroutine that has spent a wake on something else either looks at the queue
  before it yields or yields in a place where the queue does not concern it.
  Theorems `MainTypeCorrect`, `WakeupsKept`, `MarksTimed`, `MigrationEventKnown`.

  Failures have an argument of their own.  `Tracks(n)` says what a step of a
  daemon may do to `failed`, `peer_failed`, its place and its loop, together with
  the messages it sends; there is one lemma per action.  `FailInv`: a daemon that
  has failed is at one of the three yields of `FAILED` and `AUTOQUIT`, or at its end.
  `FailedIsFinal` needs it, since whether the flag stays depends on where the
  coroutine is.  Theorem `FailureFinal`.

  `AnnounceInv` adds that the members of the group are the daemons that live,
  that no daemon is before its first replication, and `Told`: when the
  `MESSAGE_FAILED` of a daemon is about to be delivered to itself, or it has failed
  and the mark is gone, then every other daemon that listens knows or has the
  message before it.  The mark is removed only by the daemon's own delivery, and
  corosync puts a message before all members or none; that is where the agreed
  order is used.  Theorem `FailureIsAnnounced`, for any number of daemons and of lost
  multicasts, with two hypotheses: the daemons start out replicating, and
  `set_peer` is not among the inputs.  Both are needed, because `SECONDARY_WAIT`
  and `colod_set_peer` reset `peer_failed` on purpose, for a new peer.

  The contest for the guest is argued from the agreed order.  A daemon wins a
  failover when its own `MESSAGE_FAILOVER` is the first to come to it.  `OwnInv`
  has, besides who is a member of the group (`Present`) and which places of the
  coroutine go with its state (`Fit`), `Contest`: if one daemon has won, or will by
  the deliveries that are before it, every other is doomed (an event that makes
  it fail is in its queue, or it has failed) or has a message of another before
  its own; and of a daemon that has asked and has not lost every other has the
  message before it or is doomed.  The second part is what makes the first
  inductive: winner is whoever is first in an order that all have in common.
  Theorem `OwnerUnique`, `OneOwner` for any number of daemons, inputs, losses and
  crashes, with two hypotheses.  The daemons start out replicating: two that are
  started as primary both own a guest from the beginning.  And no event queue
  fills up (`[]NotFull`): a full queue drops the `PEER_FAILOVER` on which the
  loser depends (`eventqueue.c:66`), and with a queue of one entry TLC finds two
  owners.
* **Yellow coroutine** (`YellowCoroutineProofs`): `IInv` adds to `TypeOK` and
  `TimerIsCurrent` what interface, last message and last notification are in each
  of the two delays (`Agreed`).  Theorems `YellowTypeCorrect`, `NoTimerLeft`,
  `RestAgreed`, and `LinkImplemented`: a timer maps to `Tell` after the first
  delay and to `Notify` after the second, a link event that cuts the second
  delay short to `Tell`, shutdown to `Quit`, and everything else to no step.

  `PeerNotMisled` is `PeerAgrees` for a pair, for any `MaxInbox` and `MaxLost`:
  messages may be delayed for as long as one likes, lost, and sent again any number
  of times, whichever of the two daemons are monitored and however the interfaces
  flap.  Its one premise is `[]OneAtATime`, that the `YELLOW` and the `UNYELLOW` of a
  daemon never wait for retransmission together.  This premise can fail in the code,
  and then the peer can be misled: `colod_cpg_retransmit` sends the two by number
  (`cpg.c:52`).  The theorem says that nothing else misleads it.  `PeerInv`: what a
  daemon has marked is what it said last, everything after a copy of that is the
  same (`SaidMarked`), and once a copy is on its way back to the daemon or has come
  (`Returns`), the last message under way to the peer says the same, and a peer to
  which nothing is under way believes it (`Believed`).  It rests on the agreed
  order: a copy is delivered to both or to neither.

* **QMP client** (`QmpChannelProofs`): `IInv` has, besides the properties,
  `CosOK` (which calls can be inside of each other, and where the coroutine then
  is: a command, a yank, a yank inside of a command, a handshake and its
  `qmp_capabilities`); `LockOK` (the holder of a lock is the coroutine that
  is past `colod_lock_co` in a call on that channel, or the event coroutine while
  it reads, and the count is zero iff there is none); `ReplyOK` (while there is no
  error, at most one reply is due on a channel, to a call of the holder); and
  `FlightOK` (`inflight` is the number of calls plus the number of event
  coroutines that have not ended).  `ReplyIsOwn` alone is not inductive: that the
  line at the head answers the reader says nothing of the line behind it, and
  a timeout would leave a second reply if it did not set the error.  `FreedIsUnused`
  needs the count to be exact, since `qmp_free` waits for it to be zero.
  `YankNoticed` is about the flag that a command has set; yanks by
  `colod_failover_co` set and leave the same flag, and a command that returns then
  takes it for its own, but none of them hides the yank of a command.  Theorems
  `TypeCorrect`, `LockIsHeldByReader`, `ReplyIsOfReader`, `FreedIsNotUsed`,
  `YankIsNoticed`, `EventsComeInOrder`, for any set of users, any number of calls
  and of events.

* **Clients** (`ClientProofs`): `IInv` adds to `TypeOK` that a client is told to
  quit only by `client_listener_free` and that a connection not yet made
  has stopped nothing.  The first is what makes `StoppedIsOwned` inductive:
  a client that leaves its loop on `quit` forgets that it has stopped the guest,
  and only the teardown may excuse that.  Theorem `StoppedOwned`, for any set of
  clients.

* **Daemon** (`DaemonProofs`): `WatchdogOK` says which source is attached at
  each place where the watchdog's coroutine waits; that it is one says nothing of
  what is attached after it was dispatched.  In the timer's place it may be the
  idle source of `colo_watchdog_free`, and then `quit` is set and the timer is
  gone.  Theorem `WatchdogResumed`; with the lemmas of `ClientProofs`, theorem
  `DaemonStoppedOwned` for the daemon as a whole.

* **Resource agent** (`ResourceAgentProofs`): `RoleReported` speaks of instances
  that no call concerns; to keep it through the calls, `NodeInv` says what is
  known of an instance at any time (one that Pacemaker believes stopped, or
  whose node is down, does not run; a slave pretends to be one until only the last
  step of its promotion is left; a stop has killed what it stops before the score is
  set), and `TodoInv` says which calls can be in one transition (all to nodes
  that are up, except the notification of a fencing; no start of a master, and
  none after a promotion).  `Keeps` collects what nearly all steps have in common,
  so that only the calls that change a role, crashes and fencing need a proof of
  their own.  Theorems `AgentTypeCorrect` and `RolesReported`, for any two nodes,
  all kinds of faults, the first of them at any time, after a standby too, and any
  bounds.

  `GuestHasRecentData` needs far more.  `GuestInv` says of each node n and its
  peer m, in named parts: what colod can report (`Shape`); that the guest runs on one
  node, or on both as a pair (`Pair`); that a node that has the guest, or has a
  score while its peer has not got the guest, or is to be promoted, is up to date
  (`Recent`); that a node without the guest keeps a score only while its peer is
  master, becomes it, or the planned stop takes the score away (`Scores`); which
  score a failed node is left with (`Failures`) and that the status read at the
  beginning of a stop still fits when the score is computed from it (`Statuses`);
  and which calls can be planned in which situation (`Stops`, `Calls`, `Bad`).
  `Begins` describes the time before the first fault, in which the pair is
  started for the first time.  `Form`, with `Later`, `HeadGone` and `RestKept`, takes
  the place of the sequence `todo` in the proofs of the steps.  The mirror makes
  the disk of the peer old at the moment it starts, before the peer loses its
  score: this window, and the one between the two halves of a stop, are why
  planned calls are part of the invariant.  `StopPlan` and `StartPlan` say what
  Pacemaker plans.  Theorem `MostRecentData`, for any two nodes and any number of
  faults and standbys, under `TimelyFaults`: `"colod master" \notin Faults`;
  `"fail"`, `"link"` `\notin AnyTime`; and `DuringStandby = {}`, so that no fault comes
  before the pair has settled again after a standby, unless one came before it.  That
  covers the crash of either node, the failure of both daemons and the death of a
  slave's daemon at any moment before the pair first settles, and every fault but
  the death of a master's daemon in each settled pair.  Of the four hypotheses,
  three cannot be dropped: `ColodMaster.cfg`, `EarlyFail.cfg`, and `StandbyCrash.cfg`
  and `ResyncCrash.cfg` are counterexamples.  (`"link"` early is excluded because it fails
  one of the two daemons like `"fail"` does.)  The kinds of `DuringStandby` that
  `Agent.cfg` has, an unscored crash and a failure of both daemons, are only
  model-checked; otherwise `Agent.cfg` is an instance of the theorem.

Only model-checked:

* all liveness properties and `SleepsFromStart`, of which the former are out of
  the prover's reach;
* `GuestHasRecentData` with the faults after a standby that `Agent.cfg` allows;
* `LinkLossNoticed`, which does not hold for every queue size and every number of
  messages under way (see above); its premises leave little more than the
  instance that is checked;
* `PeerAgrees` with more than two daemons; in the run, with at most two messages
  under way and none lost, a `YELLOW` and an `UNYELLOW` may also wait together.

## Not modelled

The wire format and parsing of JSON and netlink messages, logging, options,
daemonising, the command templates that clients set, memory (clients use the main
coroutine and the watchdog after `daemon_mainloop` has freed them), the sources of
the raise-timeout coroutine; of the resource agent command lines, configuration
and validation, and a guest that does not power down in time; and the tests.

## Plan

All components with state of their own are modelled.  What is left:

1. `FailoverArbitration`: the abstract promise of the failover protocol, with
   the cluster as its refinement, from the invariant of `OwnerUnique`.
2. `RaiseTimeout`: the coroutine with its own sources, started again and freed
   at any time (assertion at its end).
