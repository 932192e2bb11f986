--------------------------- MODULE ResourceAgent ---------------------------
(***************************************************************************)
(* colo: the OCF resource agent, which Pacemaker calls on both nodes to    *)
(* start, stop, promote and monitor qemu with its colod.  The agent keeps  *)
(* one persistent number per node, the master score, from which Pacemaker  *)
(* chooses the node that gets the guest.                                   *)
(*                                                                         *)
(* `todo' is what Pacemaker and the agent are about to do: the calls of a  *)
(* transition, the first of which may be half done.  colod and qemu appear *)
(* by what query-status says of them (MainCoroutine has the rest) and by   *)
(* what becomes of the disk.                                               *)
(*                                                                         *)
(* Faults happen while the pair is settled.  The first fault of all may    *)
(* come between any two steps before that: before the pair has settled for *)
(* the first time (AnyTime), and in a stop or restart that a standby has   *)
(* caused (DuringStandby).  A second fault never comes before the pair has *)
(* settled from the first.                                                 *)
(***************************************************************************)
EXTENDS Naturals, Sequences, FiniteSets

CONSTANTS
    Node,          \* the two nodes
    First,         \* the node on which the guest was installed
    Faults,        \* the kinds of faults that happen, once the pair has settled
    AnyTime,       \* those which the first fault may be earlier, ...
    DuringStandby, \* ... and before the pair has settled again after a standby
    MaxFaults,     \* bound on their number
    MaxStandby     \* bound on the times nodes are taken out of use

ASSUME AgentAssumption ==
    /\ First \in Node /\ IsFiniteSet(Node) /\ Cardinality(Node) = 2
    /\ Faults \subseteq {"crash", "crash unscored", "crash resync", "fail", "link", "both",
                         "colod master", "colod slave"}
    /\ AnyTime \subseteq Faults /\ DuringStandby \subseteq Faults
    /\ MaxFaults \in Nat /\ MaxStandby \in Nat

VARIABLES
    colod,      \* per node, colod and its qemu
    score,      \* per node, the attribute set by crm_master
    current,    \* the nodes whose disk has all that the guest has written
    up,         \* the nodes that run
    role,       \* per node, the role Pacemaker has given to the instance
    bad,        \* the instances that Pacemaker knows to have failed
    standby,    \* the nodes the administrator has taken out of use
    todo,       \* the calls that are under way or planned
    faults, standbys    \* counters for the bounds

data == <<score, current>>
pacemaker == <<up, role, bad, standby, standbys>>
vars == <<colod, data, pacemaker, todo, faults>>

Other(n) == CHOOSE m \in Node : m # n

\* The part of query-status that the agent reads.
Status ==
    [primary : BOOLEAN, replication : BOOLEAN, failed : BOOLEAN, peer_failed : BOOLEAN]

\* `peer' and `pretend_secondary' are set by the agent; `migration' and `resync'
\* are qemu's; `guest': the guest has not been powered down.
Colod ==
    [run : {"no", "yes", "qemu"},       \* "qemu": colod has died and left it
     status : Status, peer : BOOLEAN, pretend_secondary : BOOLEAN,
     migration : {"none", "active", "colo", "failover"},
     resync : {"none", "runs", "ready", "error"}, guest : BOOLEAN]

Quiet == [primary |-> FALSE, replication |-> FALSE, failed |-> FALSE, peer_failed |-> FALSE]
Off ==
    [run |-> "no", status |-> Quiet, peer |-> FALSE, pretend_secondary |-> FALSE,
     migration |-> "none", resync |-> "none", guest |-> FALSE]
\* Mutation: nothing tells a secondary that took over from a master.
SecondaryUnmarked == [Off EXCEPT !.run = "yes"]

\* As qemu_colo_start and qemu_colo_promote leave them.
Secondary == [Off EXCEPT !.run = "yes", !.pretend_secondary = TRUE]
Primary == [Off EXCEPT !.run = "yes", !.status.primary = TRUE, !.guest = TRUE]

Op == {"start", "stop", "kill", "score", "pre-stop", "post-start", "post-stop",
       "promote", "promoted", "resync", "set-peer"}
\* all: everything is being stopped; again: the stop is part of a demote;
\* status: what was read before, if colod has answered.
Call == [op : Op, on : Node, all : BOOLEAN, again : BOOLEAN,
         known : BOOLEAN, status : Status]
A(op, n) == [op |-> op, on |-> n, all |-> FALSE, again |-> FALSE,
             known |-> FALSE, status |-> Quiet]

\* The state is of its type.
TypeOK ==
    /\ colod \in [Node -> Colod]
    /\ score \in [Node -> {0, 10, 11, 100, 101}]
    /\ current \subseteq Node /\ up \subseteq Node
    /\ bad \subseteq Node /\ standby \subseteq Node
    /\ role \in [Node -> {"stopped", "slave", "master"}]
    /\ todo \in Seq(Call)
    /\ faults \in Nat /\ standbys \in Nat

Init ==
    /\ colod = [n \in Node |-> Off]
    /\ score = [n \in Node |-> IF n = First THEN 11 ELSE 0]
    /\ current = {First}
    /\ up = Node
    /\ role = [n \in Node |-> "stopped"]
    /\ bad = {} /\ standby = {} /\ todo = <<>>
    /\ faults = 0 /\ standbys = 0
-----------------------------------------------------------------------------
Active == {n \in Node : role[n] # "stopped"}
Answers(n) == colod[n].run = "yes"
Sound(n) == Answers(n) /\ ~colod[n].status.failed
InUse(n) == colod[n].status.primary \/ colod[n].status.replication
Joined(n) == Sound(n) /\ (colod[n].status.replication \/ colod[n].migration # "none")

\* The guest runs on n and on no other node.
HasGuest(n) ==
    /\ colod[n].run # "no" /\ colod[n].status.primary /\ ~colod[n].status.replication
    /\ ~colod[n].status.failed /\ colod[n].migration = "none" /\ colod[n].guest

\* colod_cpg_event_cb when the peer fails or leaves; in SECONDARY_WAIT it is
\* forgotten again, unless the migration has come so far that qemu fails too.
Noticed(c) ==
    IF c.run # "yes" THEN c
    ELSE IF c.status.replication \/ (c.status.primary /\ c.migration # "none")
         THEN [c EXCEPT !.status.peer_failed = TRUE, !.migration = "failover"]
    ELSE IF c.status.primary THEN [c EXCEPT !.status.peer_failed = TRUE]
    ELSE IF c.migration = "colo" THEN [c EXCEPT !.status.failed = TRUE]
    ELSE c

Become(n, c) == colod' = [colod EXCEPT ![n] = c]
Leaves(n, c) == colod' = [m \in Node |-> IF m = n THEN c ELSE Noticed(colod[m])]
FailedOf(c) == [c EXCEPT !.status.failed = TRUE, !.guest = FALSE]
-----------------------------------------------------------------------------
(* The agent.  The head of todo is replaced by what remains of its call. *)

Calling(op) == todo # <<>> /\ Head(todo).op = op
Done == todo' = Tail(todo)
Then(calls) == todo' = calls \o Tail(todo)

qemu_colo_start ==
    /\ Calling("start")
    /\ LET n == Head(todo).on IN
       /\ Become(n, IF colod[n].run = "no" THEN Secondary ELSE colod[n])
       /\ role' = [role EXCEPT ![n] = "slave"]
    /\ Done
    /\ UNCHANGED <<data, up, bad, standby, standbys, faults>>

calculate_master_score(s, shutdown_guest, old) ==
    IF ~s.primary /\ ~s.replication THEN old
    ELSE IF shutdown_guest
         THEN IF s.replication /\ s.failed THEN 0 ELSE IF s.primary THEN 11 ELSE 10
    ELSE IF s.peer_failed THEN IF s.primary THEN 11 ELSE 10
    ELSE IF s.primary /\ ~s.replication THEN 11 ELSE 0

\* qemu_colo_stop: the status is read, ...
StopStatus ==
    /\ Calling("stop")
    /\ LET n == Head(todo).on IN
       Then(<<[Head(todo) EXCEPT !.op = "kill", !.known = Answers(n), !.status = colod[n].status]>>)
    /\ UNCHANGED <<colod, data, pacemaker, faults>>

\* ... the guest is powered down if everything is to stop, and qemu and colod
\* are stopped, ...
StopKill ==
    /\ Calling("kill")
    /\ LET n == Head(todo).on
           m == Other(n)
           off == Head(todo).all /\ Head(todo).known /\ ~Head(todo).status.failed
       IN  colod' = [colod EXCEPT ![n] = Off,
                       ![m] = [Noticed(colod[m]) EXCEPT !.guest = @ /\ ~(off /\ Joined(n) /\ Joined(m))]]
    /\ Then(<<[Head(todo) EXCEPT !.op = "score"]>>)
    /\ UNCHANGED <<data, pacemaker, faults>>

\* ... and the score is computed from what the status was.
StopScore ==
    /\ Calling("score")
    /\ LET h == Head(todo) IN
       /\ score' = IF h.known
                   THEN [score EXCEPT ![h.on] = calculate_master_score(h.status, h.all, @)]
                   ELSE score
       /\ bad' = bad \ {h.on}
       /\ role' = [role EXCEPT ![h.on] = "stopped"]
       /\ Then(IF h.again THEN <<A("start", h.on)>> ELSE <<>>)
    /\ UNCHANGED <<colod, current, up, standby, standbys, faults>>

\* The node nbd0 exists in qemu.
HasNbd(n) == colod[n].resync # "none" \/ colod[n].migration # "none" \/ colod[n].status.replication

NewPeer(n) == IF colod[n].peer THEN <<>> ELSE <<A("resync", n)>>

\* new_peer: the mirror to the disk of the peer is started, ...
qmp_start_resync ==
    /\ Calling("resync")
    /\ LET n == Head(todo).on
           m == Other(n) IN
       \/ /\ colod[m].run # "no" /\ ~HasNbd(n)
          /\ Become(n, [colod[n] EXCEPT !.resync = "runs"])
          /\ current' = current \ {m}
          /\ UNCHANGED bad
       \/ /\ colod[m].run = "no" \/ HasNbd(n)
          /\ bad' = bad \cup (Active \cap {m})
          /\ UNCHANGED <<colod, current>>
    /\ Then(<<[Head(todo) EXCEPT !.op = "set-peer"]>>)
    /\ UNCHANGED <<score, up, role, standby, standbys, faults>>

\* ... and the peer is set and loses its score.  A crash of n between the two is
\* one before them: the peer it has set is gone with its colod.
SetPeer ==
    /\ Calling("set-peer")
    /\ LET n == Head(todo).on IN
       /\ Become(n, [colod[n] EXCEPT !.peer = TRUE, !.status.peer_failed = FALSE])
       /\ score' = [score EXCEPT ![Other(n)] = 0]
    /\ Done
    /\ UNCHANGED <<current, pacemaker, faults>>

\* Mutation: the peer is not cleared.
DelPeerKept(c) == [c EXCEPT !.resync = "none"]

del_peer(c) == [c EXCEPT !.peer = FALSE, !.resync = "none"]

\* qemu_colo_notify: the other node was started, ...
NotifyPostStart ==
    /\ Calling("post-start")
    /\ LET n == Head(todo).on IN
       Then(IF Sound(n) /\ colod[n].status.primary THEN NewPeer(n) ELSE <<>>)
    /\ UNCHANGED <<colod, data, pacemaker, faults>>

\* ... is going to be stopped, ...
NotifyPreStop ==
    /\ Calling("pre-stop")
    /\ LET n == Head(todo).on IN
       Become(n, IF Sound(n) /\ ~Head(todo).all /\ InUse(n) /\ colod[n].peer
                 THEN del_peer(colod[n]) ELSE colod[n])
    /\ Done
    /\ UNCHANGED <<data, pacemaker, faults>>

\* Mutation: the score of the fenced node is left to itself.
PostStopKeepsScore ==
    /\ Calling("post-stop")
    /\ LET n == Head(todo).on IN
       Become(n, IF Sound(n) /\ InUse(n) /\ colod[n].peer THEN del_peer(colod[n]) ELSE colod[n])
    /\ Done
    /\ UNCHANGED <<data, pacemaker, faults>>

\* ... or was fenced.
NotifyPostStop ==
    /\ Calling("post-stop")
    /\ LET n == Head(todo).on IN
       IF Sound(n) /\ InUse(n)
       THEN /\ score' = [score EXCEPT ![Other(n)] = 0]
            /\ Become(n, IF colod[n].peer THEN del_peer(colod[n]) ELSE colod[n])
       ELSE UNCHANGED <<score, colod>>
    /\ Done
    /\ UNCHANGED <<current, pacemaker, faults>>

\* qemu_colo_promote: the guest is booted from the disk, ...
PromoteCold ==
    /\ Calling("promote")
    /\ LET n == Head(todo).on IN
       /\ Sound(n) /\ ~InUse(n)
       /\ Leaves(n, Primary)
       /\ Then(<<A("promoted", n)>>)
    /\ UNCHANGED <<data, pacemaker, faults>>

\* ... or a failover is awaited, ...
PromoteWarm ==
    /\ Calling("promote")
    /\ LET n == Head(todo).on IN
       /\ Sound(n) /\ colod[n].status.primary
       /\ Become(n, [colod[n] EXCEPT !.pretend_secondary = FALSE])
       /\ Then(<<A("promoted", n)>>)
    /\ UNCHANGED <<data, pacemaker, faults>>

\* Mutation: the score of a master is added to what it has.
PromotedAdds ==
    /\ Calling("promoted")
    /\ LET n == Head(todo).on IN
       /\ score' = [score EXCEPT ![n] = @ + 101]
       /\ role' = [role EXCEPT ![n] = "master"]
       /\ Then(IF role[Other(n)] = "slave" THEN NewPeer(n) ELSE <<>>)
    /\ UNCHANGED <<colod, current, up, bad, standby, standbys, faults>>

\* ... which gives the node its score and maybe a peer.
Promoted ==
    /\ Calling("promoted")
    /\ LET n == Head(todo).on IN
       /\ score' = [score EXCEPT ![n] = 101]
       /\ role' = [role EXCEPT ![n] = "master"]
       /\ Then(IF role[Other(n)] = "slave" THEN NewPeer(n) ELSE <<>>)
    /\ UNCHANGED <<colod, current, up, bad, standby, standbys, faults>>

\* The call fails at once, or Pacemaker's timeout ends the wait.
PromoteFails ==
    /\ Calling("promote")
    /\ LET n == Head(todo).on IN
       /\ ~Sound(n) \/ (InUse(n) /\ ~colod[n].status.primary /\ colod[n].migration # "failover")
       /\ bad' = bad \cup {n}
    /\ Done
    /\ UNCHANGED <<colod, data, up, role, standby, standbys, faults>>

\* Pacemaker monitors an instance while it makes no other call to it.
Monitored(n) ==
    /\ n \in up \cap Active
    /\ todo # <<>> => Head(todo).on # n

\* qemu_colo_monitor: nothing runs, or colod does not answer or has failed, ...
MonitorFails(n) ==
    /\ Monitored(n) /\ n \notin bad /\ ~Sound(n)
    /\ bad' = bad \cup {n}
    /\ UNCHANGED <<colod, data, up, role, standby, standbys, todo, faults>>

\* ... a primary gives up its peer ...
MonitorPeerLost(n) ==
    /\ Monitored(n) /\ Sound(n) /\ colod[n].status.primary
    /\ colod[n].resync = "error" \/ (colod[n].resync # "none" /\ colod[n].status.peer_failed)
    /\ Become(n, del_peer(colod[n]))
    /\ bad' = bad \cup (Active \cap {Other(n)})
    /\ UNCHANGED <<data, up, role, standby, standbys, todo, faults>>

\* ... or starts the migration, ...
MonitorResynced(n) ==
    /\ Monitored(n) /\ Sound(n) /\ colod[n].status.primary
    /\ colod[n].resync = "ready" /\ ~colod[n].status.peer_failed
    /\ Become(n, [colod[n] EXCEPT !.resync = "none",
                    !.migration = IF colod[Other(n)].run = "no" THEN "failover" ELSE "active"])
    /\ UNCHANGED <<data, pacemaker, todo, faults>>

\* ... and a secondary that replicates gets its score.
MonitorSecondary(n) ==
    /\ Monitored(n) /\ Sound(n) /\ ~colod[n].status.primary /\ colod[n].status.replication
    /\ score[n] < 100
    /\ score' = [score EXCEPT ![n] = 100]
    /\ UNCHANGED <<colod, current, pacemaker, todo, faults>>
-----------------------------------------------------------------------------
(* colod and qemu. *)

Qemu == UNCHANGED <<score, pacemaker, todo, faults>>

\* The mirror job has copied all, or finds its target gone.
Mirror(n) ==
    /\ Answers(n) /\ colod[n].resync \in {"runs", "ready"}
    /\ LET there == colod[Other(n)].run # "no" IN
       /\ there => colod[n].resync = "runs"
       /\ Become(n, [colod[n] EXCEPT !.resync = IF there THEN "ready" ELSE "error"])
    /\ UNCHANGED current /\ Qemu

\* The migration is through: both qemus are in COLO mode.
Migrated(n) ==
    /\ Sound(n) /\ colod[n].migration = "active" /\ ~colod[n].status.peer_failed
    /\ Sound(Other(n)) /\ ~InUse(Other(n))
    /\ colod' = [colod EXCEPT ![n].migration = "colo", ![Other(n)].migration = "colo",
                              ![Other(n)].guest = colod[n].guest]
    /\ current' = IF n \in current THEN current \cup {Other(n)} ELSE current \ {Other(n)}
    /\ Qemu

\* STATE_PRIMARY_COLO_RUNNING, STATE_SECONDARY_COLO_RUNNING.
ColoRunning(n) ==
    /\ Sound(n) /\ colod[n].migration = "colo"
    /\ Become(n, [colod[n] EXCEPT !.migration = "none", !.status.replication = TRUE])
    /\ UNCHANGED current /\ Qemu

\* The peer has failed or left: STATE_FAILOVER, then STATE_PRIMARY_WAIT.
Failover(n) ==
    /\ Sound(n) /\ colod[n].migration = "failover"
    /\ Become(n, [colod[n] EXCEPT !.status.primary = TRUE, !.status.replication = FALSE,
                                  !.migration = "none", !.peer = FALSE])
    /\ UNCHANGED current /\ Qemu

\* The guest writes to the one disk it has.
Write(n) ==
    /\ HasGuest(n) /\ current # {n}
    /\ current' = {n}
    /\ UNCHANGED colod /\ Qemu
-----------------------------------------------------------------------------
(* Faults. *)

\* The pair replicates, and the scores say so.
Settled ==
    /\ todo = <<>> /\ bad = {} /\ standby = {}
    /\ \A n \in Node : Sound(n) /\ colod[n].status.replication
    /\ \E n \in Node : role[n] = "master" /\ score[n] = 101 /\ score[Other(n)] = 100

Fault(kind) ==
    /\ kind \in Faults
    /\ \/ Settled
       \/ faults = 0 /\ kind \in IF standbys = 0 THEN AnyTime ELSE DuringStandby
    /\ faults < MaxFaults /\ faults' = faults + 1

\* The peer of n is going to take over, and has not got its score.
Unscored(n) ==
    LET m == Other(n) IN
    /\ Sound(m) /\ (colod[m].status.replication \/ colod[m].migration = "colo")
    /\ score[m] < 100

\* A crash is told apart by what it leaves the peer with: about to take over without
\* a score, with a disk that n was mirroring to, or neither.
CrashKind(n) ==
    CASE Unscored(n) -> "crash unscored"
      [] ~Unscored(n) /\ colod[n].resync # "none" -> "crash resync"
      [] OTHER -> "crash"

\* The power of a node fails.  The transition is given up; a call to the other
\* node that is under way is finished.
Crash(n) ==
    /\ Fault(CrashKind(n)) /\ n \in up
    /\ up' = up \ {n}
    /\ Leaves(n, Off)
    /\ todo' = IF todo = <<>> \/ Head(todo).on = n THEN <<>> ELSE <<Head(todo)>>
    /\ UNCHANGED <<data, role, bad, standby, standbys>>

\* qemu dies or does not do as it is told: STATE_FAILED.
Fail(n) ==
    /\ Fault("fail") /\ Sound(n)
    /\ Leaves(n, FailedOf(colod[n]))
    /\ UNCHANGED <<data, pacemaker, todo>>

\* The replication connection breaks: n loses the failover, ...
LinkBreaks(n) ==
    /\ Fault("link") /\ Joined(n) /\ Joined(Other(n))
    /\ Leaves(n, FailedOf(colod[n]))
    /\ UNCHANGED <<data, pacemaker, todo>>

\* ... or both do.
BothFail ==
    /\ Fault("both") /\ \A n \in Node : Joined(n)
    /\ colod' = [n \in Node |-> [FailedOf(colod[n]) EXCEPT !.status.peer_failed = TRUE]]
    /\ UNCHANGED <<data, pacemaker, todo>>

\* colod dies and leaves qemu behind.
ColodDies(n) ==
    /\ Answers(n) /\ (todo # <<>> => Head(todo).on # n)
    /\ Fault(IF role[n] = "master" THEN "colod master" ELSE "colod slave")
    /\ Leaves(n, [colod[n] EXCEPT !.run = "qemu"])
    /\ UNCHANGED <<data, pacemaker, todo>>
-----------------------------------------------------------------------------
(* Pacemaker and the administrator. *)

Idle == todo = <<>> /\ Active \subseteq up

\* A node that is gone is fenced, and the others are told.
Fence(n) ==
    /\ todo = <<>> /\ n \in Active \ up
    /\ role' = [role EXCEPT ![n] = "stopped"]
    /\ bad' = bad \ {n}
    /\ todo' = IF Other(n) \in Active THEN <<A("post-stop", Other(n))>> ELSE <<>>
    /\ UNCHANGED <<colod, data, up, standby, standbys, faults>>

Boot(n) ==
    /\ n \notin up \cup Active
    /\ up' = up \cup {n}
    /\ UNCHANGED <<colod, data, role, bad, standby, standbys, todo, faults>>

Orders(ns) == {s \in [1 .. Cardinality(ns) -> ns] : \A n \in ns : \E i \in DOMAIN s : s[i] = n}

\* Failed instances and those on standby nodes are stopped.  A demote stops and
\* starts the instance; it comes before the stops, and these are announced.
Stop ==
    LET ns == (bad \cup standby) \cap Active
        all == ns = Active
        calls(op, again, s) == [i \in DOMAIN s |-> [A(op, s[i]) EXCEPT !.all = all, !.again = again]]
    IN  /\ Idle /\ ns # {}
        /\ \E demote \in Orders({n \in ns : role[n] = "master"}),
              tell \in Orders({n \in Active : Other(n) \in ns}), stop \in Orders(ns) :
              todo' = calls("stop", TRUE, demote) \o calls("pre-stop", FALSE, tell)
                      \o calls("stop", FALSE, stop)
        /\ UNCHANGED <<colod, data, pacemaker, faults>>

\* What can run is started, and the node with the highest score is made master.
Start ==
    LET ns == up \ (standby \cup Active)
        running == Active \cup ns
        best == {n \in running : score[n] > 0 /\ \A m \in running : score[m] =< score[n]}
        calls(op, s) == [i \in DOMAIN s |-> A(op, s[i])]
    IN  /\ Idle /\ (bad \cup standby) \cap Active = {}
        /\ \E start \in Orders(ns), tell \in Orders({n \in Active : Other(n) \in ns}),
              promote \in IF best = {} \/ \E n \in Node : role[n] = "master" THEN {<<>>}
                         ELSE {<<n>> : n \in best} :
              todo' = calls("start", start) \o calls("post-start", tell) \o calls("promote", promote)
        /\ todo' # <<>>
        /\ UNCHANGED <<colod, data, pacemaker, faults>>

\* Nodes are taken out of use, or are in use again.
Standby(ns) ==
    /\ standbys < MaxStandby /\ Settled /\ ns # {}
    /\ standby' = ns /\ standbys' = standbys + 1
    /\ UNCHANGED <<colod, data, up, role, bad, todo, faults>>
Online ==
    /\ standby # {} /\ todo = <<>> /\ standby \cap Active = {}
    /\ standby' = {}
    /\ UNCHANGED <<colod, data, up, role, bad, standbys, todo, faults>>
-----------------------------------------------------------------------------
AgentCall ==
    \/ qemu_colo_start \/ StopStatus \/ StopKill \/ StopScore
    \/ qmp_start_resync \/ SetPeer
    \/ NotifyPostStart \/ NotifyPreStop \/ NotifyPostStop
    \/ PromoteCold \/ PromoteWarm \/ Promoted \/ PromoteFails
Monitor(n) ==
    MonitorFails(n) \/ MonitorPeerLost(n) \/ MonitorResynced(n) \/ MonitorSecondary(n)
ColodStep(n) ==
    Mirror(n) \/ Migrated(n) \/ ColoRunning(n) \/ Failover(n)
Decide ==
    Stop \/ Start \/ \E n \in Node : Fence(n)

Next ==
    \/ AgentCall \/ Decide \/ BothFail \/ Online
    \/ \E n \in Node :
          \/ Monitor(n) \/ ColodStep(n) \/ Write(n) \/ Boot(n)
          \/ Crash(n) \/ Fail(n) \/ LinkBreaks(n) \/ ColodDies(n)
    \/ \E ns \in SUBSET Node : Standby(ns)

Spec == Init /\ [][Next]_vars
FairSpec ==
    /\ Spec /\ WF_vars(AgentCall) /\ WF_vars(Decide) /\ WF_vars(Online)
    /\ \A n \in Node : WF_vars(Monitor(n)) /\ WF_vars(ColodStep(n)) /\ WF_vars(Boot(n))
-----------------------------------------------------------------------------
\* set_master_score: the scores "tell Pacemaker which host has the most recent
\* data".  Whoever runs the guest alone, by a promote or by its own failover, has
\* a disk with all that the guest has ever written.  (So no two nodes run it
\* alone: the first write of one would make the other's disk old.)
GuestHasRecentData ==
    \A n \in Node : HasGuest(n) => n \in current

\* qemu_colo_monitor, with the pretend-secondary that start and promote store:
\* what it reports is the role that Pacemaker has given to the instance, although
\* a secondary becomes primary long before it is promoted.
RoleReported ==
    \A n \in Node : Monitored(n) /\ Sound(n) =>
        (role[n] = "master") = (colod[n].status.primary /\ ~colod[n].pretend_secondary)

\* "fully automatic resynchronization and restart of the replication process"
\* (readme): the pair always comes back to a master and a slave that replicate and
\* have their scores.  Two faults are too much for that; they are seen right after
\* they have happened.  Both daemons have failed ...
SettlesAgain == []<>Settled

BothLost ==
    /\ \A n \in Node : Answers(n) /\ colod[n].status.failed /\ colod[n].status.peer_failed
    /\ \E n \in Node : colod[n].status.primary /\ colod[n].status.replication

\* ... or the peer of a node that has crashed takes over before it has its score.
UnscoredTakeover ==
    \E n \in Node \ up : Unscored(n) /\ colod[Other(n)].status.replication

\* After every other fault, and every stop of nodes, the calls of the agent do
\* bring it back: no score is lost on the way, no peer or resync is left over, and
\* no node is promoted that cannot be.
Resettles == SettlesAgain \/ <>(BothLost \/ UnscoredTakeover)
=============================================================================
