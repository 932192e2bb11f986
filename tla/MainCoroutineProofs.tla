------------------------- MODULE MainCoroutineProofs -------------------------
(***************************************************************************)
(* Proofs about module MainCoroutine, for any set of daemons, any queue    *)
(* size, any length of the command arrays and any sequence of inputs.      *)
(*                                                                         *)
(* The theorems are projections of one inductive invariant, IInv: TypeOK,  *)
(* MarkedIsTimed (from CpgProofs) and NodeInv for each daemon.  NodeInv    *)
(* says of one daemon where its coroutine can be with which interrupting   *)
(* set (Place), what wake_source_id stands for (WakeId), and which sources *)
(* are attached when it has yielded or is about to (Resumed).              *)
(*                                                                         *)
(* A step of the coroutine is split into what the functions it calls do to *)
(* the state of a daemon (colod_event_queue, Yield, WaitEvent, Execute,    *)
(* Executed, EnterState): each has a lemma that says what it preserves,    *)
(* and the lemma of an action puts them together (Moves).                  *)
(*                                                                         *)
(* The next part is about failures.  Tracks says what a step may do to     *)
(* them; FailInv, that a failed daemon is at one of the places it never    *)
(* leaves, makes FailedIsFinal provable, and AnnounceInv adds what has     *)
(* been delivered to whom, for FailureAnnounced.                           *)
(*                                                                         *)
(* The last part is about the contest for the guest: OwnInv says which     *)
(* daemon may still win it, from where its coroutine is, what is queued    *)
(* and what is still to be delivered, and OneOwner follows.                *)
(***************************************************************************)
EXTENDS MainCoroutine, CpgProofs, WellFoundedInduction

\* The part of TypeOK about one daemon.
Good(s) == s \in NodeState /\ Len(s.queue) <= QueueSize

Attached(s, src) == \E i \in 1 .. Len(s.sources) : s.sources[i] = src

\* wake_source_id is the id of a wake that is still to be dispatched, or of
\* the one that runs the coroutine now.
WakeId(s) ==
    /\ s.wake_source_id = "set" => Attached(s, "wake")
    /\ s.wake_source_id = "cur" => s.run = "wake"

SyncInterrupting == AlwaysInterrupting \cup {"FAILOVER_SYNC"}

\* The places of colod_primary_start_migration_co before handle_event, and
\* those of a daemon that is still a secondary.
MigrationPc == {"sm_caps", "sm_start", "sm_preswitch", "sm_switch",
                "sm_continue", "sm_colo"}
SecondaryPc == {"startup", "sw_resume", "sw_event"}

\* What the rest of the state says about the place of the coroutine.
Place(s) ==
    /\ s.cmd => s.pc \in CommandPc \cup ArrayPc
    /\ s.pc \in SecondaryPc => ~s.primary
    /\ s.pc \in MigrationPc => s.interrupting = SyncInterrupting
    /\ s.pc = "sm_event" => s.interrupting = SyncInterrupting /\ Interrupted(s)

\* The waits for QMP events that must not sleep on an interrupting event.
PrimaryWaitPc == WaitPc \ {"sw_resume"}

\* What remains attached for a coroutine with work to do.
Resumed(s) ==
    /\ s.run = "no" /\ s.fired /\ s.pc \in PrimaryWaitPc => Attached(s, "fired")
    /\ s.run # "no" /\ s.fired /\ s.pc \in PrimaryWaitPc /\ Interrupted(s)
         => s.sources # << >>
    /\ s.run = "no" /\ s.pc \in EventPc /\ s.queue # << >> => s.sources # << >>
    /\ s.run = "no" /\ s.pc \in PrimaryWaitPc /\ Interrupted(s)
         => s.sources # << >> /\ (s.fired => Len(s.sources) >= 2)

\* The inductive invariant, for one daemon and for all.
NodeInv(s) == Good(s) /\ WakeId(s) /\ Place(s) /\ Resumed(s)

IInv == TypeOK /\ MarkedIsTimed /\ \A n \in Daemons : NodeInv(node[n])

\* A coroutine that runs, wherever it is.
Runs(s) == Good(s) /\ WakeId(s) /\ s.run # "no"
-----------------------------------------------------------------------------
\* What is left of a sequence without its element i.
LEMMA RemoveAtProperties ==
    ASSUME NEW S, NEW q \in Seq(S), NEW i \in 1 .. Len(q)
    PROVE  /\ RemoveAt(q, i) \in Seq(S)
           /\ Len(RemoveAt(q, i)) = Len(q) - 1
           /\ \A j \in 1 .. (Len(q) - 1) :
                RemoveAt(q, i)[j] = IF j < i THEN q[j] ELSE q[j + 1]
<1> DEFINE a == SubSeq(q, 1, i - 1)
           b == SubSeq(q, i + 1, Len(q))
<1>1. a \in Seq(S) /\ Len(a) = i - 1 /\ \A j \in 1 .. (i - 1) : a[j] = q[j]
  OBVIOUS
<1>2. b \in Seq(S) /\ Len(b) = Len(q) - i /\ \A j \in 1 .. (Len(q) - i) : b[j] = q[j + i]
  OBVIOUS
<1>3. RemoveAt(q, i) = a \o b
  BY DEF RemoveAt
<1> HIDE DEF a, b
<1>4. /\ a \o b \in Seq(S)
      /\ Len(a \o b) = Len(a) + Len(b)
      /\ \A j \in 1 .. (Len(a) + Len(b)) :
           (a \o b)[j] = IF j <= Len(a) THEN a[j] ELSE b[j - Len(a)]
  BY <1>1, <1>2, ConcatProperties
<1>5. Len(a) + Len(b) = Len(q) - 1
  BY <1>1, <1>2
<1>6. ASSUME NEW j \in 1 .. (Len(q) - 1)
      PROVE  (a \o b)[j] = IF j < i THEN q[j] ELSE q[j + 1]
  <2>1. CASE j < i
    BY <1>1, <1>4, <1>5, <2>1
  <2>2. CASE ~(j < i)
    <3>1. (a \o b)[j] = b[j - (i - 1)]
      BY <1>1, <1>4, <1>5, <2>2
    <3>2. j - (i - 1) \in 1 .. (Len(q) - i) /\ j - (i - 1) + i = j + 1
      BY <2>2
    <3>3. b[j - (i - 1)] = q[j - (i - 1) + i]
      BY <1>2, <3>2
    <3> QED BY <2>2, <3>1, <3>2, <3>3
  <2> QED BY <2>1, <2>2
<1> QED BY <1>3, <1>4, <1>5, <1>6

LEMMA QueueGood ==
    ASSUME NEW s, Good(s), NEW e \in ColodEvent
    PROVE  Good(colod_event_queue(s, e))
<1> DEFINE wakes == /\ s.wake_source_id = "none"
                    /\ s.queue = << >> \/ e \in s.interrupting
           drop == LastIs(s.queue, s.interrupting, e) \/ Len(s.queue) = QueueSize
           src == IF wakes THEN Append(s.sources, "wake") ELSE s.sources
           id == IF wakes THEN "set" ELSE s.wake_source_id
           q == IF drop THEN s.queue ELSE Append(s.queue, e)
<1>1. src \in Seq({"start", "wake", "fired", "self"}) /\ id \in {"none", "set", "cur"}
  BY DEF Good, NodeState
<1>2. q \in Seq(ColodEvent) /\ Len(q) <= QueueSize
  BY MainAssumption DEF Good, NodeState
<1>3. colod_event_queue(s, e) =
        [s EXCEPT !.sources = src, !.wake_source_id = id, !.queue = q]
  BY DEF colod_event_queue
<1> HIDE DEF src, id, q
<1> QED BY <1>1, <1>2, <1>3, ZenonT(120) DEF Good, NodeState

LEMMA YieldGood ==
    ASSUME NEW s, Good(s)
    PROVE  Good(Yield(s))
  BY DEF Good, Yield, NodeState

LEMMA WaitEventGood ==
    ASSUME NEW s, Good(s), NEW pc \in Pc
    PROVE  Good(WaitEvent(s, pc))
<1> DEFINE t == [s EXCEPT !.pc = pc, !.fired = FALSE]
<1>1. Good(t)
  BY DEF Good, NodeState
<1> HIDE DEF t
<1>2. Good(Yield(t))
  BY <1>1, YieldGood
<1> QED BY <1>2 DEF WaitEvent, t

LEMMA ExecuteGood ==
    ASSUME NEW s, Good(s), NEW pc \in Pc
    PROVE  Good(Execute(s, pc))
  BY ZenonT(120) DEF Good, Execute, NodeState

LEMMA ExecuteArrayGood ==
    ASSUME NEW s, Good(s), NEW pc \in Pc
    PROVE  Good(ExecuteArray(s, pc))
  BY MainAssumption DEF Good, ExecuteArray, NodeState

LEMMA RaiseTimeoutGood ==
    ASSUME NEW s, Good(s)
    PROVE  Good(RaiseTimeout(s))
<1>1. Good([s EXCEPT !.timeout = "high", !.raise = "start"])
  BY DEF Good, NodeState
<1> QED BY <1>1 DEF RaiseTimeout

LEMMA FinishGood ==
    ASSUME NEW s, Good(s)
    PROVE  Good(Finish(s))
<1> DEFINE p == IF Len(s.sources) + (IF s.run = "removed" THEN 0 ELSE 1) > 1
                THEN "abort" ELSE "done"
           src == << >>
<1>1. p \in Pc
  BY DEF Pc, EndPc
<1>2. Finish(s) = [s EXCEPT !.state = "QUIT", !.run = "no", !.wake_source_id = "none",
                            !.sources = src, !.pc = p]
  BY DEF Finish, SourcesLeft
<1>3. "QUIT" \in MainState /\ src \in Seq({"start", "wake", "fired", "self"})
  BY DEF MainState
<1> HIDE DEF p, src
<1> QED BY <1>1, <1>2, <1>3, ZenonT(180) DEF Good, NodeState

LEMMA EnterGood ==
    ASSUME NEW s, Good(s), NEW st \in MainState
    PROVE  Good(EnterState(s, st))
<1> DEFINE t == [s EXCEPT !.transitioning = FALSE, !.state = st, !.left = 0]
           colo == [t EXCEPT !.replication = TRUE,
                             !.interrupting = AlwaysInterrupting \cup {"FAILOVER_SYNC"}]
<1>0. AlwaysInterrupting \cup {"FAILOVER_SYNC"} \in SUBSET ColodEvent
      /\ AlwaysInterrupting \cup {"FAILOVER_SYNC", "FAILOVER_WIN", "YELLOW", "UNYELLOW"}
            \in SUBSET ColodEvent
      /\ AlwaysInterrupting \in SUBSET ColodEvent
  BY DEF ColodEvent, AlwaysInterrupting
<1>1. Good(t)
  BY DEF Good, NodeState
<1> HIDE DEF t
<1>2. Good(colo)
  BY <1>0, <1>1 DEF Good, NodeState
<1> HIDE DEF colo
<1>3. CASE st = "SECONDARY_STARTUP"
  <2>1. EnterState(s, st) = Execute(t, "startup")
    BY <1>3 DEF EnterState, t
  <2> QED BY <1>1, <2>1, ExecuteGood DEF Pc, CommandPc
<1>4. CASE st = "SECONDARY_WAIT"
  <2> DEFINE u == [t EXCEPT !.interrupting = AlwaysInterrupting \cup
                     {"FAILOVER_SYNC", "FAILOVER_WIN", "YELLOW", "UNYELLOW"}]
  <2>1. EnterState(s, st) = WaitEvent(u, "sw_resume")
    BY <1>4 DEF EnterState, t
  <2>2. Good(u)
    BY <1>0, <1>1 DEF Good, NodeState
  <2> HIDE DEF u
  <2> QED BY <2>1, <2>2, WaitEventGood DEF Pc, WaitPc
<1>5. CASE st \in {"SECONDARY_COLO_RUNNING", "PRIMARY_COLO_RUNNING"}
  <2>1. EnterState(s, st) = IF s.primary THEN WaitEvent(colo, "cr_resume1")
                            ELSE [colo EXCEPT !.pc = "cr_event"]
    BY <1>5 DEF EnterState, t, colo
  <2>2. Good(WaitEvent(colo, "cr_resume1"))
    BY <1>2, WaitEventGood DEF Pc, WaitPc
  <2>3. Good([colo EXCEPT !.pc = "cr_event"])
    BY <1>2, ZenonT(120) DEF Good, NodeState, Pc, EventPc
  <2> QED BY <2>1, <2>2, <2>3
<1>6. CASE st \in {"PRIMARY_STARTUP", "PRIMARY_WAIT"}
  <2>1. EnterState(s, st) = [t EXCEPT !.state = "PRIMARY_WAIT", !.primary = TRUE,
                                      !.replication = FALSE, !.pc = "pw_event"]
    BY <1>6 DEF EnterState, t
  <2>2. "PRIMARY_WAIT" \in MainState /\ "pw_event" \in Pc
    BY DEF MainState, Pc, EventPc
  <2> QED BY <1>1, <2>1, <2>2, ZenonT(180) DEF Good, NodeState
<1>7. CASE st = "PRIMARY_START_MIGRATION"
  <2> DEFINE u == [t EXCEPT !.interrupting = AlwaysInterrupting \cup {"FAILOVER_SYNC"}]
  <2>1. EnterState(s, st) = Execute(u, "sm_caps")
    BY <1>7 DEF EnterState, t
  <2>2. Good(u)
    BY <1>0, <1>1 DEF Good, NodeState
  <2> HIDE DEF u
  <2> QED BY <2>1, <2>2, ExecuteGood DEF Pc, CommandPc
<1>8. CASE st = "FAILOVER_SYNC"
  <2>1. EnterState(s, st) = [t EXCEPT !.pc = "fs_event"]
    BY <1>8 DEF EnterState, t
  <2> QED BY <1>1, <2>1, ZenonT(120) DEF Good, NodeState, Pc, EventPc
<1>9. CASE st = "FAILOVER"
  <2> DEFINE u == [t EXCEPT !.interrupting = AlwaysInterrupting]
  <2>1. EnterState(s, st) = Execute(u, "fo_yank")
    BY <1>9 DEF EnterState, t
  <2>2. Good(u)
    BY <1>0, <1>1 DEF Good, NodeState
  <2> HIDE DEF u
  <2> QED BY <2>1, <2>2, ExecuteGood DEF Pc, CommandPc
<1>10. CASE st \in {"FAILED", "FAILED_PEER_FAILOVER"}
  <2> DEFINE b == t.peer_failover \/ st = "FAILED_PEER_FAILOVER"
             u == [t EXCEPT !.state = "FAILED", !.failed = TRUE,
                            !.peer_failover = b, !.timeout = "low"]
  <2>1. EnterState(s, st) = Execute(u, "failed_stop")
    BY <1>10 DEF EnterState, t
  <2>2. Good(u)
    <3>1. b \in BOOLEAN /\ "FAILED" \in MainState
      BY DEF MainState
    <3> HIDE DEF b
    <3> QED BY <1>1, <3>1, ZenonT(120) DEF Good, NodeState
  <2> HIDE DEF u
  <2> QED BY <2>1, <2>2, ExecuteGood DEF Pc, CommandPc
<1>11. CASE st = "AUTOQUIT"
  <2>1. EnterState(s, st) = [t EXCEPT !.failed = TRUE, !.pc = "aq_event"]
    BY <1>11 DEF EnterState, t
  <2> QED BY <1>1, <2>1, ZenonT(120) DEF Good, NodeState, Pc, EventPc
<1>12. CASE st = "QUIT"
  <2>1. EnterState(s, st) = Finish(t)
    BY <1>12 DEF EnterState, t
  <2> QED BY <1>1, <2>1, FinishGood
<1> QED
  BY <1>3, <1>4, <1>5, <1>6, <1>7, <1>8, <1>9, <1>10, <1>11, <1>12 DEF MainState
-----------------------------------------------------------------------------
\* What colod_event_queue leaves alone, and that it keeps the sources.
LEMMA QueueFields ==
    ASSUME NEW s, Good(s), WakeId(s), NEW e \in ColodEvent
    PROVE  LET t == colod_event_queue(s, e)
           IN  /\ t.run = s.run /\ t.pc = s.pc /\ t.cmd = s.cmd /\ t.fired = s.fired
               /\ t.primary = s.primary /\ t.interrupting = s.interrupting
               /\ WakeId(t)
               /\ s.sources # << >> => t.sources # << >>
               /\ Len(t.sources) >= Len(s.sources)
               /\ \A src : Attached(s, src) => Attached(t, src)
<1> DEFINE t == colod_event_queue(s, e)
           wakes == /\ s.wake_source_id = "none"
                    /\ s.queue = << >> \/ e \in s.interrupting
<1>1. /\ t.run = s.run /\ t.pc = s.pc /\ t.cmd = s.cmd /\ t.fired = s.fired
      /\ t.primary = s.primary /\ t.interrupting = s.interrupting
      /\ t.sources = IF wakes THEN Append(s.sources, "wake") ELSE s.sources
      /\ t.wake_source_id = IF wakes THEN "set" ELSE s.wake_source_id
  BY DEF Good, NodeState, colod_event_queue
<1>2. s.sources \in Seq({"start", "wake", "fired", "self"})
  BY DEF Good, NodeState
<1> HIDE DEF t
<1>3. CASE wakes
  <2>1. /\ t.sources = Append(s.sources, "wake") /\ t.wake_source_id = "set"
        /\ Len(t.sources) = Len(s.sources) + 1
        /\ t.sources[Len(s.sources) + 1] = "wake"
        /\ \A i \in 1 .. Len(s.sources) : t.sources[i] = s.sources[i]
    BY <1>1, <1>2, <1>3
  <2> QED BY <1>1, <1>2, <2>1 DEF WakeId, Attached, t
<1>4. CASE ~wakes
  BY <1>1, <1>2, <1>4 DEF WakeId, Attached, t
<1> QED BY <1>3, <1>4

\* An event that arrives while the coroutine has yielded comes with a source,
\* or finds one.
LEMMA QueueInv ==
    ASSUME NEW s, NodeInv(s), s.run = "no", NEW e \in ColodEvent
    PROVE  NodeInv(colod_event_queue(s, e))
<1> DEFINE t == colod_event_queue(s, e)
           wakes == /\ s.wake_source_id = "none"
                    /\ s.queue = << >> \/ e \in s.interrupting
<1>1. Good(t)
  BY QueueGood DEF NodeInv
<1>2. /\ t.run = s.run /\ t.pc = s.pc /\ t.cmd = s.cmd /\ t.fired = s.fired
      /\ t.primary = s.primary /\ t.interrupting = s.interrupting
      /\ WakeId(t)
      /\ s.sources # << >> => t.sources # << >>
      /\ Len(t.sources) >= Len(s.sources)
      /\ \A src : Attached(s, src) => Attached(t, src)
  BY QueueFields DEF NodeInv
<1>3. /\ t.sources = IF wakes THEN Append(s.sources, "wake") ELSE s.sources
      /\ t.queue = s.queue \/ t.queue = Append(s.queue, e)
  BY DEF NodeInv, Good, NodeState, colod_event_queue
<1>4. /\ s.sources \in Seq({"start", "wake", "fired", "self"})
      /\ s.queue \in Seq(ColodEvent)
  BY DEF NodeInv, Good, NodeState
<1> HIDE DEF t
<1>5. Interrupted(t) => Interrupted(s) \/ e \in s.interrupting
  BY <1>2, <1>3, <1>4 DEF Interrupted, PendingInterrupt, InterruptingAt
<1>6. wakes => Len(t.sources) = Len(s.sources) + 1 /\ t.sources # << >>
  BY <1>3, <1>4
<1>7. s.wake_source_id # "none" => Attached(s, "wake")
  BY DEF NodeInv, Good, NodeState, WakeId
<1>8. Attached(s, "wake") /\ Attached(s, "fired") => Len(s.sources) >= 2
  BY <1>4 DEF Attached
<1>9. Attached(s, "wake") \/ Attached(s, "fired") => s.sources # << >> /\ Len(s.sources) >= 1
  BY <1>4 DEF Attached
<1>10. Place(t)
  <2>1. Interrupted(s) => Interrupted(t)
    BY <1>2, <1>3, <1>4 DEF Interrupted, PendingInterrupt, InterruptingAt
  <2> QED BY <1>2, <2>1 DEF NodeInv, Place
<1>11. s.pc \in EventPc /\ t.queue # << >> => t.sources # << >>
  BY <1>2, <1>3, <1>6, <1>7, <1>9 DEF NodeInv, Resumed
<1>12. s.pc \in PrimaryWaitPc /\ Interrupted(t)
         => t.sources # << >> /\ (t.fired => Len(t.sources) >= 2)
  <2> SUFFICES ASSUME s.pc \in PrimaryWaitPc, Interrupted(t)
               PROVE  t.sources # << >> /\ (t.fired => Len(t.sources) >= 2)
    OBVIOUS
  <2>1. CASE Interrupted(s)
    BY <1>2, <1>4, <2>1 DEF NodeInv, Resumed
  <2>2. CASE e \in s.interrupting /\ s.wake_source_id = "none"
    <3>1. wakes
      BY <2>2
    <3> QED BY <1>2, <1>4, <1>6, <1>9, <3>1 DEF NodeInv, Resumed
  <2>3. CASE s.wake_source_id # "none"
    BY <1>2, <1>4, <1>7, <1>8, <1>9, <2>3 DEF NodeInv, Resumed
  <2> QED BY <1>5, <2>1, <2>2, <2>3
<1>13. Resumed(t)
  BY <1>2, <1>11, <1>12 DEF NodeInv, Resumed
<1> QED BY <1>1, <1>2, <1>10, <1>13 DEF NodeInv, t
-----------------------------------------------------------------------------
\* A running coroutine that is nowhere near a wait for QMP.
LEMMA RunInv ==
    ASSUME NEW s, Runs(s), Place(s), s.pc \notin WaitPc
    PROVE  NodeInv(s)
  BY DEF Runs, NodeInv, Resumed, PrimaryWaitPc

\* WakeId depends on three fields only.
LEMMA WakeIdSame ==
    ASSUME NEW s, NEW t, WakeId(s),
           t.wake_source_id = s.wake_source_id, t.sources = s.sources,
           s.wake_source_id = "cur" => t.run = s.run
    PROVE  WakeId(t)
  BY DEF WakeId, Attached

\* And NodeInv on these.
LEMMA SameInv ==
    ASSUME NEW s, NEW t, NodeInv(s), Good(t),
           t.wake_source_id = s.wake_source_id, t.sources = s.sources,
           t.run = s.run, t.pc = s.pc, t.cmd = s.cmd, t.fired = s.fired,
           t.primary = s.primary, t.interrupting = s.interrupting,
           t.queue = s.queue
    PROVE  NodeInv(t)
  BY DEF NodeInv, WakeId, Place, Resumed, Attached, Interrupted

\* The coroutine yields, and wake_source_id does not name a source that is gone.
LEMMA YieldWakeId ==
    ASSUME NEW s, Runs(s)
    PROVE  /\ WakeId(Yield(s)) /\ Good(Yield(s))
           /\ Yield(s).run = "no" /\ Yield(s).pc = s.pc /\ Yield(s).cmd = s.cmd
           /\ Yield(s).fired = s.fired /\ Yield(s).primary = s.primary
           /\ Yield(s).interrupting = s.interrupting
           /\ Yield(s).queue = s.queue /\ Yield(s).sources = s.sources
<1>1. /\ Yield(s).run = "no" /\ Yield(s).pc = s.pc /\ Yield(s).cmd = s.cmd
      /\ Yield(s).fired = s.fired /\ Yield(s).primary = s.primary
      /\ Yield(s).interrupting = s.interrupting
      /\ Yield(s).queue = s.queue /\ Yield(s).sources = s.sources
      /\ Yield(s).wake_source_id = IF s.run = "wake" THEN "none" ELSE s.wake_source_id
  BY DEF Runs, Good, NodeState, Yield
<1>2. WakeId(Yield(s))
  BY <1>1 DEF Runs, WakeId, Attached
<1> QED BY <1>1, <1>2, YieldGood DEF Runs

\* A wait for QMP may start if no interrupting event is pending, or if a
\* source is left over that will make the coroutine look again.
LEMMA WaitInv ==
    ASSUME NEW s, Runs(s), ~s.cmd, NEW pc \in WaitPc,
           pc \in SecondaryPc => ~s.primary,
           pc \in MigrationPc => s.interrupting = SyncInterrupting,
           pc \in PrimaryWaitPc /\ Interrupted(s) => s.sources # << >>
    PROVE  NodeInv(WaitEvent(s, pc))
<1> DEFINE t == [s EXCEPT !.pc = pc, !.fired = FALSE]
<1>1. /\ t.pc = pc /\ t.fired = FALSE /\ t.run = s.run /\ t.cmd = s.cmd
      /\ t.primary = s.primary /\ t.interrupting = s.interrupting
      /\ t.queue = s.queue /\ t.sources = s.sources
      /\ t.wake_source_id = s.wake_source_id
  BY DEF Runs, Good, NodeState
<1>2. Good(t)
  BY ZenonT(120) DEF Runs, Good, NodeState, Pc
<1>3. WaitEvent(s, pc) = Yield(t)
  BY DEF WaitEvent
<1> HIDE DEF t
<1>4. Runs(t)
  BY <1>1, <1>2, WakeIdSame DEF Runs
<1>5. /\ WakeId(Yield(t)) /\ Good(Yield(t))
      /\ Yield(t).run = "no" /\ Yield(t).pc = pc /\ Yield(t).cmd = s.cmd
      /\ Yield(t).fired = FALSE /\ Yield(t).primary = s.primary
      /\ Yield(t).interrupting = s.interrupting
      /\ Yield(t).queue = s.queue /\ Yield(t).sources = s.sources
  BY <1>1, <1>4, YieldWakeId
<1>6. Place(Yield(t))
  BY <1>5 DEF Place, WaitPc
<1>7. Resumed(Yield(t))
  BY <1>5 DEF Resumed, Interrupted, PrimaryWaitPc, EventPc, WaitPc
<1> QED BY <1>3, <1>5, <1>6, <1>7 DEF NodeInv

LEMMA ExecuteInv ==
    ASSUME NEW s, Runs(s), NEW pc \in CommandPc \cup ArrayPc,
           pc \in SecondaryPc => ~s.primary,
           pc \in MigrationPc => s.interrupting = SyncInterrupting
    PROVE  NodeInv(Execute(s, pc))
<1> DEFINE t == Execute(s, pc)
<1>1. /\ t.pc = pc /\ t.run = IF s.run = "reply" THEN "plain" ELSE s.run
      /\ t.primary = s.primary /\ t.interrupting = s.interrupting
      /\ t.sources = s.sources /\ t.wake_source_id = s.wake_source_id
  BY DEF Runs, Good, NodeState, Execute
<1>2. Good(t)
  BY ExecuteGood DEF Runs, Pc
<1> HIDE DEF t
<1>3. Runs(t)
  BY <1>1, <1>2, WakeIdSame DEF Runs, WakeId
<1>4. Place(t) /\ t.pc \notin WaitPc
  BY <1>1 DEF Place, CommandPc, ArrayPc, WaitPc
<1> QED BY <1>3, <1>4, RunInv DEF t

\* The coroutine goes on at a place that is neither a command nor a wait for
\* QMP.
LEMMA MoveInv ==
    ASSUME NEW s, Runs(s), ~s.cmd, NEW t, Good(t),
           t.wake_source_id = s.wake_source_id, t.sources = s.sources,
           t.run = s.run, t.cmd = s.cmd,
           t.pc \notin WaitPc \cup SecondaryPc \cup MigrationPc,
           t.pc = "sm_event" => t.interrupting = SyncInterrupting /\ Interrupted(t)
    PROVE  NodeInv(t)
<1>1. Runs(t)
  BY WakeIdSame DEF Runs
<1>2. Place(t)
  BY DEF Place
<1> QED BY <1>1, <1>2, RunInv

\* The coroutine enters a state.
LEMMA EnterInv ==
    ASSUME NEW s, Runs(s), ~s.cmd, NEW st \in MainState,
           st \in {"SECONDARY_STARTUP", "SECONDARY_WAIT", "SECONDARY_COLO_RUNNING"}
             => ~s.primary,
           st = "PRIMARY_COLO_RUNNING" /\ PendingInterrupt(s.queue, SyncInterrupting)
             => s.sources # << >>
    PROVE  NodeInv(EnterState(s, st))
<1> DEFINE t == [s EXCEPT !.transitioning = FALSE, !.state = st, !.left = 0]
           colo == [t EXCEPT !.replication = TRUE,
                             !.interrupting = AlwaysInterrupting \cup {"FAILOVER_SYNC"}]
           sw == AlwaysInterrupting \cup {"FAILOVER_SYNC", "FAILOVER_WIN", "YELLOW",
                                          "UNYELLOW"}
<1>0. /\ SyncInterrupting \in SUBSET ColodEvent /\ sw \in SUBSET ColodEvent
      /\ AlwaysInterrupting \in SUBSET ColodEvent
  BY DEF ColodEvent, AlwaysInterrupting, SyncInterrupting
<1>1. /\ Good(t) /\ t.run = s.run /\ t.cmd = s.cmd /\ t.primary = s.primary
      /\ t.queue = s.queue /\ t.sources = s.sources
      /\ t.wake_source_id = s.wake_source_id
  BY DEF Runs, Good, NodeState
<1> HIDE DEF t
<1>2. Runs(t)
  BY <1>1, WakeIdSame DEF Runs
<1>3. ASSUME NEW x \in SUBSET ColodEvent
      PROVE  LET u == [t EXCEPT !.interrupting = x]
             IN  /\ Runs(u) /\ u.cmd = s.cmd /\ u.primary = s.primary
                 /\ u.interrupting = x /\ u.queue = s.queue /\ u.sources = s.sources
  <2> DEFINE u == [t EXCEPT !.interrupting = x]
  <2>1. /\ Good(u) /\ u.run = s.run /\ u.cmd = s.cmd /\ u.primary = s.primary
        /\ u.interrupting = x /\ u.queue = s.queue /\ u.sources = s.sources
        /\ u.wake_source_id = s.wake_source_id
    BY <1>1 DEF Good, NodeState
  <2> HIDE DEF u
  <2>2. Runs(u)
    BY <2>1, WakeIdSame DEF Runs
  <2> QED BY <2>1, <2>2 DEF u
<1>4. CASE st = "SECONDARY_STARTUP"
  <2>1. EnterState(s, st) = Execute(t, "startup")
    BY <1>4 DEF EnterState, t
  <2> QED BY <1>1, <1>2, <1>4, <2>1, ExecuteInv DEF CommandPc, MigrationPc
<1>5. CASE st = "SECONDARY_WAIT"
  <2> DEFINE u == [t EXCEPT !.interrupting = sw]
  <2>1. EnterState(s, st) = WaitEvent(u, "sw_resume")
    BY <1>5 DEF EnterState, t
  <2>2. Runs(u) /\ u.cmd = s.cmd /\ u.primary = s.primary
    BY <1>0, <1>3
  <2> HIDE DEF u
  <2> QED BY <1>5, <2>1, <2>2, WaitInv DEF WaitPc, PrimaryWaitPc, MigrationPc
<1>6. CASE st \in {"SECONDARY_COLO_RUNNING", "PRIMARY_COLO_RUNNING"}
  <2>1. EnterState(s, st) = IF s.primary THEN WaitEvent(colo, "cr_resume1")
                            ELSE [colo EXCEPT !.pc = "cr_event"]
    BY <1>6 DEF EnterState, t
  <2>2. /\ Good(colo) /\ colo.run = s.run /\ colo.cmd = s.cmd
        /\ colo.interrupting = SyncInterrupting
        /\ colo.queue = s.queue /\ colo.sources = s.sources
        /\ colo.wake_source_id = s.wake_source_id
    BY <1>0, <1>1 DEF Good, NodeState, SyncInterrupting
  <2> HIDE DEF colo
  <2>3. Runs(colo)
    BY <2>2, WakeIdSame DEF Runs
  <2>4. CASE s.primary
    <3>1. st = "PRIMARY_COLO_RUNNING"
      BY <1>6, <2>4
    <3>2. Interrupted(colo) => colo.sources # << >>
      BY <2>2, <3>1 DEF Interrupted
    <3> QED BY <2>1, <2>2, <2>3, <2>4, <3>2, WaitInv DEF WaitPc, SecondaryPc, MigrationPc
  <2>5. CASE ~s.primary
    <3> DEFINE u == [colo EXCEPT !.pc = "cr_event"]
    <3>1. /\ Good(u) /\ u.pc = "cr_event" /\ u.run = colo.run /\ u.cmd = colo.cmd
          /\ u.sources = colo.sources /\ u.wake_source_id = colo.wake_source_id
      BY <2>2 DEF Good, NodeState, Pc, EventPc
    <3>2. EnterState(s, st) = u
      BY <2>1, <2>5
    <3> HIDE DEF u
    <3> QED BY <2>2, <2>3, <3>1, <3>2, MoveInv DEF WaitPc, SecondaryPc, MigrationPc
  <2> QED BY <2>4, <2>5
<1>7. CASE st \in {"PRIMARY_STARTUP", "PRIMARY_WAIT"}
  <2> DEFINE u == [t EXCEPT !.state = "PRIMARY_WAIT", !.primary = TRUE,
                            !.replication = FALSE, !.pc = "pw_event"]
  <2>1. EnterState(s, st) = u
    BY <1>7 DEF EnterState, t
  <2>2. /\ u.pc = "pw_event" /\ u.run = t.run /\ u.cmd = t.cmd
        /\ u.sources = t.sources /\ u.wake_source_id = t.wake_source_id
    BY <1>1 DEF Good, NodeState
  <2>3. Good(u)
    BY <2>1, EnterGood DEF Runs
  <2> HIDE DEF u
  <2> QED BY <1>1, <1>2, <2>1, <2>2, <2>3, MoveInv DEF WaitPc, SecondaryPc, MigrationPc
<1>8. CASE st = "PRIMARY_START_MIGRATION"
  <2> DEFINE u == [t EXCEPT !.interrupting = SyncInterrupting]
  <2>1. EnterState(s, st) = Execute(u, "sm_caps")
    BY <1>8 DEF EnterState, t, SyncInterrupting
  <2>2. Runs(u) /\ u.interrupting = SyncInterrupting
    BY <1>0, <1>3
  <2> HIDE DEF u
  <2> QED BY <2>1, <2>2, ExecuteInv DEF CommandPc, SecondaryPc
<1>9. CASE st = "FAILOVER_SYNC"
  <2> DEFINE u == [t EXCEPT !.pc = "fs_event"]
  <2>1. EnterState(s, st) = u
    BY <1>9 DEF EnterState, t
  <2>2. /\ u.pc = "fs_event" /\ u.run = t.run /\ u.cmd = t.cmd
        /\ u.sources = t.sources /\ u.wake_source_id = t.wake_source_id
    BY <1>1 DEF Good, NodeState
  <2>3. Good(u)
    BY <2>1, EnterGood DEF Runs
  <2> HIDE DEF u
  <2> QED BY <1>1, <1>2, <2>1, <2>2, <2>3, MoveInv DEF WaitPc, SecondaryPc, MigrationPc
<1>10. CASE st = "FAILOVER"
  <2> DEFINE u == [t EXCEPT !.interrupting = AlwaysInterrupting]
  <2>1. EnterState(s, st) = Execute(u, "fo_yank")
    BY <1>10 DEF EnterState, t
  <2>2. Runs(u)
    BY <1>0, <1>3
  <2> HIDE DEF u
  <2> QED BY <2>1, <2>2, ExecuteInv DEF CommandPc, SecondaryPc, MigrationPc
<1>11. CASE st \in {"FAILED", "FAILED_PEER_FAILOVER"}
  <2> DEFINE b == t.peer_failover \/ st = "FAILED_PEER_FAILOVER"
             u == [t EXCEPT !.state = "FAILED", !.failed = TRUE,
                            !.peer_failover = b, !.timeout = "low"]
  <2>1. EnterState(s, st) = Execute(u, "failed_stop")
    BY <1>11 DEF EnterState, t
  <2>2. Good(u)
    <3>1. b \in BOOLEAN /\ "FAILED" \in MainState
      BY DEF MainState
    <3> HIDE DEF b
    <3> QED BY <1>1, <3>1, ZenonT(120) DEF Good, NodeState
  <2>3. /\ u.run = t.run /\ u.sources = t.sources
        /\ u.wake_source_id = t.wake_source_id
    BY <1>1 DEF Good, NodeState
  <2> HIDE DEF u
  <2>4. Runs(u)
    BY <1>2, <2>2, <2>3, WakeIdSame DEF Runs
  <2> QED BY <2>1, <2>4, ExecuteInv DEF CommandPc, SecondaryPc, MigrationPc
<1>12. CASE st = "AUTOQUIT"
  <2> DEFINE u == [t EXCEPT !.failed = TRUE, !.pc = "aq_event"]
  <2>1. EnterState(s, st) = u
    BY <1>12 DEF EnterState, t
  <2>2. /\ u.pc = "aq_event" /\ u.run = t.run /\ u.cmd = t.cmd
        /\ u.sources = t.sources /\ u.wake_source_id = t.wake_source_id
    BY <1>1 DEF Good, NodeState
  <2>3. Good(u)
    BY <2>1, EnterGood DEF Runs
  <2> HIDE DEF u
  <2> QED BY <1>1, <1>2, <2>1, <2>2, <2>3, MoveInv DEF WaitPc, SecondaryPc, MigrationPc
<1>13. CASE st = "QUIT"
  <2> DEFINE u == Finish(t)
  <2>1. EnterState(s, st) = u
    BY <1>13 DEF EnterState, t
  <2>2. /\ u.pc \in EndPc /\ u.run = "no" /\ u.cmd = t.cmd /\ u.fired = t.fired
        /\ u.wake_source_id = "none"
    BY <1>1 DEF Good, NodeState, Finish, EndPc
  <2>3. Good(u)
    BY <2>1, EnterGood DEF Runs
  <2> HIDE DEF u
  <2>4. /\ u.pc \notin WaitPc \cup EventPc \cup SecondaryPc \cup MigrationPc
        /\ u.pc # "sm_event"
    BY <2>2 DEF EndPc, WaitPc, EventPc, SecondaryPc, MigrationPc
  <2> QED
    BY <1>1, <2>1, <2>2, <2>3, <2>4
       DEF NodeInv, WakeId, Place, Resumed, PrimaryWaitPc
<1> QED
  BY <1>4, <1>5, <1>6, <1>7, <1>8, <1>9, <1>10, <1>11, <1>12, <1>13 DEF MainState
-----------------------------------------------------------------------------
\* The places and the registers that a running step leaves alone.
Keeps(s, t) ==
    /\ t.pc = s.pc /\ t.primary = s.primary /\ t.interrupting = s.interrupting
    /\ t.left = s.left

LEMMA RunsQueue ==
    ASSUME NEW s, Runs(s), NEW e \in ColodEvent
    PROVE  LET t == colod_event_queue(s, e)
           IN  Runs(t) /\ Keeps(s, t) /\ t.cmd = s.cmd
<1>1. colod_event_queue(s, e).left = s.left
  BY DEF Runs, Good, NodeState, colod_event_queue
<1> QED BY <1>1, QueueGood, QueueFields DEF Runs, Keeps

LEMMA CheckedRuns ==
    ASSUME NEW s, Runs(s), NEW result, NEW yanked \in BOOLEAN
    PROVE  LET t == Checked(s, result, yanked)
           IN  Runs(t) /\ Keeps(s, t) /\ t.cmd = s.cmd
<1> DEFINE u == [s EXCEPT !.qmp_error = TRUE]
           v == [s EXCEPT !.did_yank = FALSE]
<1>1. /\ Good(u) /\ Keeps(s, u) /\ u.cmd = s.cmd /\ u.run = s.run
      /\ u.sources = s.sources /\ u.wake_source_id = s.wake_source_id
  BY DEF Runs, Good, NodeState, Keeps
<1>2. /\ Good(v) /\ Keeps(s, v) /\ v.cmd = s.cmd /\ v.run = s.run
      /\ v.sources = s.sources /\ v.wake_source_id = s.wake_source_id
  BY DEF Runs, Good, NodeState, Keeps
<1>3. Checked(s, result, yanked) \in
        {colod_event_queue(u, "FAILED"), colod_event_queue(v, "FAILOVER_SYNC"), s}
  BY DEF Checked
<1>4. {"FAILED", "FAILOVER_SYNC"} \subseteq ColodEvent
  BY DEF ColodEvent, AlwaysInterrupting
<1> HIDE DEF u, v
<1>5. Runs(u) /\ Runs(v)
  BY <1>1, <1>2, WakeIdSame DEF Runs
<1>6. CASE Checked(s, result, yanked) = colod_event_queue(u, "FAILED")
  BY <1>1, <1>4, <1>5, <1>6, RunsQueue DEF Keeps
<1>7. CASE Checked(s, result, yanked) = colod_event_queue(v, "FAILOVER_SYNC")
  BY <1>2, <1>4, <1>5, <1>7, RunsQueue DEF Keeps
<1>8. CASE Checked(s, result, yanked) = s
  BY <1>8 DEF Keeps
<1> QED BY <1>3, <1>6, <1>7, <1>8

LEMMA ExecutedRuns ==
    ASSUME NEW s, Runs(s), NEW result, NEW yanked \in BOOLEAN
    PROVE  LET t == Executed(s, result, yanked)
           IN  Runs(t) /\ Keeps(s, t) /\ ~t.cmd
<1> DEFINE u == [s EXCEPT !.cmd = FALSE, !.io = FALSE]
<1>1. /\ Good(u) /\ Keeps(s, u) /\ ~u.cmd /\ u.run = s.run
      /\ u.sources = s.sources /\ u.wake_source_id = s.wake_source_id
  BY DEF Runs, Good, NodeState, Keeps
<1>2. Executed(s, result, yanked) = Checked(u, result, yanked)
  BY DEF Executed
<1> HIDE DEF u
<1>3. Runs(u)
  BY <1>1, WakeIdSame DEF Runs
<1> QED BY <1>1, <1>2, <1>3, CheckedRuns DEF Keeps

LEMMA CheckedInv ==
    ASSUME NEW s, NodeInv(s), s.run = "no", NEW result, NEW yanked \in BOOLEAN
    PROVE  NodeInv(Checked(s, result, yanked)) /\ Checked(s, result, yanked).run = "no"
<1> DEFINE u == [s EXCEPT !.qmp_error = TRUE]
           v == [s EXCEPT !.did_yank = FALSE]
<1>1. NodeInv(u) /\ u.run = "no"
  <2>1. /\ Good(u)
        /\ u.wake_source_id = s.wake_source_id /\ u.sources = s.sources
        /\ u.run = s.run /\ u.pc = s.pc /\ u.cmd = s.cmd /\ u.fired = s.fired
        /\ u.primary = s.primary /\ u.interrupting = s.interrupting
        /\ u.queue = s.queue
    BY DEF NodeInv, Good, NodeState
  <2> HIDE DEF u
  <2> QED BY <2>1, SameInv
<1>2. NodeInv(v) /\ v.run = "no"
  <2>1. /\ Good(v)
        /\ v.wake_source_id = s.wake_source_id /\ v.sources = s.sources
        /\ v.run = s.run /\ v.pc = s.pc /\ v.cmd = s.cmd /\ v.fired = s.fired
        /\ v.primary = s.primary /\ v.interrupting = s.interrupting
        /\ v.queue = s.queue
    BY DEF NodeInv, Good, NodeState
  <2> HIDE DEF v
  <2> QED BY <2>1, SameInv
<1>3. Checked(s, result, yanked) \in
        {colod_event_queue(u, "FAILED"), colod_event_queue(v, "FAILOVER_SYNC"), s}
  BY DEF Checked
<1>4. {"FAILED", "FAILOVER_SYNC"} \subseteq ColodEvent
  BY DEF ColodEvent, AlwaysInterrupting
<1> HIDE DEF u, v
<1>5. colod_event_queue(u, "FAILED").run = "no"
      /\ colod_event_queue(v, "FAILOVER_SYNC").run = "no"
  BY <1>1, <1>2, <1>4, QueueFields DEF NodeInv
<1> QED BY <1>1, <1>2, <1>3, <1>4, <1>5, QueueInv

\* colod_event_wait returns an event.
LEMMA WithoutRuns ==
    ASSUME NEW n \in Daemons, Runs(node[n]), NEW i \in 1 .. Len(node[n].queue)
    PROVE  /\ Runs(Without(n, i)) /\ Keeps(node[n], Without(n, i))
           /\ Without(n, i).cmd = node[n].cmd
           /\ node[n].queue[i] \in ColodEvent
<1> DEFINE s == node[n]
           q == RemoveAt(s.queue, i)
           id == IF s.wake_source_id = "cur" THEN "none" ELSE s.wake_source_id
           t == [s EXCEPT !.wake_source_id = id, !.queue = q]
<1>0. s.queue \in Seq(ColodEvent) /\ Len(s.queue) <= QueueSize
  BY DEF Runs, Good, NodeState
<1>1. q \in Seq(ColodEvent) /\ Len(q) <= QueueSize
  BY <1>0, RemoveAtProperties, MainAssumption
<1>2. id \in {"none", "set", "cur"}
  BY DEF Runs, Good, NodeState
<1>3. Without(n, i) = t
  BY DEF Without, Woken, Runs, Good, NodeState
<1>4. /\ t.run = s.run /\ t.cmd = s.cmd /\ t.sources = s.sources
      /\ t.wake_source_id = id /\ Keeps(s, t)
  BY DEF Runs, Good, NodeState, Keeps
<1>5. Good(t)
  <2> HIDE DEF q, id
  <2> QED BY <1>1, <1>2 DEF Runs, Good, NodeState
<1>6. WakeId(t)
  BY <1>4 DEF Runs, WakeId, Attached
<1> HIDE DEF t
<1> QED BY <1>0, <1>3, <1>4, <1>5, <1>6 DEF Runs

LEMMA EndWaitRuns ==
    ASSUME NEW s, Runs(s)
    PROVE  LET t == EndWait(s)
           IN  /\ Runs(t) /\ Keeps(s, t) /\ t.cmd = s.cmd
               /\ t.queue = s.queue /\ t.sources = s.sources
<1> DEFINE t == EndWait(s)
<1>1. /\ t.run = (IF s.run = "timer" THEN "removed" ELSE s.run)
      /\ t.cmd = s.cmd /\ t.sources = s.sources /\ t.queue = s.queue
      /\ t.wake_source_id = s.wake_source_id /\ Keeps(s, t)
  BY DEF Runs, Good, NodeState, Keeps, EndWait
<1>2. Good(t)
  BY ZenonT(120) DEF Runs, Good, NodeState, EndWait
<1> HIDE DEF t
<1>3. Runs(t)
  BY <1>1, <1>2, WakeIdSame DEF Runs, WakeId
<1> QED BY <1>1, <1>3 DEF t
-----------------------------------------------------------------------------
(***************************************************************************)
(* The actions.  Each of them takes the state of one daemon to a state in  *)
(* which NodeInv holds and sends some messages.                            *)
(***************************************************************************)
Moves(n) == \E s : \E msgs \in Seq(ColodMessage) : NodeInv(s) /\ Step(n, s, msgs)

LEMMA NodeStepInv ==
    ASSUME IInv, NEW n \in Daemons, NEW s, NodeInv(s),
           node' = [node EXCEPT ![n] = s], CpgInv', inputs' \in Nat
    PROVE  IInv'
<1>1. s \in NodeState /\ Len(s.queue) <= QueueSize
  BY DEF NodeInv, Good
<1>2. node' \in [Daemons -> NodeState]
  BY <1>1 DEF IInv, TypeOK
<1>3. \A m \in Daemons : node'[m] = IF m = n THEN s ELSE node[m]
  BY DEF IInv, TypeOK
<1>4. \A m \in Daemons : Len(node'[m].queue) <= QueueSize
  BY <1>1, <1>3 DEF IInv, TypeOK
<1>5. \A m \in Daemons : NodeInv(node'[m])
  BY <1>3 DEF IInv
<1> QED BY <1>2, <1>4, <1>5 DEF IInv, TypeOK, CpgInv

LEMMA MovesInv ==
    ASSUME IInv, NEW n \in Daemons, Moves(n), inputs' \in Nat
    PROVE  IInv'
<1>1. PICK s : \E msgs \in Seq(ColodMessage) : NodeInv(s) /\ Step(n, s, msgs)
  BY DEF Moves
<1>2. PICK msgs \in Seq(ColodMessage) : NodeInv(s) /\ Step(n, s, msgs)
  BY <1>1
<1>3. CpgInv'
  BY <1>2, SendInv DEF Step, IInv, TypeOK, CpgInv
<1> QED BY <1>2, <1>3, NodeStepInv DEF Step

LEMMA RunningRuns ==
    ASSUME IInv, NEW n \in Daemons, Running(n)
    PROVE  /\ Runs(node[n]) /\ Place(node[n]) /\ Resumed(node[n])
           /\ node[n].pc \notin CommandPc \cup ArrayPc => ~node[n].cmd
  BY DEF IInv, Running, NodeInv, Runs, Place

LEMMA LoopingInv ==
    ASSUME IInv, NEW n \in Daemons, Looping(n)
    PROVE  /\ NodeInv(node[n]) /\ node[n].run = "no" /\ node[n].loop # "dead"
           /\ node[n].pc \notin EndPc
  BY DEF IInv, Looping

LEMMA InputsType ==
    ASSUME IInv
    PROVE  /\ \A name : Input(name) => inputs' \in Nat
           /\ UNCHANGED inputs => inputs' \in Nat
           /\ \A n, pc, result, yanked : Returns(n, pc, result, yanked) => inputs' \in Nat
  BY DEF IInv, TypeOK, Input, Returns

\* Nothing is sent.
LEMMA SilentMoves ==
    ASSUME NEW n, NEW s, NodeInv(s), Step(n, s, << >>)
    PROVE  Moves(n)
<1>1. << >> \in Seq(ColodMessage)
  OBVIOUS
<1> QED BY <1>1 DEF Moves

LEMMA GotoMoves ==
    ASSUME NEW n, NEW s, Runs(s), ~s.cmd, NEW st \in MainState, Goto(n, s, st),
           st \in {"SECONDARY_STARTUP", "SECONDARY_WAIT", "SECONDARY_COLO_RUNNING"}
             => ~s.primary,
           st = "PRIMARY_COLO_RUNNING" /\ PendingInterrupt(s.queue, SyncInterrupting)
             => s.sources # << >>
    PROVE  Moves(n)
<1>1. EnterMessages(st) \in Seq(ColodMessage)
  <2>1. << >> \in Seq(ColodMessage) /\ <<"FAILOVER">> \in Seq(ColodMessage)
        /\ <<"FAILED">> \in Seq(ColodMessage)
    BY DEF ColodMessage
  <2> QED BY <2>1 DEF EnterMessages
<1>2. NodeInv(EnterState(s, st))
  BY EnterInv
<1> QED BY <1>1, <1>2 DEF Goto, Moves

\* The states from which nothing more is asked.
PlainState == MainState \ {"SECONDARY_STARTUP", "SECONDARY_WAIT",
                           "SECONDARY_COLO_RUNNING", "PRIMARY_COLO_RUNNING"}

LEMMA PlainGoto ==
    ASSUME NEW n, NEW s, Runs(s), ~s.cmd, NEW st \in PlainState, Goto(n, s, st)
    PROVE  Moves(n)
  BY GotoMoves DEF PlainState

LEMMA HandlePlain ==
    \A e \in AlwaysInterrupting : handle_always_interrupting(e) \in PlainState
  BY DEF AlwaysInterrupting, handle_always_interrupting, PlainState, MainState

\* colod_event_wait has returned, at a place without further demands.
LEMMA GetsRuns ==
    ASSUME IInv, NEW n \in Daemons, NEW pc \in EventPc,
           NEW i \in 1 .. Len(node[n].queue), Gets(n, pc, i)
    PROVE  /\ Runs(Without(n, i)) /\ ~Without(n, i).cmd
           /\ Keeps(node[n], Without(n, i)) /\ Without(n, i).pc = pc
           /\ node[n].queue[i] \in ColodEvent
<1>1. Running(n) /\ node[n].pc = pc
  BY DEF Gets
<1>2. pc \notin CommandPc \cup ArrayPc
  BY DEF EventPc, CommandPc, ArrayPc
<1>3. Runs(node[n]) /\ ~node[n].cmd
  BY <1>1, <1>2, RunningRuns
<1> QED BY <1>1, <1>3, WithoutRuns DEF Keeps

\* A running coroutine that stays at an event wait other than the two of which
\* Place says something.
LEMMA StayInv ==
    ASSUME NEW s, Runs(s), ~s.cmd, s.pc \in EventPc \ {"sw_event", "sm_event"}
    PROVE  NodeInv(s)
<1>1. s.pc \notin WaitPc \cup SecondaryPc \cup MigrationPc /\ s.pc # "sm_event"
  BY DEF EventPc, WaitPc, SecondaryPc, MigrationPc
<1> QED BY <1>1, RunInv DEF Place
-----------------------------------------------------------------------------
LEMMA StartMoves ==
    ASSUME IInv, NEW n \in Daemons, Start(n)
    PROVE  Moves(n) /\ inputs' \in Nat
<1> DEFINE st == IF node[n].primary THEN "PRIMARY_STARTUP" ELSE "SECONDARY_STARTUP"
<1>1. Running(n) /\ node[n].pc = "start" /\ UNCHANGED inputs
      /\ Step(n, EnterState(node[n], st), <<"HELLO">>)
  BY DEF Start
<1>2. Runs(node[n]) /\ ~node[n].cmd
  BY <1>1, RunningRuns DEF CommandPc, ArrayPc
<1>3. st \in MainState /\ (st = "SECONDARY_STARTUP" => ~node[n].primary)
      /\ st \in {"PRIMARY_STARTUP", "SECONDARY_STARTUP"}
  BY DEF MainState
<1> HIDE DEF st
<1>4. NodeInv(EnterState(node[n], st))
  BY <1>2, <1>3, EnterInv
<1>5. <<"HELLO">> \in Seq(ColodMessage)
  BY DEF ColodMessage
<1> QED BY <1>1, <1>4, <1>5, InputsType DEF Moves

\* colod_event_wait yields only if the queue is empty or a wake is attached.
LEMMA EventYieldMoves ==
    ASSUME IInv, NEW n \in Daemons, EventYield(n)
    PROVE  Moves(n) /\ inputs' \in Nat
<1> DEFINE s == node[n]
           w == Woken(s)
           t == Yield(w)
<1>1. /\ Running(n) /\ s.pc \in EventPc /\ UNCHANGED inputs
      /\ s.queue = << >> \/ w.wake_source_id = "set"
      /\ Step(n, t, << >>)
  BY DEF EventYield, Continue, MustYield
<1>2. Runs(s) /\ Place(s) /\ ~s.cmd
  BY <1>1, RunningRuns DEF EventPc, CommandPc, ArrayPc
<1>3. /\ w.run = s.run /\ w.pc = s.pc /\ w.cmd = s.cmd /\ w.fired = s.fired
      /\ w.primary = s.primary /\ w.interrupting = s.interrupting
      /\ w.queue = s.queue /\ w.sources = s.sources
      /\ w.wake_source_id = IF s.wake_source_id = "cur" THEN "none" ELSE s.wake_source_id
  BY <1>2 DEF Runs, Good, NodeState, Woken
<1>4. Good(w)
  BY <1>2 DEF Runs, Good, NodeState, Woken
<1> HIDE DEF w
<1>5. Runs(w)
  BY <1>2, <1>3, <1>4 DEF Runs, WakeId, Attached
<1>6. /\ WakeId(t) /\ Good(t)
      /\ t.run = "no" /\ t.pc = s.pc /\ t.cmd = s.cmd
      /\ t.primary = s.primary /\ t.interrupting = s.interrupting
      /\ t.queue = s.queue /\ t.sources = s.sources
  BY <1>3, <1>5, YieldWakeId
<1>8. s.queue # << >> => s.sources # << >>
  <2>1. s.sources \in Seq({"start", "wake", "fired", "self"})
    BY <1>2 DEF Runs, Good, NodeState
  <2> QED BY <1>1, <1>3, <1>5, <2>1 DEF Runs, WakeId, Attached
<1>9. Place(t)
  BY <1>2, <1>6 DEF Place, Interrupted
<1>10. Resumed(t)
  BY <1>1, <1>6, <1>8 DEF Resumed, PrimaryWaitPc, WaitPc, EventPc
<1> HIDE DEF t
<1> QED BY <1>1, <1>6, <1>9, <1>10, SilentMoves, InputsType DEF NodeInv

\* A wait for QMP that goes on does so without an interrupting event.
LEMMA QmpEventWaitMoves ==
    ASSUME IInv, NEW n \in Daemons, QmpEventWait(n)
    PROVE  Moves(n) /\ inputs' \in Nat
<1> DEFINE s == node[n]
           t == [Yield(s) EXCEPT !.pc = "abort"]
<1>1. /\ Running(n) /\ s.pc \in WaitPc /\ UNCHANGED inputs /\ ~Interrupted(s)
      /\ Step(n, IF s.queue = << >> THEN t ELSE WaitEvent(s, s.pc), << >>)
  BY DEF QmpEventWait, Continue
<1>2. Runs(s) /\ Place(s) /\ ~s.cmd
  BY <1>1, RunningRuns DEF WaitPc, CommandPc, ArrayPc
<1>3. NodeInv(WaitEvent(s, s.pc))
  BY <1>1, <1>2, WaitInv DEF Place
<1>4. NodeInv(t)
  <2>1. /\ WakeId(Yield(s)) /\ Good(Yield(s)) /\ Yield(s).run = "no"
        /\ Yield(s).cmd = s.cmd
    BY <1>2, YieldWakeId
  <2>2. /\ Good(t) /\ t.pc = "abort" /\ t.run = "no" /\ t.cmd = s.cmd
        /\ t.wake_source_id = Yield(s).wake_source_id
        /\ t.sources = Yield(s).sources
    BY <2>1 DEF Good, NodeState, Pc, EndPc
  <2>3. "abort" \notin WaitPc \cup EventPc \cup SecondaryPc \cup MigrationPc
    BY DEF WaitPc, EventPc, SecondaryPc, MigrationPc
  <2> HIDE DEF t
  <2>4. WakeId(t)
    BY <2>1, <2>2, WakeIdSame
  <2> QED BY <1>2, <2>2, <2>3, <2>4 DEF NodeInv, Place, Resumed, PrimaryWaitPc
<1> QED BY <1>1, <1>3, <1>4, SilentMoves, InputsType

\* A coroutine that yields in a command is resumed by the reply at the latest.
LEMMA CommandYieldInv ==
    ASSUME NEW s, Runs(s), Place(s), s.cmd, NEW io \in BOOLEAN
    PROVE  NodeInv([Yield(s) EXCEPT !.io = io])
<1> DEFINE y == Yield(s)
           t == [y EXCEPT !.io = io]
<1>1. /\ WakeId(y) /\ Good(y) /\ y.run = "no" /\ y.pc = s.pc
      /\ y.cmd = s.cmd /\ y.primary = s.primary
      /\ y.interrupting = s.interrupting
  BY YieldWakeId
<1> HIDE DEF y
<1>2. /\ Good(t) /\ t.pc = s.pc /\ t.run = "no" /\ t.cmd = s.cmd
      /\ t.primary = s.primary /\ t.interrupting = s.interrupting
      /\ t.wake_source_id = y.wake_source_id /\ t.sources = y.sources
  BY <1>1 DEF Good, NodeState
<1> HIDE DEF t
<1>3. s.pc \in CommandPc \cup ArrayPc /\ s.pc \notin WaitPc \cup EventPc
      /\ s.pc # "sm_event"
  BY DEF Place, CommandPc, ArrayPc, WaitPc, EventPc
<1>4. WakeId(t)
  BY <1>1, <1>2, WakeIdSame
<1>5. Place(t) /\ Resumed(t)
  BY <1>2, <1>3 DEF Place, Resumed, PrimaryWaitPc
<1> QED BY <1>2, <1>4, <1>5 DEF NodeInv, t, y

LEMMA CommandYieldMoves ==
    ASSUME IInv, NEW n \in Daemons, CommandYield(n)
    PROVE  Moves(n) /\ inputs' \in Nat
<1>1. /\ Running(n) /\ node[n].cmd /\ UNCHANGED inputs
      /\ Step(n, [Yield(node[n]) EXCEPT !.io = TRUE], << >>)
  BY DEF CommandYield, Continue
<1>2. NodeInv([Yield(node[n]) EXCEPT !.io = TRUE])
  BY <1>1, RunningRuns, CommandYieldInv
<1> QED BY <1>1, <1>2, SilentMoves, InputsType
-----------------------------------------------------------------------------
LEMMA RaiseTimeoutRuns ==
    ASSUME NEW s, Runs(s)
    PROVE  LET t == RaiseTimeout(s)
           IN  /\ Runs(t) /\ Keeps(s, t) /\ t.cmd = s.cmd
               /\ t.queue = s.queue /\ t.sources = s.sources
<1> DEFINE t == [s EXCEPT !.timeout = "high", !.raise = "start"]
<1>1. /\ Good(t) /\ Keeps(s, t) /\ t.cmd = s.cmd /\ t.run = s.run
      /\ t.queue = s.queue /\ t.sources = s.sources
      /\ t.wake_source_id = s.wake_source_id
  BY DEF Runs, Good, NodeState, Keeps
<1>2. RaiseTimeout(s) \in {s, t}
  BY DEF RaiseTimeout
<1> HIDE DEF t
<1>3. Runs(t)
  BY <1>1, WakeIdSame DEF Runs
<1> QED BY <1>1, <1>2, <1>3 DEF Keeps

\* The coroutine goes on at pc, which is an event wait or the timer.
LEMMA SetPcInv ==
    ASSUME NEW s, Runs(s), ~s.cmd, NEW pc \in EventPc,
           pc = "sw_event" => ~s.primary,
           pc = "sm_event" => s.interrupting = SyncInterrupting /\ Interrupted(s)
    PROVE  NodeInv([s EXCEPT !.pc = pc])
<1> DEFINE t == [s EXCEPT !.pc = pc]
<1>1. /\ t.pc = pc /\ t.run = s.run /\ t.cmd = s.cmd /\ t.primary = s.primary
      /\ t.interrupting = s.interrupting /\ t.queue = s.queue
      /\ t.sources = s.sources /\ t.wake_source_id = s.wake_source_id
  BY DEF Runs, Good, NodeState
<1>2. Good(t)
  BY DEF Runs, Good, NodeState, Pc
<1> HIDE DEF t
<1>3. Runs(t)
  BY <1>1, <1>2, WakeIdSame DEF Runs
<1>4. Place(t) /\ t.pc \notin WaitPc
  BY <1>1 DEF Place, EventPc, WaitPc, SecondaryPc, MigrationPc, Interrupted
<1> QED BY <1>3, <1>4, RunInv DEF t

\* A command returns at pc.
LEMMA ReturnsRuns ==
    ASSUME IInv, NEW n \in Daemons, NEW pc, NEW result, NEW yanked \in BOOLEAN,
           Returns(n, pc, result, yanked)
    PROVE  LET t == Executed(node[n], result, yanked)
           IN  /\ Runs(t) /\ ~t.cmd /\ t.pc = pc
               /\ t.primary = node[n].primary
               /\ t.interrupting = node[n].interrupting
               /\ Place(node[n]) /\ node[n].pc = pc
               /\ inputs' \in Nat
<1>1. Running(n) /\ node[n].pc = pc
  BY DEF Returns
<1>2. Runs(node[n]) /\ Place(node[n])
  BY <1>1, RunningRuns
<1> QED BY <1>1, <1>2, ExecutedRuns, InputsType DEF Keeps

LEMMA SecondaryStartupMoves ==
    ASSUME IInv, NEW n \in Daemons, colod_secondary_startup_co(n)
    PROVE  Moves(n) /\ inputs' \in Nat
<1>1. PICK result \in {"ok", "error", "fatal"}, yanked \in BOOLEAN :
        /\ Returns(n, "startup", result, yanked)
        /\ Goto(n, Executed(node[n], result, yanked),
                IF result = "ok" THEN "SECONDARY_WAIT" ELSE "FAILED")
  BY DEF colod_secondary_startup_co
<1> DEFINE t == Executed(node[n], result, yanked)
<1>2. Runs(t) /\ ~t.cmd /\ ~t.primary /\ inputs' \in Nat
  BY <1>1, ReturnsRuns DEF Place, SecondaryPc
<1> HIDE DEF t
<1>3. CASE result = "ok"
  <2>1. Goto(n, t, "SECONDARY_WAIT")
    BY <1>1, <1>3 DEF t
  <2> QED BY <1>2, <2>1, GotoMoves DEF MainState
<1>4. CASE result # "ok"
  <2>1. Goto(n, t, "FAILED")
    BY <1>1, <1>4 DEF t
  <2> QED BY <1>2, <2>1, PlainGoto DEF PlainState, MainState
<1> QED BY <1>3, <1>4

LEMMA SecondaryDiscardMoves ==
    ASSUME IInv, NEW n \in Daemons, SecondaryDiscard(n)
    PROVE  Moves(n) /\ inputs' \in Nat
<1>1. PICK i \in 1 .. Len(node[n].queue) :
        /\ Gets(n, "sw_event", i)
        /\ LET e == node[n].queue[i]
               s == Without(n, i)
           IN  IF e \in AlwaysInterrupting
               THEN Goto(n, s, handle_always_interrupting(e))
               ELSE Step(n, WaitEvent(IF e = "FAILOVER_SYNC"
                                      THEN [s EXCEPT !.peer_failed = FALSE]
                                      ELSE s, "sw_resume"), << >>)
        /\ UNCHANGED inputs
  BY DEF SecondaryDiscard
<1> DEFINE e == node[n].queue[i]
           s == Without(n, i)
           t == [s EXCEPT !.peer_failed = FALSE]
<1>2. /\ Runs(s) /\ ~s.cmd /\ Keeps(node[n], s)
  BY <1>1, GetsRuns DEF EventPc
<1>3. ~s.primary
  <2>1. Running(n) /\ node[n].pc = "sw_event"
    BY <1>1 DEF Gets
  <2> QED BY <1>2, <2>1, RunningRuns DEF Place, SecondaryPc, Keeps
<1> HIDE DEF s
<1>4. CASE e \in AlwaysInterrupting
  <2>1. Goto(n, s, handle_always_interrupting(e))
    BY <1>1, <1>4 DEF s
  <2> QED BY <1>1, <1>2, <1>4, <2>1, PlainGoto, HandlePlain, InputsType
<1>5. CASE e \notin AlwaysInterrupting
  <2>1. /\ Good(t) /\ t.cmd = s.cmd /\ t.run = s.run /\ t.primary = s.primary
        /\ t.sources = s.sources /\ t.wake_source_id = s.wake_source_id
    BY <1>2 DEF Runs, Good, NodeState
  <2>2. Step(n, WaitEvent(IF e = "FAILOVER_SYNC" THEN t ELSE s, "sw_resume"), << >>)
    BY <1>1, <1>5 DEF s
  <2> HIDE DEF t, e
  <2>3. Runs(t)
    BY <1>2, <2>1, WakeIdSame DEF Runs
  <2>4. NodeInv(WaitEvent(t, "sw_resume")) /\ NodeInv(WaitEvent(s, "sw_resume"))
    BY <1>2, <1>3, <2>1, <2>3, WaitInv DEF WaitPc, MigrationPc, PrimaryWaitPc
  <2> QED BY <1>1, <2>2, <2>4, SilentMoves, InputsType
<1> QED BY <1>4, <1>5

\* A wait for QMP is over.
LEMMA AwaitedRuns ==
    ASSUME IInv, NEW n \in Daemons, NEW pc \in WaitPc, NEW why, Awaited(n, pc, why)
    PROVE  LET t == EndWait(node[n])
           IN  /\ Runs(t) /\ ~t.cmd /\ t.pc = pc /\ node[n].pc = pc
               /\ t.primary = node[n].primary
               /\ t.interrupting = node[n].interrupting
               /\ t.queue = node[n].queue /\ t.sources = node[n].sources
               /\ Place(node[n]) /\ Resumed(node[n]) /\ node[n].run # "no"
<1>1. Running(n) /\ node[n].pc = pc
  BY DEF Awaited
<1>2. Runs(node[n]) /\ Place(node[n]) /\ Resumed(node[n]) /\ ~node[n].cmd
  BY <1>1, RunningRuns DEF WaitPc, CommandPc, ArrayPc
<1> QED BY <1>1, <1>2, EndWaitRuns DEF Keeps, Running

LEMMA SecondaryWaitMoves ==
    ASSUME IInv, NEW n \in Daemons, colod_secondary_wait_co(n)
    PROVE  Moves(n) /\ inputs' \in Nat
<1> DEFINE s == EndWait(node[n])
<1>1. CASE /\ Awaited(n, "sw_resume", "event")
           /\ Goto(n, RaiseTimeout(s), "SECONDARY_COLO_RUNNING")
           /\ UNCHANGED inputs
  <2>1. Runs(s) /\ ~s.cmd /\ ~s.primary
    BY <1>1, AwaitedRuns DEF WaitPc, Place, SecondaryPc
  <2> HIDE DEF s
  <2>2. Runs(RaiseTimeout(s)) /\ ~RaiseTimeout(s).cmd /\ ~RaiseTimeout(s).primary
    BY <2>1, RaiseTimeoutRuns DEF Keeps
  <2> QED BY <1>1, <2>2, GotoMoves, InputsType DEF MainState
<1>2. CASE /\ Awaited(n, "sw_resume", "interrupt")
           /\ Continue(n, [s EXCEPT !.pc = "sw_event"])
  <2>1. Runs(s) /\ ~s.cmd /\ ~s.primary
    BY <1>2, AwaitedRuns DEF WaitPc, Place, SecondaryPc
  <2> HIDE DEF s
  <2>2. NodeInv([s EXCEPT !.pc = "sw_event"])
    BY <2>1, SetPcInv DEF EventPc
  <2> QED BY <1>2, <2>2, SilentMoves, InputsType DEF Continue
<1>3. CASE SecondaryDiscard(n)
  BY <1>3, SecondaryDiscardMoves
<1> QED BY <1>1, <1>2, <1>3 DEF colod_secondary_wait_co

LEMMA ColoRunningEventMoves ==
    ASSUME IInv, NEW n \in Daemons, ColoRunningEvent(n)
    PROVE  Moves(n) /\ inputs' \in Nat
<1>1. PICK i \in 1 .. Len(node[n].queue) :
        /\ Gets(n, "cr_event", i)
        /\ LET e == node[n].queue[i]
               s == Without(n, i)
           IN  \/ Goto(n, s, "FAILOVER_SYNC")
               \/ /\ e \in AlwaysInterrupting
                  /\ Goto(n, s, handle_always_interrupting(e))
               \/ Goto(n, s, "FAILED")
               \/ Step(n, s, << >>)
        /\ UNCHANGED inputs
  BY DEF ColoRunningEvent
<1> DEFINE e == node[n].queue[i]
           s == Without(n, i)
<1>2. Runs(s) /\ ~s.cmd /\ s.pc = "cr_event"
  BY <1>1, GetsRuns DEF EventPc
<1>3. NodeInv(s)
  BY <1>2, StayInv DEF EventPc
<1>4. {"FAILED", "FAILOVER_SYNC"} \subseteq PlainState
  BY DEF PlainState, MainState
<1> HIDE DEF s, e
<1>5. \/ Goto(n, s, "FAILOVER_SYNC")
      \/ e \in AlwaysInterrupting /\ Goto(n, s, handle_always_interrupting(e))
      \/ Goto(n, s, "FAILED") \/ Step(n, s, << >>)
  BY <1>1 DEF s, e
<1> QED BY <1>1, <1>2, <1>3, <1>4, <1>5, PlainGoto, HandlePlain, SilentMoves, InputsType

LEMMA ColoRunningMoves ==
    ASSUME IInv, NEW n \in Daemons, colod_colo_running_co(n)
    PROVE  Moves(n) /\ inputs' \in Nat
<1> DEFINE s == EndWait(node[n])
           t == [s EXCEPT !.pc = "cr_timer"]
<1>1. CASE /\ Awaited(n, "cr_resume1", "event")
           /\ Continue(n, WaitEvent(s, "cr_resume2"))
  <2>1. Runs(s) /\ ~s.cmd /\ (Interrupted(s) => s.sources # << >>)
    BY <1>1, AwaitedRuns DEF WaitPc, PrimaryWaitPc, Resumed, Awaited, Interrupted
  <2> HIDE DEF s
  <2>2. NodeInv(WaitEvent(s, "cr_resume2"))
    BY <2>1, WaitInv DEF WaitPc, SecondaryPc, MigrationPc
  <2> QED BY <1>1, <2>2, SilentMoves, InputsType DEF Continue
<1>2. CASE /\ Awaited(n, "cr_resume2", "event")
           /\ Continue(n, Yield(t))
  <2>1. Runs(s) /\ ~s.cmd
    BY <1>2, AwaitedRuns DEF WaitPc
  <2> HIDE DEF s
  <2>2. /\ Good(t) /\ t.pc = "cr_timer" /\ t.cmd = s.cmd /\ t.run = s.run
        /\ t.sources = s.sources /\ t.wake_source_id = s.wake_source_id
    BY <2>1 DEF Runs, Good, NodeState, Pc
  <2> HIDE DEF t
  <2>3. Runs(t)
    BY <2>1, <2>2, WakeIdSame DEF Runs
  <2>4. /\ WakeId(Yield(t)) /\ Good(Yield(t)) /\ Yield(t).pc = "cr_timer"
        /\ ~Yield(t).cmd
    BY <2>1, <2>2, <2>3, YieldWakeId
  <2>5. "cr_timer" \notin WaitPc \cup EventPc \cup SecondaryPc \cup MigrationPc
    BY DEF WaitPc, EventPc, SecondaryPc, MigrationPc
  <2>6. NodeInv(Yield(t))
    BY <2>4, <2>5 DEF NodeInv, Place, Resumed, PrimaryWaitPc
  <2> QED BY <1>2, <2>6, SilentMoves, InputsType DEF Continue
<1>3. CASE /\ \E pc \in {"cr_resume1", "cr_resume2"} : Awaited(n, pc, "interrupt")
           /\ Continue(n, [s EXCEPT !.pc = "cr_event"])
  <2>1. Runs(s) /\ ~s.cmd
    BY <1>3, AwaitedRuns DEF WaitPc
  <2> HIDE DEF s
  <2>2. NodeInv([s EXCEPT !.pc = "cr_event"])
    BY <2>1, SetPcInv DEF EventPc
  <2> QED BY <1>3, <2>2, SilentMoves, InputsType DEF Continue
<1>4. CASE /\ Running(n) /\ node[n].pc = "cr_timer"
           /\ \/ Goto(n, node[n], "FAILED")
              \/ Step(n, [node[n] EXCEPT !.pc = "cr_event"], << >>)
           /\ UNCHANGED inputs
  <2>1. Runs(node[n]) /\ ~node[n].cmd
    BY <1>4, RunningRuns DEF CommandPc, ArrayPc
  <2>2. NodeInv([node[n] EXCEPT !.pc = "cr_event"])
    BY <2>1, SetPcInv DEF EventPc
  <2>3. "FAILED" \in PlainState
    BY DEF PlainState, MainState
  <2> QED BY <1>4, <2>1, <2>2, <2>3, PlainGoto, SilentMoves, InputsType
<1>5. CASE ColoRunningEvent(n)
  BY <1>5, ColoRunningEventMoves
<1> QED BY <1>1, <1>2, <1>3, <1>4, <1>5 DEF colod_colo_running_co

LEMMA PrimaryWaitMoves ==
    ASSUME IInv, NEW n \in Daemons, colod_primary_wait_co(n)
    PROVE  Moves(n) /\ inputs' \in Nat
<1>1. PICK i \in 1 .. Len(node[n].queue) :
        /\ Gets(n, "pw_event", i)
        /\ LET s == Without(n, i)
           IN  \/ \E st \in {"PRIMARY_START_MIGRATION", "FAILED", "QUIT", "AUTOQUIT"} :
                     Goto(n, s, st)
               \/ Step(n, s, << >>)
        /\ UNCHANGED inputs
  BY DEF colod_primary_wait_co
<1> DEFINE s == Without(n, i)
<1>2. Runs(s) /\ ~s.cmd /\ s.pc = "pw_event"
  BY <1>1, GetsRuns DEF EventPc
<1>3. NodeInv(s)
  BY <1>2, StayInv DEF EventPc
<1>4. {"PRIMARY_START_MIGRATION", "FAILED", "QUIT", "AUTOQUIT"} \subseteq PlainState
  BY DEF PlainState, MainState
<1> HIDE DEF s
<1>5. \/ \E st \in {"PRIMARY_START_MIGRATION", "FAILED", "QUIT", "AUTOQUIT"} :
            Goto(n, s, st)
      \/ Step(n, s, << >>)
  BY <1>1 DEF s
<1> QED BY <1>1, <1>2, <1>3, <1>4, <1>5, PlainGoto, SilentMoves, InputsType
-----------------------------------------------------------------------------
\* A step that starts the commands of an array.
LEMMA ExecuteArrayInv ==
    ASSUME NEW s, Runs(s), ~s.cmd, NEW pc \in ArrayPc,
           pc \in MigrationPc => s.interrupting = SyncInterrupting
    PROVE  NodeInv(ExecuteArray(s, pc))
<1> DEFINE t == ExecuteArray(s, pc)
<1>1. /\ t.pc = pc /\ t.run = s.run /\ t.cmd = s.cmd
      /\ t.interrupting = s.interrupting
      /\ t.sources = s.sources /\ t.wake_source_id = s.wake_source_id
  BY DEF Runs, Good, NodeState, ExecuteArray
<1>2. Good(t)
  BY ExecuteArrayGood DEF Runs, Pc
<1> HIDE DEF t
<1>3. Runs(t)
  BY <1>1, <1>2, WakeIdSame DEF Runs
<1>4. Place(t) /\ t.pc \notin WaitPc
  BY <1>1 DEF Place, ArrayPc, WaitPc, SecondaryPc
<1> QED BY <1>3, <1>4, RunInv DEF t

LEMMA MigrationErrorMoves ==
    ASSUME NEW n, NEW s, Runs(s), ~s.cmd, NEW result, MigrationError(n, s, result)
    PROVE  Moves(n)
<1>1. NodeInv(Execute(s, "sm_cancel"))
  BY ExecuteInv DEF CommandPc, SecondaryPc, MigrationPc
<1>2. "FAILED" \in PlainState
  BY DEF PlainState, MainState
<1> QED BY <1>1, <1>2, SilentMoves, PlainGoto DEF MigrationError

LEMMA MigrationCommandsMoves ==
    ASSUME IInv, NEW n \in Daemons, MigrationCommands(n)
    PROVE  Moves(n) /\ inputs' \in Nat
<1>1. PICK pc \in {"sm_caps", "sm_start", "sm_switch"},
           result \in {"ok", "error", "fatal"}, yanked \in BOOLEAN :
        /\ Returns(n, pc, result, yanked)
        /\ LET s == Executed(node[n], result, yanked)
           IN  \/ MigrationError(n, s, result)
               \/ Step(n, s, << >>)
               \/ Interrupted(s) /\ Step(n, [s EXCEPT !.pc = "sm_event"], << >>)
               \/ Step(n, ExecuteArray(s, "sm_start"), << >>)
  BY DEF MigrationCommands
<1> DEFINE s == Executed(node[n], result, yanked)
<1>2. /\ Runs(s) /\ ~s.cmd /\ s.pc = pc /\ s.interrupting = SyncInterrupting
      /\ inputs' \in Nat
  BY <1>1, ReturnsRuns DEF Place, MigrationPc
<1> HIDE DEF s
<1>3. NodeInv(s)
  BY <1>2, RunInv DEF Place, WaitPc, SecondaryPc
<1>4. Interrupted(s) => NodeInv([s EXCEPT !.pc = "sm_event"])
  BY <1>2, SetPcInv DEF EventPc
<1>5. NodeInv(ExecuteArray(s, "sm_start"))
  BY <1>2, ExecuteArrayInv DEF ArrayPc
<1>6. \/ MigrationError(n, s, result)
      \/ Step(n, s, << >>)
      \/ Interrupted(s) /\ Step(n, [s EXCEPT !.pc = "sm_event"], << >>)
      \/ Step(n, ExecuteArray(s, "sm_start"), << >>)
  BY <1>1 DEF s
<1> QED BY <1>2, <1>3, <1>4, <1>5, <1>6, SilentMoves, MigrationErrorMoves

LEMMA MigrationContinueMoves ==
    ASSUME IInv, NEW n \in Daemons, MigrationContinue(n)
    PROVE  Moves(n) /\ inputs' \in Nat
<1>1. PICK result \in {"ok", "error", "fatal"}, yanked \in BOOLEAN :
        /\ Returns(n, "sm_continue", result, yanked)
        /\ LET s == Executed(node[n], result, yanked)
               low == [s EXCEPT !.timeout = "low"]
           IN  \/ MigrationError(n, low, result)
               \/ Interrupted(s) /\ Step(n, [low EXCEPT !.pc = "sm_event"], << >>)
               \/ ~Interrupted(s) /\ Step(n, WaitEvent(s, "sm_colo"), << >>)
  BY DEF MigrationContinue
<1> DEFINE s == Executed(node[n], result, yanked)
           low == [s EXCEPT !.timeout = "low"]
<1>2. Runs(s) /\ ~s.cmd /\ s.interrupting = SyncInterrupting /\ inputs' \in Nat
  BY <1>1, ReturnsRuns DEF Place, MigrationPc
<1> HIDE DEF s
<1>3. /\ Good(low) /\ low.cmd = s.cmd /\ low.run = s.run /\ low.queue = s.queue
      /\ low.interrupting = s.interrupting
      /\ low.sources = s.sources /\ low.wake_source_id = s.wake_source_id
  BY <1>2 DEF Runs, Good, NodeState
<1>4. \/ MigrationError(n, low, result)
      \/ Interrupted(s) /\ Step(n, [low EXCEPT !.pc = "sm_event"], << >>)
      \/ ~Interrupted(s) /\ Step(n, WaitEvent(s, "sm_colo"), << >>)
  BY <1>1 DEF s
<1> HIDE DEF low
<1>5. Runs(low) /\ (Interrupted(s) => Interrupted(low))
  BY <1>2, <1>3, WakeIdSame DEF Runs, Interrupted
<1>6. Interrupted(s) => NodeInv([low EXCEPT !.pc = "sm_event"])
  BY <1>2, <1>3, <1>5, SetPcInv DEF EventPc
<1>7. ~Interrupted(s) => NodeInv(WaitEvent(s, "sm_colo"))
  BY <1>2, WaitInv DEF WaitPc, SecondaryPc
<1> QED BY <1>2, <1>3, <1>4, <1>5, <1>6, <1>7, SilentMoves, MigrationErrorMoves

LEMMA MigrationWaitsMoves ==
    ASSUME IInv, NEW n \in Daemons, MigrationWaits(n)
    PROVE  Moves(n) /\ inputs' \in Nat
<1>1. PICK why \in {"event", "timeout", "interrupt"}, pc \in {"sm_preswitch", "sm_colo"} :
        /\ Awaited(n, pc, why)
        /\ LET s == EndWait(node[n])
               failed == IF pc = "sm_colo" THEN [s EXCEPT !.timeout = "low"] ELSE s
           IN  \/ Goto(n, failed, "FAILED")
               \/ why = "interrupt" /\ Step(n, [failed EXCEPT !.pc = "sm_event"], << >>)
               \/ Step(n, ExecuteArray(s, "sm_switch"), << >>)
               \/ why = "event" /\ Goto(n, s, "PRIMARY_COLO_RUNNING")
        /\ UNCHANGED inputs
  BY DEF MigrationWaits
<1> DEFINE s == EndWait(node[n])
           low == [s EXCEPT !.timeout = "low"]
           failed == IF pc = "sm_colo" THEN low ELSE s
<1>2. /\ Runs(s) /\ ~s.cmd /\ s.interrupting = SyncInterrupting
      /\ s.queue = node[n].queue /\ s.sources = node[n].sources
      /\ node[n].interrupting = SyncInterrupting
      /\ node[n].pc = pc /\ Resumed(node[n]) /\ node[n].run # "no"
  BY <1>1, AwaitedRuns DEF WaitPc, Place, MigrationPc
<1>3. why = "interrupt" => Interrupted(s)
  BY <1>1, <1>2 DEF Awaited, Interrupted
<1>4. why = "event" /\ PendingInterrupt(s.queue, SyncInterrupting) => s.sources # << >>
  BY <1>1, <1>2 DEF Awaited, Resumed, Interrupted, PrimaryWaitPc, WaitPc
<1>5. \/ Goto(n, failed, "FAILED")
      \/ why = "interrupt" /\ Step(n, [failed EXCEPT !.pc = "sm_event"], << >>)
      \/ Step(n, ExecuteArray(s, "sm_switch"), << >>)
      \/ why = "event" /\ Goto(n, s, "PRIMARY_COLO_RUNNING")
  BY <1>1
<1> HIDE DEF s
<1>6. /\ Good(low) /\ low.cmd = s.cmd /\ low.run = s.run /\ low.queue = s.queue
      /\ low.interrupting = s.interrupting
      /\ low.sources = s.sources /\ low.wake_source_id = s.wake_source_id
  BY <1>2 DEF Runs, Good, NodeState
<1> HIDE DEF low
<1>7. /\ Runs(failed) /\ ~failed.cmd /\ failed.interrupting = SyncInterrupting
      /\ Interrupted(s) => Interrupted(failed)
  BY <1>2, <1>6, WakeIdSame DEF Runs, Interrupted
<1> HIDE DEF failed
<1>8. Interrupted(s) => NodeInv([failed EXCEPT !.pc = "sm_event"])
  BY <1>7, SetPcInv DEF EventPc
<1>9. NodeInv(ExecuteArray(s, "sm_switch"))
  BY <1>2, ExecuteArrayInv DEF ArrayPc
<1>10. CASE Goto(n, failed, "FAILED")
  BY <1>1, <1>7, <1>10, PlainGoto, InputsType DEF PlainState, MainState
<1>11. CASE why = "event" /\ Goto(n, s, "PRIMARY_COLO_RUNNING")
  BY <1>1, <1>2, <1>4, <1>11, GotoMoves, InputsType DEF MainState
<1> QED BY <1>1, <1>3, <1>5, <1>8, <1>9, <1>10, <1>11, SilentMoves, InputsType

\* At handle_event the first event of the queue is one that interrupts.
LEMMA MigrationEventMoves ==
    ASSUME IInv, NEW n \in Daemons, MigrationEvent(n)
    PROVE  Moves(n) /\ inputs' \in Nat
<1>1. ASSUME NEW i \in 1 .. Len(node[n].queue), Gets(n, "sm_event", i),
             IF node[n].queue[i] = "FAILOVER_SYNC"
             THEN Step(n, Execute(Without(n, i), "sm_cancel"), << >>)
             ELSE Goto(n, Without(n, i), handle_always_interrupting(node[n].queue[i])),
             UNCHANGED inputs
      PROVE  Moves(n) /\ inputs' \in Nat
  <2>1. Runs(Without(n, i)) /\ ~Without(n, i).cmd
    BY <1>1, GetsRuns DEF EventPc
  <2>2. NodeInv(Execute(Without(n, i), "sm_cancel"))
    BY <2>1, ExecuteInv DEF CommandPc, SecondaryPc, MigrationPc
  <2>3. node[n].interrupting = SyncInterrupting /\ Interrupted(node[n])
    BY <1>1, RunningRuns DEF Gets, Place
  <2>4. node[n].queue[i] \in SyncInterrupting
    BY <1>1, <2>3 DEF Gets, IsFirst, Interrupted, PendingInterrupt
  <2> QED BY <1>1, <2>1, <2>2, <2>4, PlainGoto, HandlePlain, SilentMoves, InputsType
       DEF SyncInterrupting
<1>2. ASSUME NEW result \in {"ok", "error", "fatal"}, NEW yanked \in BOOLEAN,
             Returns(n, "sm_cancel", result, yanked),
             Goto(n, Executed(node[n], result, yanked),
                  IF result = "ok" THEN "FAILOVER_SYNC" ELSE "FAILED")
      PROVE  Moves(n) /\ inputs' \in Nat
  <2>1. (IF result = "ok" THEN "FAILOVER_SYNC" ELSE "FAILED") \in PlainState
    BY DEF PlainState, MainState
  <2> QED BY <1>2, <2>1, ReturnsRuns, PlainGoto
<1> QED BY <1>1, <1>2 DEF MigrationEvent

LEMMA ArrayNextMoves ==
    ASSUME IInv, NEW n \in Daemons, ArrayNext(n)
    PROVE  Moves(n) /\ inputs' \in Nat
<1> DEFINE s == node[n]
           one == [s EXCEPT !.left = @ - 1]
           none == [s EXCEPT !.left = 0]
           ev == [s EXCEPT !.pc = "sm_event", !.left = 0]
<1>1. /\ Running(n) /\ s.pc \in ArrayPc /\ ~s.cmd /\ s.left > 0
      /\ \/ Step(n, Execute(one, s.pc), << >>)
         \/ Goto(n, none, "FAILED")
         \/ Interrupted(s) /\ s.pc # "fo_array" /\ Step(n, ev, << >>)
      /\ UNCHANGED inputs
  BY DEF ArrayNext
<1>2. Runs(s) /\ Place(s)
  BY <1>1, RunningRuns
<1>3. s.left - 1 \in Nat
  BY <1>1, <1>2 DEF Runs, Good, NodeState
<1>4. /\ Good(one) /\ one.run = s.run /\ one.primary = s.primary
      /\ one.interrupting = s.interrupting
      /\ one.sources = s.sources /\ one.wake_source_id = s.wake_source_id
  BY <1>2, <1>3 DEF Runs, Good, NodeState
<1>5. /\ Good(none) /\ none.run = s.run /\ none.cmd = s.cmd
      /\ none.sources = s.sources /\ none.wake_source_id = s.wake_source_id
  BY <1>2 DEF Runs, Good, NodeState
<1>6. /\ Good(ev) /\ ev.run = s.run /\ ev.cmd = s.cmd /\ ev.pc = "sm_event"
      /\ ev.interrupting = s.interrupting /\ ev.queue = s.queue
      /\ ev.sources = s.sources /\ ev.wake_source_id = s.wake_source_id
  BY <1>2 DEF Runs, Good, NodeState, Pc, EventPc
<1> HIDE DEF one, none, ev
<1>7. Runs(one) /\ Runs(none)
  BY <1>2, <1>4, <1>5, WakeIdSame DEF Runs
<1>8. NodeInv(Execute(one, s.pc))
  BY <1>1, <1>2, <1>4, <1>7, ExecuteInv DEF Place
<1>9. Interrupted(s) /\ s.pc # "fo_array" => NodeInv(ev)
  <2> SUFFICES ASSUME Interrupted(s), s.pc # "fo_array" PROVE NodeInv(ev)
    OBVIOUS
  <2>1. s.interrupting = SyncInterrupting
    BY <1>1, <1>2 DEF Place, ArrayPc, MigrationPc
  <2> QED BY <1>1, <1>2, <1>6, <2>1, MoveInv
        DEF Interrupted, WaitPc, SecondaryPc, MigrationPc
<1>10. "FAILED" \in PlainState
  BY DEF PlainState, MainState
<1> QED BY <1>1, <1>5, <1>7, <1>8, <1>9, <1>10, PlainGoto, SilentMoves, InputsType

\* The array is done: the migration goes on, or is interrupted.
LEMMA ArrayDoneMoves ==
    ASSUME IInv, NEW n \in Daemons,
           \/ /\ ArrayDone(n, "sm_start")
              /\ Step(n, IF Interrupted(node[n]) THEN [node[n] EXCEPT !.pc = "sm_event"]
                         ELSE WaitEvent([node[n] EXCEPT !.transitioning = TRUE],
                                        "sm_preswitch"), << >>)
           \/ /\ ArrayDone(n, "sm_switch")
              /\ Step(n, IF Interrupted(node[n]) THEN [node[n] EXCEPT !.pc = "sm_event"]
                         ELSE Execute(RaiseTimeout(node[n]), "sm_continue"), << >>)
    PROVE  Moves(n)
<1> DEFINE s == node[n]
           t == [s EXCEPT !.transitioning = TRUE]
<1>1. Running(n) /\ ~s.cmd /\ s.pc \in {"sm_start", "sm_switch"}
  BY DEF ArrayDone
<1>2. Runs(s) /\ s.interrupting = SyncInterrupting
  BY <1>1, RunningRuns DEF Place, MigrationPc
<1>3. /\ Good(t) /\ t.run = s.run /\ t.cmd = s.cmd /\ t.queue = s.queue
      /\ t.interrupting = s.interrupting
      /\ t.sources = s.sources /\ t.wake_source_id = s.wake_source_id
  BY <1>2 DEF Runs, Good, NodeState
<1>4. Interrupted(s) => NodeInv([s EXCEPT !.pc = "sm_event"])
  BY <1>1, <1>2, SetPcInv DEF EventPc
<1>5. ~Interrupted(s) => NodeInv(WaitEvent(t, "sm_preswitch"))
  <2> HIDE DEF t
  <2>1. Runs(t)
    BY <1>2, <1>3, WakeIdSame DEF Runs
  <2>2. ~Interrupted(s) => ~Interrupted(t)
    BY <1>3 DEF Interrupted
  <2> QED BY <1>1, <1>2, <1>3, <2>1, <2>2, WaitInv DEF WaitPc, SecondaryPc
<1>6. NodeInv(Execute(RaiseTimeout(s), "sm_continue"))
  <2>1. Runs(RaiseTimeout(s)) /\ RaiseTimeout(s).interrupting = SyncInterrupting
    BY <1>2, RaiseTimeoutRuns DEF Keeps
  <2> QED BY <2>1, ExecuteInv DEF CommandPc, SecondaryPc
<1> QED BY <1>4, <1>5, <1>6, SilentMoves

LEMMA MigrationMoves ==
    ASSUME IInv, NEW n \in Daemons, colod_primary_start_migration_co(n)
    PROVE  Moves(n) /\ inputs' \in Nat
<1>1. CASE MigrationCommands(n)
  BY <1>1, MigrationCommandsMoves
<1>2. CASE MigrationContinue(n)
  BY <1>2, MigrationContinueMoves
<1>3. CASE MigrationWaits(n)
  BY <1>3, MigrationWaitsMoves
<1>4. CASE MigrationEvent(n)
  BY <1>4, MigrationEventMoves
<1> QED
  BY <1>1, <1>2, <1>3, <1>4, ArrayDoneMoves, InputsType
     DEF colod_primary_start_migration_co

LEMMA FailoverSyncMoves ==
    ASSUME IInv, NEW n \in Daemons, colod_failover_sync_co(n)
    PROVE  Moves(n) /\ inputs' \in Nat
<1>1. PICK i \in 1 .. Len(node[n].queue) :
        /\ Gets(n, "fs_event", i)
        /\ LET e == node[n].queue[i]
               s == Without(n, i)
           IN  \/ Goto(n, s, "FAILOVER")
               \/ /\ e \in AlwaysInterrupting
                  /\ Goto(n, s, handle_always_interrupting(e))
               \/ Step(n, s, << >>)
        /\ UNCHANGED inputs
  BY DEF colod_failover_sync_co
<1> DEFINE e == node[n].queue[i]
           s == Without(n, i)
<1>2. Runs(s) /\ ~s.cmd /\ s.pc = "fs_event"
  BY <1>1, GetsRuns DEF EventPc
<1>3. NodeInv(s)
  BY <1>2, StayInv DEF EventPc
<1>4. "FAILOVER" \in PlainState
  BY DEF PlainState, MainState
<1> HIDE DEF s, e
<1>5. \/ Goto(n, s, "FAILOVER")
      \/ e \in AlwaysInterrupting /\ Goto(n, s, handle_always_interrupting(e))
      \/ Step(n, s, << >>)
  BY <1>1 DEF s, e
<1> QED BY <1>1, <1>2, <1>3, <1>4, <1>5, PlainGoto, HandlePlain, SilentMoves, InputsType

LEMMA FailoverYankMoves ==
    ASSUME IInv, NEW n \in Daemons, FailoverYank(n)
    PROVE  Moves(n) /\ inputs' \in Nat
<1>1. PICK result \in {"ok", "error", "fatal"} :
        /\ Returns(n, "fo_yank", result, FALSE)
        /\ LET s == [node[n] EXCEPT !.cmd = FALSE, !.io = FALSE]
           IN  \/ Step(n, ExecuteArray([s EXCEPT !.did_yank = TRUE,
                                                 !.transitioning = TRUE],
                                       "fo_array"), << >>)
               \/ Goto(n, [s EXCEPT !.qmp_error = @ \/ result = "fatal"], "FAILED")
  BY DEF FailoverYank
<1> DEFINE s == [node[n] EXCEPT !.cmd = FALSE, !.io = FALSE]
           a == [s EXCEPT !.did_yank = TRUE, !.transitioning = TRUE]
           b == s.qmp_error \/ result = "fatal"
           f == [s EXCEPT !.qmp_error = b]
<1>2. Runs(node[n]) /\ inputs' \in Nat
  BY <1>1, RunningRuns, InputsType DEF Returns
<1>3. /\ Good(s) /\ ~s.cmd /\ s.run = node[n].run /\ s.sources = node[n].sources
      /\ s.wake_source_id = node[n].wake_source_id
  BY <1>2 DEF Runs, Good, NodeState
<1>4. \/ Step(n, ExecuteArray(a, "fo_array"), << >>)
      \/ Goto(n, f, "FAILED")
  BY <1>1
<1> HIDE DEF s
<1>5. /\ Good(a) /\ a.cmd = s.cmd /\ a.run = s.run /\ a.sources = s.sources
      /\ a.wake_source_id = s.wake_source_id
  BY <1>3 DEF Good, NodeState
<1>6. /\ Good(f) /\ f.cmd = s.cmd /\ f.run = s.run /\ f.sources = s.sources
      /\ f.wake_source_id = s.wake_source_id
  <2>1. b \in BOOLEAN
    OBVIOUS
  <2> HIDE DEF b
  <2> QED BY <1>3, <2>1 DEF Good, NodeState
<1> HIDE DEF a, f
<1>7. Runs(a) /\ Runs(f)
  BY <1>2, <1>3, <1>5, <1>6, WakeIdSame DEF Runs
<1>8. NodeInv(ExecuteArray(a, "fo_array"))
  BY <1>3, <1>5, <1>7, ExecuteArrayInv DEF ArrayPc, MigrationPc
<1>9. "FAILED" \in PlainState
  BY DEF PlainState, MainState
<1> QED BY <1>2, <1>3, <1>4, <1>6, <1>7, <1>8, <1>9, PlainGoto, SilentMoves

LEMMA FailoverMoves ==
    ASSUME IInv, NEW n \in Daemons, colod_failover_co(n)
    PROVE  Moves(n) /\ inputs' \in Nat
<1>1. CASE FailoverYank(n)
  BY <1>1, FailoverYankMoves
<1>2. ASSUME NEW result \in {"ok", "error", "fatal"}, NEW yanked \in BOOLEAN,
             Returns(n, "fo_array", result, yanked),
             \/ Goto(n, Executed(node[n], result, yanked), "FAILED")
             \/ Step(n, Executed(node[n], result, yanked), << >>)
      PROVE  Moves(n) /\ inputs' \in Nat
  <2> DEFINE s == Executed(node[n], result, yanked)
  <2>1. Runs(s) /\ ~s.cmd /\ s.pc = "fo_array" /\ inputs' \in Nat
    BY <1>2, ReturnsRuns
  <2> HIDE DEF s
  <2>2. NodeInv(s)
    BY <2>1, RunInv DEF Place, WaitPc, SecondaryPc, MigrationPc
  <2>3. "FAILED" \in PlainState
    BY DEF PlainState, MainState
  <2>4. Goto(n, s, "FAILED") \/ Step(n, s, << >>)
    BY <1>2 DEF s
  <2> QED BY <2>1, <2>2, <2>3, <2>4, PlainGoto, SilentMoves
<1>3. CASE /\ ArrayDone(n, "fo_array")
           /\ Goto(n, [node[n] EXCEPT !.peer = FALSE], "PRIMARY_WAIT")
           /\ UNCHANGED inputs
  <2> DEFINE s == [node[n] EXCEPT !.peer = FALSE]
  <2>1. Runs(node[n]) /\ ~node[n].cmd
    BY <1>3, RunningRuns DEF ArrayDone
  <2>2. /\ Good(s) /\ s.cmd = node[n].cmd /\ s.run = node[n].run
        /\ s.sources = node[n].sources /\ s.wake_source_id = node[n].wake_source_id
    BY <2>1 DEF Runs, Good, NodeState
  <2> HIDE DEF s
  <2>3. Runs(s)
    BY <2>1, <2>2, WakeIdSame DEF Runs
  <2>4. "PRIMARY_WAIT" \in PlainState
    BY DEF PlainState, MainState
  <2> QED BY <1>3, <2>1, <2>2, <2>3, <2>4, PlainGoto, InputsType DEF s
<1> QED BY <1>1, <1>2, <1>3 DEF colod_failover_co
-----------------------------------------------------------------------------
\* Flags that STATE_FAILED and STATE_AUTOQUIT set between two waits.
LEMMA FlagsRuns ==
    ASSUME NEW s, Runs(s)
    PROVE  LET p == [s EXCEPT !.peer_failover = TRUE]
               q == LoopQuit(s)
           IN  /\ Runs(p) /\ p.cmd = s.cmd /\ p.pc = s.pc
               /\ Runs(q) /\ q.cmd = s.cmd /\ q.pc = s.pc
<1> DEFINE p == [s EXCEPT !.peer_failover = TRUE]
           l == IF s.loop = "run" THEN "quit" ELSE s.loop
           q == [s EXCEPT !.loop = l]
<1>1. l \in {"run", "quit", "teardown", "dead"} /\ LoopQuit(s) = q
  BY DEF Runs, Good, NodeState, LoopQuit
<1>2. /\ Good(p) /\ p.cmd = s.cmd /\ p.pc = s.pc /\ p.run = s.run
      /\ p.sources = s.sources /\ p.wake_source_id = s.wake_source_id
  BY DEF Runs, Good, NodeState
<1> HIDE DEF l, p
<1>3. /\ Good(q) /\ q.cmd = s.cmd /\ q.pc = s.pc /\ q.run = s.run
      /\ q.sources = s.sources /\ q.wake_source_id = s.wake_source_id
  BY <1>1 DEF Runs, Good, NodeState
<1> HIDE DEF q
<1>4. Runs(p) /\ Runs(q)
  BY <1>2, <1>3, WakeIdSame DEF Runs
<1> QED BY <1>1, <1>2, <1>3, <1>4 DEF p

LEMMA FailedMoves ==
    ASSUME IInv, NEW n \in Daemons, Failed(n)
    PROVE  Moves(n) /\ inputs' \in Nat
<1>1. ASSUME NEW result \in {"ok", "error", "fatal"}, NEW yanked \in BOOLEAN,
             Returns(n, "failed_stop", result, yanked),
             Step(n, [Executed(node[n], result, yanked) EXCEPT !.pc = "failed_event"],
                  << >>)
      PROVE  Moves(n) /\ inputs' \in Nat
  <2> DEFINE s == Executed(node[n], result, yanked)
  <2>1. Runs(s) /\ ~s.cmd /\ inputs' \in Nat
    BY <1>1, ReturnsRuns
  <2>2. Step(n, [s EXCEPT !.pc = "failed_event"], << >>)
    BY <1>1
  <2> HIDE DEF s
  <2>3. NodeInv([s EXCEPT !.pc = "failed_event"])
    BY <2>1, SetPcInv DEF EventPc
  <2> QED BY <2>1, <2>2, <2>3, SilentMoves
<1>2. ASSUME NEW i \in 1 .. Len(node[n].queue), Gets(n, "failed_event", i),
             UNCHANGED inputs,
             \/ Step(n, [Without(n, i) EXCEPT !.peer_failover = TRUE], << >>)
             \/ Goto(n, Without(n, i), "QUIT") \/ Goto(n, Without(n, i), "AUTOQUIT")
             \/ Step(n, LoopQuit(Without(n, i)), << >>)
             \/ Step(n, Without(n, i), << >>)
      PROVE  Moves(n) /\ inputs' \in Nat
  <2> DEFINE s == Without(n, i)
             p == [s EXCEPT !.peer_failover = TRUE]
             q == LoopQuit(s)
  <2>1. Runs(s) /\ ~s.cmd /\ s.pc = "failed_event"
    BY <1>2, GetsRuns DEF EventPc
  <2>2. \/ Step(n, p, << >>) \/ Goto(n, s, "QUIT") \/ Goto(n, s, "AUTOQUIT")
        \/ Step(n, q, << >>) \/ Step(n, s, << >>)
    BY <1>2
  <2> HIDE DEF s
  <2>3. Runs(p) /\ ~p.cmd /\ p.pc = "failed_event" /\ Runs(q) /\ ~q.cmd
        /\ q.pc = "failed_event"
    BY <2>1, FlagsRuns
  <2> HIDE DEF p, q
  <2>4. NodeInv(s) /\ NodeInv(p) /\ NodeInv(q)
    BY <2>1, <2>3, StayInv DEF EventPc
  <2>5. "QUIT" \in PlainState /\ "AUTOQUIT" \in PlainState
    BY DEF PlainState, MainState
  <2> QED BY <1>2, <2>1, <2>2, <2>4, <2>5, PlainGoto, SilentMoves, InputsType
<1> QED BY <1>1, <1>2 DEF Failed

LEMMA AutoquitMoves ==
    ASSUME IInv, NEW n \in Daemons, Autoquit(n)
    PROVE  Moves(n) /\ inputs' \in Nat
<1>1. PICK i \in 1 .. Len(node[n].queue) :
        /\ Gets(n, "aq_event", i) /\ UNCHANGED inputs
        /\ \/ Goto(n, Without(n, i), "QUIT")
           \/ Step(n, [Without(n, i) EXCEPT !.peer_failover = TRUE], << >>)
           \/ Step(n, LoopQuit(Without(n, i)), << >>)
           \/ Step(n, Without(n, i), << >>)
  BY DEF Autoquit
<1> DEFINE s == Without(n, i)
           p == [s EXCEPT !.peer_failover = TRUE]
           q == LoopQuit(s)
<1>2. Runs(s) /\ ~s.cmd /\ s.pc = "aq_event"
  BY <1>1, GetsRuns DEF EventPc
<1>3. Goto(n, s, "QUIT") \/ Step(n, p, << >>) \/ Step(n, q, << >>) \/ Step(n, s, << >>)
  BY <1>1
<1> HIDE DEF s
<1>4. Runs(p) /\ ~p.cmd /\ p.pc = "aq_event" /\ Runs(q) /\ ~q.cmd /\ q.pc = "aq_event"
  BY <1>2, FlagsRuns
<1> HIDE DEF p, q
<1>5. NodeInv(s) /\ NodeInv(p) /\ NodeInv(q)
  BY <1>2, <1>4, StayInv DEF EventPc
<1>6. "QUIT" \in PlainState
  BY DEF PlainState, MainState
<1> QED BY <1>1, <1>2, <1>3, <1>5, <1>6, PlainGoto, SilentMoves, InputsType
-----------------------------------------------------------------------------
(***************************************************************************)
(* The event loop.                                                         *)
(***************************************************************************)

\* A source is dispatched.  If the coroutine waits for QMP with an event that
\* has fired and an interrupting one pending, another source remains.
LEMMA DispatchSourceMoves ==
    ASSUME IInv, NEW n \in Daemons, DispatchSource(n)
    PROVE  Moves(n) /\ inputs' \in Nat
<1> DEFINE s == node[n]
           Own(i) == /\ s.sources[i] = "wake" /\ s.wake_source_id = "set"
                     /\ \A j \in (i + 1) .. Len(s.sources) : s.sources[j] # "wake"
<1>1. PICK i \in 1 .. Len(s.sources) :
        /\ i = 1 \/ s.sources[i] = "fired"
        /\ Continue(n, [s EXCEPT
             !.sources = RemoveAt(@, i),
             !.run = IF s.sources[i] = "wake" THEN "wake" ELSE "plain",
             !.wake_source_id = IF Own(i) THEN "cur" ELSE @])
  BY DEF DispatchSource
<1> DEFINE src == RemoveAt(s.sources, i)
           run == IF s.sources[i] = "wake" THEN "wake" ELSE "plain"
           id == IF Own(i) THEN "cur" ELSE s.wake_source_id
           t == [s EXCEPT !.sources = src, !.run = run, !.wake_source_id = id]
<1>2. NodeInv(s) /\ s.run = "no"
  BY LoopingInv DEF DispatchSource
<1>3. s.sources \in Seq({"start", "wake", "fired", "self"}) /\ Len(s.sources) \in Nat
  BY <1>2 DEF NodeInv, Good, NodeState
<1>4. Step(n, t, << >>) /\ UNCHANGED inputs
  <2>1. t = [s EXCEPT !.sources = RemoveAt(@, i),
             !.run = IF s.sources[i] = "wake" THEN "wake" ELSE "plain",
             !.wake_source_id = IF Own(i) THEN "cur" ELSE @]
    BY <1>2 DEF NodeInv, Good, NodeState
  <2> QED BY <1>1, <2>1 DEF Continue
<1>5. /\ src \in Seq({"start", "wake", "fired", "self"})
      /\ Len(src) = Len(s.sources) - 1
      /\ \A j \in 1 .. (Len(s.sources) - 1) :
           src[j] = IF j < i THEN s.sources[j] ELSE s.sources[j + 1]
  BY <1>3, RemoveAtProperties
<1>6. /\ run \in {"no", "wake", "plain", "reply", "timer", "removed"} /\ run # "no"
      /\ id \in {"none", "set", "cur"}
  BY <1>2 DEF NodeInv, Good, NodeState
<1>7. id = "set" => \E j \in 1 .. Len(src) : src[j] = "wake"
  <2> SUFFICES ASSUME id = "set" PROVE \E j \in 1 .. Len(src) : src[j] = "wake"
    OBVIOUS
  <2>1. s.wake_source_id = "set" /\ ~Own(i)
    OBVIOUS
  <2>2. PICK k \in 1 .. Len(s.sources) : s.sources[k] = "wake"
    BY <1>2, <2>1 DEF NodeInv, WakeId, Attached
  <2>3. PICK k2 \in 1 .. Len(s.sources) : k2 # i /\ s.sources[k2] = "wake"
    BY <1>3, <2>1, <2>2
  <2> HIDE DEF src, id, run
  <2>4. CASE k2 < i
    BY <1>3, <1>5, <2>3, <2>4
  <2>5. CASE k2 > i
    <3>1. k2 - 1 \in 1 .. Len(src) /\ src[k2 - 1] = "wake"
      BY <1>3, <1>5, <2>3, <2>5
    <3> QED BY <3>1
  <2> QED BY <2>3, <2>4, <2>5
<1>8. id = "cur" => run = "wake"
  BY <1>2 DEF NodeInv, WakeId
<1> HIDE DEF src, run, id
<1>9. /\ t.sources = src /\ t.run = run /\ t.wake_source_id = id
      /\ t.pc = s.pc /\ t.cmd = s.cmd /\ t.fired = s.fired /\ t.primary = s.primary
      /\ t.interrupting = s.interrupting /\ t.queue = s.queue
  BY <1>2 DEF NodeInv, Good, NodeState
<1>10. Good(t)
  BY <1>2, <1>5, <1>6, ZenonT(120) DEF NodeInv, Good, NodeState
<1> HIDE DEF t
<1>11. WakeId(t)
  BY <1>7, <1>8, <1>9 DEF WakeId, Attached
<1>12. Place(t)
  BY <1>2, <1>9 DEF NodeInv, Place, Interrupted
<1>13. Resumed(t)
  <2>1. s.fired /\ s.pc \in PrimaryWaitPc /\ Interrupted(s) => src # << >>
    BY <1>2, <1>3, <1>5 DEF NodeInv, Resumed
  <2> QED BY <1>6, <1>9, <2>1 DEF Resumed, Interrupted
<1>14. NodeInv(t)
  BY <1>10, <1>11, <1>12, <1>13 DEF NodeInv
<1> QED BY <1>4, <1>14, SilentMoves, InputsType

LEMMA DispatchReplyMoves ==
    ASSUME IInv, NEW n \in Daemons, DispatchReply(n)
    PROVE  Moves(n) /\ inputs' \in Nat
<1> DEFINE s == node[n]
           t == [s EXCEPT !.run = "reply", !.io = FALSE]
<1>1. NodeInv(s) /\ s.run = "no" /\ s.cmd /\ Step(n, t, << >>) /\ UNCHANGED inputs
  BY LoopingInv DEF DispatchReply, Continue
<1>2. /\ Good(t) /\ t.run = "reply" /\ t.pc = s.pc /\ t.cmd = s.cmd
      /\ t.primary = s.primary /\ t.interrupting = s.interrupting /\ t.queue = s.queue
      /\ t.sources = s.sources /\ t.wake_source_id = s.wake_source_id
  BY <1>1 DEF NodeInv, Good, NodeState
<1> HIDE DEF t
<1>3. s.wake_source_id # "cur" /\ s.pc \notin WaitPc
  BY <1>1 DEF NodeInv, WakeId, Place, CommandPc, ArrayPc, WaitPc
<1>4. Runs(t) /\ Place(t)
  BY <1>1, <1>2, <1>3, WakeIdSame DEF NodeInv, Runs, Place, Interrupted
<1>5. NodeInv(t)
  BY <1>2, <1>3, <1>4, RunInv
<1> QED BY <1>1, <1>5, SilentMoves, InputsType

LEMMA DispatchTimerMoves ==
    ASSUME IInv, NEW n \in Daemons, DispatchTimer(n)
    PROVE  Moves(n) /\ inputs' \in Nat
<1> DEFINE s == node[n]
           t == [s EXCEPT !.run = "timer"]
<1>1. NodeInv(s) /\ s.run = "no" /\ Step(n, t, << >>) /\ UNCHANGED inputs
  BY LoopingInv DEF DispatchTimer, Continue
<1>2. /\ Good(t) /\ t.run = "timer" /\ t.pc = s.pc /\ t.cmd = s.cmd /\ t.fired = s.fired
      /\ t.primary = s.primary /\ t.interrupting = s.interrupting /\ t.queue = s.queue
      /\ t.sources = s.sources /\ t.wake_source_id = s.wake_source_id
  BY <1>1 DEF NodeInv, Good, NodeState
<1> HIDE DEF t
<1>3. s.wake_source_id # "cur"
  BY <1>1 DEF NodeInv, WakeId
<1>4. WakeId(t) /\ Place(t) /\ Resumed(t)
  BY <1>1, <1>2, <1>3, WakeIdSame DEF NodeInv, Place, Resumed, Interrupted
<1>5. NodeInv(t)
  BY <1>2, <1>4 DEF NodeInv
<1> QED BY <1>1, <1>5, SilentMoves, InputsType

\* A change of one flag while the coroutine has yielded, and the event after it.
LEMMA CallbackInv ==
    ASSUME NEW s, NodeInv(s), s.run = "no", NEW t, Good(t),
           t.wake_source_id = s.wake_source_id, t.sources = s.sources,
           t.run = s.run, t.pc = s.pc, t.cmd = s.cmd, t.fired = s.fired,
           t.primary = s.primary, t.interrupting = s.interrupting,
           t.queue = s.queue
    PROVE  /\ NodeInv(t)
           /\ \A e \in ColodEvent : NodeInv(colod_event_queue(t, e))
<1>1. NodeInv(t)
  BY SameInv
<1> QED BY <1>1, QueueInv

LEMMA CpgEventInv ==
    ASSUME NEW s, NodeInv(s), s.run = "no", NEW msg, NEW own \in BOOLEAN
    PROVE  NodeInv(colod_cpg_event_cb(s, msg, own))
<1> DEFINE f == [s EXCEPT !.peer_failed = TRUE]
           b == msg = "YELLOW"
           y == [s EXCEPT !.peer_yellow = b]
           e == IF own THEN "FAILOVER_WIN" ELSE "PEER_FAILOVER"
<1>1. /\ "FAILOVER_SYNC" \in ColodEvent /\ "YELLOW" \in ColodEvent /\ e \in ColodEvent
      /\ b \in BOOLEAN
  BY DEF ColodEvent, AlwaysInterrupting
<1>2. colod_cpg_event_cb(s, msg, own) \in
        {colod_event_queue(f, "FAILOVER_SYNC"), colod_event_queue(s, e),
         colod_event_queue(y, "YELLOW"), s}
  BY DEF colod_cpg_event_cb, PeerFailed, FailoverMessage
<1> HIDE DEF b, e
<1>3. /\ Good(f)
      /\ f.wake_source_id = s.wake_source_id /\ f.sources = s.sources
      /\ f.run = s.run /\ f.pc = s.pc /\ f.cmd = s.cmd /\ f.fired = s.fired
      /\ f.primary = s.primary /\ f.interrupting = s.interrupting
      /\ f.queue = s.queue
  BY DEF NodeInv, Good, NodeState
<1>4. /\ Good(y)
      /\ y.wake_source_id = s.wake_source_id /\ y.sources = s.sources
      /\ y.run = s.run /\ y.pc = s.pc /\ y.cmd = s.cmd /\ y.fired = s.fired
      /\ y.primary = s.primary /\ y.interrupting = s.interrupting
      /\ y.queue = s.queue
  BY <1>1 DEF NodeInv, Good, NodeState
<1> HIDE DEF f, y
<1>5. NodeInv(colod_event_queue(f, "FAILOVER_SYNC"))
  BY <1>1, <1>3, CallbackInv
<1>6. NodeInv(colod_event_queue(y, "YELLOW"))
  BY <1>1, <1>4, CallbackInv
<1>7. NodeInv(colod_event_queue(s, e))
  BY <1>1, QueueInv
<1> QED BY <1>2, <1>5, <1>6, <1>7

LEMMA CpgDispatchInv ==
    ASSUME IInv, NEW n \in Daemons, CpgDispatch(n)
    PROVE  IInv'
<1> DEFINE d == Head(inbox[n])
           s == node[n]
           t == IF Notified(n) THEN colod_cpg_event_cb(s, d.msg, d.from = n) ELSE s
           msgs == CASE d.msg = "LEFT" -> Marked(n)
                     [] d.msg = "HELLO" /\ Notified(n) /\ s.yellow -> <<"YELLOW">>
                     [] OTHER -> << >>
<1>1. /\ Looping(n) /\ inbox[n] # << >> /\ UNCHANGED members /\ UNCHANGED inputs
      /\ node' = [node EXCEPT ![n] = IF Notified(n)
                                     THEN colod_cpg_event_cb(@, d.msg, d.from = n)
                                     ELSE @]
      /\ colod_cpg_send(n, Taken(n), Unmark(n), msgs)
  BY DEF CpgDispatch
<1>2. NodeInv(s) /\ s.run = "no"
  BY <1>1, LoopingInv
<1>3. NodeInv(t)
  <2>1. (d.from = n) \in BOOLEAN
    OBVIOUS
  <2> QED BY <1>2, <2>1, CpgEventInv
<1>4. node' = [node EXCEPT ![n] = t]
  BY <1>1 DEF IInv, TypeOK
<1>5. msgs \in Seq(ColodMessage)
  <2>1. << >> \in Seq(ColodMessage) /\ <<"YELLOW">> \in Seq(ColodMessage)
        /\ Marked(n) \in Seq(ColodMessage)
    BY MarkedType DEF ColodMessage
  <2> QED BY <2>1
<1> HIDE DEF t, msgs
<1>6. CpgInv
  BY DEF IInv, TypeOK, CpgInv
<1>7. CpgInv'
  BY <1>1, <1>5, <1>6, TakenType, CpgSendInv
<1> QED BY <1>1, <1>3, <1>4, <1>7, NodeStepInv, InputsType

LEMMA RetransmitNodes ==
    ASSUME IInv, NEW n \in Daemons, Retransmit(n)
    PROVE  IInv'
<1>1. CpgInv'
  BY RetransmitInv DEF Retransmit, IInv, TypeOK, CpgInv
<1> QED BY <1>1 DEF Retransmit, IInv, TypeOK, CpgInv

LEMMA YellowEventMoves ==
    ASSUME IInv, NEW n \in Daemons, colod_yellow_event_cb(n)
    PROVE  Moves(n) /\ inputs' \in Nat
<1> DEFINE s == node[n]
           b == s.link = "to_yellow"
           l == IF b THEN "yellow" ELSE "green"
           e == IF b THEN "YELLOW" ELSE "UNYELLOW"
           t == [s EXCEPT !.yellow = b, !.link = l]
<1>1. /\ NodeInv(s) /\ s.run = "no" /\ UNCHANGED inputs
      /\ Step(n, colod_event_queue(t, e), << >>)
  BY LoopingInv DEF colod_yellow_event_cb, Continue
<1>2. b \in BOOLEAN /\ l \in {"green", "yellow"} /\ e \in ColodEvent
  BY DEF ColodEvent
<1> HIDE DEF b, l, e
<1>3. /\ Good(t)
      /\ t.wake_source_id = s.wake_source_id /\ t.sources = s.sources
      /\ t.run = s.run /\ t.pc = s.pc /\ t.cmd = s.cmd /\ t.fired = s.fired
      /\ t.primary = s.primary /\ t.interrupting = s.interrupting
      /\ t.queue = s.queue
  BY <1>1, <1>2, ZenonT(120) DEF NodeInv, Good, NodeState, LinkState
<1> HIDE DEF t
<1>4. NodeInv(colod_event_queue(t, e))
  BY <1>1, <1>2, <1>3, CallbackInv
<1> QED BY <1>1, <1>4, SilentMoves, InputsType

LEMMA RaiseStartMoves ==
    ASSUME IInv, NEW n \in Daemons, RaiseStart(n)
    PROVE  Moves(n) /\ inputs' \in Nat
<1> DEFINE s == node[n]
           t == [s EXCEPT !.raise = "stop"]
<1>1. NodeInv(s) /\ s.run = "no" /\ UNCHANGED inputs /\ Step(n, t, << >>)
  BY LoopingInv DEF RaiseStart, Continue
<1>2. /\ Good(t)
      /\ t.wake_source_id = s.wake_source_id /\ t.sources = s.sources
      /\ t.run = s.run /\ t.pc = s.pc /\ t.cmd = s.cmd /\ t.fired = s.fired
      /\ t.primary = s.primary /\ t.interrupting = s.interrupting
      /\ t.queue = s.queue
  BY <1>1 DEF NodeInv, Good, NodeState
<1> HIDE DEF t
<1> QED BY <1>1, <1>2, CallbackInv, SilentMoves, InputsType

LEMMA RevertType ==
    ASSUME NEW link
    PROVE  Revert(link) \in Seq(ColodMessage)
<1>1. << >> \in Seq(ColodMessage) /\ <<"YELLOW">> \in Seq(ColodMessage)
      /\ <<"UNYELLOW">> \in Seq(ColodMessage)
  BY DEF ColodMessage
<1> QED BY <1>1 DEF Revert

LEMMA MainFreeMoves ==
    ASSUME IInv, NEW n \in Daemons, colod_main_free(n)
    PROVE  Moves(n) /\ inputs' \in Nat
<1> DEFINE s == colod_event_queue(node[n], "QUIT")
           to == IF node[n].raise # "none" THEN "low" ELSE s.timeout
           t == [s EXCEPT !.loop = "teardown", !.link = "off", !.raise = "none",
                          !.timeout = to]
<1>1. NodeInv(node[n]) /\ node[n].run = "no" /\ UNCHANGED inputs
  BY LoopingInv DEF colod_main_free
<1>2. Step(n, t, Revert(node[n].link))
  BY DEF colod_main_free
<1>3. NodeInv(s) /\ s.run = "no"
  BY <1>1, QueueInv, QueueFields DEF NodeInv, ColodEvent, AlwaysInterrupting
<1>4. to \in {"low", "high"}
  BY <1>3 DEF NodeInv, Good, NodeState
<1> HIDE DEF s, to
<1>5. /\ Good(t)
      /\ t.wake_source_id = s.wake_source_id /\ t.sources = s.sources
      /\ t.run = s.run /\ t.pc = s.pc /\ t.cmd = s.cmd /\ t.fired = s.fired
      /\ t.primary = s.primary /\ t.interrupting = s.interrupting
      /\ t.queue = s.queue
  BY <1>3, <1>4, ZenonT(120) DEF NodeInv, Good, NodeState, LinkState
<1> HIDE DEF t
<1>6. NodeInv(t)
  BY <1>3, <1>5, CallbackInv
<1> QED BY <1>1, <1>2, <1>6, RevertType, InputsType DEF Moves
-----------------------------------------------------------------------------
(***************************************************************************)
(* The environment.                                                        *)
(***************************************************************************)

\* The states out of which colod_qmp_event_cb makes its result.
LEMMA QmpEventCbCases ==
    ASSUME NEW s, Good(s), NEW e
    PROVE  \E t : /\ Good(t)
                  /\ t.wake_source_id = s.wake_source_id /\ t.sources = s.sources
                  /\ t.run = s.run /\ t.pc = s.pc /\ t.cmd = s.cmd /\ t.fired = s.fired
                  /\ t.primary = s.primary /\ t.interrupting = s.interrupting
                  /\ t.queue = s.queue /\ t.left = s.left
                  /\ \/ colod_qmp_event_cb(s, e) = t
                     \/ \E ev \in ColodEvent :
                          colod_qmp_event_cb(s, e) = colod_event_queue(t, ev)
<1> DEFINE y == [s EXCEPT !.yellow = TRUE, !.link = "off"]
           r == [s EXCEPT !.timeout = "high", !.raise = "start"]
<1>1. /\ Good(y)
      /\ y.wake_source_id = s.wake_source_id /\ y.sources = s.sources
      /\ y.run = s.run /\ y.pc = s.pc /\ y.cmd = s.cmd /\ y.fired = s.fired
      /\ y.primary = s.primary /\ y.interrupting = s.interrupting
      /\ y.queue = s.queue /\ y.left = s.left
  BY ZenonT(120) DEF Good, NodeState, LinkState
<1>2. /\ Good(r)
      /\ r.wake_source_id = s.wake_source_id /\ r.sources = s.sources
      /\ r.run = s.run /\ r.pc = s.pc /\ r.cmd = s.cmd /\ r.fired = s.fired
      /\ r.primary = s.primary /\ r.interrupting = s.interrupting
      /\ r.queue = s.queue /\ r.left = s.left
  BY DEF Good, NodeState
<1>3. "FAILOVER_SYNC" \in ColodEvent /\ "YELLOW" \in ColodEvent
  BY DEF ColodEvent
<1>4. colod_qmp_event_cb(s, e) \in
        {colod_event_queue(s, "FAILOVER_SYNC"), colod_event_queue(y, "YELLOW"), r, s}
  BY DEF colod_qmp_event_cb, RaiseTimeout
<1> HIDE DEF y, r
<1> QED BY <1>1, <1>2, <1>3, <1>4

LEMMA QmpEventCbInv ==
    ASSUME NEW s, NodeInv(s), s.run = "no", NEW e
    PROVE  NodeInv(colod_qmp_event_cb(s, e)) /\ colod_qmp_event_cb(s, e).run = "no"
<1>1. PICK t : /\ Good(t)
               /\ t.wake_source_id = s.wake_source_id /\ t.sources = s.sources
               /\ t.run = s.run /\ t.pc = s.pc /\ t.cmd = s.cmd /\ t.fired = s.fired
               /\ t.primary = s.primary /\ t.interrupting = s.interrupting
               /\ t.queue = s.queue
               /\ \/ colod_qmp_event_cb(s, e) = t
                  \/ \E ev \in ColodEvent :
                       colod_qmp_event_cb(s, e) = colod_event_queue(t, ev)
  BY QmpEventCbCases DEF NodeInv
<1>2. NodeInv(t) /\ \A ev \in ColodEvent : NodeInv(colod_event_queue(t, ev))
  BY <1>1, CallbackInv
<1>3. \A ev \in ColodEvent : colod_event_queue(t, ev).run = "no"
  BY <1>1, <1>2, QueueFields DEF NodeInv
<1> QED BY <1>1, <1>2, <1>3

LEMMA QmpEventCbRuns ==
    ASSUME NEW s, Runs(s), NEW e
    PROVE  LET t == colod_qmp_event_cb(s, e)
           IN  Runs(t) /\ Keeps(s, t) /\ t.cmd = s.cmd
<1>1. PICK t : /\ Good(t)
               /\ t.wake_source_id = s.wake_source_id /\ t.sources = s.sources
               /\ t.run = s.run /\ t.pc = s.pc /\ t.cmd = s.cmd
               /\ t.primary = s.primary /\ t.interrupting = s.interrupting
               /\ t.left = s.left
               /\ \/ colod_qmp_event_cb(s, e) = t
                  \/ \E ev \in ColodEvent :
                       colod_qmp_event_cb(s, e) = colod_event_queue(t, ev)
  BY QmpEventCbCases DEF Runs
<1>2. Runs(t) /\ Keeps(s, t)
  BY <1>1, WakeIdSame DEF Runs, Keeps
<1>3. \A ev \in ColodEvent :
        LET u == colod_event_queue(t, ev) IN Runs(u) /\ Keeps(t, u) /\ u.cmd = t.cmd
  BY <1>2, RunsQueue
<1> QED BY <1>1, <1>2, <1>3 DEF Keeps

\* The awaited event resumes a coroutine that may have to be resumed for an
\* interrupting event as well.
LEMMA WaitEventCbInv ==
    ASSUME NEW s, NodeInv(s), s.run = "no", NEW e
    PROVE  NodeInv(WaitEventCb(s, e))
<1> DEFINE r == IF s.raise = "stop" /\ e = "STOP" THEN "resume"
                ELSE IF s.raise = "resume" /\ e = "RESUME" THEN "none" ELSE s.raise
           to == IF s.raise = "resume" /\ e = "RESUME" THEN "low" ELSE s.timeout
           t == [s EXCEPT !.raise = r, !.timeout = to]
           src == Append(t.sources, "fired")
           u == [t EXCEPT !.fired = TRUE, !.sources = src]
<1>1. r \in {"none", "start", "stop", "resume"} /\ to \in {"low", "high"}
  BY DEF NodeInv, Good, NodeState
<1>2. WaitEventCb(s, e) = IF Expects(s, e) THEN u ELSE t
  BY DEF WaitEventCb, NodeInv, Good, NodeState
<1> HIDE DEF r, to
<1>3. /\ Good(t)
      /\ t.wake_source_id = s.wake_source_id /\ t.sources = s.sources
      /\ t.run = s.run /\ t.pc = s.pc /\ t.cmd = s.cmd /\ t.fired = s.fired
      /\ t.primary = s.primary /\ t.interrupting = s.interrupting
      /\ t.queue = s.queue
  BY <1>1, ZenonT(120) DEF NodeInv, Good, NodeState
<1> HIDE DEF t
<1>4. NodeInv(t)
  BY <1>3, SameInv
<1>5. t.sources \in Seq({"start", "wake", "fired", "self"})
  BY <1>3 DEF Good, NodeState
<1>6. /\ src \in Seq({"start", "wake", "fired", "self"}) /\ src # << >>
      /\ Len(src) = Len(t.sources) + 1 /\ src[Len(t.sources) + 1] = "fired"
      /\ \A i \in 1 .. Len(t.sources) : src[i] = t.sources[i]
  BY <1>5
<1>7. t.sources # << >> => Len(src) >= 2
  BY <1>5, <1>6
<1> HIDE DEF src
<1>8. /\ Good(u) /\ u.fired = TRUE /\ u.sources = src
      /\ u.wake_source_id = t.wake_source_id
      /\ u.run = t.run /\ u.pc = t.pc /\ u.cmd = t.cmd
      /\ u.primary = t.primary /\ u.interrupting = t.interrupting
      /\ u.queue = t.queue
  BY <1>3, <1>6 DEF Good, NodeState
<1> HIDE DEF u
<1>9. \A x : Attached(t, x) => Attached(u, x)
  BY <1>5, <1>6, <1>8 DEF Attached
<1>10. Attached(u, "fired")
  BY <1>5, <1>6, <1>8 DEF Attached
<1>11. WakeId(u) /\ Place(u)
  BY <1>4, <1>8, <1>9 DEF NodeInv, WakeId, Place, Interrupted
<1>12. Resumed(u)
  BY <1>3, <1>4, <1>6, <1>7, <1>8, <1>10 DEF NodeInv, Resumed, Interrupted
<1> QED BY <1>2, <1>4, <1>8, <1>11, <1>12 DEF NodeInv

LEMMA NotifyMessagesType ==
    ASSUME NEW n, NEW e
    PROVE  NotifyMessages(n, e) \in Seq(ColodMessage)
<1>1. << >> \in Seq(ColodMessage) /\ <<"YELLOW">> \in Seq(ColodMessage)
  BY DEF ColodMessage
<1>2. <<"YELLOW">> \o Revert(node[n].link) \in Seq(ColodMessage)
  BY <1>1, RevertType, ConcatProperties
<1> QED BY <1>1, <1>2 DEF NotifyMessages

LEMMA QmpEventMoves ==
    ASSUME IInv, NEW n \in Daemons, NEW e, QmpEvent(n, e)
    PROVE  Moves(n) /\ inputs' \in Nat
<1>1. /\ NodeInv(node[n]) /\ node[n].run = "no" /\ inputs' \in Nat
      /\ Step(n, NotifyEvent(n, e), NotifyMessages(n, e))
  BY LoopingInv, InputsType DEF QmpEvent
<1> DEFINE c == IF Notified(n) THEN colod_qmp_event_cb(node[n], e) ELSE node[n]
<1>2. NodeInv(c) /\ c.run = "no"
  BY <1>1, QmpEventCbInv
<1>3. NotifyEvent(n, e) = WaitEventCb(c, e)
  BY DEF NotifyEvent
<1> HIDE DEF c
<1>4. NodeInv(NotifyEvent(n, e))
  BY <1>2, <1>3, WaitEventCbInv
<1> QED BY <1>1, <1>4, NotifyMessagesType DEF Moves

\* The coroutine is in a command and so waits for none of the events it reads.
LEMMA CommandSelfMoves ==
    ASSUME IInv, NEW n \in Daemons, NEW e \in QmpFailures \cup {"none"},
           CommandSelf(n, e)
    PROVE  Moves(n) /\ inputs' \in Nat
<1> DEFINE s == node[n]
           c == IF Notified(n) THEN colod_qmp_event_cb(s, e) ELSE s
           src == Append(c.sources, "self")
           u == [c EXCEPT !.sources = src]
<1>1. /\ Running(n) /\ s.cmd /\ inputs' \in Nat
      /\ Step(n, [Yield([NotifyEvent(n, e) EXCEPT !.sources = Append(@, "self")])
                    EXCEPT !.io = FALSE], NotifyMessages(n, e))
  BY InputsType DEF CommandSelf
<1>2. Runs(s) /\ Place(s)
  BY <1>1, RunningRuns
<1>3. Runs(c) /\ Keeps(s, c) /\ c.cmd = s.cmd
  <2>1. Keeps(s, s)
    BY DEF Keeps
  <2> QED BY <1>2, <2>1, QmpEventCbRuns
<1>4. NotifyEvent(n, e) = WaitEventCb(c, e)
  BY DEF NotifyEvent
<1>5. e # "STOP" /\ e # "RESUME" /\ e # "PRE_SWITCHOVER" /\ e # "COLO" /\ e # "nothing"
  BY DEF QmpFailures
<1> HIDE DEF c
<1>6. ~Expects(c, e)
  BY <1>5 DEF Expects, AwaitedEvent
<1>7. WaitEventCb(c, e) = c
  <2>1. WaitEventCb(c, e) = [c EXCEPT !.raise = c.raise, !.timeout = c.timeout]
    BY <1>5, <1>6 DEF WaitEventCb
  <2>2. [c EXCEPT !.raise = c.raise, !.timeout = c.timeout] = c
    BY <1>3 DEF Runs, Good, NodeState
  <2> QED BY <2>1, <2>2
<1>8. c.sources \in Seq({"start", "wake", "fired", "self"})
  BY <1>3 DEF Runs, Good, NodeState
<1>9. /\ src \in Seq({"start", "wake", "fired", "self"})
      /\ Len(src) = Len(c.sources) + 1
      /\ \A i \in 1 .. Len(c.sources) : src[i] = c.sources[i]
  BY <1>8
<1>10. Step(n, [Yield(u) EXCEPT !.io = FALSE], NotifyMessages(n, e))
  BY <1>1, <1>4, <1>7
<1> HIDE DEF src
<1>11. /\ Good(u) /\ u.sources = src /\ u.wake_source_id = c.wake_source_id
       /\ u.run = c.run /\ u.cmd = c.cmd /\ u.pc = c.pc /\ u.primary = c.primary
       /\ u.interrupting = c.interrupting /\ u.queue = c.queue
  BY <1>3, <1>9 DEF Runs, Good, NodeState
<1> HIDE DEF u
<1>12. Runs(u)
  BY <1>3, <1>8, <1>9, <1>11 DEF Runs, WakeId, Attached
<1>13. s.pc # "sm_event"
  BY <1>1, <1>2 DEF Place, CommandPc, ArrayPc
<1>14. Place(u) /\ u.cmd
  BY <1>1, <1>2, <1>3, <1>11, <1>13 DEF Place, Keeps
<1>15. NodeInv([Yield(u) EXCEPT !.io = FALSE])
  BY <1>12, <1>14, CommandYieldInv
<1> QED BY <1>1, <1>10, <1>15, NotifyMessagesType DEF Moves

LEMMA PeerMessageInv ==
    ASSUME IInv, NEW n \in Daemons, NEW p \in Nodes \ Daemons, NEW m \in PeerMessages,
           PeerMessage(n, p, m)
    PROVE  IInv'
<1>1. [msg |-> m, from |-> p] \in Delivery
  BY MainAssumption DEF Delivery
<1>2. inbox' = [inbox EXCEPT ![n] = Append(@, [msg |-> m, from |-> p])]
  BY DEF PeerMessage
<1>3. inbox' \in [Daemons -> Seq(Delivery)]
  BY <1>1, <1>2 DEF IInv, TypeOK, CpgTypeOK
<1>4. CpgInv'
  BY <1>3 DEF PeerMessage, IInv, TypeOK, CpgInv, CpgTypeOK, MarkedIsTimed
<1>5. UNCHANGED node /\ inputs' \in Nat
  BY InputsType DEF PeerMessage
<1> QED BY <1>4, <1>5 DEF IInv, TypeOK, CpgInv

LEMMA LinkChangeMoves ==
    ASSUME IInv, NEW n \in Daemons, LinkChange(n)
    PROVE  Moves(n) /\ inputs' \in Nat
<1>1. NodeInv(node[n]) /\ node[n].run = "no" /\ inputs' \in Nat
  BY LoopingInv, InputsType DEF LinkChange
<1>2. ASSUME NEW l \in {"green", "to_yellow", "yellow", "to_green"},
             NEW m \in {"YELLOW", "UNYELLOW"},
             Step(n, [node[n] EXCEPT !.link = l], <<m>>)
      PROVE  Moves(n)
  <2> DEFINE s == node[n]
             t == [s EXCEPT !.link = l]
  <2>1. /\ Good(t)
        /\ t.wake_source_id = s.wake_source_id /\ t.sources = s.sources
        /\ t.run = s.run /\ t.pc = s.pc /\ t.cmd = s.cmd /\ t.fired = s.fired
        /\ t.primary = s.primary /\ t.interrupting = s.interrupting
        /\ t.queue = s.queue
    BY <1>1 DEF NodeInv, Good, NodeState, LinkState
  <2>2. <<m>> \in Seq(ColodMessage)
    BY DEF ColodMessage
  <2>3. Step(n, t, <<m>>)
    BY <1>2
  <2> HIDE DEF t
  <2> QED BY <1>1, <2>1, <2>2, <2>3, CallbackInv DEF Moves
<1>3. \E l \in {"green", "to_yellow", "yellow", "to_green"} :
        \E m \in {"YELLOW", "UNYELLOW"} : Step(n, [node[n] EXCEPT !.link = l], <<m>>)
  BY DEF LinkChange, LinkTransition
<1> QED BY <1>1, <1>2, <1>3

\* An event is queued for a coroutine that has yielded, after a flag is set.
LEMMA QueueMoves ==
    ASSUME NEW n \in Daemons, NEW s, NodeInv(s), s.run = "no", NEW e \in ColodEvent,
           Step(n, colod_event_queue(s, e), << >>)
    PROVE  Moves(n)
  BY QueueInv, SilentMoves

\* colod_hup_cb, a lost QMP connection, colod_set_peer and colod_quit.
LEMMA FlagMoves ==
    ASSUME IInv, NEW n \in Daemons,
           colod_hup_cb(n) \/ QmpSetError(n) \/ colod_set_peer(n) \/ colod_quit(n)
    PROVE  Moves(n) /\ inputs' \in Nat
<1> DEFINE s == node[n]
           h == [s EXCEPT !.qemu_quit = TRUE]
           q == [s EXCEPT !.qmp_error = TRUE]
           p == [s EXCEPT !.peer = TRUE, !.peer_failed = FALSE, !.peer_yellow = FALSE]
           l == IF s.loop = "run" THEN "quit" ELSE s.loop
           d == [s EXCEPT !.loop = l]
<1>1. NodeInv(s) /\ s.run = "no" /\ inputs' \in Nat
  BY LoopingInv, InputsType DEF colod_hup_cb, QmpSetError, colod_set_peer, colod_quit
<1>2. /\ Good(h)
      /\ h.wake_source_id = s.wake_source_id /\ h.sources = s.sources
      /\ h.run = s.run /\ h.pc = s.pc /\ h.cmd = s.cmd /\ h.fired = s.fired
      /\ h.primary = s.primary /\ h.interrupting = s.interrupting
      /\ h.queue = s.queue
  BY <1>1 DEF NodeInv, Good, NodeState
<1>3. /\ Good(q)
      /\ q.wake_source_id = s.wake_source_id /\ q.sources = s.sources
      /\ q.run = s.run /\ q.pc = s.pc /\ q.cmd = s.cmd /\ q.fired = s.fired
      /\ q.primary = s.primary /\ q.interrupting = s.interrupting
      /\ q.queue = s.queue
  BY <1>1 DEF NodeInv, Good, NodeState
<1>4. /\ Good(p)
      /\ p.wake_source_id = s.wake_source_id /\ p.sources = s.sources
      /\ p.run = s.run /\ p.pc = s.pc /\ p.cmd = s.cmd /\ p.fired = s.fired
      /\ p.primary = s.primary /\ p.interrupting = s.interrupting
      /\ p.queue = s.queue
  BY <1>1 DEF NodeInv, Good, NodeState
<1>5. l \in {"run", "quit", "teardown", "dead"} /\ LoopQuit(s) = d
  BY <1>1 DEF NodeInv, Good, NodeState, LoopQuit
<1>6. \/ Step(n, colod_event_queue(h, "FAILED"), << >>)
      \/ Step(n, q, << >>) \/ Step(n, p, << >>) \/ Step(n, d, << >>)
  BY <1>5 DEF colod_hup_cb, QmpSetError, colod_set_peer, colod_quit
<1> HIDE DEF l
<1>7. /\ Good(d)
      /\ d.wake_source_id = s.wake_source_id /\ d.sources = s.sources
      /\ d.run = s.run /\ d.pc = s.pc /\ d.cmd = s.cmd /\ d.fired = s.fired
      /\ d.primary = s.primary /\ d.interrupting = s.interrupting
      /\ d.queue = s.queue
  BY <1>1, <1>5 DEF NodeInv, Good, NodeState
<1> HIDE DEF h, q, p, d
<1>8. NodeInv(h) /\ h.run = "no" /\ NodeInv(q) /\ NodeInv(p) /\ NodeInv(d)
  BY <1>1, <1>2, <1>3, <1>4, <1>7, CallbackInv
<1>9. "FAILED" \in ColodEvent
  BY DEF ColodEvent, AlwaysInterrupting
<1> QED BY <1>1, <1>6, <1>8, <1>9, QueueMoves, SilentMoves

LEMMA ClearPeerMoves ==
    ASSUME IInv, NEW n \in Daemons, colod_clear_peer(n)
    PROVE  Moves(n) /\ inputs' \in Nat
<1> DEFINE s == node[n]
           p == [s EXCEPT !.peer = FALSE]
<1>1. NodeInv(s) /\ s.run = "no" /\ inputs' \in Nat /\ Step(n, p, << >>)
  BY LoopingInv, InputsType DEF colod_clear_peer
<1>2. /\ Good(p)
      /\ p.wake_source_id = s.wake_source_id /\ p.sources = s.sources
      /\ p.run = s.run /\ p.pc = s.pc /\ p.cmd = s.cmd /\ p.fired = s.fired
      /\ p.primary = s.primary /\ p.interrupting = s.interrupting
      /\ p.queue = s.queue
  BY <1>1 DEF NodeInv, Good, NodeState
<1> HIDE DEF p
<1>3. NodeInv(p)
  BY <1>1, <1>2, CallbackInv
<1> QED BY <1>1, <1>3, SilentMoves

LEMMA ClientMoves ==
    ASSUME IInv, NEW n \in Daemons,
           colod_start_migration(n) \/ colod_autoquit(n) \/ colod_qemu_failed(n)
    PROVE  Moves(n) /\ inputs' \in Nat
<1>1. NodeInv(node[n]) /\ node[n].run = "no" /\ inputs' \in Nat
  BY LoopingInv, InputsType DEF colod_start_migration, colod_autoquit, colod_qemu_failed
<1>2. \E e \in {"START_MIGRATION", "AUTOQUIT", "FAILED"} :
        Step(n, colod_event_queue(node[n], e), << >>)
  BY DEF colod_start_migration, colod_autoquit, colod_qemu_failed
<1> QED BY <1>1, <1>2, QueueMoves DEF ColodEvent, AlwaysInterrupting

LEMMA ClientExecuteMoves ==
    ASSUME IInv, NEW n \in Daemons, ClientExecute(n)
    PROVE  Moves(n) /\ inputs' \in Nat
<1>1. NodeInv(node[n]) /\ node[n].run = "no" /\ inputs' \in Nat
  BY LoopingInv, InputsType DEF ClientExecute
<1>2. PICK result \in {"ok", "fatal"}, yanked \in BOOLEAN :
        Step(n, Checked(node[n], result, yanked), << >>)
  BY DEF ClientExecute
<1> QED BY <1>1, <1>2, CheckedInv, SilentMoves

LEMMA YankMoves ==
    ASSUME IInv, NEW n \in Daemons, colod_yank_co(n)
    PROVE  Moves(n) /\ inputs' \in Nat
<1> DEFINE s == node[n]
           y == [s EXCEPT !.did_yank = FALSE]
           q == [s EXCEPT !.qmp_error = TRUE]
<1>1. NodeInv(s) /\ s.run = "no" /\ inputs' \in Nat
  BY LoopingInv, InputsType DEF colod_yank_co
<1>2. /\ Good(y)
      /\ y.wake_source_id = s.wake_source_id /\ y.sources = s.sources
      /\ y.run = s.run /\ y.pc = s.pc /\ y.cmd = s.cmd /\ y.fired = s.fired
      /\ y.primary = s.primary /\ y.interrupting = s.interrupting
      /\ y.queue = s.queue
  BY <1>1 DEF NodeInv, Good, NodeState
<1>3. /\ Good(q)
      /\ q.wake_source_id = s.wake_source_id /\ q.sources = s.sources
      /\ q.run = s.run /\ q.pc = s.pc /\ q.cmd = s.cmd /\ q.fired = s.fired
      /\ q.primary = s.primary /\ q.interrupting = s.interrupting
      /\ q.queue = s.queue
  BY <1>1 DEF NodeInv, Good, NodeState
<1>4. \/ Step(n, colod_event_queue(y, "FAILOVER_SYNC"), << >>)
      \/ Step(n, colod_event_queue(q, "FAILED"), << >>)
  BY DEF colod_yank_co
<1> HIDE DEF y, q
<1>5. NodeInv(y) /\ y.run = "no" /\ NodeInv(q) /\ q.run = "no"
  BY <1>1, <1>2, <1>3, CallbackInv
<1>6. "FAILOVER_SYNC" \in ColodEvent /\ "FAILED" \in ColodEvent
  BY DEF ColodEvent, AlwaysInterrupting
<1> QED BY <1>1, <1>4, <1>5, <1>6, QueueMoves

LEMMA CheckHealthMoves ==
    ASSUME IInv, NEW n \in Daemons, colod_check_health_co(n)
    PROVE  Moves(n) /\ inputs' \in Nat
<1>1. NodeInv(node[n]) /\ node[n].run = "no" /\ inputs' \in Nat
  BY LoopingInv, InputsType DEF colod_check_health_co
<1>2. PICK result \in {"ok", "fatal"}, yanked \in BOOLEAN :
        \/ Step(n, colod_event_queue(Checked(node[n], result, yanked), "FAILED"), << >>)
        \/ Step(n, Checked(node[n], result, yanked), << >>)
  BY DEF colod_check_health_co
<1>3. NodeInv(Checked(node[n], result, yanked))
      /\ Checked(node[n], result, yanked).run = "no"
  BY <1>1, CheckedInv
<1>4. "FAILED" \in ColodEvent
  BY DEF ColodEvent, AlwaysInterrupting
<1> QED BY <1>1, <1>2, <1>3, <1>4, QueueMoves, SilentMoves

LEMMA ExitInv ==
    ASSUME IInv, NEW n \in Daemons, Exit(n)
    PROVE  IInv'
<1> DEFINE src == << >>
           q == << >>
           t == [node[n] EXCEPT
                   !.loop = "dead", !.pc = "done", !.run = "no", !.sources = src,
                   !.queue = q, !.wake_source_id = "none", !.cmd = FALSE,
                   !.io = FALSE, !.fired = FALSE]
<1>1. /\ node' = [node EXCEPT ![n] = Dead(@)] /\ Leave(n) /\ inputs' \in Nat
  BY InputsType DEF Exit
<1>2. node' = [node EXCEPT ![n] = t]
  BY <1>1 DEF Dead, IInv, TypeOK
<1>3. Good(node[n])
  BY DEF IInv, NodeInv
<1>4. /\ t.pc = "done" /\ t.run = "no" /\ t.wake_source_id = "none" /\ t.cmd = FALSE
      /\ t.queue = q
  BY <1>3 DEF Good, NodeState
<1>5. /\ src \in Seq({"start", "wake", "fired", "self"}) /\ q \in Seq(ColodEvent)
      /\ "done" \in Pc /\ Len(q) <= QueueSize
  BY MainAssumption DEF Pc, EndPc
<1> HIDE DEF src, q
<1>6. t \in NodeState
  BY <1>3, <1>5, ZenonT(60) DEF Good, NodeState
<1> HIDE DEF t
<1>7. "done" \notin WaitPc \cup EventPc \cup SecondaryPc \cup MigrationPc
  BY DEF WaitPc, EventPc, SecondaryPc, MigrationPc
<1>8. NodeInv(t)
  BY <1>4, <1>5, <1>6, <1>7
     DEF NodeInv, Good, WakeId, Place, Resumed, PrimaryWaitPc
<1>9. CpgInv'
  BY <1>1, LeaveInv DEF IInv, TypeOK, CpgInv
<1> QED BY <1>1, <1>2, <1>8, <1>9, NodeStepInv
-----------------------------------------------------------------------------
(***************************************************************************)
(* The theorems.                                                           *)
(***************************************************************************)
LEMMA InitNodeInv ==
    ASSUME NEW n \in Daemons, NEW primaries
    PROVE  NodeInv(InitNode(n \in primaries))
<1> DEFINE b == n \in primaries
           st == IF ~Replicating THEN "SECONDARY_STARTUP"
                 ELSE IF n \in primaries THEN "PRIMARY_COLO_RUNNING"
                 ELSE "SECONDARY_COLO_RUNNING"
           x == IF Replicating THEN AlwaysInterrupting \cup {"FAILOVER_SYNC"}
                ELSE AlwaysInterrupting
           src == IF Replicating THEN << >> ELSE <<"start">>
           pc == IF Replicating THEN "cr_event" ELSE "start"
           q == << >>
           t == [state |-> st, transitioning |-> FALSE, failed |-> FALSE,
                 peer_failed |-> FALSE, yellow |-> FALSE, peer_yellow |-> FALSE,
                 qemu_quit |-> FALSE, peer_failover |-> FALSE, primary |-> b,
                 replication |-> Replicating, peer |-> Replicating, queue |-> q,
                 interrupting |-> x, sources |-> src, wake_source_id |-> "none",
                 run |-> "no", pc |-> pc, cmd |-> FALSE, io |-> FALSE, left |-> 0,
                 fired |-> FALSE, qmp_error |-> FALSE, did_yank |-> FALSE,
                 timeout |-> "low", raise |-> "none", link |-> "green",
                 loop |-> "run"]
<1>1. InitNode(n \in primaries) = t
  BY DEF InitNode
<1>2. st \in MainState /\ b \in BOOLEAN /\ pc \in Pc /\ 0 \in Nat /\ Replicating \in BOOLEAN
  BY MainAssumption DEF MainState, Pc, EventPc
<1>3. x \in SUBSET ColodEvent
  BY DEF ColodEvent, AlwaysInterrupting
<1>4. src \in Seq({"start", "wake", "fired", "self"})
  <2>1. << >> \in Seq({"start", "wake", "fired", "self"})
        /\ <<"start">> \in Seq({"start", "wake", "fired", "self"})
    OBVIOUS
  <2> QED BY <2>1
<1>9. q \in Seq(ColodEvent) /\ Len(q) <= QueueSize
  BY MainAssumption
<1>5. pc \in {"cr_event", "start"} /\ q = << >>
  OBVIOUS
<1> HIDE DEF st, b, x, src, pc, q
<1>6. t \in NodeState
  BY <1>2, <1>3, <1>4, <1>9, ZenonT(60) DEF NodeState, LinkState
<1>7. /\ t.pc = pc /\ t.run = "no" /\ t.cmd = FALSE /\ t.fired = FALSE /\ t.queue = q
      /\ t.wake_source_id = "none"
  OBVIOUS
<1> HIDE DEF t
<1>8. pc \notin WaitPc \cup SecondaryPc \cup MigrationPc \cup {"sm_event"}
  BY <1>5 DEF WaitPc, SecondaryPc, MigrationPc
<1> QED BY <1>1, <1>5, <1>6, <1>7, <1>8, <1>9
        DEF NodeInv, Good, WakeId, Place, Resumed, PrimaryWaitPc

LEMMA InitInv ==
    ASSUME Init
    PROVE  IInv
<1>1. PICK primaries \in Startups : node = [n \in Daemons |-> InitNode(n \in primaries)]
  BY DEF Init
<1>2. \A n \in Daemons : NodeInv(node[n]) /\ node[n] \in NodeState
                           /\ Len(node[n].queue) <= QueueSize
  BY <1>1, InitNodeInv DEF NodeInv, Good
<1>3. node \in [Daemons -> NodeState]
  BY <1>1, <1>2
<1>4. CpgTypeOK /\ MarkedIsTimed
  <2>1. << >> \in Seq(Delivery)
    OBVIOUS
  <2> QED BY <2>1 DEF Init, CpgInit, CpgTypeOK, MarkedIsTimed
<1> QED BY <1>2, <1>3, <1>4 DEF IInv, TypeOK, Init

LEMMA MainCoInv ==
    ASSUME IInv, NEW n \in Daemons, MainCo(n)
    PROVE  IInv'
<1>1. Moves(n) /\ inputs' \in Nat
  BY StartMoves, EventYieldMoves, QmpEventWaitMoves, CommandYieldMoves, ArrayNextMoves,
     SecondaryStartupMoves, SecondaryWaitMoves, ColoRunningMoves, PrimaryWaitMoves,
     MigrationMoves, FailoverSyncMoves, FailoverMoves, FailedMoves, AutoquitMoves
     DEF MainCo
<1> QED BY <1>1, MovesInv

LEMMA LoopInv ==
    ASSUME IInv, NEW n \in Daemons, Loop(n)
    PROVE  IInv'
<1>1. CASE CpgDispatch(n)
  BY <1>1, CpgDispatchInv
<1>2. CASE Retransmit(n)
  BY <1>2, RetransmitNodes
<1>3. CASE \/ DispatchSource(n) \/ DispatchReply(n) \/ DispatchTimer(n)
           \/ colod_yellow_event_cb(n) \/ RaiseStart(n) \/ colod_main_free(n)
  <2>1. Moves(n) /\ inputs' \in Nat
    BY <1>3, DispatchSourceMoves, DispatchReplyMoves, DispatchTimerMoves,
       YellowEventMoves, RaiseStartMoves, MainFreeMoves
  <2> QED BY <2>1, MovesInv
<1> QED BY <1>1, <1>2, <1>3 DEF Loop

LEMMA EnvironmentInv ==
    ASSUME IInv, NEW n \in Daemons, Environment(n)
    PROVE  IInv'
<1>1. CASE \E p \in Nodes \ Daemons, m \in PeerMessages : PeerMessage(n, p, m)
  BY <1>1, PeerMessageInv
<1>2. CASE \E e \in QmpFailures \cup QmpProgress : QmpEvent(n, e)
  BY <1>2, QmpEventMoves, MovesInv
<1>3. CASE \E e \in QmpFailures \cup {"none"} : CommandSelf(n, e)
  BY <1>3, CommandSelfMoves, MovesInv
<1>4. CASE \/ colod_hup_cb(n) \/ QmpSetError(n) \/ LinkChange(n)
           \/ colod_start_migration(n) \/ colod_autoquit(n) \/ colod_qemu_failed(n)
           \/ colod_set_peer(n) \/ colod_clear_peer(n) \/ colod_quit(n)
           \/ ClientExecute(n) \/ colod_yank_co(n) \/ colod_check_health_co(n)
  <2>1. Moves(n) /\ inputs' \in Nat
    BY <1>4, FlagMoves, LinkChangeMoves, ClientMoves, ClientExecuteMoves, YankMoves,
       CheckHealthMoves, ClearPeerMoves
  <2> QED BY <2>1, MovesInv
<1> QED BY <1>1, <1>2, <1>3, <1>4 DEF Environment

LEMMA StutterInv ==
    ASSUME IInv, UNCHANGED vars
    PROVE  IInv'
  BY DEF vars, cpgVars, IInv, TypeOK, CpgTypeOK, MarkedIsTimed

\* The strengthened invariant, over which the other theorems are projections:
\* every step of every daemon keeps it, for any number of daemons, any queue
\* size, any length of the command arrays and any sequence of inputs.
THEOREM InductiveInvariant == Spec => []IInv
<1>1. Init => IInv
  BY InitInv
<1>2. IInv /\ [Next]_vars => IInv'
  <2> SUFFICES ASSUME IInv, [Next]_vars PROVE IInv'
    OBVIOUS
  <2>1. CASE UNCHANGED vars
    BY <2>1, StutterInv
  <2>2. ASSUME NEW n \in Daemons, MainCo(n) \/ Loop(n) \/ Environment(n) \/ Exit(n)
        PROVE  IInv'
    BY <2>2, MainCoInv, LoopInv, EnvironmentInv, ExitInv
  <2> QED BY <2>1, <2>2 DEF Next
<1> QED BY <1>1, <1>2, PTL DEF Spec

\* The state of every daemon and of the group keeps its type, and no event
\* queue outgrows its limit (_colod_event_queue, eventqueue_add).
THEOREM MainTypeCorrect == Spec => []TypeOK
<1>1. IInv => TypeOK
  BY DEF IInv
<1> QED BY <1>1, InductiveInvariant, PTL

\* A coroutine that yields in colod_event_wait or in a primary's wait for QMP
\* with work to do has a source attached that will resume it: the one-shot
\* wakes of _colod_event_queue are never all lost to another yield.
THEOREM WakeupsKept == Spec => []NoLostWakeup
<1>1. IInv => NoLostWakeup
  BY DEF IInv, NodeInv, Resumed, NoLostWakeup, PrimaryWaitPc, Looping
<1> QED BY <1>1, InductiveInvariant, PTL

\* A message that colod_cpg_send has marked is sent again until it comes back:
\* the timer of colod_cpg_retransmit_cb runs while a message is marked.
THEOREM MarksTimed == Spec => []MarkedIsTimed
<1>1. IInv => MarkedIsTimed
  BY DEF IInv
<1> QED BY <1>1, InductiveInvariant, PTL

\* A set of natural numbers that is not empty has a least element.
LEMMA NatMin ==
    ASSUME NEW T \in SUBSET Nat, T # {}
    PROVE  \E x \in T : \A y \in T : ~(y < x)
<1> DEFINE R == OpToRel(<, Nat)
<1>1. IsWellFoundedOn(R, Nat)
  BY NatLessThanWellFounded DEF OpToRel
<1>2. \A x, y \in Nat : y < x => <<y, x>> \in R
  BY DEF OpToRel
<1> HIDE DEF R
<1>3. \E x \in T : \A y \in T : ~(<<y, x>> \in R)
  BY <1>1, WFMin
<1> QED BY <1>2, <1>3

\* When an interrupting event is pending, the first event is one.
LEMMA FirstInterrupts ==
    ASSUME NEW s, Good(s), Interrupted(s)
    PROVE  \E i \in 1 .. Len(s.queue) :
             IsFirst(s.queue, s.interrupting, i) /\ s.queue[i] \in s.interrupting
<1> DEFINE T == InterruptingAt(s.queue, s.interrupting)
<1>1. T # {} /\ T \in SUBSET Nat
  BY DEF Interrupted, PendingInterrupt, InterruptingAt
<1>2. PICK i \in T : \A j \in T : ~(j < i)
  BY <1>1, NatMin
<1>3. s.queue \in Seq(ColodEvent)
  BY DEF Good, NodeState
<1>4. i \in 1 .. Len(s.queue) /\ s.queue[i] \in s.interrupting
  BY <1>2 DEF InterruptingAt
<1>5. \A j \in 1 .. (i - 1) : s.queue[j] \notin s.interrupting
  <2> SUFFICES ASSUME NEW j \in 1 .. (i - 1), s.queue[j] \in s.interrupting
               PROVE  FALSE
    OBVIOUS
  <2>1. j \in 1 .. Len(s.queue) /\ j < i
    BY <1>3, <1>4
  <2>2. j \in T
    BY <2>1 DEF InterruptingAt
  <2> QED BY <1>2, <2>1, <2>2
<1> QED BY <1>1, <1>4, <1>5 DEF IsFirst

\* Label handle_event of colod_primary_start_migration_co is reached, and left
\* for another wait, only with an event at the head of the queue that the code
\* there handles: its assertion holds, and the abort() of
\* handle_always_interrupting is not reached from it.
THEOREM MigrationEventKnown == Spec => []MigrationInterrupted
<1>1. ASSUME IInv PROVE MigrationInterrupted
  <2> SUFFICES ASSUME NEW n \in Daemons, node[n].pc = "sm_event"
               PROVE  \E i \in 1 .. Len(node[n].queue) :
                        /\ IsFirst(node[n].queue, node[n].interrupting, i)
                        /\ node[n].queue[i] \in AlwaysInterrupting \cup {"FAILOVER_SYNC"}
    BY DEF MigrationInterrupted
  <2>1. /\ Good(node[n]) /\ Interrupted(node[n])
        /\ node[n].interrupting = AlwaysInterrupting \cup {"FAILOVER_SYNC"}
    BY <1>1 DEF IInv, NodeInv, Place, SyncInterrupting
  <2>2. PICK i \in 1 .. Len(node[n].queue) :
          /\ IsFirst(node[n].queue, node[n].interrupting, i)
          /\ node[n].queue[i] \in node[n].interrupting
    BY <2>1, FirstInterrupts
  <2> QED BY <2>1, <2>2
<1> QED BY <1>1, InductiveInvariant, PTL
-----------------------------------------------------------------------------
(***************************************************************************)
(* The failure of a daemon: it is final, and it is announced.  Of the      *)
(* state of a daemon only the fields FailFields matter here, and most of   *)
(* the functions leave them alone (Like).                                  *)
(***************************************************************************)
FailFields == {"state", "failed", "peer_failed", "loop", "pc"}

Rec(s) == FailFields \subseteq DOMAIN s

Like(s, t) ==
    /\ Rec(t) /\ t.state = s.state /\ t.failed = s.failed
    /\ t.peer_failed = s.peer_failed /\ t.loop = s.loop

\* Where a daemon that has failed can be, and one that has not yet replicated.
FailedPc == {"failed_stop", "failed_event", "aq_event"} \cup EndPc
FailedState == {"FAILED", "AUTOQUIT", "QUIT"}
EarlyPc == {"start", "startup", "sw_resume", "sw_event"}

Lost(s) == s.pc \in FailedPc /\ s.state \in FailedState

FailPlace(s) == s.failed => Lost(s)

\* A step from s to t in which the messages msgs are sent.
Advances(s, t, msgs) ==
    /\ s.failed => t.failed /\ Lost(t)
    /\ t.failed => s.failed \/ (Lost(t) /\ "FAILED" \in ToSet(msgs))
    /\ t.pc \in EarlyPc => s.pc \in EarlyPc
    /\ t.loop \in {"run", "quit"} => s.loop \in {"run", "quit"}
    /\ t.loop = "dead" <=> s.loop = "dead"

\* The failure of the peer is not forgotten.
Remembers(s, t) == s.peer_failed /\ s.pc \notin EarlyPc => t.peer_failed

Tracks(n) ==
    \E t : \E msgs \in Seq(ColodMessage) :
        Step(n, t, msgs) /\ Advances(node[n], t, msgs) /\ Remembers(node[n], t)

LEMMA LikeQueue ==
    ASSUME NEW s, Rec(s), NEW e
    PROVE  Like(s, colod_event_queue(s, e)) /\ colod_event_queue(s, e).pc = s.pc
  BY DEF Rec, FailFields, Like, colod_event_queue

LEMMA LikeYield ==
    ASSUME NEW s, Rec(s)
    PROVE  Like(s, Yield(s)) /\ Yield(s).pc = s.pc
  BY DEF Rec, FailFields, Like, Yield

LEMMA LikeWaitEvent ==
    ASSUME NEW s, Rec(s), NEW pc
    PROVE  Like(s, WaitEvent(s, pc)) /\ WaitEvent(s, pc).pc = pc
<1> DEFINE t == [s EXCEPT !.pc = pc, !.fired = FALSE]
<1>1. Like(s, t) /\ t.pc = pc
  BY DEF Rec, FailFields, Like
<1> HIDE DEF t
<1> QED BY <1>1, LikeYield DEF WaitEvent, Like, t

LEMMA LikeExecute ==
    ASSUME NEW s, Rec(s), NEW pc
    PROVE  Like(s, Execute(s, pc)) /\ Execute(s, pc).pc = pc
  BY DEF Rec, FailFields, Like, Execute

LEMMA LikeExecuteArray ==
    ASSUME NEW s, Rec(s), NEW pc
    PROVE  Like(s, ExecuteArray(s, pc)) /\ ExecuteArray(s, pc).pc = pc
  BY DEF Rec, FailFields, Like, ExecuteArray

LEMMA LikeRaiseTimeout ==
    ASSUME NEW s, Rec(s)
    PROVE  Like(s, RaiseTimeout(s)) /\ RaiseTimeout(s).pc = s.pc
  BY DEF Rec, FailFields, Like, RaiseTimeout

LEMMA LikeEndWait ==
    ASSUME NEW s, Rec(s)
    PROVE  Like(s, EndWait(s)) /\ EndWait(s).pc = s.pc
  BY DEF Rec, FailFields, Like, EndWait

LEMMA LikeWithout ==
    ASSUME NEW n, Rec(node[n]), NEW i
    PROVE  Like(node[n], Without(n, i)) /\ Without(n, i).pc = node[n].pc
  BY DEF Rec, FailFields, Like, Without, Woken

LEMMA LikeChecked ==
    ASSUME NEW s, Rec(s), NEW result, NEW yanked
    PROVE  /\ Like(s, Checked(s, result, yanked))
           /\ Checked(s, result, yanked).pc = s.pc
<1> DEFINE u == [s EXCEPT !.qmp_error = TRUE]
           v == [s EXCEPT !.did_yank = FALSE]
<1>1. Like(s, u) /\ Like(s, v) /\ u.pc = s.pc /\ v.pc = s.pc
  BY DEF Rec, FailFields, Like
<1>2. Checked(s, result, yanked) \in
        {colod_event_queue(u, "FAILED"), colod_event_queue(v, "FAILOVER_SYNC"), s}
  BY DEF Checked
<1> HIDE DEF u, v
<1>3. /\ Like(u, colod_event_queue(u, "FAILED"))
      /\ colod_event_queue(u, "FAILED").pc = u.pc
      /\ Like(v, colod_event_queue(v, "FAILOVER_SYNC"))
      /\ colod_event_queue(v, "FAILOVER_SYNC").pc = v.pc
  BY <1>1, LikeQueue DEF Like
<1> QED BY <1>1, <1>2, <1>3 DEF Like

LEMMA LikeExecuted ==
    ASSUME NEW s, Rec(s), NEW result, NEW yanked
    PROVE  /\ Like(s, Executed(s, result, yanked))
           /\ Executed(s, result, yanked).pc = s.pc
<1> DEFINE u == [s EXCEPT !.cmd = FALSE, !.io = FALSE]
<1>1. Like(s, u) /\ u.pc = s.pc
  BY DEF Rec, FailFields, Like
<1>2. Executed(s, result, yanked) = Checked(u, result, yanked)
  BY DEF Executed
<1> HIDE DEF u
<1> QED BY <1>1, <1>2, LikeChecked DEF Like

LEMMA LikeFinish ==
    ASSUME NEW s, Rec(s)
    PROVE  /\ Finish(s).pc \in EndPc /\ Finish(s).state = "QUIT"
           /\ Finish(s).failed = s.failed /\ Finish(s).peer_failed = s.peer_failed
           /\ Finish(s).loop = s.loop
  BY DEF Rec, FailFields, Finish, EndPc

FailEntry == {"FAILED", "FAILED_PEER_FAILOVER", "AUTOQUIT"}

\* A state is entered: a failed one with its announcement.
LEMMA EnterFields ==
    ASSUME NEW s, Rec(s), NEW st \in MainState
    PROVE  LET t == EnterState(s, st)
           IN  /\ t.peer_failed = s.peer_failed /\ t.loop = s.loop
               /\ t.pc \in EarlyPc => st \in {"SECONDARY_STARTUP", "SECONDARY_WAIT"}
               /\ st \in FailEntry => t.failed /\ Lost(t)
               /\ st \notin FailEntry => t.failed = s.failed
               /\ st = "QUIT" => Lost(t)
<1> DEFINE t == [s EXCEPT !.transitioning = FALSE, !.state = st, !.left = 0]
           colo == [t EXCEPT !.replication = TRUE,
                             !.interrupting = AlwaysInterrupting \cup {"FAILOVER_SYNC"}]
           r == EnterState(s, st)
           Same(u) == /\ Rec(u) /\ u.peer_failed = s.peer_failed /\ u.loop = s.loop
                      /\ u.failed = s.failed
<1>1. Same(t) /\ t.state = st
  BY DEF Rec, FailFields
<1>2. Same(colo)
  BY DEF Rec, FailFields
<1> HIDE DEF t, colo
<1>3. CASE st = "SECONDARY_STARTUP"
  <2>1. r = Execute(t, "startup")
    BY <1>3 DEF EnterState, t
  <2> QED BY <1>1, <1>3, <2>1, LikeExecute DEF Like, FailEntry
<1>4. CASE st = "SECONDARY_WAIT"
  <2> DEFINE u == [t EXCEPT !.interrupting = AlwaysInterrupting \cup
                      {"FAILOVER_SYNC", "FAILOVER_WIN", "YELLOW", "UNYELLOW"}]
  <2>1. r = WaitEvent(u, "sw_resume")
    BY <1>4 DEF EnterState, t
  <2>2. Same(u)
    BY <1>1 DEF Rec, FailFields
  <2> HIDE DEF u
  <2> QED BY <1>4, <2>1, <2>2, LikeWaitEvent DEF Like, FailEntry
<1>5. CASE st \in {"SECONDARY_COLO_RUNNING", "PRIMARY_COLO_RUNNING"}
  <2>1. r = IF s.primary THEN WaitEvent(colo, "cr_resume1")
            ELSE [colo EXCEPT !.pc = "cr_event"]
    BY <1>5 DEF EnterState, t, colo
  <2>2. Same([colo EXCEPT !.pc = "cr_event"])
        /\ [colo EXCEPT !.pc = "cr_event"].pc = "cr_event"
    BY <1>2 DEF Rec, FailFields
  <2>3. Same(WaitEvent(colo, "cr_resume1")) /\ WaitEvent(colo, "cr_resume1").pc = "cr_resume1"
    BY <1>2, LikeWaitEvent DEF Like
  <2> QED BY <1>5, <2>1, <2>2, <2>3 DEF FailEntry, EarlyPc
<1>6. CASE st \in {"PRIMARY_STARTUP", "PRIMARY_WAIT"}
  <2>1. r = [t EXCEPT !.state = "PRIMARY_WAIT", !.primary = TRUE,
                      !.replication = FALSE, !.pc = "pw_event"]
    BY <1>6 DEF EnterState, t
  <2>2. Same(r) /\ r.pc = "pw_event"
    BY <1>1, <2>1 DEF Rec, FailFields
  <2> QED BY <1>6, <2>2 DEF FailEntry, EarlyPc
<1>7. CASE st = "PRIMARY_START_MIGRATION"
  <2> DEFINE u == [t EXCEPT !.interrupting = AlwaysInterrupting \cup {"FAILOVER_SYNC"}]
  <2>1. r = Execute(u, "sm_caps")
    BY <1>7 DEF EnterState, t
  <2>2. Same(u)
    BY <1>1 DEF Rec, FailFields
  <2> HIDE DEF u
  <2> QED BY <1>7, <2>1, <2>2, LikeExecute DEF Like, FailEntry, EarlyPc
<1>8. CASE st = "FAILOVER_SYNC"
  <2>1. r = [t EXCEPT !.pc = "fs_event"]
    BY <1>8 DEF EnterState, t
  <2>2. Same(r) /\ r.pc = "fs_event"
    BY <1>1, <2>1 DEF Rec, FailFields
  <2> QED BY <1>8, <2>2 DEF FailEntry, EarlyPc
<1>9. CASE st = "FAILOVER"
  <2> DEFINE u == [t EXCEPT !.interrupting = AlwaysInterrupting]
  <2>1. r = Execute(u, "fo_yank")
    BY <1>9 DEF EnterState, t
  <2>2. Same(u)
    BY <1>1 DEF Rec, FailFields
  <2> HIDE DEF u
  <2> QED BY <1>9, <2>1, <2>2, LikeExecute DEF Like, FailEntry, EarlyPc
<1>10. CASE st \in {"FAILED", "FAILED_PEER_FAILOVER"}
  <2> DEFINE u == [t EXCEPT !.state = "FAILED", !.failed = TRUE,
                            !.peer_failover = @ \/ st = "FAILED_PEER_FAILOVER",
                            !.timeout = "low"]
  <2>1. r = Execute(u, "failed_stop")
    BY <1>10 DEF EnterState, t
  <2>2. /\ Rec(u) /\ u.peer_failed = s.peer_failed /\ u.loop = s.loop
        /\ u.failed = TRUE /\ u.state = "FAILED"
    BY <1>1 DEF Rec, FailFields
  <2> HIDE DEF u
  <2> QED BY <1>10, <2>1, <2>2, LikeExecute
          DEF Like, FailEntry, EarlyPc, Lost, FailedPc, FailedState
<1>11. CASE st = "AUTOQUIT"
  <2>1. r = [t EXCEPT !.failed = TRUE, !.pc = "aq_event"]
    BY <1>11 DEF EnterState, t
  <2>2. /\ r.peer_failed = s.peer_failed /\ r.loop = s.loop
        /\ r.failed = TRUE /\ r.state = "AUTOQUIT" /\ r.pc = "aq_event"
    BY <1>1, <1>11, <2>1 DEF Rec, FailFields
  <2> QED BY <1>11, <2>2 DEF FailEntry, EarlyPc, Lost, FailedPc, FailedState
<1>12. CASE st = "QUIT"
  <2>1. r = Finish(t)
    BY <1>12 DEF EnterState, t
  <2> QED BY <1>1, <1>12, <2>1, LikeFinish
          DEF FailEntry, EarlyPc, Lost, FailedPc, FailedState, EndPc
<1> QED
  BY <1>3, <1>4, <1>5, <1>6, <1>7, <1>8, <1>9, <1>10, <1>11, <1>12 DEF MainState

LEMMA EnterAnnounces ==
    ASSUME NEW st \in MainState
    PROVE  /\ EnterMessages(st) \in Seq(ColodMessage)
           /\ st \in FailEntry => "FAILED" \in ToSet(EnterMessages(st))
<1>1. << >> \in Seq(ColodMessage) /\ <<"FAILOVER">> \in Seq(ColodMessage)
      /\ <<"FAILED">> \in Seq(ColodMessage)
  BY DEF ColodMessage
<1>2. "FAILED" \in ToSet(<<"FAILED">>)
  BY DEF ToSet
<1> QED BY <1>1, <1>2 DEF EnterMessages, FailEntry

\* The state a step starts from.
LEMMA FromNode ==
    ASSUME IInv, NEW n \in Daemons
    PROVE  Rec(node[n])
  BY DEF IInv, TypeOK, NodeState, Rec, FailFields

\* Nothing of this changes.
LEMMA SamePlace ==
    ASSUME NEW n, NEW t, Rec(node[n]), FailPlace(node[n]), Step(n, t, << >>),
           Like(node[n], t), t.pc = node[n].pc
    PROVE  Tracks(n)
<1>1. << >> \in Seq(ColodMessage)
  OBVIOUS
<1>2. Advances(node[n], t, << >>) /\ Remembers(node[n], t)
  BY DEF FailPlace, Like, Advances, Remembers, Lost
<1> QED BY <1>1, <1>2 DEF Tracks

\* A daemon that has not failed goes to another place.
LEMMA OtherPlace ==
    ASSUME NEW n, NEW t, Rec(node[n]), ~node[n].failed, Step(n, t, << >>),
           Like(node[n], t), t.pc \in EarlyPc => node[n].pc \in EarlyPc
    PROVE  Tracks(n)
<1>1. << >> \in Seq(ColodMessage)
  OBVIOUS
<1>2. Advances(node[n], t, << >>) /\ Remembers(node[n], t)
  BY DEF Like, Advances, Remembers
<1> QED BY <1>1, <1>2 DEF Tracks

\* A daemon enters another state: a failed one only such a state.
LEMMA GotoTracks ==
    ASSUME NEW n, NEW s, Rec(node[n]), Like(node[n], s), NEW st \in MainState,
           Goto(n, s, st),
           node[n].failed => st \in {"QUIT", "AUTOQUIT"},
           st \in {"SECONDARY_STARTUP", "SECONDARY_WAIT"} => node[n].pc \in EarlyPc
    PROVE  Tracks(n)
<1> DEFINE t == EnterState(s, st)
           msgs == EnterMessages(st)
<1>1. Step(n, t, msgs)
  BY DEF Goto
<1>2. Rec(s) /\ s.failed = node[n].failed /\ s.peer_failed = node[n].peer_failed
      /\ s.loop = node[n].loop
  BY DEF Like
<1>3. /\ t.peer_failed = s.peer_failed /\ t.loop = s.loop
      /\ t.pc \in EarlyPc => st \in {"SECONDARY_STARTUP", "SECONDARY_WAIT"}
      /\ st \in FailEntry => t.failed /\ Lost(t)
      /\ st \notin FailEntry => t.failed = s.failed
      /\ st = "QUIT" => Lost(t)
  BY <1>2, EnterFields
<1>4. msgs \in Seq(ColodMessage) /\ (st \in FailEntry => "FAILED" \in ToSet(msgs))
  BY EnterAnnounces
<1> HIDE DEF t, msgs
<1>5. Advances(node[n], t, msgs)
  BY <1>2, <1>3, <1>4 DEF Advances, FailEntry
<1>6. Remembers(node[n], t)
  BY <1>2, <1>3 DEF Remembers
<1> QED BY <1>1, <1>4, <1>5, <1>6 DEF Tracks

LEMMA HandleState ==
    \A e \in AlwaysInterrupting : handle_always_interrupting(e) \in MainState
        /\ handle_always_interrupting(e) \notin {"SECONDARY_STARTUP", "SECONDARY_WAIT"}
  BY DEF AlwaysInterrupting, handle_always_interrupting, MainState
-----------------------------------------------------------------------------
(* The steps of the coroutine. *)

LEMMA StartTracks ==
    ASSUME NEW n, Rec(node[n]), FailPlace(node[n]), Start(n)
    PROVE  Tracks(n)
<1> DEFINE s == node[n]
           st == IF s.primary THEN "PRIMARY_STARTUP" ELSE "SECONDARY_STARTUP"
           t == EnterState(s, st)
<1>1. s.pc = "start" /\ Step(n, t, <<"HELLO">>)
  BY DEF Start
<1>2. ~s.failed /\ s.pc \in EarlyPc
  BY <1>1 DEF FailPlace, Lost, FailedPc, EndPc, EarlyPc
<1>3. st \in MainState /\ st \notin FailEntry
  BY DEF MainState, FailEntry
<1>4. t.peer_failed = s.peer_failed /\ t.loop = s.loop /\ t.failed = s.failed
  BY <1>3, EnterFields
<1>5. <<"HELLO">> \in Seq(ColodMessage)
  BY DEF ColodMessage
<1> HIDE DEF t
<1>6. Advances(s, t, <<"HELLO">>) /\ Remembers(s, t)
  BY <1>2, <1>4 DEF Advances, Remembers
<1> QED BY <1>1, <1>5, <1>6 DEF Tracks

LEMMA EventYieldTracks ==
    ASSUME NEW n, Rec(node[n]), FailPlace(node[n]), EventYield(n)
    PROVE  Tracks(n)
<1> DEFINE u == Woken(node[n])
<1>1. Like(node[n], u) /\ u.pc = node[n].pc
  BY DEF Woken, Rec, FailFields, Like
<1>2. Step(n, Yield(u), << >>)
  BY DEF EventYield, Continue
<1> HIDE DEF u
<1>3. Like(node[n], Yield(u)) /\ Yield(u).pc = node[n].pc
  BY <1>1, LikeYield DEF Like
<1> QED BY <1>2, <1>3, SamePlace

LEMMA QmpEventWaitTracks ==
    ASSUME NEW n, Rec(node[n]), FailPlace(node[n]), QmpEventWait(n)
    PROVE  Tracks(n)
<1> DEFINE s == node[n]
           a == [Yield(s) EXCEPT !.pc = "abort"]
           b == WaitEvent(s, s.pc)
<1>1. s.pc \in WaitPc /\ (Step(n, a, << >>) \/ Step(n, b, << >>))
  BY DEF QmpEventWait, Continue
<1>2. ~s.failed
  BY <1>1 DEF FailPlace, Lost, FailedPc, EndPc, WaitPc
<1>3. Like(s, a) /\ a.pc = "abort"
  <2> DEFINE y == Yield(s)
  <2>1. Like(s, y)
    BY LikeYield
  <2> HIDE DEF y
  <2>2. Like(s, [y EXCEPT !.pc = "abort"]) /\ [y EXCEPT !.pc = "abort"].pc = "abort"
    BY <2>1 DEF Like, Rec, FailFields
  <2> QED BY <2>2 DEF y
<1>4. Like(s, b) /\ b.pc = s.pc
  BY LikeWaitEvent
<1> HIDE DEF a, b
<1> QED BY <1>1, <1>2, <1>3, <1>4, OtherPlace DEF EarlyPc

LEMMA CommandYieldTracks ==
    ASSUME NEW n, Rec(node[n]), FailPlace(node[n]), CommandYield(n)
    PROVE  Tracks(n)
<1> DEFINE y == Yield(node[n])
           t == [y EXCEPT !.io = TRUE]
<1>1. Like(node[n], y) /\ y.pc = node[n].pc
  BY LikeYield
<1>2. Step(n, t, << >>)
  BY DEF CommandYield, Continue
<1> HIDE DEF y
<1>3. Like(node[n], t) /\ t.pc = node[n].pc
  BY <1>1 DEF Like, Rec, FailFields
<1> HIDE DEF t
<1> QED BY <1>2, <1>3, SamePlace

\* A command at pc has returned.
LEMMA AfterReturn ==
    ASSUME NEW n, Rec(node[n]), NEW pc, NEW result, NEW yanked,
           Returns(n, pc, result, yanked)
    PROVE  /\ node[n].pc = pc
           /\ Like(node[n], Executed(node[n], result, yanked))
           /\ Executed(node[n], result, yanked).pc = pc
  BY LikeExecuted DEF Returns

LEMMA NotYetFailed ==
    ASSUME NEW s, FailPlace(s), s.pc \notin FailedPc
    PROVE  ~s.failed
  BY DEF FailPlace, Lost

LEMMA SecondaryStartupTracks ==
    ASSUME NEW n, Rec(node[n]), FailPlace(node[n]), colod_secondary_startup_co(n)
    PROVE  Tracks(n)
<1>1. PICK result \in {"ok", "error", "fatal"}, yanked \in BOOLEAN :
        /\ Returns(n, "startup", result, yanked)
        /\ Goto(n, Executed(node[n], result, yanked),
                IF result = "ok" THEN "SECONDARY_WAIT" ELSE "FAILED")
  BY DEF colod_secondary_startup_co
<1>2. node[n].pc = "startup" /\ Like(node[n], Executed(node[n], result, yanked))
  BY <1>1, AfterReturn
<1>3. ~node[n].failed /\ node[n].pc \in EarlyPc
  BY <1>2, NotYetFailed DEF FailedPc, EndPc, EarlyPc
<1>4. {"SECONDARY_WAIT", "FAILED"} \subseteq MainState
  BY DEF MainState
<1> QED BY <1>1, <1>2, <1>3, <1>4, GotoTracks

LEMMA SecondaryDiscardTracks ==
    ASSUME NEW n, Rec(node[n]), FailPlace(node[n]), SecondaryDiscard(n)
    PROVE  Tracks(n)
<1> DEFINE W(i) == Without(n, i)
           E(i) == node[n].queue[i]
           u(i) == IF E(i) = "FAILOVER_SYNC" THEN [W(i) EXCEPT !.peer_failed = FALSE] ELSE W(i)
<1>1. PICK i \in 1 .. Len(node[n].queue) :
        /\ node[n].pc = "sw_event"
        /\ IF E(i) \in AlwaysInterrupting
           THEN Goto(n, W(i), handle_always_interrupting(E(i)))
           ELSE Step(n, WaitEvent(u(i), "sw_resume"), << >>)
  BY DEF SecondaryDiscard, Gets
<1>2. ~node[n].failed /\ node[n].pc \in EarlyPc
  BY <1>1, NotYetFailed DEF FailedPc, EndPc, EarlyPc
<1>3. Like(node[n], W(i))
  BY LikeWithout
<1> HIDE DEF W, E
<1>4. CASE E(i) \in AlwaysInterrupting
  BY <1>1, <1>2, <1>3, <1>4, GotoTracks, HandleState
<1>5. CASE E(i) \notin AlwaysInterrupting
  <2> DEFINE t == WaitEvent(u(i), "sw_resume")
  <2>1. Rec(u(i)) /\ u(i).failed = node[n].failed /\ u(i).loop = node[n].loop
    BY <1>3 DEF Like, Rec, FailFields
  <2> HIDE DEF u
  <2>2. t.failed = node[n].failed /\ t.loop = node[n].loop
    BY <2>1, LikeWaitEvent DEF Like
  <2>3. Step(n, t, << >>)
    BY <1>1, <1>5
  <2> HIDE DEF t
  <2>4. Advances(node[n], t, << >>) /\ Remembers(node[n], t)
    BY <1>2, <2>2 DEF Advances, Remembers
  <2>5. << >> \in Seq(ColodMessage)
    OBVIOUS
  <2> QED BY <2>3, <2>4, <2>5 DEF Tracks
<1> QED BY <1>4, <1>5

LEMMA SecondaryWaitTracks ==
    ASSUME NEW n, Rec(node[n]), FailPlace(node[n]), colod_secondary_wait_co(n)
    PROVE  Tracks(n)
<1> DEFINE s == node[n]
           w == EndWait(s)
<1>1. Like(s, w) /\ w.pc = s.pc
  BY LikeEndWait
<1>2. s.pc = "sw_resume" => ~s.failed /\ s.pc \in EarlyPc
  BY NotYetFailed DEF FailedPc, EndPc, EarlyPc
<1>3. CASE Awaited(n, "sw_resume", "event") /\ Goto(n, RaiseTimeout(w), "SECONDARY_COLO_RUNNING")
  <2>1. s.pc = "sw_resume"
    BY <1>3 DEF Awaited
  <2> HIDE DEF w
  <2>2. Like(s, RaiseTimeout(w))
    BY <1>1, LikeRaiseTimeout DEF Like
  <2>3. "SECONDARY_COLO_RUNNING" \in MainState
    BY DEF MainState
  <2> QED BY <1>2, <1>3, <2>1, <2>2, <2>3, GotoTracks
<1>4. CASE Awaited(n, "sw_resume", "interrupt") /\ Continue(n, [w EXCEPT !.pc = "sw_event"])
  <2>1. s.pc = "sw_resume"
    BY <1>4 DEF Awaited
  <2> HIDE DEF w
  <2> DEFINE t == [w EXCEPT !.pc = "sw_event"]
  <2>2. Like(s, t)
    BY <1>1 DEF Like, Rec, FailFields
  <2>3. Step(n, t, << >>)
    BY <1>4 DEF Continue
  <2> HIDE DEF t
  <2> QED BY <1>2, <2>1, <2>2, <2>3, OtherPlace
<1>5. CASE SecondaryDiscard(n)
  BY <1>5, SecondaryDiscardTracks
<1> QED BY <1>3, <1>4, <1>5 DEF colod_secondary_wait_co

LEMMA ColoRunningEventTracks ==
    ASSUME NEW n, Rec(node[n]), FailPlace(node[n]), ColoRunningEvent(n)
    PROVE  Tracks(n)
<1> DEFINE W(i) == Without(n, i)
           E(i) == node[n].queue[i]
<1>1. PICK i \in 1 .. Len(node[n].queue) :
        /\ node[n].pc = "cr_event"
        /\ \/ Goto(n, W(i), "FAILOVER_SYNC")
           \/ E(i) \in AlwaysInterrupting
              /\ Goto(n, W(i), handle_always_interrupting(E(i)))
           \/ Goto(n, W(i), "FAILED")
           \/ Step(n, W(i), << >>)
  BY DEF ColoRunningEvent, Gets
<1>2. ~node[n].failed
  BY <1>1, NotYetFailed DEF FailedPc, EndPc
<1>3. Like(node[n], W(i)) /\ W(i).pc = node[n].pc
  BY LikeWithout
<1>4. {"FAILOVER_SYNC", "FAILED"} \subseteq MainState
  BY DEF MainState
<1> HIDE DEF W, E
<1>5. CASE Goto(n, W(i), "FAILOVER_SYNC") \/ Goto(n, W(i), "FAILED")
  BY <1>2, <1>3, <1>4, <1>5, GotoTracks
<1>6. CASE E(i) \in AlwaysInterrupting /\ Goto(n, W(i), handle_always_interrupting(E(i)))
  BY <1>2, <1>3, <1>6, GotoTracks, HandleState
<1>7. CASE Step(n, W(i), << >>)
  BY <1>3, <1>7, SamePlace
<1> QED BY <1>1, <1>5, <1>6, <1>7

LEMMA ColoRunningTracks ==
    ASSUME NEW n, Rec(node[n]), FailPlace(node[n]), colod_colo_running_co(n)
    PROVE  Tracks(n)
<1> DEFINE s == node[n]
           w == EndWait(s)
<1>1. Like(s, w) /\ w.pc = s.pc
  BY LikeEndWait
<1>2. s.pc \in {"cr_resume1", "cr_resume2", "cr_timer"} => ~s.failed
  BY NotYetFailed DEF FailedPc, EndPc
<1> HIDE DEF w
<1>3. CASE ColoRunningEvent(n)
  BY <1>3, ColoRunningEventTracks
<1>4. CASE /\ Awaited(n, "cr_resume1", "event")
           /\ Continue(n, WaitEvent(w, "cr_resume2"))
  <2>1. s.pc = "cr_resume1" /\ Step(n, WaitEvent(w, "cr_resume2"), << >>)
    BY <1>4 DEF Awaited, Continue
  <2>2. Like(s, WaitEvent(w, "cr_resume2")) /\ WaitEvent(w, "cr_resume2").pc = "cr_resume2"
    BY <1>1, LikeWaitEvent DEF Like
  <2> QED BY <1>2, <2>1, <2>2, OtherPlace DEF EarlyPc
<1>5. CASE /\ Awaited(n, "cr_resume2", "event")
           /\ Continue(n, Yield([w EXCEPT !.pc = "cr_timer"]))
  <2> DEFINE u == [w EXCEPT !.pc = "cr_timer"]
  <2>1. s.pc = "cr_resume2" /\ Step(n, Yield(u), << >>)
    BY <1>5 DEF Awaited, Continue
  <2>2. Like(s, u) /\ u.pc = "cr_timer"
    BY <1>1 DEF Like, Rec, FailFields
  <2> HIDE DEF u
  <2>3. Like(s, Yield(u)) /\ Yield(u).pc = "cr_timer"
    BY <2>2, LikeYield DEF Like
  <2> QED BY <1>2, <2>1, <2>3, OtherPlace DEF EarlyPc
<1>6. CASE /\ \E pc \in {"cr_resume1", "cr_resume2"} : Awaited(n, pc, "interrupt")
           /\ Continue(n, [w EXCEPT !.pc = "cr_event"])
  <2> DEFINE u == [w EXCEPT !.pc = "cr_event"]
  <2>1. s.pc \in {"cr_resume1", "cr_resume2"} /\ Step(n, u, << >>)
    BY <1>6 DEF Awaited, Continue
  <2>2. Like(s, u) /\ u.pc = "cr_event"
    BY <1>1 DEF Like, Rec, FailFields
  <2> HIDE DEF u
  <2> QED BY <1>2, <2>1, <2>2, OtherPlace DEF EarlyPc
<1>7. CASE s.pc = "cr_timer" /\ Goto(n, s, "FAILED")
  <2>1. "FAILED" \in MainState /\ Like(s, s)
    BY DEF MainState, Like
  <2> QED BY <1>2, <1>7, <2>1, GotoTracks
<1>8. CASE s.pc = "cr_timer" /\ Step(n, [s EXCEPT !.pc = "cr_event"], << >>)
  <2> DEFINE u == [s EXCEPT !.pc = "cr_event"]
  <2>1. Like(s, u) /\ u.pc = "cr_event"
    BY DEF Like, Rec, FailFields
  <2> HIDE DEF u
  <2> QED BY <1>2, <1>8, <2>1, OtherPlace DEF EarlyPc, u
<1> QED BY <1>3, <1>4, <1>5, <1>6, <1>7, <1>8 DEF colod_colo_running_co, w

LEMMA PrimaryWaitTracks ==
    ASSUME NEW n, Rec(node[n]), FailPlace(node[n]), colod_primary_wait_co(n)
    PROVE  Tracks(n)
<1> DEFINE W(i) == Without(n, i)
<1>1. PICK i \in 1 .. Len(node[n].queue) :
        /\ node[n].pc = "pw_event"
        /\ \/ \E st \in {"PRIMARY_START_MIGRATION", "FAILED", "QUIT", "AUTOQUIT"} :
                Goto(n, W(i), st)
           \/ Step(n, W(i), << >>)
  BY DEF colod_primary_wait_co, Gets
<1>2. ~node[n].failed
  BY <1>1, NotYetFailed DEF FailedPc, EndPc
<1>3. Like(node[n], W(i)) /\ W(i).pc = node[n].pc
  BY LikeWithout
<1>4. {"PRIMARY_START_MIGRATION", "FAILED", "QUIT", "AUTOQUIT"} \subseteq MainState
  BY DEF MainState
<1> HIDE DEF W
<1>5. ASSUME NEW st \in {"PRIMARY_START_MIGRATION", "FAILED", "QUIT", "AUTOQUIT"},
             Goto(n, W(i), st)
      PROVE  Tracks(n)
  BY <1>2, <1>3, <1>4, <1>5, GotoTracks
<1>6. CASE Step(n, W(i), << >>)
  BY <1>3, <1>6, SamePlace
<1> QED BY <1>1, <1>5, <1>6

LEMMA MigrationErrorTracks ==
    ASSUME NEW n, NEW s, NEW result, Rec(node[n]), Like(node[n], s), ~node[n].failed,
           MigrationError(n, s, result)
    PROVE  Tracks(n)
<1>1. CASE Step(n, Execute(s, "sm_cancel"), << >>)
  <2>1. Like(node[n], Execute(s, "sm_cancel")) /\ Execute(s, "sm_cancel").pc = "sm_cancel"
    BY LikeExecute DEF Like
  <2> QED BY <1>1, <2>1, OtherPlace DEF EarlyPc
<1>2. CASE Goto(n, s, "FAILED")
  BY <1>2, GotoTracks DEF MainState
<1> QED BY <1>1, <1>2 DEF MigrationError

\* The coroutine goes on at pc.
LEMMA AtPlace ==
    ASSUME NEW n, NEW s, NEW pc, Rec(node[n]), Like(node[n], s), ~node[n].failed,
           pc \notin EarlyPc, Step(n, [s EXCEPT !.pc = pc], << >>)
    PROVE  Tracks(n)
<1> DEFINE t == [s EXCEPT !.pc = pc]
<1>1. Like(node[n], t) /\ t.pc = pc
  BY DEF Like, Rec, FailFields
<1> HIDE DEF t
<1> QED BY <1>1, OtherPlace DEF t

LEMMA MigrationCommandsTracks ==
    ASSUME NEW n, Rec(node[n]), FailPlace(node[n]), MigrationCommands(n)
    PROVE  Tracks(n)
<1> DEFINE S(result, yanked) == Executed(node[n], result, yanked)
<1>1. PICK pc \in {"sm_caps", "sm_start", "sm_switch"},
           result \in {"ok", "error", "fatal"}, yanked \in BOOLEAN :
        /\ Returns(n, pc, result, yanked)
        /\ \/ MigrationError(n, S(result, yanked), result)
           \/ Step(n, S(result, yanked), << >>)
           \/ Step(n, [S(result, yanked) EXCEPT !.pc = "sm_event"], << >>)
           \/ Step(n, ExecuteArray(S(result, yanked), "sm_start"), << >>)
  BY DEF MigrationCommands
<1> DEFINE s == S(result, yanked)
<1>2. node[n].pc = pc /\ Like(node[n], s) /\ s.pc = node[n].pc
  BY <1>1, AfterReturn
<1>3. ~node[n].failed
  BY <1>2, NotYetFailed DEF FailedPc, EndPc
<1> HIDE DEF S
<1>4. CASE MigrationError(n, s, result)
  BY <1>2, <1>3, <1>4, MigrationErrorTracks
<1>5. CASE Step(n, s, << >>)
  BY <1>2, <1>5, SamePlace
<1>6. CASE Step(n, [s EXCEPT !.pc = "sm_event"], << >>)
  BY <1>2, <1>3, <1>6, AtPlace DEF EarlyPc
<1>7. CASE Step(n, ExecuteArray(s, "sm_start"), << >>)
  <2>1. Like(node[n], ExecuteArray(s, "sm_start")) /\ ExecuteArray(s, "sm_start").pc = "sm_start"
    BY <1>2, LikeExecuteArray DEF Like
  <2> QED BY <1>3, <1>7, <2>1, OtherPlace DEF EarlyPc
<1> QED BY <1>1, <1>4, <1>5, <1>6, <1>7

LEMMA ArrayNextTracks ==
    ASSUME NEW n, Rec(node[n]), FailPlace(node[n]), ArrayNext(n)
    PROVE  Tracks(n)
<1> DEFINE s == node[n]
           u == [s EXCEPT !.left = @ - 1]
           v == [s EXCEPT !.left = 0]
<1>1. /\ s.pc \in ArrayPc
      /\ \/ Step(n, Execute(u, s.pc), << >>)
         \/ Goto(n, v, "FAILED")
         \/ Step(n, [s EXCEPT !.pc = "sm_event", !.left = 0], << >>)
  BY DEF ArrayNext
<1>2. ~s.failed
  BY <1>1, NotYetFailed DEF FailedPc, EndPc, ArrayPc
<1>3. Like(s, u) /\ Like(s, v) /\ u.pc = s.pc
  BY DEF Like, Rec, FailFields
<1> HIDE DEF u, v
<1>4. CASE Step(n, Execute(u, s.pc), << >>)
  <2>1. Like(s, Execute(u, s.pc)) /\ Execute(u, s.pc).pc = s.pc
    BY <1>3, LikeExecute DEF Like
  <2> QED BY <1>4, <2>1, SamePlace
<1>5. CASE Goto(n, v, "FAILED")
  BY <1>2, <1>3, <1>5, GotoTracks DEF MainState
<1>6. CASE Step(n, [s EXCEPT !.pc = "sm_event", !.left = 0], << >>)
  <2> DEFINE t == [s EXCEPT !.pc = "sm_event", !.left = 0]
  <2>1. Like(s, t) /\ t.pc = "sm_event"
    BY DEF Like, Rec, FailFields
  <2> HIDE DEF t
  <2> QED BY <1>2, <1>6, <2>1, OtherPlace DEF EarlyPc, t
<1> QED BY <1>1, <1>4, <1>5, <1>6

LEMMA MigrationContinueTracks ==
    ASSUME NEW n, Rec(node[n]), FailPlace(node[n]), MigrationContinue(n)
    PROVE  Tracks(n)
<1> DEFINE S(result, yanked) == Executed(node[n], result, yanked)
           L(result, yanked) == [S(result, yanked) EXCEPT !.timeout = "low"]
<1>1. PICK result \in {"ok", "error", "fatal"}, yanked \in BOOLEAN :
        /\ Returns(n, "sm_continue", result, yanked)
        /\ \/ MigrationError(n, L(result, yanked), result)
           \/ Step(n, [L(result, yanked) EXCEPT !.pc = "sm_event"], << >>)
           \/ Step(n, WaitEvent(S(result, yanked), "sm_colo"), << >>)
  BY DEF MigrationContinue
<1> DEFINE s == S(result, yanked)
           low == L(result, yanked)
<1>2. node[n].pc = "sm_continue" /\ Like(node[n], s)
  BY <1>1, AfterReturn
<1>3. ~node[n].failed
  BY <1>2, NotYetFailed DEF FailedPc, EndPc
<1> HIDE DEF S
<1>4. Like(node[n], low)
  BY <1>2 DEF Like, Rec, FailFields
<1> HIDE DEF L
<1>5. CASE MigrationError(n, low, result)
  BY <1>3, <1>4, <1>5, MigrationErrorTracks
<1>6. CASE Step(n, [low EXCEPT !.pc = "sm_event"], << >>)
  BY <1>3, <1>4, <1>6, AtPlace DEF EarlyPc
<1>7. CASE Step(n, WaitEvent(s, "sm_colo"), << >>)
  <2>1. Like(node[n], WaitEvent(s, "sm_colo")) /\ WaitEvent(s, "sm_colo").pc = "sm_colo"
    BY <1>2, LikeWaitEvent DEF Like
  <2> QED BY <1>3, <1>7, <2>1, OtherPlace DEF EarlyPc
<1> QED BY <1>1, <1>5, <1>6, <1>7

LEMMA MigrationWaitsTracks ==
    ASSUME NEW n, Rec(node[n]), FailPlace(node[n]), MigrationWaits(n)
    PROVE  Tracks(n)
<1> DEFINE s == EndWait(node[n])
           low == [s EXCEPT !.timeout = "low"]
<1>1. PICK why \in {"event", "timeout", "interrupt"}, pc \in {"sm_preswitch", "sm_colo"} :
        /\ node[n].pc = pc
        /\ LET f == IF pc = "sm_colo" THEN low ELSE s
           IN  CASE why = "timeout" -> Goto(n, f, "FAILED")
                 [] why = "interrupt" -> Step(n, [f EXCEPT !.pc = "sm_event"], << >>)
                 [] why = "event" ->
                      IF pc = "sm_preswitch"
                      THEN Step(n, ExecuteArray(s, "sm_switch"), << >>)
                      ELSE Goto(n, s, "PRIMARY_COLO_RUNNING")
  BY DEF MigrationWaits, Awaited
<1> DEFINE f == IF pc = "sm_colo" THEN low ELSE s
<1>2. Like(node[n], s)
  BY LikeEndWait
<1> HIDE DEF s
<1>3. Like(node[n], low)
  BY <1>2 DEF Like, Rec, FailFields
<1> HIDE DEF low
<1>4. Like(node[n], f)
  BY <1>2, <1>3
<1>5. ~node[n].failed
  BY <1>1, NotYetFailed DEF FailedPc, EndPc
<1>6. \/ Goto(n, f, "FAILED")
      \/ Step(n, [f EXCEPT !.pc = "sm_event"], << >>)
      \/ Step(n, ExecuteArray(s, "sm_switch"), << >>)
      \/ Goto(n, s, "PRIMARY_COLO_RUNNING")
  BY <1>1
<1>7. {"FAILED", "PRIMARY_COLO_RUNNING"} \subseteq MainState
  BY DEF MainState
<1> HIDE DEF f
<1>8. CASE Goto(n, f, "FAILED")
  BY <1>4, <1>5, <1>7, <1>8, GotoTracks
<1>9. CASE Step(n, [f EXCEPT !.pc = "sm_event"], << >>)
  BY <1>4, <1>5, <1>9, AtPlace DEF EarlyPc
<1>10. CASE Step(n, ExecuteArray(s, "sm_switch"), << >>)
  <2>1. /\ Like(node[n], ExecuteArray(s, "sm_switch"))
        /\ ExecuteArray(s, "sm_switch").pc = "sm_switch"
    BY <1>2, LikeExecuteArray DEF Like
  <2> QED BY <1>5, <1>10, <2>1, OtherPlace DEF EarlyPc
<1>11. CASE Goto(n, s, "PRIMARY_COLO_RUNNING")
  BY <1>2, <1>5, <1>7, <1>11, GotoTracks
<1> QED BY <1>6, <1>8, <1>9, <1>10, <1>11

\* At handle_event the migration finds an event its handler knows.
LEMMA MigrationEventTracks ==
    ASSUME NEW n \in Daemons, NodeInv(node[n]), Rec(node[n]), FailPlace(node[n]),
           MigrationEvent(n)
    PROVE  Tracks(n)
<1> DEFINE W(i) == Without(n, i)
           E(i) == node[n].queue[i]
<1>1. CASE \E i \in 1 .. Len(node[n].queue) :
             /\ Gets(n, "sm_event", i)
             /\ IF E(i) = "FAILOVER_SYNC"
                THEN Step(n, Execute(W(i), "sm_cancel"), << >>)
                ELSE Goto(n, W(i), handle_always_interrupting(E(i)))
  <2>1. PICK i \in 1 .. Len(node[n].queue) :
          /\ Gets(n, "sm_event", i)
          /\ IF E(i) = "FAILOVER_SYNC"
             THEN Step(n, Execute(W(i), "sm_cancel"), << >>)
             ELSE Goto(n, W(i), handle_always_interrupting(E(i)))
    BY <1>1
  <2>2. /\ node[n].pc = "sm_event" /\ IsFirst(node[n].queue, node[n].interrupting, i)
        /\ node[n].interrupting = SyncInterrupting /\ Interrupted(node[n])
    BY <2>1 DEF Gets, NodeInv, Place
  <2>3. E(i) \in SyncInterrupting
    BY <2>2 DEF IsFirst, Interrupted, PendingInterrupt
  <2>4. ~node[n].failed
    BY <2>2, NotYetFailed DEF FailedPc, EndPc
  <2>5. Like(node[n], W(i))
    BY LikeWithout
  <2> HIDE DEF W, E
  <2>6. CASE E(i) = "FAILOVER_SYNC"
    <3>1. Like(node[n], Execute(W(i), "sm_cancel")) /\ Execute(W(i), "sm_cancel").pc = "sm_cancel"
      BY <2>5, LikeExecute DEF Like
    <3> QED BY <2>1, <2>4, <2>6, <3>1, OtherPlace DEF EarlyPc
  <2>7. CASE E(i) # "FAILOVER_SYNC"
    <3>1. E(i) \in AlwaysInterrupting
      BY <2>3, <2>7 DEF SyncInterrupting
    <3> QED BY <2>1, <2>4, <2>5, <2>7, <3>1, GotoTracks, HandleState
  <2> QED BY <2>6, <2>7
<1>2. CASE \E result \in {"ok", "error", "fatal"}, yanked \in BOOLEAN :
             /\ Returns(n, "sm_cancel", result, yanked)
             /\ Goto(n, Executed(node[n], result, yanked),
                     IF result = "ok" THEN "FAILOVER_SYNC" ELSE "FAILED")
  <2>1. PICK result \in {"ok", "error", "fatal"}, yanked \in BOOLEAN :
          /\ Returns(n, "sm_cancel", result, yanked)
          /\ Goto(n, Executed(node[n], result, yanked),
                  IF result = "ok" THEN "FAILOVER_SYNC" ELSE "FAILED")
    BY <1>2
  <2>2. node[n].pc = "sm_cancel" /\ Like(node[n], Executed(node[n], result, yanked))
    BY <2>1, AfterReturn
  <2>3. ~node[n].failed
    BY <2>2, NotYetFailed DEF FailedPc, EndPc
  <2>4. {"FAILOVER_SYNC", "FAILED"} \subseteq MainState
    BY DEF MainState
  <2> QED BY <2>1, <2>2, <2>3, <2>4, GotoTracks
<1> QED BY <1>1, <1>2 DEF MigrationEvent

LEMMA MigrationTracks ==
    ASSUME NEW n \in Daemons, NodeInv(node[n]), Rec(node[n]), FailPlace(node[n]),
           colod_primary_start_migration_co(n)
    PROVE  Tracks(n)
<1> DEFINE s == node[n]
<1>1. Like(s, s)
  BY DEF Like
<1>2. s.pc \in {"sm_start", "sm_switch"} => ~s.failed
  BY NotYetFailed DEF FailedPc, EndPc
<1>3. ASSUME s.pc \in {"sm_start", "sm_switch"}, Step(n, [s EXCEPT !.pc = "sm_event"], << >>)
      PROVE  Tracks(n)
  BY <1>1, <1>2, <1>3, AtPlace DEF EarlyPc
<1>4. CASE ArrayDone(n, "sm_start") /\
           Step(n, IF Interrupted(s) THEN [s EXCEPT !.pc = "sm_event"]
                   ELSE WaitEvent([s EXCEPT !.transitioning = TRUE], "sm_preswitch"), << >>)
  <2> DEFINE u == [s EXCEPT !.transitioning = TRUE]
             t == WaitEvent(u, "sm_preswitch")
  <2>1. s.pc = "sm_start"
    BY <1>4 DEF ArrayDone
  <2>2. Like(s, u)
    BY DEF Like, Rec, FailFields
  <2> HIDE DEF u
  <2>3. Like(s, t) /\ t.pc = "sm_preswitch"
    BY <2>2, LikeWaitEvent DEF Like
  <2>4. \/ Step(n, [s EXCEPT !.pc = "sm_event"], << >>) \/ Step(n, t, << >>)
    BY <1>4 DEF u
  <2> HIDE DEF t
  <2> QED BY <1>2, <1>3, <2>1, <2>3, <2>4, OtherPlace DEF EarlyPc
<1>5. CASE ArrayDone(n, "sm_switch") /\
           Step(n, IF Interrupted(s) THEN [s EXCEPT !.pc = "sm_event"]
                   ELSE Execute(RaiseTimeout(s), "sm_continue"), << >>)
  <2> DEFINE u == RaiseTimeout(s)
             t == Execute(u, "sm_continue")
  <2>1. s.pc = "sm_switch"
    BY <1>5 DEF ArrayDone
  <2>2. Like(s, u)
    BY LikeRaiseTimeout
  <2> HIDE DEF u
  <2>3. Like(s, t) /\ t.pc = "sm_continue"
    BY <2>2, LikeExecute DEF Like
  <2>4. \/ Step(n, [s EXCEPT !.pc = "sm_event"], << >>) \/ Step(n, t, << >>)
    BY <1>5 DEF u
  <2> HIDE DEF t
  <2> QED BY <1>2, <1>3, <2>1, <2>3, <2>4, OtherPlace DEF EarlyPc
<1>6. CASE MigrationCommands(n)
  BY <1>6, MigrationCommandsTracks
<1>7. CASE MigrationContinue(n)
  BY <1>7, MigrationContinueTracks
<1>8. CASE MigrationWaits(n)
  BY <1>8, MigrationWaitsTracks
<1>9. CASE MigrationEvent(n)
  BY <1>9, MigrationEventTracks
<1> QED BY <1>4, <1>5, <1>6, <1>7, <1>8, <1>9 DEF colod_primary_start_migration_co

LEMMA FailoverSyncTracks ==
    ASSUME NEW n, Rec(node[n]), FailPlace(node[n]), colod_failover_sync_co(n)
    PROVE  Tracks(n)
<1> DEFINE W(i) == Without(n, i)
           E(i) == node[n].queue[i]
<1>1. PICK i \in 1 .. Len(node[n].queue) :
        /\ node[n].pc = "fs_event"
        /\ \/ Goto(n, W(i), "FAILOVER")
           \/ E(i) \in AlwaysInterrupting
              /\ Goto(n, W(i), handle_always_interrupting(E(i)))
           \/ Step(n, W(i), << >>)
  BY DEF colod_failover_sync_co, Gets
<1>2. ~node[n].failed
  BY <1>1, NotYetFailed DEF FailedPc, EndPc
<1>3. Like(node[n], W(i)) /\ W(i).pc = node[n].pc
  BY LikeWithout
<1> HIDE DEF W, E
<1>4. CASE Goto(n, W(i), "FAILOVER")
  BY <1>2, <1>3, <1>4, GotoTracks DEF MainState
<1>5. CASE E(i) \in AlwaysInterrupting /\ Goto(n, W(i), handle_always_interrupting(E(i)))
  BY <1>2, <1>3, <1>5, GotoTracks, HandleState
<1>6. CASE Step(n, W(i), << >>)
  BY <1>3, <1>6, SamePlace
<1> QED BY <1>1, <1>4, <1>5, <1>6

LEMMA FailoverTracks ==
    ASSUME NEW n, Rec(node[n]), FailPlace(node[n]), colod_failover_co(n)
    PROVE  Tracks(n)
<1> DEFINE s == node[n]
           u == [s EXCEPT !.cmd = FALSE, !.io = FALSE]
           v == [u EXCEPT !.did_yank = TRUE, !.transitioning = TRUE]
           w == [s EXCEPT !.peer = FALSE]
           Q(result) == [u EXCEPT !.qmp_error = @ \/ result = "fatal"]
<1>1. Like(s, u) /\ Like(s, w)
  BY DEF Like, Rec, FailFields
<1>2. s.pc \in {"fo_yank", "fo_array"} => ~s.failed
  BY NotYetFailed DEF FailedPc, EndPc
<1>3. CASE FailoverYank(n)
  <2>1. PICK result \in {"ok", "error", "fatal"} :
          /\ s.pc = "fo_yank"
          /\ \/ Step(n, ExecuteArray(v, "fo_array"), << >>)
             \/ Goto(n, Q(result), "FAILED")
    BY <1>3 DEF FailoverYank, Returns
  <2> HIDE DEF u
  <2>2. Like(s, v) /\ Like(s, Q(result))
    BY <1>1 DEF Like, Rec, FailFields
  <2> HIDE DEF v, Q
  <2>3. Like(s, ExecuteArray(v, "fo_array")) /\ ExecuteArray(v, "fo_array").pc = "fo_array"
    BY <2>2, LikeExecuteArray DEF Like
  <2>4. CASE Step(n, ExecuteArray(v, "fo_array"), << >>)
    BY <1>2, <2>1, <2>3, <2>4, OtherPlace DEF EarlyPc
  <2>5. CASE Goto(n, Q(result), "FAILED")
    BY <1>2, <2>1, <2>2, <2>5, GotoTracks DEF MainState
  <2> QED BY <2>1, <2>4, <2>5
<1>4. ASSUME NEW result \in {"ok", "error", "fatal"}, NEW yanked \in BOOLEAN,
             Returns(n, "fo_array", result, yanked),
             \/ Goto(n, Executed(s, result, yanked), "FAILED")
             \/ Step(n, Executed(s, result, yanked), << >>)
      PROVE  Tracks(n)
  <2>1. s.pc = "fo_array" /\ Like(s, Executed(s, result, yanked))
        /\ Executed(s, result, yanked).pc = s.pc
    BY <1>4, AfterReturn
  <2>2. CASE Goto(n, Executed(s, result, yanked), "FAILED")
    BY <1>2, <2>1, <2>2, GotoTracks DEF MainState
  <2>3. CASE Step(n, Executed(s, result, yanked), << >>)
    BY <2>1, <2>3, SamePlace
  <2> QED BY <1>4, <2>2, <2>3
<1>5. CASE ArrayDone(n, "fo_array") /\ Goto(n, w, "PRIMARY_WAIT")
  <2>1. s.pc = "fo_array"
    BY <1>5 DEF ArrayDone
  <2> HIDE DEF w
  <2> QED BY <1>1, <1>2, <1>5, <2>1, GotoTracks DEF MainState
<1> QED BY <1>3, <1>4, <1>5 DEF colod_failover_co

\* do_autoquit and the reaction to PEER_FAILOVER, of a daemon that has failed.
LEMMA LoopQuitTracks ==
    ASSUME NEW n, NEW s, Rec(node[n]), FailPlace(node[n]), Like(node[n], s),
           s.pc = node[n].pc,
           \/ Step(n, LoopQuit(s), << >>)
           \/ Step(n, [s EXCEPT !.peer_failover = TRUE], << >>)
    PROVE  Tracks(n)
<1> DEFINE t == LoopQuit(s)
           u == [s EXCEPT !.peer_failover = TRUE]
<1>1. /\ t.state = s.state /\ t.failed = s.failed /\ t.peer_failed = s.peer_failed
      /\ t.pc = s.pc /\ t.loop = IF s.loop = "run" THEN "quit" ELSE s.loop
  BY DEF LoopQuit, Like, Rec, FailFields
<1>2. Like(node[n], u) /\ u.pc = node[n].pc
  BY DEF Like, Rec, FailFields
<1>3. << >> \in Seq(ColodMessage)
  OBVIOUS
<1> HIDE DEF t, u
<1>4. Advances(node[n], t, << >>) /\ Remembers(node[n], t)
  BY <1>1 DEF Advances, Remembers, Like, Lost, FailPlace
<1>5. CASE Step(n, t, << >>)
  BY <1>3, <1>4, <1>5 DEF Tracks
<1>6. CASE Step(n, u, << >>)
  BY <1>2, <1>6, SamePlace
<1> QED BY <1>5, <1>6 DEF t, u

LEMMA FailedTracks ==
    ASSUME NEW n, Rec(node[n]), FailPlace(node[n]), Failed(n)
    PROVE  Tracks(n)
<1> DEFINE s == node[n]
           W(i) == Without(n, i)
<1>1. ASSUME NEW result, NEW yanked, Returns(n, "failed_stop", result, yanked),
             Step(n, [Executed(s, result, yanked) EXCEPT !.pc = "failed_event"], << >>)
      PROVE  Tracks(n)
  <2> DEFINE x == Executed(s, result, yanked)
             t == [x EXCEPT !.pc = "failed_event"]
  <2>1. s.pc = "failed_stop" /\ Like(s, x)
    BY <1>1, AfterReturn
  <2>2. Step(n, t, << >>)
    BY <1>1
  <2> HIDE DEF x
  <2>3. Like(s, t) /\ t.pc = "failed_event"
    BY <2>1 DEF Like, Rec, FailFields
  <2> HIDE DEF t
  <2>4. Advances(s, t, << >>) /\ Remembers(s, t)
    BY <2>1, <2>3 DEF Advances, Remembers, Like, Lost, FailPlace, FailedPc, EarlyPc
  <2>5. << >> \in Seq(ColodMessage)
    OBVIOUS
  <2> QED BY <2>2, <2>4, <2>5 DEF Tracks
<1>2. ASSUME NEW i, \/ \E st \in {"QUIT", "AUTOQUIT"} : Goto(n, W(i), st)
                    \/ Step(n, LoopQuit(W(i)), << >>)
                    \/ Step(n, [W(i) EXCEPT !.peer_failover = TRUE], << >>)
                    \/ Step(n, W(i), << >>)
      PROVE  Tracks(n)
  <2>1. Like(s, W(i)) /\ W(i).pc = s.pc
    BY LikeWithout
  <2>2. {"QUIT", "AUTOQUIT"} \subseteq MainState
    BY DEF MainState
  <2> HIDE DEF W
  <2>3. ASSUME NEW st \in {"QUIT", "AUTOQUIT"}, Goto(n, W(i), st) PROVE Tracks(n)
    BY <2>1, <2>2, <2>3, GotoTracks
  <2>4. CASE Step(n, LoopQuit(W(i)), << >>) \/ Step(n, [W(i) EXCEPT !.peer_failover = TRUE], << >>)
    BY <2>1, <2>4, LoopQuitTracks
  <2>5. CASE Step(n, W(i), << >>)
    BY <2>1, <2>5, SamePlace
  <2> QED BY <1>2, <2>3, <2>4, <2>5
<1>3. CASE \E result \in {"ok", "error", "fatal"}, yanked \in BOOLEAN :
             /\ Returns(n, "failed_stop", result, yanked)
             /\ Step(n, [Executed(s, result, yanked) EXCEPT !.pc = "failed_event"], << >>)
  BY <1>1, <1>3
<1>4. CASE \E i \in 1 .. Len(s.queue) :
             /\ Gets(n, "failed_event", i)
             /\ LET e == s.queue[i]
                    w == Without(n, i)
                IN  IF e = "PEER_FAILOVER"
                    THEN Step(n, [w EXCEPT !.peer_failover = TRUE], << >>)
                    ELSE IF e = "QUIT" \/ (e = "AUTOQUIT" /\ ~w.qemu_quit)
                    THEN Goto(n, w, e)
                    ELSE Step(n, IF e = "AUTOQUIT" THEN LoopQuit(w) ELSE w, << >>)
  <2>1. PICK i : \/ \E st \in {"QUIT", "AUTOQUIT"} : Goto(n, W(i), st)
                 \/ Step(n, LoopQuit(W(i)), << >>)
                 \/ Step(n, [W(i) EXCEPT !.peer_failover = TRUE], << >>)
                 \/ Step(n, W(i), << >>)
    BY <1>4
  <2> QED BY <1>2, <2>1
<1> QED BY <1>3, <1>4 DEF Failed

LEMMA AutoquitTracks ==
    ASSUME NEW n, Rec(node[n]), FailPlace(node[n]), Autoquit(n)
    PROVE  Tracks(n)
<1> DEFINE W(i) == Without(n, i)
<1>1. PICK i : \/ Goto(n, W(i), "QUIT")
               \/ Step(n, LoopQuit(W(i)), << >>)
               \/ Step(n, [W(i) EXCEPT !.peer_failover = TRUE], << >>)
               \/ Step(n, W(i), << >>)
  BY DEF Autoquit
<1>2. Like(node[n], W(i)) /\ W(i).pc = node[n].pc
  BY LikeWithout
<1> HIDE DEF W
<1>3. CASE Goto(n, W(i), "QUIT")
  BY <1>2, <1>3, GotoTracks DEF MainState
<1>4. CASE Step(n, LoopQuit(W(i)), << >>) \/ Step(n, [W(i) EXCEPT !.peer_failover = TRUE], << >>)
  BY <1>2, <1>4, LoopQuitTracks
<1>5. CASE Step(n, W(i), << >>)
  BY <1>2, <1>5, SamePlace
<1> QED BY <1>1, <1>3, <1>4, <1>5

LEMMA MainCoTracks ==
    ASSUME NEW n \in Daemons, NodeInv(node[n]), Rec(node[n]), FailPlace(node[n]), MainCo(n)
    PROVE  Tracks(n)
  BY StartTracks, EventYieldTracks, QmpEventWaitTracks, CommandYieldTracks,
     ArrayNextTracks, SecondaryStartupTracks, SecondaryWaitTracks, ColoRunningTracks,
     PrimaryWaitTracks, MigrationTracks, FailoverSyncTracks, FailoverTracks,
     FailedTracks, AutoquitTracks DEF MainCo
-----------------------------------------------------------------------------
(* The callbacks: the place of the coroutine stays. *)

\* The state with other values in fields that do not matter here, and with an
\* event queued.
LEMMA QueuedTracks ==
    ASSUME NEW n, NEW s, NEW e, Rec(node[n]), FailPlace(node[n]), Like(node[n], s),
           s.pc = node[n].pc, Step(n, colod_event_queue(s, e), << >>)
    PROVE  Tracks(n)
<1>1. /\ Like(node[n], colod_event_queue(s, e))
      /\ colod_event_queue(s, e).pc = node[n].pc
  BY LikeQueue DEF Like
<1> QED BY <1>1, SamePlace

LEMMA DispatchTracks ==
    ASSUME NEW n, Rec(node[n]), FailPlace(node[n]),
           DispatchSource(n) \/ DispatchReply(n) \/ DispatchTimer(n) \/ RaiseStart(n)
    PROVE  Tracks(n)
<1>1. CASE DispatchSource(n)
  <2>1. PICK src, run, id :
          Step(n, [node[n] EXCEPT !.sources = src, !.run = run, !.wake_source_id = id], << >>)
    BY <1>1 DEF DispatchSource, Continue
  <2> DEFINE t == [node[n] EXCEPT !.sources = src, !.run = run, !.wake_source_id = id]
  <2>2. Like(node[n], t) /\ t.pc = node[n].pc
    BY DEF Like, Rec, FailFields
  <2> HIDE DEF t
  <2> QED BY <2>1, <2>2, SamePlace DEF t
<1>2. CASE DispatchReply(n)
  <2> DEFINE t == [node[n] EXCEPT !.run = "reply", !.io = FALSE]
  <2>1. Step(n, t, << >>)
    BY <1>2 DEF DispatchReply, Continue
  <2>2. Like(node[n], t) /\ t.pc = node[n].pc
    BY DEF Like, Rec, FailFields
  <2> HIDE DEF t
  <2> QED BY <2>1, <2>2, SamePlace
<1>3. CASE DispatchTimer(n)
  <2> DEFINE t == [node[n] EXCEPT !.run = "timer"]
  <2>1. Step(n, t, << >>)
    BY <1>3 DEF DispatchTimer, Continue
  <2>2. Like(node[n], t) /\ t.pc = node[n].pc
    BY DEF Like, Rec, FailFields
  <2> HIDE DEF t
  <2> QED BY <2>1, <2>2, SamePlace
<1>4. CASE RaiseStart(n)
  <2> DEFINE t == [node[n] EXCEPT !.raise = "stop"]
  <2>1. Step(n, t, << >>)
    BY <1>4 DEF RaiseStart, Continue
  <2>2. Like(node[n], t) /\ t.pc = node[n].pc
    BY DEF Like, Rec, FailFields
  <2> HIDE DEF t
  <2> QED BY <2>1, <2>2, SamePlace
<1> QED BY <1>1, <1>2, <1>3, <1>4

LEMMA YellowEventTracks ==
    ASSUME NEW n, Rec(node[n]), FailPlace(node[n]), colod_yellow_event_cb(n)
    PROVE  Tracks(n)
<1>1. PICK y, l, e :
        Step(n, colod_event_queue([node[n] EXCEPT !.yellow = y, !.link = l], e), << >>)
  BY DEF colod_yellow_event_cb, Continue
<1> DEFINE u == [node[n] EXCEPT !.yellow = y, !.link = l]
<1>2. Like(node[n], u) /\ u.pc = node[n].pc
  BY DEF Like, Rec, FailFields
<1> HIDE DEF u
<1> QED BY <1>1, <1>2, QueuedTracks DEF u

LEMMA MainFreeTracks ==
    ASSUME NEW n, Rec(node[n]), FailPlace(node[n]), colod_main_free(n)
    PROVE  Tracks(n)
<1> DEFINE q == colod_event_queue(node[n], "QUIT")
<1>1. PICK x : node[n].loop = "quit" /\
        Step(n, [q EXCEPT !.loop = "teardown", !.link = "off", !.raise = "none",
                          !.timeout = x], Revert(node[n].link))
  BY DEF colod_main_free
<1> DEFINE t == [q EXCEPT !.loop = "teardown", !.link = "off", !.raise = "none",
                          !.timeout = x]
           msgs == Revert(node[n].link)
<1>2. Like(node[n], q) /\ q.pc = node[n].pc
  BY LikeQueue
<1> HIDE DEF q
<1>3. /\ t.state = q.state /\ t.failed = q.failed /\ t.peer_failed = q.peer_failed
      /\ t.pc = q.pc /\ t.loop = "teardown"
  BY <1>2 DEF Like, Rec, FailFields
<1>4. msgs \in Seq(ColodMessage)
  BY RevertType
<1> HIDE DEF msgs, t
<1>5. Advances(node[n], t, msgs) /\ Remembers(node[n], t)
  BY <1>1, <1>2, <1>3 DEF Advances, Remembers, Like, Lost, FailPlace
<1> QED BY <1>1, <1>4, <1>5 DEF Tracks, t, msgs

LEMMA LikeNotifyEvent ==
    ASSUME NEW n, Rec(node[n]), NEW e
    PROVE  Like(node[n], NotifyEvent(n, e)) /\ NotifyEvent(n, e).pc = node[n].pc
<1> DEFINE s == node[n]
           d == [s EXCEPT !.yellow = TRUE, !.link = "off"]
           c == IF Notified(n) THEN colod_qmp_event_cb(s, e) ELSE s
<1>1. Like(s, d) /\ d.pc = s.pc /\ Like(s, s)
  BY DEF Like, Rec, FailFields
<1>2. colod_qmp_event_cb(s, e) \in
        {colod_event_queue(s, "FAILOVER_SYNC"), colod_event_queue(d, "YELLOW"),
         RaiseTimeout(s), s}
  BY DEF colod_qmp_event_cb
<1> HIDE DEF d
<1>3. /\ Like(s, colod_event_queue(s, "FAILOVER_SYNC"))
      /\ colod_event_queue(s, "FAILOVER_SYNC").pc = s.pc
      /\ Like(d, colod_event_queue(d, "YELLOW"))
      /\ colod_event_queue(d, "YELLOW").pc = d.pc
  BY <1>1, LikeQueue DEF Like
<1>4. Like(s, RaiseTimeout(s)) /\ RaiseTimeout(s).pc = s.pc
  BY LikeRaiseTimeout
<1>5. Like(s, c) /\ c.pc = s.pc
  BY <1>1, <1>2, <1>3, <1>4 DEF Like
<1> HIDE DEF c
<1>6. Like(c, WaitEventCb(c, e)) /\ WaitEventCb(c, e).pc = c.pc
  <2> DEFINE t == [c EXCEPT
                !.raise = IF @ = "stop" /\ e = "STOP" THEN "resume"
                          ELSE IF @ = "resume" /\ e = "RESUME" THEN "none" ELSE @,
                !.timeout = IF c.raise = "resume" /\ e = "RESUME" THEN "low" ELSE @]
             u == [t EXCEPT !.fired = TRUE, !.sources = Append(@, "fired")]
  <2>1. Like(c, t) /\ t.pc = c.pc
    BY <1>5 DEF Like, Rec, FailFields
  <2>2. WaitEventCb(c, e) = IF Expects(c, e) THEN u ELSE t
    BY DEF WaitEventCb
  <2> HIDE DEF t
  <2>3. Like(c, u) /\ u.pc = c.pc
    BY <2>1 DEF Like, Rec, FailFields
  <2> QED BY <2>1, <2>2, <2>3
<1>7. NotifyEvent(n, e) = WaitEventCb(c, e)
  BY DEF NotifyEvent, c
<1> QED BY <1>5, <1>6, <1>7 DEF Like

\* As SamePlace, with messages that have nothing to do with a failure.
LEMMA SamePlaceSends ==
    ASSUME NEW n, NEW t, NEW msgs \in Seq(ColodMessage), Rec(node[n]), FailPlace(node[n]),
           Step(n, t, msgs), Like(node[n], t), t.pc = node[n].pc
    PROVE  Tracks(n)
<1>1. Advances(node[n], t, msgs) /\ Remembers(node[n], t)
  BY DEF FailPlace, Like, Advances, Remembers, Lost
<1> QED BY <1>1 DEF Tracks

LEMMA QmpEventTracks ==
    ASSUME IInv, NEW n \in Daemons, FailPlace(node[n]), NEW e,
           QmpEvent(n, e) \/ CommandSelf(n, e)
    PROVE  Tracks(n)
<1> DEFINE s == node[n]
           v == NotifyEvent(n, e)
           u == [v EXCEPT !.sources = Append(@, "self")]
           t == [Yield(u) EXCEPT !.io = FALSE]
<1>1. Rec(s)
  BY FromNode
<1>2. Like(s, v) /\ v.pc = s.pc
  BY <1>1, LikeNotifyEvent
<1>3. NotifyMessages(n, e) \in Seq(ColodMessage)
  BY NotifyMessagesType
<1>4. Step(n, v, NotifyMessages(n, e)) \/ Step(n, t, NotifyMessages(n, e))
  BY DEF QmpEvent, CommandSelf
<1> HIDE DEF v
<1>5. Like(s, u) /\ u.pc = s.pc
  BY <1>2 DEF Like, Rec, FailFields
<1> HIDE DEF u
<1>6. Like(s, Yield(u)) /\ Yield(u).pc = s.pc
  BY <1>5, LikeYield DEF Like
<1>7. Like(s, t) /\ t.pc = s.pc
  <2> DEFINE y == Yield(u)
  <2>1. Like(s, y) /\ y.pc = s.pc
    BY <1>6
  <2> HIDE DEF y
  <2>2. Like(s, [y EXCEPT !.io = FALSE]) /\ [y EXCEPT !.io = FALSE].pc = s.pc
    BY <2>1 DEF Like, Rec, FailFields
  <2> QED BY <2>2 DEF y
<1> HIDE DEF t
<1> QED BY <1>1, <1>2, <1>3, <1>4, <1>7, SamePlaceSends

LEMMA LinkChangeTracks ==
    ASSUME NEW n, Rec(node[n]), FailPlace(node[n]), LinkChange(n)
    PROVE  Tracks(n)
<1>1. PICK x \in LinkTransition : Step(n, [node[n] EXCEPT !.link = x[3]], <<x[4]>>)
  BY DEF LinkChange
<1> DEFINE t == [node[n] EXCEPT !.link = x[3]]
<1>2. Like(node[n], t) /\ t.pc = node[n].pc
  BY DEF Like, Rec, FailFields
<1>3. x[4] \in ColodMessage
  BY DEF LinkTransition, ColodMessage
<1>4. <<x[4]>> \in Seq(ColodMessage)
  BY <1>3
<1> HIDE DEF t
<1> QED BY <1>1, <1>2, <1>4, SamePlaceSends DEF t

LEMMA ClientTracks ==
    ASSUME NEW n, Rec(node[n]), FailPlace(node[n]),
           \/ colod_hup_cb(n) \/ QmpSetError(n) \/ colod_clear_peer(n)
           \/ colod_start_migration(n) \/ colod_autoquit(n) \/ colod_qemu_failed(n)
           \/ colod_quit(n) \/ ClientExecute(n) \/ colod_yank_co(n)
           \/ colod_check_health_co(n)
    PROVE  Tracks(n)
<1> DEFINE s == node[n]
           a == [s EXCEPT !.qemu_quit = TRUE]
           b == [s EXCEPT !.qmp_error = TRUE]
           c == [s EXCEPT !.peer = FALSE]
           d == [s EXCEPT !.did_yank = FALSE]
<1>1. /\ Like(s, a) /\ a.pc = s.pc /\ Like(s, b) /\ b.pc = s.pc
      /\ Like(s, c) /\ c.pc = s.pc /\ Like(s, d) /\ d.pc = s.pc /\ Like(s, s)
  BY DEF Like, Rec, FailFields
<1>2. CASE \/ colod_hup_cb(n) \/ QmpSetError(n) \/ colod_clear_peer(n)
  <2>1. \/ Step(n, colod_event_queue(a, "FAILED"), << >>) \/ Step(n, b, << >>)
        \/ Step(n, c, << >>)
    BY <1>2 DEF colod_hup_cb, QmpSetError, colod_clear_peer
  <2> HIDE DEF a, b, c
  <2> QED BY <1>1, <2>1, QueuedTracks, SamePlace
<1>3. CASE colod_start_migration(n) \/ colod_autoquit(n) \/ colod_qemu_failed(n)
  <2>1. PICK e : Step(n, colod_event_queue(s, e), << >>)
    BY <1>3 DEF colod_start_migration, colod_autoquit, colod_qemu_failed
  <2> QED BY <1>1, <2>1, QueuedTracks
<1>4. CASE colod_quit(n)
  <2>1. Step(n, LoopQuit(s), << >>)
    BY <1>4 DEF colod_quit
  <2> QED BY <1>1, <2>1, LoopQuitTracks
<1>5. CASE ClientExecute(n)
  <2>1. PICK result, yanked : Step(n, Checked(s, result, yanked), << >>)
    BY <1>5 DEF ClientExecute
  <2> QED BY <2>1, LikeChecked, SamePlace
<1>6. CASE colod_yank_co(n)
  <2>1. \/ Step(n, colod_event_queue(d, "FAILOVER_SYNC"), << >>)
        \/ Step(n, colod_event_queue(b, "FAILED"), << >>)
    BY <1>6 DEF colod_yank_co
  <2> HIDE DEF b, d
  <2> QED BY <1>1, <2>1, QueuedTracks
<1>7. CASE colod_check_health_co(n)
  <2>1. PICK result, yanked :
          \/ Step(n, Checked(s, result, yanked), << >>)
          \/ Step(n, colod_event_queue(Checked(s, result, yanked), "FAILED"), << >>)
    BY <1>7 DEF colod_check_health_co
  <2>2. Like(s, Checked(s, result, yanked)) /\ Checked(s, result, yanked).pc = s.pc
    BY LikeChecked
  <2> QED BY <2>1, <2>2, QueuedTracks, SamePlace
<1> QED BY <1>2, <1>3, <1>4, <1>5, <1>6, <1>7

\* colod_set_peer forgets the failure of the old peer, and nothing of its own.
LEMMA SetPeerAdvances ==
    ASSUME NEW n, Rec(node[n]), FailPlace(node[n]), colod_set_peer(n)
    PROVE  \E t : Step(n, t, << >>) /\ Advances(node[n], t, << >>)
<1> DEFINE t == [node[n] EXCEPT !.peer = TRUE, !.peer_failed = FALSE, !.peer_yellow = FALSE]
<1>1. Step(n, t, << >>)
  BY DEF colod_set_peer
<1>2. /\ t.state = node[n].state /\ t.failed = node[n].failed /\ t.pc = node[n].pc
      /\ t.loop = node[n].loop
  BY DEF Rec, FailFields
<1> HIDE DEF t
<1>3. Advances(node[n], t, << >>)
  BY <1>2 DEF Advances, Lost, FailPlace
<1> QED BY <1>1, <1>3

\* A delivery: the callback notes the failure of the peer.
LEMMA CpgEventFields ==
    ASSUME NEW s, Rec(s), NEW msg, NEW own
    PROVE  LET t == colod_cpg_event_cb(s, msg, own)
           IN  /\ t.state = s.state /\ t.failed = s.failed /\ t.loop = s.loop
               /\ t.pc = s.pc
               /\ t.peer_failed = s.peer_failed \/ t.peer_failed = TRUE
               /\ msg = "FAILED" /\ ~own => t.peer_failed = TRUE
<1> DEFINE t == colod_cpg_event_cb(s, msg, own)
           u == [s EXCEPT !.peer_failed = TRUE]
           v == [s EXCEPT !.peer_yellow = msg = "YELLOW"]
<1>1. /\ Rec(u) /\ u.state = s.state /\ u.failed = s.failed /\ u.loop = s.loop
      /\ u.pc = s.pc /\ u.peer_failed = TRUE
  BY DEF Rec, FailFields
<1>2. Like(s, v) /\ v.pc = s.pc /\ Like(s, s)
  BY DEF Like, Rec, FailFields
<1>3. CASE msg = "LEFT" \/ (msg = "FAILED" /\ ~own)
  <2>1. t = colod_event_queue(u, "FAILOVER_SYNC")
    BY <1>3 DEF colod_cpg_event_cb, PeerFailed
  <2> HIDE DEF u
  <2> QED BY <1>1, <2>1, LikeQueue DEF Like
<1>4. CASE ~(msg = "LEFT" \/ (msg = "FAILED" /\ ~own))
  <2>1. t \in {colod_event_queue(s, "FAILOVER_WIN"), colod_event_queue(s, "PEER_FAILOVER"),
               colod_event_queue(v, "YELLOW"), s}
    BY <1>4 DEF colod_cpg_event_cb, FailoverMessage
  <2> HIDE DEF v, t
  <2>2. \A e : /\ Like(s, colod_event_queue(s, e)) /\ colod_event_queue(s, e).pc = s.pc
               /\ Like(v, colod_event_queue(v, e)) /\ colod_event_queue(v, e).pc = v.pc
    BY <1>2, LikeQueue DEF Like
  <2>3. Like(s, t) /\ t.pc = s.pc
    BY <1>2, <2>1, <2>2 DEF Like
  <2> QED BY <1>4, <2>3 DEF Like, t
<1> QED BY <1>3, <1>4

LEMMA DispatchedFields ==
    ASSUME IInv, NEW n \in Daemons, FailPlace(node[n]), CpgDispatch(n)
    PROVE  \E t : /\ node' = [node EXCEPT ![n] = t]
                  /\ Advances(node[n], t, << >>) /\ Remembers(node[n], t)
                  /\ Head(inbox[n]).msg = "FAILED" /\ Head(inbox[n]).from # n
                       /\ node[n].loop \in {"run", "quit"}
                       => t.peer_failed
<1> DEFINE s == node[n]
           d == Head(inbox[n])
           c == colod_cpg_event_cb(s, d.msg, d.from = n)
           t == IF Notified(n) THEN c ELSE s
<1>1. Rec(s) /\ node \in [Daemons -> NodeState]
  BY FromNode DEF IInv, TypeOK
<1>2. node' = [node EXCEPT ![n] = t]
  BY <1>1 DEF CpgDispatch
<1>3. /\ c.state = s.state /\ c.failed = s.failed /\ c.loop = s.loop /\ c.pc = s.pc
      /\ c.peer_failed = s.peer_failed \/ c.peer_failed = TRUE
      /\ d.msg = "FAILED" /\ d.from # n => c.peer_failed = TRUE
  <2> DEFINE m == d.msg
             own == d.from = n
             u == colod_cpg_event_cb(s, m, own)
  <2> HIDE DEF m, own, d, s
  <2>1. /\ u.state = s.state /\ u.failed = s.failed /\ u.loop = s.loop /\ u.pc = s.pc
        /\ u.peer_failed = s.peer_failed \/ u.peer_failed = TRUE
        /\ m = "FAILED" /\ ~own => u.peer_failed = TRUE
    BY <1>1, CpgEventFields
  <2> HIDE DEF u
  <2>2. c = u
    BY DEF u, m, own
  <2> HIDE DEF c
  <2> QED BY <2>1, <2>2 DEF m, own
<1> HIDE DEF c
<1>4. /\ t.state = s.state /\ t.failed = s.failed /\ t.loop = s.loop /\ t.pc = s.pc
      /\ t.peer_failed = s.peer_failed \/ t.peer_failed = TRUE
      /\ d.msg = "FAILED" /\ d.from # n /\ s.loop \in {"run", "quit"} => t.peer_failed
  BY <1>3 DEF Notified
<1> HIDE DEF t
<1>5. Advances(s, t, << >>) /\ Remembers(s, t)
  BY <1>4 DEF Advances, Remembers, Lost, FailPlace
<1> QED BY <1>2, <1>4, <1>5

LEMMA LoopTracks ==
    ASSUME IInv, NEW n \in Daemons, FailPlace(node[n]), Loop(n)
    PROVE  Tracks(n) \/ CpgDispatch(n) \/ Retransmit(n)
<1>1. Rec(node[n])
  BY FromNode
<1> QED BY <1>1, DispatchTracks, YellowEventTracks, MainFreeTracks DEF Loop

LEMMA EnvironmentTracks ==
    ASSUME IInv, NEW n \in Daemons, FailPlace(node[n]), Environment(n)
    PROVE  \/ Tracks(n) \/ colod_set_peer(n)
           \/ \E p \in Nodes \ Daemons, m \in PeerMessages : PeerMessage(n, p, m)
<1>1. Rec(node[n])
  BY FromNode
<1> QED BY <1>1, QmpEventTracks, LinkChangeTracks, ClientTracks DEF Environment
-----------------------------------------------------------------------------
\* A failed daemon is where the code has put it for good.
FailInv == \A n \in Daemons : FailPlace(node[n])

\* What FailedIsFinal says of one step.
StaysFailed ==
    \A n \in Daemons : node[n].failed =>
        node'[n].failed /\ node'[n].state \in {"FAILED", "AUTOQUIT", "QUIT"}

LEMMA AdvancesFail ==
    ASSUME IInv, FailInv, NEW n \in Daemons, NEW t, NEW msgs,
           node' = [node EXCEPT ![n] = t], Advances(node[n], t, msgs)
    PROVE  FailInv' /\ StaysFailed
<1>1. \A m \in Daemons : node'[m] = IF m = n THEN t ELSE node[m]
  BY DEF IInv, TypeOK
<1>2. FailPlace(t) /\ (node[n].failed => t.failed /\ t.state \in FailedState)
  BY DEF Advances, FailPlace, Lost
<1>3. FailInv'
  BY <1>1, <1>2 DEF FailInv, FailPlace, Lost
<1>4. StaysFailed
  BY <1>1, <1>2 DEF FailInv, FailPlace, Lost, StaysFailed, FailedState
<1> QED BY <1>3, <1>4

LEMMA UnchangedFail ==
    ASSUME FailInv, UNCHANGED node
    PROVE  FailInv' /\ StaysFailed
  BY DEF FailInv, FailPlace, Lost, StaysFailed, FailedState

LEMMA DeadFields ==
    ASSUME NEW s, Rec(s)
    PROVE  /\ Dead(s).failed = s.failed /\ Dead(s).state = s.state
           /\ Dead(s).peer_failed = s.peer_failed
           /\ Dead(s).loop = "dead" /\ Dead(s).pc = "done"
  BY DEF Rec, FailFields, Dead

LEMMA ExitFail ==
    ASSUME IInv, FailInv, NEW n \in Daemons, Exit(n)
    PROVE  FailInv' /\ StaysFailed
<1> DEFINE t == Dead(node[n])
<1>1. Rec(node[n])
  BY FromNode
<1>2. /\ t.failed = node[n].failed /\ t.state = node[n].state /\ t.pc = "done"
  BY <1>1, DeadFields
<1>3. \A m \in Daemons : node'[m] = IF m = n THEN t ELSE node[m]
  BY DEF Exit, IInv, TypeOK
<1> HIDE DEF t
<1>4. "done" \in FailedPc
  BY DEF FailedPc, EndPc
<1> QED BY <1>2, <1>3, <1>4 DEF FailInv, FailPlace, Lost, StaysFailed, FailedState

\* The steps of a daemon, by what they do to the failures.
LEMMA StepCases ==
    ASSUME IInv, FailInv, NEW n \in Daemons,
           MainCo(n) \/ Loop(n) \/ Environment(n) \/ Exit(n)
    PROVE  \/ Tracks(n) \/ CpgDispatch(n) \/ Retransmit(n) \/ colod_set_peer(n)
           \/ \E p \in Nodes \ Daemons, m \in PeerMessages : PeerMessage(n, p, m)
           \/ Exit(n)
<1>1. FailPlace(node[n])
  BY DEF FailInv
<1>2. CASE MainCo(n)
  <2>1. NodeInv(node[n]) /\ Rec(node[n])
    BY FromNode DEF IInv
  <2> QED BY <1>1, <1>2, <2>1, MainCoTracks
<1>3. CASE Loop(n)
  BY <1>1, <1>3, LoopTracks
<1>4. CASE Environment(n)
  BY <1>1, <1>4, EnvironmentTracks
<1> QED BY <1>2, <1>3, <1>4

LEMMA FailStep ==
    ASSUME IInv, FailInv, [Next]_vars
    PROVE  FailInv' /\ StaysFailed
<1>1. CASE UNCHANGED vars
  BY <1>1, UnchangedFail DEF vars
<1>2. ASSUME NEW n \in Daemons, MainCo(n) \/ Loop(n) \/ Environment(n) \/ Exit(n)
      PROVE  FailInv' /\ StaysFailed
  <2>1. Rec(node[n]) /\ FailPlace(node[n])
    BY FromNode DEF FailInv
  <2>2. CASE Tracks(n)
    BY <2>2, AdvancesFail DEF Tracks, Step
  <2>3. CASE CpgDispatch(n)
    BY <2>1, <2>3, DispatchedFields, AdvancesFail
  <2>4. CASE Retransmit(n) \/ \E p \in Nodes \ Daemons, m \in PeerMessages : PeerMessage(n, p, m)
    BY <2>4, UnchangedFail DEF Retransmit, PeerMessage
  <2>5. CASE colod_set_peer(n)
    BY <2>1, <2>5, SetPeerAdvances, AdvancesFail DEF Step
  <2>6. CASE Exit(n)
    BY <2>6, ExitFail
  <2> QED BY <1>2, <2>2, <2>3, <2>4, <2>5, <2>6, StepCases
<1> QED BY <1>1, <1>2 DEF Next

LEMMA InitFail ==
    ASSUME Init
    PROVE  FailInv
  BY DEF Init, InitNode, FailInv, FailPlace

\* No daemon that has failed takes part again: whatever clients, the peer, qemu
\* and its own queue do, STATE_FAILED, STATE_AUTOQUIT and the end of the
\* coroutine are all that follows, for every value of the constants.
THEOREM FailureFinal == Spec => FailedIsFinal
<1>1. Init => FailInv
  BY InitFail
<1>2. IInv /\ FailInv /\ [Next]_vars => FailInv'
  BY FailStep
<1>3. IInv /\ FailInv /\ [Next]_vars => [StaysFailed]_vars
  BY FailStep
<1>4. Spec => [][StaysFailed]_vars
  BY <1>1, <1>2, <1>3, InductiveInvariant, PTL DEF Spec
<1> QED BY <1>4 DEF FailedIsFinal, StaysFailed
-----------------------------------------------------------------------------
(***************************************************************************)
(* The announcement.  A daemon that was in the replicating state once and  *)
(* is not told of a new peer keeps peer_failed, so a failure is known, or  *)
(* under way to it, from the moment the failed daemon sees its own message *)
(* come back: corosync delivers to all members or to none.                 *)
(***************************************************************************)
\* The MESSAGE_FAILED of n is among the deliveries q.
Has(q, n) == \E i \in 1 .. Len(q) : q[i] = [msg |-> "FAILED", from |-> n]

\* A send adds messages of the sender only, and the same ones for all members.
LEMMA SendMail ==
    ASSUME NEW m \in Daemons, NEW msgs \in Seq(ColodMessage), NEW marks,
           NEW box \in [Daemons -> Seq(Delivery)], members \subseteq Daemons,
           colod_cpg_send(m, box, marks, msgs), NEW p \in Daemons, NEW n
    PROVE  /\ Has(box[p], n) => Has(inbox'[p], n)
           /\ Has(inbox'[p], n) =>
                Has(box[p], n) \/ (n = m /\ \A q \in members : Has(inbox'[q], n))
<1>1. PICK sent \in 0 .. Len(msgs) : inbox' = Multicast(box, m, SubSeq(msgs, 1, sent))
  BY DEF colod_cpg_send
<1> DEFINE sub == SubSeq(msgs, 1, sent)
           new == [i \in 1 .. Len(sub) |-> [msg |-> sub[i], from |-> m]]
<1>2. sub \in Seq(ColodMessage)
  OBVIOUS
<1>3. \A q \in Daemons : inbox'[q] = IF q \in members THEN box[q] \o new ELSE box[q]
  BY <1>1 DEF Multicast
<1> HIDE DEF sub
<1>4. new \in Seq(Delivery) /\ Len(new) = Len(sub) /\ Len(sub) \in Nat
  <2>1. Len(sub) \in Nat /\ \A i \in 1 .. Len(sub) : sub[i] \in ColodMessage
    BY <1>2
  <2>2. \A i \in 1 .. Len(sub) : [msg |-> sub[i], from |-> m] \in Delivery
    BY <2>1, CpgAssumption DEF Delivery
  <2>3. new \in Seq(Delivery)
    BY <2>1, <2>2, IsASeq
  <2>4. DOMAIN new = 1 .. Len(sub)
    OBVIOUS
  <2> QED BY <2>1, <2>3, <2>4, LenProperties
<1>5. \A i \in 1 .. Len(new) : new[i] = [msg |-> sub[i], from |-> m]
  BY <1>4
<1> HIDE DEF new
<1>6. ASSUME NEW q \in Daemons
      PROVE  /\ box[q] \in Seq(Delivery) /\ Len(box[q]) \in Nat
             /\ Len(box[q] \o new) = Len(box[q]) + Len(new)
             /\ \A i \in 1 .. (Len(box[q]) + Len(new)) :
                  (box[q] \o new)[i] = IF i <= Len(box[q]) THEN box[q][i]
                                       ELSE new[i - Len(box[q])]
  <2> DEFINE b == box[q]
  <2>1. b \in Seq(Delivery)
    OBVIOUS
  <2> HIDE DEF b
  <2>2. /\ Len(b \o new) = Len(b) + Len(new)
        /\ \A i \in 1 .. Len(b) + Len(new) :
             (b \o new)[i] = IF i <= Len(b) THEN b[i] ELSE new[i - Len(b)]
    BY <1>4, <2>1, ConcatProperties, Zenon
  <2>3. Len(b) \in Nat
    BY <2>1
  <2> QED BY <2>1, <2>2, <2>3 DEF b
<1>7. ASSUME NEW q \in Daemons, Has(box[q], n)
      PROVE  Has(inbox'[q], n)
  <2>1. PICK i \in 1 .. Len(box[q]) : box[q][i] = [msg |-> "FAILED", from |-> n]
    BY <1>7 DEF Has
  <2>2. /\ i \in 1 .. Len(box[q] \o new)
        /\ (box[q] \o new)[i] = [msg |-> "FAILED", from |-> n]
    BY <1>4, <1>6, <2>1
  <2> QED BY <1>3, <1>7, <2>2 DEF Has
<1>8. ASSUME Has(inbox'[p], n), ~Has(box[p], n)
      PROVE  n = m /\ \A q \in members : Has(inbox'[q], n)
  <2>1. inbox'[p] = box[p] \o new
    BY <1>3, <1>8
  <2>2. PICK i \in 1 .. Len(box[p] \o new) :
          (box[p] \o new)[i] = [msg |-> "FAILED", from |-> n]
    BY <1>8, <2>1 DEF Has
  <2>3. i > Len(box[p])
    BY <1>4, <1>6, <1>8, <2>2 DEF Has
  <2> DEFINE j == i - Len(box[p])
  <2>4. j \in 1 .. Len(new) /\ new[j] = [msg |-> "FAILED", from |-> n]
    BY <1>4, <1>6, <2>2, <2>3
  <2> HIDE DEF j
  <2>5. n = m
    <3>1. [msg |-> "FAILED", from |-> n] = [msg |-> sub[j], from |-> m]
      BY <1>5, <2>4
    <3>2. [msg |-> "FAILED", from |-> n].from = [msg |-> sub[j], from |-> m].from
      BY <3>1
    <3> QED BY <3>2
  <2>6. ASSUME NEW q \in members
        PROVE  Has(inbox'[q], n)
    <3>1. q \in Daemons /\ inbox'[q] = box[q] \o new
      BY <1>3
    <3>2. /\ Len(box[q]) + j \in 1 .. Len(box[q] \o new)
          /\ (box[q] \o new)[Len(box[q]) + j] = new[j]
      <4> DEFINE l == Len(box[q])
      <4>1. /\ l \in Nat /\ Len(box[q] \o new) = l + Len(new)
            /\ \A h \in 1 .. (l + Len(new)) :
                 (box[q] \o new)[h] = IF h <= l THEN box[q][h] ELSE new[h - l]
        BY <1>6, <3>1
      <4> HIDE DEF l
      <4>2. l + j \in 1 .. (l + Len(new)) /\ ~(l + j <= l) /\ (l + j) - l = j
        BY <1>4, <2>4, <4>1
      <4>3. (box[q] \o new)[l + j] = new[j]
        BY <4>1, <4>2
      <4> QED BY <4>1, <4>2, <4>3 DEF l
    <3> QED BY <2>4, <3>1, <3>2 DEF Has
  <2> QED BY <2>5, <2>6
<1> QED BY <1>7, <1>8

\* The members of the group are the daemons that live.
Present == \A n \in Daemons : n \in members <=> node[n].loop # "dead"

\* No daemon is before its first replication any more.
NotEarly == \A n \in Daemons : node[n].pc \notin EarlyPc

\* The failure of n must be known to its peers: its message has been delivered
\* to all members, or is marked no more because it was.
Public(n) ==
    \/ Has(inbox[n], n)
    \/ node[n].failed /\ node[n].loop # "dead" /\ "FAILED" \notin retransmit[n]

Hears(p) == node[p].loop \in {"run", "quit"}

Told ==
    \A n, p \in Daemons :
        n # p /\ Hears(p) /\ Public(n) => node[p].peer_failed \/ Has(inbox[p], n)

AnnounceInv == FailInv /\ Present /\ NotEarly /\ Told
\* A step of daemon m that leaves it in the state t and sends msgs, after a
\* delivery perhaps: box is what is under way without it, marks what is marked.
LEMMA MailStep ==
    ASSUME IInv, AnnounceInv, NEW m \in Daemons, NEW t, NEW msgs \in Seq(ColodMessage),
           NEW box \in [Daemons -> Seq(Delivery)],
           NEW marks \in [Daemons -> SUBSET ColodMessage],
           node' = [node EXCEPT ![m] = t], UNCHANGED members,
           colod_cpg_send(m, box, marks, msgs),
           Advances(node[m], t, msgs), Remembers(node[m], t),
           \A p \in Daemons \ {m} : box[p] = inbox[p] /\ marks[p] = retransmit[p],
           \A n \in Daemons : Has(box[m], n) => Has(inbox[m], n),
           \A n \in Daemons \ {m} :
              Has(inbox[m], n) /\ Hears(m) => Has(box[m], n) \/ t.peer_failed,
           "FAILED" \in retransmit[m] => "FAILED" \in marks[m] \/ Has(inbox[m], m)
    PROVE  AnnounceInv'
<1>1. \A n \in Daemons : node'[n] = IF n = m THEN t ELSE node[n]
  BY DEF IInv, TypeOK
<1>2. FailInv'
  BY AdvancesFail DEF AnnounceInv
<1>3. Present' /\ NotEarly'
  BY <1>1 DEF AnnounceInv, Present, NotEarly, Advances
<1>4. members \subseteq Daemons
  BY DEF IInv, TypeOK, CpgTypeOK
<1>5. \A n \in Daemons : retransmit'[n] = IF n = m THEN marks[m] \cup ToSet(msgs) ELSE retransmit[n]
  BY DEF colod_cpg_send
<1>6. ASSUME NEW p \in Daemons, NEW n \in Daemons
      PROVE  /\ Has(box[p], n) => Has(inbox'[p], n)
             /\ Has(inbox'[p], n) =>
                  Has(box[p], n) \/ (n = m /\ \A q \in members : Has(inbox'[q], n))
  BY <1>4, SendMail
<1>7. ASSUME NEW n \in Daemons, NEW p \in Daemons, n # p, Hears(p)', Public(n)'
      PROVE  node'[p].peer_failed \/ Has(inbox'[p], n)
  <2>1. Hears(p) /\ p \in members
    BY <1>1, <1>7 DEF Hears, Advances, AnnounceInv, Present
  <2>2. Public(n) \/ (n = m /\ \A q \in members : Has(inbox'[q], n))
    <3>1. CASE Has(inbox'[n], n)
      <4>1. CASE Has(box[n], n)
        BY <4>1 DEF Public
      <4> QED BY <1>6, <3>1, <4>1
    <3>2. CASE node'[n].failed /\ node'[n].loop # "dead" /\ "FAILED" \notin retransmit'[n]
      <4>1. CASE n # m
        BY <1>1, <1>5, <3>2, <4>1 DEF Public
      <4>2. CASE n = m
        <5>1. node[m].failed /\ node[m].loop # "dead" /\ "FAILED" \notin marks[m]
          BY <1>1, <1>5, <3>2, <4>2 DEF Advances
        <5> QED BY <4>2, <5>1 DEF Public
      <4> QED BY <4>1, <4>2
    <3> QED BY <1>7, <3>1, <3>2 DEF Public
  <2>3. CASE n = m /\ \A q \in members : Has(inbox'[q], n)
    BY <2>1, <2>3
  <2>4. CASE Public(n)
    <3>1. node[p].peer_failed \/ Has(inbox[p], n)
      BY <1>7, <2>1, <2>4 DEF AnnounceInv, Told
    <3>2. CASE p # m
      BY <1>1, <1>6, <3>1, <3>2
    <3>3. CASE p = m
      <4>1. CASE node[p].peer_failed
        BY <1>1, <3>3, <4>1 DEF Remembers, AnnounceInv, NotEarly
      <4>2. CASE Has(inbox[p], n)
        BY <1>1, <1>6, <1>7, <2>1, <3>3, <4>2
      <4> QED BY <3>1, <4>1, <4>2
    <3> QED BY <3>2, <3>3
  <2> QED BY <2>2, <2>3, <2>4
<1> QED BY <1>2, <1>3, <1>7 DEF AnnounceInv, Told

LEMMA TracksAnnounce ==
    ASSUME IInv, AnnounceInv, NEW n \in Daemons, Tracks(n)
    PROVE  AnnounceInv'
<1>1. PICK t : \E msgs \in Seq(ColodMessage) :
        Step(n, t, msgs) /\ Advances(node[n], t, msgs) /\ Remembers(node[n], t)
  BY DEF Tracks
<1>2. PICK msgs \in Seq(ColodMessage) :
        Step(n, t, msgs) /\ Advances(node[n], t, msgs) /\ Remembers(node[n], t)
  BY <1>1
<1>3. /\ inbox \in [Daemons -> Seq(Delivery)]
      /\ retransmit \in [Daemons -> SUBSET ColodMessage]
  BY DEF IInv, TypeOK, CpgTypeOK
<1> QED BY <1>2, <1>3, MailStep DEF Step, Send

\* The first delivery of a daemon that hears is taken: the rest stays.
LEMMA TakenMail ==
    ASSUME NEW q \in Seq(Delivery), q # << >>, NEW n
    PROVE  /\ Has(Tail(q), n) => Has(q, n)
           /\ Has(q, n) => Has(Tail(q), n) \/ (Head(q).msg = "FAILED" /\ Head(q).from = n)
<1>1. /\ Len(q) \in Nat \ {0} /\ Head(q) = q[1] /\ Len(Tail(q)) = Len(q) - 1
      /\ \A i \in 1 .. Len(Tail(q)) : Tail(q)[i] = q[i + 1]
  BY HeadTailProperties, EmptySeq
<1>2. ASSUME NEW i \in 1 .. Len(Tail(q)), Tail(q)[i] = [msg |-> "FAILED", from |-> n]
      PROVE  Has(q, n)
  <2>1. i + 1 \in 1 .. Len(q) /\ q[i + 1] = [msg |-> "FAILED", from |-> n]
    BY <1>1, <1>2
  <2> QED BY <2>1 DEF Has
<1>3. ASSUME NEW i \in 1 .. Len(q), q[i] = [msg |-> "FAILED", from |-> n]
      PROVE  Has(Tail(q), n) \/ (Head(q).msg = "FAILED" /\ Head(q).from = n)
  <2>1. CASE i = 1
    BY <1>1, <1>3, <2>1
  <2>2. CASE i # 1
    <3>1. i - 1 \in 1 .. Len(Tail(q)) /\ Tail(q)[i - 1] = [msg |-> "FAILED", from |-> n]
      BY <1>1, <1>3, <2>2
    <3> QED BY <3>1 DEF Has
  <2> QED BY <2>1, <2>2
<1> QED BY <1>2, <1>3 DEF Has

LEMMA DispatchAnnounce ==
    ASSUME IInv, AnnounceInv, NEW m \in Daemons, CpgDispatch(m)
    PROVE  AnnounceInv'
<1> DEFINE d == Head(inbox[m])
           box == Taken(m)
           marks == Unmark(m)
           msgs == CASE d.msg = "LEFT" -> Marked(m)
                     [] d.msg = "HELLO" /\ Notified(m) /\ node[m].yellow -> <<"YELLOW">>
                     [] OTHER -> << >>
<1>1. /\ inbox[m] \in Seq(Delivery) /\ inbox[m] # << >> /\ members' = members
      /\ colod_cpg_send(m, box, marks, msgs)
      /\ inbox \in [Daemons -> Seq(Delivery)]
      /\ retransmit \in [Daemons -> SUBSET ColodMessage]
  BY DEF CpgDispatch, IInv, TypeOK, CpgTypeOK
<1>2. msgs \in Seq(ColodMessage)
  <2>1. /\ Marked(m) \in Seq(ColodMessage) /\ << >> \in Seq(ColodMessage)
        /\ <<"YELLOW">> \in Seq(ColodMessage)
    BY MarkedType DEF ColodMessage
  <2> QED BY <2>1
<1>3. /\ box \in [Daemons -> Seq(Delivery)] /\ marks \in [Daemons -> SUBSET ColodMessage]
  BY <1>1, TakenType DEF IInv, TypeOK, CpgInv
<1> HIDE DEF msgs
<1>4. PICK t : /\ node' = [node EXCEPT ![m] = t]
               /\ Advances(node[m], t, << >>) /\ Remembers(node[m], t)
               /\ d.msg = "FAILED" /\ d.from # m /\ node[m].loop \in {"run", "quit"}
                    => t.peer_failed
  BY DispatchedFields DEF AnnounceInv, FailInv
<1>5. Advances(node[m], t, msgs)
  <2>1. ToSet(<< >>) = {}
    BY DEF ToSet
  <2> QED BY <1>4, <2>1 DEF Advances
<1>6. \A p \in Daemons \ {m} : box[p] = inbox[p] /\ marks[p] = retransmit[p]
  BY <1>1 DEF Taken, Unmark
<1>7. box[m] = Tail(inbox[m])
  BY <1>1 DEF Taken
<1>8. \A n \in Daemons : Has(box[m], n) => Has(inbox[m], n)
  BY <1>1, <1>7, TakenMail
<1>9. \A n \in Daemons : Has(inbox[m], n) =>
        Has(box[m], n) \/ (d.msg = "FAILED" /\ d.from = n)
  BY <1>1, <1>7, TakenMail
<1>10. \A n \in Daemons \ {m} :
         Has(inbox[m], n) /\ Hears(m) => Has(box[m], n) \/ t.peer_failed
  BY <1>4, <1>9 DEF Hears
<1>11. "FAILED" \in retransmit[m] => "FAILED" \in marks[m] \/ Has(inbox[m], m)
  <2>1. SUFFICES ASSUME "FAILED" \in retransmit[m], "FAILED" \notin marks[m]
                 PROVE  Has(inbox[m], m)
    OBVIOUS
  <2>2. d.from = m /\ d.msg = "FAILED"
    BY <1>1, <2>1 DEF Unmark
  <2>3. Len(inbox[m]) \in Nat \ {0} /\ d = inbox[m][1] /\ d \in Delivery
    BY <1>1, HeadTailProperties, EmptySeq
  <2>4. d = [msg |-> "FAILED", from |-> m]
    BY <2>2, <2>3 DEF Delivery
  <2>5. 1 \in 1 .. Len(inbox[m]) /\ inbox[m][1] = [msg |-> "FAILED", from |-> m]
    BY <2>3, <2>4
  <2> QED BY <2>5 DEF Has
<1> HIDE DEF box, marks
<1> QED BY <1>1, <1>2, <1>3, <1>4, <1>5, <1>6, <1>8, <1>10, <1>11, MailStep

LEMMA RetransmitAnnounce ==
    ASSUME IInv, AnnounceInv, NEW n \in Daemons, Retransmit(n)
    PROVE  AnnounceInv'
<1>1. node \in [Daemons -> NodeState] /\ UNCHANGED node /\ colod_cpg_retransmit_cb(n)
  BY DEF Retransmit, IInv, TypeOK
<1>2. CASE retransmit[n] = {}
  <2>1. UNCHANGED <<node, members, inbox, retransmit>>
    BY <1>1, <1>2 DEF colod_cpg_retransmit_cb
  <2> QED BY <2>1 DEF AnnounceInv, FailInv, FailPlace, Lost, Present, NotEarly, Told,
                      Public, Hears, Has
<1>3. CASE retransmit[n] # {}
  <2> DEFINE t == node[n]
  <2>1. Step(n, t, Marked(n))
    BY <1>1, <1>3 DEF colod_cpg_retransmit_cb, Step
  <2>2. Advances(node[n], t, Marked(n)) /\ Remembers(node[n], t)
    BY DEF Advances, Remembers, AnnounceInv, FailInv, FailPlace
  <2>3. Marked(n) \in Seq(ColodMessage)
    BY MarkedType
  <2>4. Tracks(n)
    BY <2>1, <2>2, <2>3 DEF Tracks
  <2> QED BY <2>4, TracksAnnounce
<1> QED BY <1>2, <1>3

\* What is appended is no MESSAGE_FAILED of a daemon.
LEMMA AppendMail ==
    ASSUME NEW q \in Seq(Delivery), NEW d \in Delivery, NEW n,
           d.msg # "FAILED" \/ d.from # n
    PROVE  Has(Append(q, d), n) <=> Has(q, n)
<1>1. /\ Len(q) \in Nat /\ Len(Append(q, d)) = Len(q) + 1
      /\ \A i \in 1 .. Len(q) : Append(q, d)[i] = q[i]
      /\ Append(q, d)[Len(q) + 1] = d
  OBVIOUS
<1>2. d # [msg |-> "FAILED", from |-> n]
  OBVIOUS
<1> QED BY <1>1, <1>2 DEF Has

LEMMA PeerMessageAnnounce ==
    ASSUME IInv, AnnounceInv, NEW n \in Daemons, NEW p \in Nodes \ Daemons,
           NEW m \in PeerMessages, PeerMessage(n, p, m)
    PROVE  AnnounceInv'
<1> DEFINE d == [msg |-> m, from |-> p]
<1>1. d \in Delivery /\ d.from = p
  BY MainAssumption DEF Delivery
<1>2. UNCHANGED <<node, members, retransmit>> /\ inbox' = [inbox EXCEPT ![n] = Append(@, d)]
  BY DEF PeerMessage
<1>3. inbox \in [Daemons -> Seq(Delivery)]
  BY DEF IInv, TypeOK, CpgTypeOK
<1> HIDE DEF d
<1>4. \A r \in Daemons, q \in Daemons : Has(inbox'[q], r) <=> Has(inbox[q], r)
  <2> SUFFICES ASSUME NEW r \in Daemons, NEW q \in Daemons
               PROVE  Has(inbox'[q], r) <=> Has(inbox[q], r)
    OBVIOUS
  <2>1. inbox[q] \in Seq(Delivery) /\ d.from # r
    BY <1>1, <1>3
  <2>2. Has(Append(inbox[q], d), r) <=> Has(inbox[q], r)
    BY <1>1, <2>1, AppendMail
  <2>3. inbox'[q] = IF q = n THEN Append(inbox[q], d) ELSE inbox[q]
    BY <1>2, <1>3
  <2> QED BY <2>2, <2>3
<1>5. FailInv' /\ Present' /\ NotEarly'
  BY <1>2 DEF AnnounceInv, FailInv, FailPlace, Lost, Present, NotEarly
<1>6. Told'
  BY <1>2, <1>4 DEF AnnounceInv, Told, Public, Hears
<1> QED BY <1>5, <1>6 DEF AnnounceInv

LEMMA ExitAnnounce ==
    ASSUME IInv, AnnounceInv, NEW m \in Daemons, Exit(m)
    PROVE  AnnounceInv'
<1> DEFINE t == Dead(node[m])
           d == [msg |-> "LEFT", from |-> m]
<1>1. t.failed = node[m].failed /\ t.loop = "dead" /\ t.pc = "done"
  BY FromNode, DeadFields
<1>2. \A n \in Daemons : node'[n] = IF n = m THEN t ELSE node[n]
  BY DEF Exit, IInv, TypeOK
<1>3. /\ members' = members \ {m} /\ members \subseteq Daemons
      /\ \A n \in Daemons : n # m => retransmit'[n] = retransmit[n]
      /\ \A n \in Daemons : inbox'[n] = IF n = m THEN << >>
                                        ELSE IF n \in members THEN Append(inbox[n], d)
                                        ELSE inbox[n]
  BY DEF Exit, Leave, IInv, TypeOK, CpgTypeOK
<1>4. d \in Delivery /\ d.msg = "LEFT"
  BY CpgAssumption DEF Delivery
<1> HIDE DEF t, d
<1>5. FailInv'
  BY ExitFail DEF AnnounceInv
<1>6. Present' /\ NotEarly'
  <2>1. "done" \notin EarlyPc
    BY DEF EarlyPc
  <2> QED BY <1>1, <1>2, <1>3, <2>1 DEF AnnounceInv, Present, NotEarly
<1>7. ASSUME NEW q \in Daemons, q # m, NEW n \in Daemons
      PROVE  Has(inbox'[q], n) <=> Has(inbox[q], n)
  <2>1. inbox[q] \in Seq(Delivery)
    BY DEF IInv, TypeOK, CpgTypeOK
  <2>2. Has(Append(inbox[q], d), n) <=> Has(inbox[q], n)
    BY <1>4, <2>1, AppendMail
  <2> QED BY <1>3, <1>7, <2>2
<1>8. ASSUME NEW n \in Daemons, NEW p \in Daemons, n # p, Hears(p)', Public(n)'
      PROVE  node'[p].peer_failed \/ Has(inbox'[p], n)
  <2>1. p # m
    BY <1>1, <1>2, <1>8 DEF Hears
  <2>2. n # m
    <3>1. ~Has(<< >>, n)
      BY DEF Has
    <3> QED BY <1>1, <1>2, <1>3, <1>8, <3>1 DEF Public
  <2>3. Public(n) /\ Hears(p)
    BY <1>2, <1>3, <1>7, <1>8, <2>1, <2>2 DEF Public, Hears
  <2>4. node[p].peer_failed \/ Has(inbox[p], n)
    BY <1>8, <2>3 DEF AnnounceInv, Told
  <2> QED BY <1>2, <1>7, <2>1, <2>4
<1> QED BY <1>5, <1>6, <1>8 DEF AnnounceInv, Told

LEMMA InitAnnounce ==
    ASSUME Init, Replicating
    PROVE  AnnounceInv
<1>1. \A n \in Daemons : /\ node[n].failed = FALSE /\ node[n].loop = "run"
                         /\ node[n].pc = "cr_event" /\ inbox[n] = << >>
  BY DEF Init, InitNode, CpgInit
<1>2. members = Daemons /\ \A n : ~Has(<< >>, n)
  BY DEF Init, CpgInit, Has
<1>3. Told
  BY <1>1, <1>2 DEF Told, Public
<1> QED BY <1>1, <1>2, <1>3, InitFail DEF AnnounceInv, Present, NotEarly, EarlyPc

\* A failure is not forgotten: of a pair that replicates and is given no other
\* peer (colod_set_peer forgets the failure of the old one, on purpose), every
\* daemon that still listens knows of the failure of the other, has the message
\* before it, or the failed one has it marked and will send it again, however
\* many multicasts are lost and whatever the order of the deliveries.
THEOREM FailureIsAnnounced ==
    ASSUME Replicating, "set_peer" \notin Inputs
    PROVE  Spec => []FailureAnnounced
<1>1. Init => AnnounceInv
  BY InitAnnounce
<1>2. IInv /\ AnnounceInv /\ [Next]_vars => AnnounceInv'
  <2> SUFFICES ASSUME IInv, AnnounceInv, [Next]_vars PROVE AnnounceInv'
    OBVIOUS
  <2>1. CASE UNCHANGED vars
    BY <2>1 DEF vars, cpgVars, AnnounceInv, FailInv, FailPlace, Lost, Present, NotEarly,
                Told, Public, Hears, Has
  <2>2. ASSUME NEW n \in Daemons, MainCo(n) \/ Loop(n) \/ Environment(n) \/ Exit(n)
        PROVE  AnnounceInv'
    <3>1. ~colod_set_peer(n)
      BY DEF colod_set_peer, Input
    <3>2. FailInv
      BY DEF AnnounceInv
    <3>3. \/ Tracks(n) \/ CpgDispatch(n) \/ Retransmit(n)
          \/ \E p \in Nodes \ Daemons, m \in PeerMessages : PeerMessage(n, p, m)
          \/ Exit(n)
      BY <2>2, <3>1, <3>2, StepCases
    <3> QED BY <3>3, TracksAnnounce, DispatchAnnounce, RetransmitAnnounce,
               PeerMessageAnnounce, ExitAnnounce
  <2> QED BY <2>1, <2>2 DEF Next
<1>3. AnnounceInv => FailureAnnounced
  BY DEF AnnounceInv, Told, Public, Hears, Has, FailureAnnounced, Looping
<1> QED BY <1>1, <1>2, <1>3, InductiveInvariant, PTL DEF Spec
-----------------------------------------------------------------------------
(***************************************************************************)
(* The contest for the guest.  A daemon of a replicating pair that wants   *)
(* to take the guest over asks with FAILOVER and waits (FAILOVER_SYNC);    *)
(* corosync delivers the messages of both in one order, so that the one    *)
(* whose message is first gets FAILOVER_WIN and the other PEER_FAILOVER,   *)
(* which interrupts it before its own FAILOVER_WIN can.  Contends says     *)
(* what a step may do to a daemon's part in this, Contest how the parts    *)
(* of two daemons and what is still to be delivered to them fit together.  *)
(***************************************************************************)
\* Where a daemon can be that may still lose the guest, and where one that
\* takes it over or runs it alone is.
LowPc == {"cr_event", "fs_event"} \cup FailedPc
OwnerPc == {"pw_event", "fo_yank", "fo_array"}

Low(s) == s.pc \in LowPc
Queued(s, e) == \E i \in 1 .. Len(s.queue) : s.queue[i] = e

\* It fails before it could handle FAILOVER_WIN.
Doomed(s) ==
    Low(s) /\ (s.pc \in FailedPc \/ \E e \in AlwaysInterrupting : Queued(s, e))

\* What the state of a daemon of a replicating pair says about its place.
Fit(s) ==
    /\ s.interrupting \in {AlwaysInterrupting, SyncInterrupting}
    /\ s.pc \notin EarlyPc
    /\ s.state \in {"FAILOVER", "PRIMARY_WAIT"} /\ s.loop # "dead" => s.pc \in OwnerPc
    /\ s.loop = "teardown" => Queued(s, "QUIT") \/ s.pc \in FailedPc
    /\ s.loop = "dead" => s.pc \in FailedPc

\* A step of a daemon, other than a delivery: FAILOVER_WIN is all that lets it
\* escape, and nothing saves it once it is doomed.
Contends(s, t) ==
    /\ Fit(t)
    /\ Low(s) => Low(t) \/ (~Doomed(s) /\ Queued(s, "FAILOVER_WIN"))
    /\ Doomed(s) => Doomed(t)
    /\ Queued(t, "FAILOVER_WIN") => Queued(s, "FAILOVER_WIN")
    /\ t.loop = "dead" <=> s.loop = "dead"

ContestFields == {"state", "loop", "pc", "queue", "interrupting"}

HasQueue(s) == ContestFields \subseteq DOMAIN s /\ s.queue \in Seq(ColodEvent)

\* t is s with other values in the fields that do not matter here, and perhaps
\* another event queued.
Carries(s, t) ==
    /\ HasQueue(t)
    /\ t.state = s.state /\ t.loop = s.loop /\ t.interrupting = s.interrupting
    /\ \A e : Queued(s, e) => Queued(t, e)
    /\ Queued(t, "FAILOVER_WIN") => Queued(s, "FAILOVER_WIN")

LEMMA CarriesSame ==
    ASSUME NEW s, HasQueue(s), NEW t, ContestFields \subseteq DOMAIN t,
           t.state = s.state, t.loop = s.loop, t.interrupting = s.interrupting,
           t.queue = s.queue
    PROVE  Carries(s, t)
  BY DEF Carries, HasQueue, Queued

LEMMA CarriesTrans ==
    ASSUME NEW s, NEW t, NEW u, Carries(s, t), Carries(t, u)
    PROVE  Carries(s, u)
  BY DEF Carries

\* What colod_event_queue does to the queue.
LEMMA QueuedEvent ==
    ASSUME NEW s, HasQueue(s), NEW e \in ColodEvent
    PROVE  LET t == colod_event_queue(s, e)
           IN  /\ HasQueue(t) /\ t.pc = s.pc /\ t.state = s.state /\ t.loop = s.loop
               /\ t.interrupting = s.interrupting
               /\ \A f : Queued(s, f) => Queued(t, f)
               /\ \A f : Queued(t, f) => Queued(s, f) \/ f = e
               /\ Len(s.queue) < QueueSize => Queued(t, e)
<1> DEFINE t == colod_event_queue(s, e)
           q == s.queue
           drop == LastIs(q, s.interrupting, e) \/ Len(q) = QueueSize
<1>1. /\ ContestFields \subseteq DOMAIN t /\ t.pc = s.pc /\ t.state = s.state
      /\ t.loop = s.loop /\ t.interrupting = s.interrupting
      /\ t.queue = IF drop THEN q ELSE Append(q, e)
  BY DEF colod_event_queue, HasQueue, ContestFields
<1>2. q \in Seq(ColodEvent) /\ Len(q) \in Nat
  BY DEF HasQueue
<1> HIDE DEF t
<1>3. CASE drop
  <2>1. Len(q) < QueueSize => Queued(s, e)
    BY <1>2, <1>3, MainAssumption DEF LastIs, Queued
  <2> QED BY <1>1, <1>2, <1>3, <2>1 DEF Queued, HasQueue, t
<1>4. CASE ~drop
  <2>1. /\ t.queue = Append(q, e) /\ t.queue \in Seq(ColodEvent)
        /\ Len(t.queue) = Len(q) + 1 /\ t.queue[Len(q) + 1] = e
        /\ \A i \in 1 .. Len(q) : t.queue[i] = q[i]
    BY <1>1, <1>2, <1>4
  <2>2. \A f : Queued(s, f) => Queued(t, f)
    BY <1>2, <2>1 DEF Queued
  <2>3. \A f : Queued(t, f) => Queued(s, f) \/ f = e
    BY <1>2, <2>1 DEF Queued
  <2>4. Queued(t, e)
    BY <1>2, <2>1 DEF Queued
  <2> QED BY <1>1, <2>1, <2>2, <2>3, <2>4 DEF HasQueue, t
<1> QED BY <1>3, <1>4

LEMMA CarriesQueue ==
    ASSUME NEW s, HasQueue(s), NEW e \in ColodEvent, e # "FAILOVER_WIN"
    PROVE  Carries(s, colod_event_queue(s, e)) /\ colod_event_queue(s, e).pc = s.pc
<1> DEFINE t == colod_event_queue(s, e)
<1>1. /\ HasQueue(t) /\ t.pc = s.pc /\ t.state = s.state /\ t.loop = s.loop
      /\ t.interrupting = s.interrupting
      /\ \A f : Queued(s, f) => Queued(t, f)
      /\ \A f : Queued(t, f) => Queued(s, f) \/ f = e
  BY QueuedEvent
<1> HIDE DEF t
<1> QED BY <1>1 DEF Carries, t

LEMMA CarriesYield ==
    ASSUME NEW s, HasQueue(s)
    PROVE  Carries(s, Yield(s)) /\ Yield(s).pc = s.pc
  BY DEF HasQueue, ContestFields, Carries, Queued, Yield

LEMMA CarriesWaitEvent ==
    ASSUME NEW s, HasQueue(s), NEW pc
    PROVE  Carries(s, WaitEvent(s, pc)) /\ WaitEvent(s, pc).pc = pc
<1> DEFINE t == [s EXCEPT !.pc = pc, !.fired = FALSE]
<1>1. Carries(s, t) /\ t.pc = pc
  BY DEF HasQueue, ContestFields, Carries, Queued
<1> HIDE DEF t
<1>2. Carries(t, Yield(t)) /\ Yield(t).pc = pc
  BY <1>1, CarriesYield DEF Carries
<1> QED BY <1>1, <1>2, CarriesTrans DEF WaitEvent, t

LEMMA CarriesExecute ==
    ASSUME NEW s, HasQueue(s), NEW pc
    PROVE  Carries(s, Execute(s, pc)) /\ Execute(s, pc).pc = pc
  BY DEF HasQueue, ContestFields, Carries, Queued, Execute

LEMMA CarriesExecuteArray ==
    ASSUME NEW s, HasQueue(s), NEW pc
    PROVE  Carries(s, ExecuteArray(s, pc)) /\ ExecuteArray(s, pc).pc = pc
  BY DEF HasQueue, ContestFields, Carries, Queued, ExecuteArray

LEMMA CarriesRaiseTimeout ==
    ASSUME NEW s, HasQueue(s)
    PROVE  Carries(s, RaiseTimeout(s)) /\ RaiseTimeout(s).pc = s.pc
  BY DEF HasQueue, ContestFields, Carries, Queued, RaiseTimeout

LEMMA CarriesEndWait ==
    ASSUME NEW s, HasQueue(s)
    PROVE  Carries(s, EndWait(s)) /\ EndWait(s).pc = s.pc
  BY DEF HasQueue, ContestFields, Carries, Queued, EndWait

LEMMA CarriesChecked ==
    ASSUME NEW s, HasQueue(s), NEW result, NEW yanked
    PROVE  /\ Carries(s, Checked(s, result, yanked))
           /\ Checked(s, result, yanked).pc = s.pc
<1> DEFINE u == [s EXCEPT !.qmp_error = TRUE]
           v == [s EXCEPT !.did_yank = FALSE]
<1>1. /\ Carries(s, u) /\ Carries(s, v) /\ u.pc = s.pc /\ v.pc = s.pc /\ Carries(s, s)
      /\ HasQueue(u) /\ HasQueue(v)
  BY DEF HasQueue, ContestFields, Carries, Queued
<1>2. Checked(s, result, yanked) \in
        {colod_event_queue(u, "FAILED"), colod_event_queue(v, "FAILOVER_SYNC"), s}
  BY DEF Checked
<1> HIDE DEF u, v
<1>3. "FAILED" \in ColodEvent /\ "FAILOVER_SYNC" \in ColodEvent
  BY DEF ColodEvent, AlwaysInterrupting
<1>4. /\ Carries(u, colod_event_queue(u, "FAILED"))
      /\ colod_event_queue(u, "FAILED").pc = u.pc
      /\ Carries(v, colod_event_queue(v, "FAILOVER_SYNC"))
      /\ colod_event_queue(v, "FAILOVER_SYNC").pc = v.pc
  BY <1>1, <1>3, CarriesQueue
<1>5. /\ Carries(s, colod_event_queue(u, "FAILED"))
      /\ Carries(s, colod_event_queue(v, "FAILOVER_SYNC"))
  BY <1>1, <1>4, CarriesTrans
<1> QED BY <1>1, <1>2, <1>4, <1>5

LEMMA CarriesExecuted ==
    ASSUME NEW s, HasQueue(s), NEW result, NEW yanked
    PROVE  /\ Carries(s, Executed(s, result, yanked))
           /\ Executed(s, result, yanked).pc = s.pc
<1> DEFINE u == [s EXCEPT !.cmd = FALSE, !.io = FALSE]
<1>1. Carries(s, u) /\ u.pc = s.pc /\ HasQueue(u)
  BY DEF HasQueue, ContestFields, Carries, Queued
<1>2. Executed(s, result, yanked) = Checked(u, result, yanked)
  BY DEF Executed
<1> HIDE DEF u
<1>3. Carries(u, Checked(u, result, yanked)) /\ Checked(u, result, yanked).pc = u.pc
  BY <1>1, CarriesChecked
<1> QED BY <1>1, <1>2, <1>3, CarriesTrans

\* Without(n, i): event i is gone, and no other.
LEMMA WithoutQueued ==
    ASSUME NEW n, HasQueue(node[n]), NEW i \in 1 .. Len(node[n].queue)
    PROVE  LET s == node[n]
               u == Without(n, i)
           IN  /\ HasQueue(u) /\ u.pc = s.pc /\ u.state = s.state /\ u.loop = s.loop
               /\ u.interrupting = s.interrupting
               /\ \A e : Queued(u, e) => Queued(s, e)
               /\ \A e : Queued(s, e) => Queued(u, e) \/ e = s.queue[i]
<1> DEFINE s == node[n]
           u == Without(n, i)
           q == s.queue
           r == RemoveAt(q, i)
<1>1. /\ ContestFields \subseteq DOMAIN u /\ u.pc = s.pc /\ u.state = s.state
      /\ u.loop = s.loop /\ u.interrupting = s.interrupting /\ u.queue = r
  BY DEF HasQueue, ContestFields, Without, Woken
<1>2. q \in Seq(ColodEvent) /\ Len(q) \in Nat
  BY DEF HasQueue
<1>3. /\ r \in Seq(ColodEvent) /\ Len(r) = Len(q) - 1
      /\ \A j \in 1 .. (Len(q) - 1) : r[j] = IF j < i THEN q[j] ELSE q[j + 1]
  BY <1>2, RemoveAtProperties
<1> HIDE DEF u, r, q
<1>4. ASSUME NEW e, NEW j \in 1 .. Len(r), r[j] = e
      PROVE  \E k \in 1 .. Len(q) : q[k] = e
  <2>1. CASE j < i
    BY <1>2, <1>3, <1>4, <2>1
  <2>2. CASE ~(j < i)
    <3>1. j + 1 \in 1 .. Len(q) /\ q[j + 1] = e
      BY <1>2, <1>3, <1>4, <2>2
    <3> QED BY <3>1
  <2> QED BY <2>1, <2>2
<1>5. ASSUME NEW e, NEW j \in 1 .. Len(q), q[j] = e, e # q[i]
      PROVE  \E k \in 1 .. Len(r) : r[k] = e
  <2>0. i \in 1 .. Len(q)
    BY DEF q
  <2>1. CASE j < i
    <3>1. j \in 1 .. Len(r) /\ r[j] = e
      BY <1>2, <1>3, <1>5, <2>0, <2>1
    <3> QED BY <3>1
  <2>2. CASE ~(j < i)
    <3>1. j > i
      BY <1>5, <2>0, <2>2
    <3>2. j - 1 \in 1 .. Len(r) /\ r[j - 1] = e
      BY <1>2, <1>3, <1>5, <2>0, <3>1
    <3> QED BY <3>2
  <2> QED BY <2>1, <2>2
<1>6. HasQueue(u)
  BY <1>1, <1>3 DEF HasQueue
<1>7. \A e : Queued(u, e) => Queued(s, e)
  BY <1>1, <1>4 DEF Queued, q
<1>8. \A e : Queued(s, e) => Queued(u, e) \/ e = q[i]
  BY <1>1, <1>5 DEF Queued, q
<1> QED BY <1>1, <1>6, <1>7, <1>8 DEF u, q
-----------------------------------------------------------------------------
\* The states a daemon of a replicating pair enters, and those that end it.
LaterState == MainState \ {"SECONDARY_STARTUP", "SECONDARY_WAIT"}
EndState == FailEntry \cup {"QUIT"}

LEMMA EnterContest ==
    ASSUME NEW s, HasQueue(s), NEW st \in LaterState
    PROVE  LET t == EnterState(s, st)
           IN  /\ t.queue = s.queue /\ t.loop = s.loop
               /\ t.interrupting \in {s.interrupting, AlwaysInterrupting, SyncInterrupting}
               /\ t.pc \notin EarlyPc
               /\ t.state \in {"FAILOVER", "PRIMARY_WAIT"} => t.pc \in OwnerPc
               /\ st \in EndState => t.pc \in FailedPc
               /\ st = "FAILOVER_SYNC" => t.pc = "fs_event"
<1> DEFINE t == [s EXCEPT !.transitioning = FALSE, !.state = st, !.left = 0]
           colo == [t EXCEPT !.replication = TRUE,
                             !.interrupting = AlwaysInterrupting \cup {"FAILOVER_SYNC"}]
           r == EnterState(s, st)
           Same(u) == ContestFields \subseteq DOMAIN u /\ u.queue = s.queue /\ u.loop = s.loop
           Masks(u) == u.interrupting \in {s.interrupting, AlwaysInterrupting, SyncInterrupting}
<1>1. Same(t) /\ t.state = st /\ Masks(t) /\ t.interrupting = s.interrupting
  BY DEF HasQueue, ContestFields
<1>2. Same(colo) /\ colo.state = st /\ Masks(colo)
  BY <1>1 DEF ContestFields, SyncInterrupting
<1> HIDE DEF t, colo
<1>3. ASSUME NEW u, Same(u), NEW pc
      PROVE  /\ Same(Execute(u, pc)) /\ Execute(u, pc).pc = pc
             /\ Execute(u, pc).state = u.state /\ Execute(u, pc).interrupting = u.interrupting
             /\ Same(WaitEvent(u, pc)) /\ WaitEvent(u, pc).pc = pc
             /\ WaitEvent(u, pc).state = u.state
             /\ WaitEvent(u, pc).interrupting = u.interrupting
  <2>1. HasQueue(u)
    BY <1>3 DEF HasQueue
  <2>2. /\ Same(Execute(u, pc)) /\ Execute(u, pc).pc = pc
        /\ Execute(u, pc).state = u.state /\ Execute(u, pc).interrupting = u.interrupting
    BY <1>3 DEF Execute, ContestFields
  <2>3. /\ Same(WaitEvent(u, pc)) /\ WaitEvent(u, pc).pc = pc
        /\ WaitEvent(u, pc).state = u.state
        /\ WaitEvent(u, pc).interrupting = u.interrupting
    BY <1>3 DEF WaitEvent, Yield, ContestFields
  <2> QED BY <2>2, <2>3
<1>4. CASE st \in {"SECONDARY_COLO_RUNNING", "PRIMARY_COLO_RUNNING"}
  <2>1. r = IF s.primary THEN WaitEvent(colo, "cr_resume1")
            ELSE [colo EXCEPT !.pc = "cr_event"]
    BY <1>4 DEF EnterState, t, colo
  <2> DEFINE c == [colo EXCEPT !.pc = "cr_event"]
  <2>2. Same(c) /\ c.pc = "cr_event" /\ c.state = st /\ Masks(c)
    BY <1>2 DEF ContestFields
  <2> HIDE DEF c
  <2>3. CASE s.primary
    BY <1>2, <1>3, <1>4, <2>1, <2>3 DEF EarlyPc, EndState, FailEntry
  <2>4. CASE ~s.primary
    BY <1>4, <2>1, <2>2, <2>4 DEF EarlyPc, EndState, FailEntry, c
  <2> QED BY <2>3, <2>4
<1>5. CASE st \in {"PRIMARY_STARTUP", "PRIMARY_WAIT"}
  <2>1. r = [t EXCEPT !.state = "PRIMARY_WAIT", !.primary = TRUE,
                      !.replication = FALSE, !.pc = "pw_event"]
    BY <1>5 DEF EnterState, t
  <2>2. Same(r) /\ r.pc = "pw_event" /\ Masks(r)
    BY <1>1, <2>1 DEF ContestFields
  <2> QED BY <1>5, <2>2 DEF EarlyPc, EndState, FailEntry, OwnerPc
<1>6. CASE st = "PRIMARY_START_MIGRATION"
  <2> DEFINE u == [t EXCEPT !.interrupting = AlwaysInterrupting \cup {"FAILOVER_SYNC"}]
  <2>1. r = Execute(u, "sm_caps")
    BY <1>6 DEF EnterState, t
  <2>2. Same(u) /\ Masks(u) /\ u.state = st
    BY <1>1 DEF ContestFields, SyncInterrupting
  <2> HIDE DEF u
  <2> QED BY <1>3, <1>6, <2>1, <2>2 DEF EarlyPc, EndState, FailEntry
<1>7. CASE st = "FAILOVER_SYNC"
  <2>1. r = [t EXCEPT !.pc = "fs_event"]
    BY <1>7 DEF EnterState, t
  <2>2. Same(r) /\ r.pc = "fs_event" /\ r.state = st /\ Masks(r)
    BY <1>1, <2>1 DEF ContestFields
  <2> QED BY <1>7, <2>2 DEF EarlyPc, EndState, FailEntry
<1>8. CASE st = "FAILOVER"
  <2> DEFINE u == [t EXCEPT !.interrupting = AlwaysInterrupting]
  <2>1. r = Execute(u, "fo_yank")
    BY <1>8 DEF EnterState, t
  <2>2. Same(u) /\ Masks(u)
    BY <1>1 DEF ContestFields
  <2> HIDE DEF u
  <2> QED BY <1>3, <1>8, <2>1, <2>2 DEF EarlyPc, EndState, FailEntry, OwnerPc
<1>9. CASE st \in {"FAILED", "FAILED_PEER_FAILOVER"}
  <2> DEFINE u == [t EXCEPT !.state = "FAILED", !.failed = TRUE,
                            !.peer_failover = @ \/ st = "FAILED_PEER_FAILOVER",
                            !.timeout = "low"]
  <2>1. r = Execute(u, "failed_stop")
    BY <1>9 DEF EnterState, t
  <2>2. Same(u) /\ Masks(u) /\ u.state = "FAILED"
    BY <1>1 DEF ContestFields
  <2> HIDE DEF u
  <2> QED BY <1>3, <1>9, <2>1, <2>2 DEF EarlyPc, FailedPc
<1>10. CASE st = "AUTOQUIT"
  <2>1. r = [t EXCEPT !.failed = TRUE, !.pc = "aq_event"]
    BY <1>10 DEF EnterState, t
  <2>2. Same(r) /\ Masks(r) /\ r.state = "AUTOQUIT" /\ r.pc = "aq_event"
    BY <1>1, <1>10, <2>1 DEF ContestFields
  <2> QED BY <1>10, <2>2 DEF EarlyPc, FailedPc
<1>11. CASE st = "QUIT"
  <2>1. r = Finish(t)
    BY <1>11 DEF EnterState, t
  <2>2. Same(r) /\ Masks(r) /\ r.state = "QUIT" /\ r.pc \in EndPc
    BY <1>1, <2>1 DEF Finish, ContestFields, EndPc
  <2> QED BY <1>11, <2>2 DEF EarlyPc, FailedPc, EndPc
<1> QED
  BY <1>4, <1>5, <1>6, <1>7, <1>8, <1>9, <1>10, <1>11 DEF MainState, LaterState
-----------------------------------------------------------------------------
\* The step of daemon n contends.
ContestStep(n) ==
    \E t : \E msgs \in Seq(ColodMessage) : Step(n, t, msgs) /\ Contends(node[n], t)

\* The place stays.
LEMMA StayContends ==
    ASSUME NEW s, NEW t, Fit(s), Carries(s, t), t.pc = s.pc
    PROVE  Contends(s, t)
<1>1. Fit(t)
  BY DEF Fit, Carries
<1> QED BY <1>1 DEF Contends, Carries, Low, Doomed

\* It changes, and the daemon is not one that may lose, or is lost already.
LEMMA MoveContends ==
    ASSUME NEW s, NEW t, Fit(s), Carries(s, t), t.pc \notin EarlyPc,
           \/ s.pc \notin LowPc /\ (s.pc \in OwnerPc => t.pc \in OwnerPc)
           \/ s.pc \in FailedPc /\ t.pc \in FailedPc
    PROVE  Contends(s, t)
<1>1. Fit(t)
  BY DEF Fit, Carries, OwnerPc, FailedPc, LowPc, EndPc
<1> QED BY <1>1 DEF Contends, Carries, Low, Doomed, LowPc

\* Another state is entered with the queue of u, which is that of s but for an
\* event that ends the daemon.
LEMMA EnterContends ==
    ASSUME NEW s, NEW u, NEW st \in LaterState, Fit(s), HasQueue(u),
           u.loop = s.loop, u.interrupting = s.interrupting,
           Queued(u, "FAILOVER_WIN") => Queued(s, "FAILOVER_WIN"),
           st \notin EndState => s.pc \notin LowPc /\ \A e : Queued(s, e) => Queued(u, e)
                                 \/ e \notin AlwaysInterrupting
    PROVE  Contends(s, EnterState(u, st))
<1> DEFINE t == EnterState(u, st)
<1>1. /\ t.queue = u.queue /\ t.loop = u.loop
      /\ t.interrupting \in {u.interrupting, AlwaysInterrupting, SyncInterrupting}
      /\ t.pc \notin EarlyPc
      /\ t.state \in {"FAILOVER", "PRIMARY_WAIT"} => t.pc \in OwnerPc
      /\ st \in EndState => t.pc \in FailedPc
      /\ st = "FAILOVER_SYNC" => t.pc = "fs_event"
  BY EnterContest
<1> HIDE DEF t
<1>2. \A e : Queued(t, e) <=> Queued(u, e)
  BY <1>1 DEF Queued
<1>3. "QUIT" \in AlwaysInterrupting
  BY DEF AlwaysInterrupting
<1>4. CASE st \in EndState
  <2>1. Fit(t)
    BY <1>1, <1>4 DEF Fit
  <2> QED BY <1>1, <1>2, <1>4, <2>1 DEF Contends, Low, Doomed, LowPc, t
<1>5. CASE st \notin EndState
  <2>1. s.pc \notin LowPc /\ (Queued(s, "QUIT") => Queued(t, "QUIT"))
    BY <1>2, <1>3, <1>5
  <2>2. Fit(t)
    BY <1>1, <2>1 DEF Fit, LowPc
  <2> QED BY <1>1, <1>2, <2>1, <2>2 DEF Contends, Low, Doomed, t
<1> QED BY <1>4, <1>5
-----------------------------------------------------------------------------
\* What the lemmas on the steps need to know of the daemon.
Contender(n) == HasQueue(node[n]) /\ Fit(node[n])

LEMMA StayStep ==
    ASSUME NEW n, Contender(n), NEW t, NEW msgs \in Seq(ColodMessage), Step(n, t, msgs),
           Carries(node[n], t), t.pc = node[n].pc
    PROVE  ContestStep(n)
  BY StayContends DEF ContestStep, Contender

LEMMA MoveStep ==
    ASSUME NEW n, Contender(n), NEW t, Step(n, t, << >>), Carries(node[n], t),
           t.pc \notin EarlyPc, node[n].pc \notin LowPc,
           node[n].pc \in OwnerPc => t.pc \in OwnerPc
    PROVE  ContestStep(n)
<1>1. << >> \in Seq(ColodMessage)
  OBVIOUS
<1> QED BY <1>1, MoveContends DEF ContestStep, Contender

\* The coroutine goes on at pc.
LEMMA MoveTo ==
    ASSUME NEW n, Contender(n), NEW s, Carries(node[n], s), NEW pc,
           Step(n, [s EXCEPT !.pc = pc], << >>), pc \notin EarlyPc,
           node[n].pc \notin LowPc \cup OwnerPc
    PROVE  ContestStep(n)
<1> DEFINE t == [s EXCEPT !.pc = pc]
<1>1. Carries(s, t) /\ t.pc = pc
  BY DEF Carries, HasQueue, ContestFields, Queued
<1> HIDE DEF t
<1>2. Carries(node[n], t)
  BY <1>1, CarriesTrans
<1> QED BY <1>1, <1>2, MoveStep DEF t

LEMMA GotoStep ==
    ASSUME NEW n, Contender(n), NEW u, NEW st \in LaterState, Goto(n, u, st), HasQueue(u),
           u.loop = node[n].loop, u.interrupting = node[n].interrupting,
           Queued(u, "FAILOVER_WIN") => Queued(node[n], "FAILOVER_WIN"),
           st \notin EndState =>
              /\ node[n].pc \notin LowPc
              /\ \A e : Queued(node[n], e) => Queued(u, e) \/ e \notin AlwaysInterrupting
    PROVE  ContestStep(n)
<1>1. Contends(node[n], EnterState(u, st))
  BY EnterContends DEF Contender
<1>2. EnterMessages(st) \in Seq(ColodMessage)
  BY EnterAnnounces DEF LaterState
<1> QED BY <1>1, <1>2 DEF Goto, ContestStep

\* From a place that is not low, or to a state that ends the daemon.
LEMMA GotoCarries ==
    ASSUME NEW n, Contender(n), NEW u, NEW st \in LaterState, Goto(n, u, st),
           Carries(node[n], u), node[n].pc \notin LowPc \/ st \in EndState
    PROVE  ContestStep(n)
  BY GotoStep DEF Carries

\* An event is taken that ends the daemon.
LEMMA TakeEnds ==
    ASSUME NEW n, Contender(n), NEW i \in 1 .. Len(node[n].queue), NEW st \in EndState,
           Goto(n, Without(n, i), st)
    PROVE  ContestStep(n)
<1> DEFINE u == Without(n, i)
<1>1. /\ HasQueue(u) /\ u.loop = node[n].loop /\ u.interrupting = node[n].interrupting
      /\ \A e : Queued(u, e) => Queued(node[n], e)
  BY WithoutQueued DEF Contender
<1>2. st \in LaterState
  BY DEF EndState, FailEntry, LaterState, MainState
<1> HIDE DEF u
<1> QED BY <1>1, <1>2, GotoStep DEF u

\* An event is taken that ends no daemon.
LEMMA TakeCarries ==
    ASSUME NEW n, Contender(n), NEW i \in 1 .. Len(node[n].queue),
           node[n].queue[i] \notin AlwaysInterrupting
    PROVE  LET s == node[n]
               u == Without(n, i)
           IN  /\ HasQueue(u) /\ u.pc = s.pc /\ u.loop = s.loop /\ u.state = s.state
               /\ u.interrupting = s.interrupting
               /\ \A e : Queued(u, e) => Queued(s, e)
               /\ \A e : Queued(s, e) => Queued(u, e) \/ e \notin AlwaysInterrupting
<1> DEFINE u == Without(n, i)
           s == node[n]
<1>1. /\ HasQueue(u) /\ u.pc = s.pc /\ u.state = s.state /\ u.loop = s.loop
      /\ u.interrupting = s.interrupting
      /\ \A e : Queued(u, e) => Queued(s, e)
      /\ \A e : Queued(s, e) => Queued(u, e) \/ e = s.queue[i]
  BY WithoutQueued DEF Contender
<1> HIDE DEF u
<1> QED BY <1>1 DEF u

LEMMA TakeStays ==
    ASSUME NEW n, Contender(n), NEW i \in 1 .. Len(node[n].queue),
           node[n].queue[i] \notin AlwaysInterrupting, NEW t, Step(n, t, << >>),
           Carries(Without(n, i), t), t.pc = node[n].pc \/ (t.pc = "sm_cancel"
                                                        /\ node[n].pc = "sm_event")
    PROVE  ContestStep(n)
<1> DEFINE s == node[n]
           u == Without(n, i)
<1>1. /\ u.loop = s.loop /\ u.interrupting = s.interrupting /\ u.state = s.state
      /\ \A e : Queued(u, e) => Queued(s, e)
      /\ \A e : Queued(s, e) => Queued(u, e) \/ e \notin AlwaysInterrupting
  BY TakeCarries
<1> HIDE DEF u
<1>2. /\ t.loop = s.loop /\ t.interrupting = s.interrupting /\ t.state = s.state
      /\ Queued(t, "FAILOVER_WIN") => Queued(s, "FAILOVER_WIN")
      /\ \A e \in AlwaysInterrupting : Queued(s, e) => Queued(t, e)
  BY <1>1 DEF Carries, u
<1>3. "QUIT" \in AlwaysInterrupting
  BY DEF AlwaysInterrupting
<1>4. Fit(t)
  BY <1>2, <1>3 DEF Contender, Fit, EarlyPc, OwnerPc, FailedPc, EndPc
<1>5. Contends(s, t)
  BY <1>2, <1>4 DEF Contends, Low, Doomed, LowPc, FailedPc, EndPc
<1>6. << >> \in Seq(ColodMessage)
  OBVIOUS
<1> QED BY <1>5, <1>6 DEF ContestStep

\* The event that colod_event_wait returns at a place where FAILOVER_WIN does
\* not interrupt is one of those that end the daemon, if there is one.
LEMMA GetsFirst ==
    ASSUME NEW n, Contender(n), NEW pc, NEW i \in 1 .. Len(node[n].queue), Gets(n, pc, i),
           node[n].queue[i] \notin SyncInterrupting,
           NEW e \in AlwaysInterrupting
    PROVE  ~Queued(node[n], e)
<1> DEFINE s == node[n]
<1>1. AlwaysInterrupting \subseteq s.interrupting /\ s.interrupting \subseteq SyncInterrupting
  BY DEF Contender, Fit, SyncInterrupting
<1>2. IsFirst(s.queue, s.interrupting, i)
  BY DEF Gets
<1>3. InterruptingAt(s.queue, s.interrupting) = {}
  BY <1>1, <1>2 DEF IsFirst
<1> QED BY <1>1, <1>3 DEF InterruptingAt, Queued

LEMMA HandleEnds ==
    \A e \in AlwaysInterrupting : handle_always_interrupting(e) \in EndState
  BY DEF AlwaysInterrupting, handle_always_interrupting, EndState, FailEntry
-----------------------------------------------------------------------------
(* The places from which a daemon may lose. *)

LEMMA ColoRunningEventContends ==
    ASSUME NEW n, Contender(n), ColoRunningEvent(n)
    PROVE  ContestStep(n)
<1> DEFINE s == node[n]
           W(i) == Without(n, i)
           E(i) == s.queue[i]
<1>1. PICK i \in 1 .. Len(s.queue) :
        /\ Gets(n, "cr_event", i) /\ s.pc = "cr_event"
        /\ \/ E(i) = "FAILOVER_SYNC" /\ Goto(n, W(i), "FAILOVER_SYNC")
           \/ E(i) \in AlwaysInterrupting
              /\ Goto(n, W(i), handle_always_interrupting(E(i)))
           \/ Goto(n, W(i), "FAILED")
           \/ E(i) \notin AlwaysInterrupting /\ Step(n, W(i), << >>)
  BY DEF ColoRunningEvent, Gets
<1>2. HasQueue(s) /\ Fit(s)
  BY DEF Contender
<1>3. CASE E(i) = "FAILOVER_SYNC" /\ Goto(n, W(i), "FAILOVER_SYNC")
  <2> DEFINE t == EnterState(W(i), "FAILOVER_SYNC")
             u == W(i)
  <2>1. E(i) \notin AlwaysInterrupting
    BY <1>3 DEF AlwaysInterrupting
  <2>2. /\ HasQueue(u) /\ u.loop = s.loop /\ u.interrupting = s.interrupting
        /\ \A e : Queued(u, e) => Queued(s, e)
        /\ \A e : Queued(s, e) => Queued(u, e) \/ e \notin AlwaysInterrupting
    BY <2>1, TakeCarries
  <2>3. "FAILOVER_SYNC" \in LaterState
    BY DEF LaterState, MainState
  <2> HIDE DEF u
  <2>4. /\ t.queue = u.queue /\ t.loop = u.loop
        /\ t.interrupting \in {u.interrupting, AlwaysInterrupting, SyncInterrupting}
        /\ t.pc \notin EarlyPc
        /\ t.state \in {"FAILOVER", "PRIMARY_WAIT"} => t.pc \in OwnerPc
        /\ t.pc = "fs_event"
    BY <2>2, <2>3, EnterContest DEF u
  <2>5. Step(n, t, EnterMessages("FAILOVER_SYNC"))
    BY <1>3 DEF Goto
  <2> HIDE DEF t
  <2>6. \A e : Queued(t, e) <=> Queued(u, e)
    BY <2>4 DEF Queued
  <2>7. "QUIT" \in AlwaysInterrupting
    BY DEF AlwaysInterrupting
  <2>8. Fit(t)
    BY <1>1, <1>2, <2>2, <2>4, <2>6, <2>7 DEF Fit, FailedPc, EndPc
  <2>9. Contends(s, t)
    BY <1>1, <2>2, <2>4, <2>6, <2>8 DEF Contends, Low, Doomed, LowPc, FailedPc, EndPc
  <2>10. EnterMessages("FAILOVER_SYNC") \in Seq(ColodMessage)
    BY EnterAnnounces DEF MainState
  <2> QED BY <2>5, <2>9, <2>10 DEF ContestStep
<1>4. CASE E(i) \in AlwaysInterrupting /\ Goto(n, W(i), handle_always_interrupting(E(i)))
  BY <1>4, HandleEnds, TakeEnds
<1>5. CASE Goto(n, W(i), "FAILED")
  BY <1>5, TakeEnds DEF EndState, FailEntry
<1>6. CASE E(i) \notin AlwaysInterrupting /\ Step(n, W(i), << >>)
  <2>1. HasQueue(W(i)) /\ W(i).pc = s.pc
    BY <1>6, TakeCarries
  <2>2. Carries(W(i), W(i))
    BY <2>1 DEF Carries
  <2> QED BY <1>6, <2>1, <2>2, TakeStays
<1> QED BY <1>1, <1>3, <1>4, <1>5, <1>6

LEMMA FailoverSyncContends ==
    ASSUME NEW n, Contender(n), colod_failover_sync_co(n)
    PROVE  ContestStep(n)
<1> DEFINE s == node[n]
           W(i) == Without(n, i)
           E(i) == s.queue[i]
<1>1. PICK i \in 1 .. Len(s.queue) :
        /\ Gets(n, "fs_event", i) /\ s.pc = "fs_event"
        /\ \/ E(i) = "FAILOVER_WIN" /\ Goto(n, W(i), "FAILOVER")
           \/ E(i) \in AlwaysInterrupting
              /\ Goto(n, W(i), handle_always_interrupting(E(i)))
           \/ E(i) \notin AlwaysInterrupting /\ Step(n, W(i), << >>)
  BY DEF colod_failover_sync_co, Gets
<1>2. HasQueue(s) /\ Fit(s)
  BY DEF Contender
<1>3. CASE E(i) = "FAILOVER_WIN" /\ Goto(n, W(i), "FAILOVER")
  <2> DEFINE t == EnterState(W(i), "FAILOVER")
             u == W(i)
  <2>1. E(i) \notin AlwaysInterrupting /\ E(i) \notin SyncInterrupting
    BY <1>3 DEF AlwaysInterrupting, SyncInterrupting
  <2>2. /\ HasQueue(u) /\ u.loop = s.loop /\ u.interrupting = s.interrupting
        /\ \A e : Queued(u, e) => Queued(s, e)
        /\ \A e : Queued(s, e) => Queued(u, e) \/ e \notin AlwaysInterrupting
    BY <2>1, TakeCarries
  <2>3. \A e \in AlwaysInterrupting : ~Queued(s, e)
    BY <1>1, <2>1, GetsFirst
  <2>4. "FAILOVER" \in LaterState
    BY DEF LaterState, MainState
  <2> HIDE DEF u
  <2>5. /\ t.queue = u.queue /\ t.loop = u.loop
        /\ t.interrupting \in {u.interrupting, AlwaysInterrupting, SyncInterrupting}
        /\ t.pc \notin EarlyPc
        /\ t.state \in {"FAILOVER", "PRIMARY_WAIT"} => t.pc \in OwnerPc
    BY <2>2, <2>4, EnterContest DEF u
  <2>6. Step(n, t, EnterMessages("FAILOVER"))
    BY <1>3 DEF Goto
  <2> HIDE DEF t
  <2>7. \A e : Queued(t, e) <=> Queued(u, e)
    BY <2>5 DEF Queued
  <2>8. "QUIT" \in AlwaysInterrupting
    BY DEF AlwaysInterrupting
  <2>9. s.pc \notin FailedPc
    BY <1>1 DEF FailedPc, EndPc
  <2>10. Fit(t)
    BY <1>2, <2>2, <2>3, <2>5, <2>7, <2>8, <2>9 DEF Fit
  <2>11. Queued(s, "FAILOVER_WIN") /\ ~Doomed(s)
    BY <1>3, <2>3, <2>9 DEF Queued, Doomed
  <2>12. Contends(s, t)
    BY <2>2, <2>5, <2>7, <2>10, <2>11 DEF Contends
  <2>13. EnterMessages("FAILOVER") \in Seq(ColodMessage)
    BY EnterAnnounces DEF MainState
  <2> QED BY <2>6, <2>12, <2>13 DEF ContestStep
<1>4. CASE E(i) \in AlwaysInterrupting /\ Goto(n, W(i), handle_always_interrupting(E(i)))
  BY <1>4, HandleEnds, TakeEnds
<1>5. CASE E(i) \notin AlwaysInterrupting /\ Step(n, W(i), << >>)
  <2>1. HasQueue(W(i)) /\ W(i).pc = s.pc
    BY <1>5, TakeCarries
  <2>2. Carries(W(i), W(i))
    BY <2>1 DEF Carries
  <2> QED BY <1>5, <2>1, <2>2, TakeStays
<1> QED BY <1>1, <1>3, <1>4, <1>5

\* A daemon that has failed takes an event, or its last command has returned.
LEMMA LostContends ==
    ASSUME NEW n, Contender(n), NEW t, Step(n, t, << >>), node[n].pc \in FailedPc,
           t.pc \in FailedPc, t.state = node[n].state, t.interrupting = node[n].interrupting,
           Queued(t, "FAILOVER_WIN") => Queued(node[n], "FAILOVER_WIN"),
           t.loop = "dead" <=> node[n].loop = "dead"
    PROVE  ContestStep(n)
<1>1. Fit(t)
  BY DEF Contender, Fit, FailedPc, EndPc, OwnerPc, EarlyPc
<1>2. Contends(node[n], t)
  BY <1>1 DEF Contends, Low, LowPc, Doomed
<1>3. << >> \in Seq(ColodMessage)
  OBVIOUS
<1> QED BY <1>2, <1>3 DEF ContestStep

LEMMA LostTakes ==
    ASSUME NEW n, Contender(n), node[n].pc \in FailedPc, NEW i \in 1 .. Len(node[n].queue),
           \/ Step(n, Without(n, i), << >>)
           \/ Step(n, LoopQuit(Without(n, i)), << >>)
           \/ Step(n, [Without(n, i) EXCEPT !.peer_failover = TRUE], << >>)
    PROVE  ContestStep(n)
<1> DEFINE s == node[n]
           u == Without(n, i)
           v == LoopQuit(u)
           w == [u EXCEPT !.peer_failover = TRUE]
<1>1. /\ HasQueue(u) /\ u.pc = s.pc /\ u.state = s.state /\ u.loop = s.loop
      /\ u.interrupting = s.interrupting
      /\ \A e : Queued(u, e) => Queued(s, e)
  BY WithoutQueued DEF Contender
<1> HIDE DEF u
<1>2. /\ v.pc = s.pc /\ v.state = s.state /\ v.interrupting = s.interrupting
      /\ v.queue = u.queue /\ (v.loop = "dead" <=> s.loop = "dead")
  BY <1>1 DEF LoopQuit, HasQueue, ContestFields
<1>3. /\ w.pc = s.pc /\ w.state = s.state /\ w.interrupting = s.interrupting
      /\ w.queue = u.queue /\ w.loop = s.loop
  BY <1>1 DEF HasQueue, ContestFields
<1>4. Step(n, u, << >>) \/ Step(n, v, << >>) \/ Step(n, w, << >>)
  BY DEF u
<1> HIDE DEF v, w
<1>5. /\ Queued(v, "FAILOVER_WIN") => Queued(s, "FAILOVER_WIN")
      /\ Queued(w, "FAILOVER_WIN") => Queued(s, "FAILOVER_WIN")
  BY <1>1, <1>2, <1>3 DEF Queued
<1>6. CASE Step(n, u, << >>)
  BY <1>1, <1>6, LostContends
<1>7. CASE Step(n, v, << >>)
  BY <1>2, <1>5, <1>7, LostContends
<1>8. CASE Step(n, w, << >>)
  BY <1>3, <1>5, <1>8, LostContends
<1> QED BY <1>4, <1>6, <1>7, <1>8

LEMMA FailedContends ==
    ASSUME NEW n, Contender(n), Failed(n)
    PROVE  ContestStep(n)
<1> DEFINE s == node[n]
           W(i) == Without(n, i)
<1>1. ASSUME NEW result, NEW yanked, Returns(n, "failed_stop", result, yanked),
             Step(n, [Executed(s, result, yanked) EXCEPT !.pc = "failed_event"], << >>)
      PROVE  ContestStep(n)
  <2> DEFINE x == Executed(s, result, yanked)
             t == [x EXCEPT !.pc = "failed_event"]
  <2>1. s.pc = "failed_stop" /\ Carries(s, x)
    BY <1>1, CarriesExecuted DEF Returns, Contender
  <2>2. Step(n, t, << >>)
    BY <1>1
  <2> HIDE DEF x
  <2>3. /\ t.pc = "failed_event" /\ t.state = x.state /\ t.loop = x.loop
        /\ t.interrupting = x.interrupting /\ t.queue = x.queue
    BY <2>1 DEF Carries, HasQueue, ContestFields
  <2> HIDE DEF t
  <2>4. Queued(t, "FAILOVER_WIN") => Queued(s, "FAILOVER_WIN")
    BY <2>1, <2>3 DEF Carries, Queued
  <2>5. s.pc \in FailedPc /\ t.pc \in FailedPc
    BY <2>1, <2>3 DEF FailedPc
  <2> QED BY <2>1, <2>2, <2>3, <2>4, <2>5, LostContends DEF Carries
<1>2. ASSUME NEW i \in 1 .. Len(s.queue), s.pc = "failed_event",
             \/ \E st \in {"QUIT", "AUTOQUIT"} : Goto(n, W(i), st)
             \/ Step(n, LoopQuit(W(i)), << >>)
             \/ Step(n, [W(i) EXCEPT !.peer_failover = TRUE], << >>)
             \/ Step(n, W(i), << >>)
      PROVE  ContestStep(n)
  <2>1. s.pc \in FailedPc /\ {"QUIT", "AUTOQUIT"} \subseteq EndState
    BY <1>2 DEF FailedPc, EndState, FailEntry
  <2>2. ASSUME NEW st \in {"QUIT", "AUTOQUIT"}, Goto(n, W(i), st) PROVE ContestStep(n)
    BY <2>1, <2>2, TakeEnds
  <2> QED BY <1>2, <2>1, <2>2, LostTakes
<1>3. CASE \E i \in 1 .. Len(s.queue) :
             /\ Gets(n, "failed_event", i)
             /\ LET e == s.queue[i]
                    w == Without(n, i)
                IN  IF e = "PEER_FAILOVER"
                    THEN Step(n, [w EXCEPT !.peer_failover = TRUE], << >>)
                    ELSE IF e = "QUIT" \/ (e = "AUTOQUIT" /\ ~w.qemu_quit)
                    THEN Goto(n, w, e)
                    ELSE Step(n, IF e = "AUTOQUIT" THEN LoopQuit(w) ELSE w, << >>)
  <2>1. PICK i \in 1 .. Len(s.queue) :
          /\ s.pc = "failed_event"
          /\ \/ \E st \in {"QUIT", "AUTOQUIT"} : Goto(n, W(i), st)
             \/ Step(n, LoopQuit(W(i)), << >>)
             \/ Step(n, [W(i) EXCEPT !.peer_failover = TRUE], << >>)
             \/ Step(n, W(i), << >>)
    BY <1>3 DEF Gets
  <2> QED BY <1>2, <2>1
<1> QED BY <1>1, <1>3 DEF Failed

LEMMA AutoquitContends ==
    ASSUME NEW n, Contender(n), Autoquit(n)
    PROVE  ContestStep(n)
<1> DEFINE W(i) == Without(n, i)
<1>1. PICK i \in 1 .. Len(node[n].queue) :
        /\ node[n].pc = "aq_event"
        /\ \/ Goto(n, W(i), "QUIT")
           \/ Step(n, LoopQuit(W(i)), << >>)
           \/ Step(n, [W(i) EXCEPT !.peer_failover = TRUE], << >>)
           \/ Step(n, W(i), << >>)
  BY DEF Autoquit, Gets
<1>2. node[n].pc \in FailedPc /\ "QUIT" \in EndState
  BY <1>1 DEF FailedPc, EndState
<1> QED BY <1>1, <1>2, LostTakes, TakeEnds
-----------------------------------------------------------------------------
(* The other places of the coroutine. *)

\* The migration and the start of replication.
PlainPc == {"cr_resume1", "cr_resume2", "cr_timer", "sm_event", "sm_cancel"} \cup MigrationPc

LEMMA PlainPlace ==
    \A pc \in PlainPc : pc \notin LowPc /\ pc \notin OwnerPc /\ pc \notin EarlyPc
  BY DEF PlainPc, MigrationPc, LowPc, OwnerPc, EarlyPc, FailedPc, EndPc

LEMMA CarriesSelf ==
    ASSUME NEW s, HasQueue(s)
    PROVE  Carries(s, s)
  BY DEF Carries

LEMMA EventYieldContends ==
    ASSUME NEW n, Contender(n), EventYield(n)
    PROVE  ContestStep(n)
<1> DEFINE s == node[n]
           u == Woken(s)
<1>1. HasQueue(s)
  BY DEF Contender
<1>2. Carries(s, u) /\ u.pc = s.pc /\ HasQueue(u)
  BY <1>1 DEF Woken, HasQueue, ContestFields, Carries, Queued
<1>3. Step(n, Yield(u), << >>)
  BY DEF EventYield, Continue
<1> HIDE DEF u
<1>4. Carries(s, Yield(u)) /\ Yield(u).pc = s.pc
  BY <1>2, CarriesYield, CarriesTrans
<1>5. << >> \in Seq(ColodMessage)
  OBVIOUS
<1> QED BY <1>3, <1>4, <1>5, StayStep

LEMMA QmpEventWaitContends ==
    ASSUME NEW n, Contender(n), QmpEventWait(n)
    PROVE  ContestStep(n)
<1> DEFINE s == node[n]
           y == Yield(s)
           a == [y EXCEPT !.pc = "abort"]
           b == WaitEvent(s, s.pc)
<1>1. HasQueue(s) /\ Fit(s)
  BY DEF Contender
<1>2. s.pc \in WaitPc /\ (Step(n, a, << >>) \/ Step(n, b, << >>))
  BY DEF QmpEventWait, Continue
<1>3. s.pc \notin LowPc /\ s.pc \notin OwnerPc
  BY <1>2 DEF WaitPc, LowPc, OwnerPc, FailedPc, EndPc
<1>4. Carries(s, y)
  BY <1>1, CarriesYield
<1>5. Carries(s, b) /\ b.pc = s.pc
  BY <1>1, CarriesWaitEvent
<1>6. "abort" \notin EarlyPc
  BY DEF EarlyPc
<1> HIDE DEF y, b
<1>7. CASE Step(n, a, << >>)
  BY <1>3, <1>4, <1>6, <1>7, MoveTo
<1>8. CASE Step(n, b, << >>)
  <2>1. << >> \in Seq(ColodMessage)
    OBVIOUS
  <2> QED BY <1>5, <1>8, <2>1, StayStep
<1> QED BY <1>2, <1>7, <1>8

LEMMA CommandYieldContends ==
    ASSUME NEW n, Contender(n), CommandYield(n)
    PROVE  ContestStep(n)
<1> DEFINE y == Yield(node[n])
           t == [y EXCEPT !.io = TRUE]
<1>1. Carries(node[n], y) /\ y.pc = node[n].pc
  BY CarriesYield DEF Contender
<1>2. Step(n, t, << >>)
  BY DEF CommandYield, Continue
<1> HIDE DEF y
<1>3. Carries(y, t) /\ t.pc = y.pc
  BY <1>1 DEF Carries, HasQueue, ContestFields, Queued
<1> HIDE DEF t
<1>4. Carries(node[n], t) /\ << >> \in Seq(ColodMessage)
  BY <1>1, <1>3, CarriesTrans
<1> QED BY <1>1, <1>2, <1>3, <1>4, StayStep

LEMMA ColoRunningContends ==
    ASSUME NEW n, Contender(n), colod_colo_running_co(n)
    PROVE  ContestStep(n)
<1> DEFINE s == node[n]
           w == EndWait(s)
<1>1. HasQueue(s) /\ Carries(s, s)
  BY CarriesSelf DEF Contender
<1>2. Carries(s, w) /\ w.pc = s.pc /\ HasQueue(w)
  BY <1>1, CarriesEndWait DEF Carries
<1>3. \A pc \in {"cr_resume1", "cr_resume2", "cr_timer"} : pc \in PlainPc
  BY DEF PlainPc
<1>4. "cr_event" \notin EarlyPc
  BY DEF EarlyPc
<1> HIDE DEF w
<1>5. CASE /\ Awaited(n, "cr_resume1", "event")
           /\ Continue(n, WaitEvent(w, "cr_resume2"))
  <2>1. s.pc = "cr_resume1" /\ Step(n, WaitEvent(w, "cr_resume2"), << >>)
    BY <1>5 DEF Awaited, Continue
  <2>2. Carries(s, WaitEvent(w, "cr_resume2")) /\ WaitEvent(w, "cr_resume2").pc = "cr_resume2"
    BY <1>2, CarriesWaitEvent, CarriesTrans
  <2> QED BY <1>3, <2>1, <2>2, PlainPlace, MoveStep
<1>6. CASE /\ Awaited(n, "cr_resume2", "event")
           /\ Continue(n, Yield([w EXCEPT !.pc = "cr_timer"]))
  <2> DEFINE u == [w EXCEPT !.pc = "cr_timer"]
  <2>1. s.pc = "cr_resume2" /\ Step(n, Yield(u), << >>)
    BY <1>6 DEF Awaited, Continue
  <2>2. Carries(w, u) /\ u.pc = "cr_timer" /\ HasQueue(u)
    BY <1>2 DEF Carries, HasQueue, ContestFields, Queued
  <2> HIDE DEF u
  <2>3. Carries(u, Yield(u)) /\ Yield(u).pc = "cr_timer"
    BY <2>2, CarriesYield
  <2>4. Carries(s, Yield(u))
    BY <1>2, <2>2, <2>3, CarriesTrans
  <2> QED BY <1>3, <2>1, <2>3, <2>4, PlainPlace, MoveStep
<1>7. CASE /\ \E pc \in {"cr_resume1", "cr_resume2"} : Awaited(n, pc, "interrupt")
           /\ Continue(n, [w EXCEPT !.pc = "cr_event"])
  <2>1. s.pc \in {"cr_resume1", "cr_resume2"} /\ Step(n, [w EXCEPT !.pc = "cr_event"], << >>)
    BY <1>7 DEF Awaited, Continue
  <2> QED BY <1>2, <1>3, <1>4, <2>1, PlainPlace, MoveTo
<1>8. CASE s.pc = "cr_timer" /\ Goto(n, s, "FAILED")
  <2>1. "FAILED" \in LaterState
    BY DEF LaterState, MainState
  <2> QED BY <1>1, <1>3, <1>8, <2>1, PlainPlace, GotoCarries
<1>9. CASE s.pc = "cr_timer" /\ Step(n, [s EXCEPT !.pc = "cr_event"], << >>)
  BY <1>1, <1>3, <1>4, <1>9, PlainPlace, MoveTo
<1>10. CASE ColoRunningEvent(n)
  BY <1>10, ColoRunningEventContends
<1> QED BY <1>5, <1>6, <1>7, <1>8, <1>9, <1>10 DEF colod_colo_running_co, w

LEMMA PrimaryWaitContends ==
    ASSUME NEW n, Contender(n), colod_primary_wait_co(n)
    PROVE  ContestStep(n)
<1> DEFINE s == node[n]
           W(i) == Without(n, i)
           E(i) == s.queue[i]
<1>1. PICK i \in 1 .. Len(s.queue) :
        /\ s.pc = "pw_event"
        /\ \/ E(i) = "START_MIGRATION" /\ Goto(n, W(i), "PRIMARY_START_MIGRATION")
           \/ \E st \in {"FAILED", "QUIT", "AUTOQUIT"} : Goto(n, W(i), st)
           \/ E(i) \notin {"FAILED", "QUIT", "AUTOQUIT"} /\ Step(n, W(i), << >>)
  BY DEF colod_primary_wait_co, Gets
<1>2. s.pc \notin LowPc
  BY <1>1 DEF LowPc, FailedPc, EndPc
<1>3. CASE E(i) = "START_MIGRATION" /\ Goto(n, W(i), "PRIMARY_START_MIGRATION")
  <2>1. /\ E(i) \notin AlwaysInterrupting /\ "PRIMARY_START_MIGRATION" \in LaterState
    BY <1>3 DEF AlwaysInterrupting, LaterState, MainState
  <2> DEFINE u == W(i)
  <2>2. /\ HasQueue(u) /\ u.loop = s.loop /\ u.interrupting = s.interrupting
        /\ \A e : Queued(u, e) => Queued(s, e)
        /\ \A e : Queued(s, e) => Queued(u, e) \/ e \notin AlwaysInterrupting
    BY <2>1, TakeCarries
  <2> HIDE DEF W
  <2> QED BY <1>2, <1>3, <2>1, <2>2, GotoStep
<1>4. ASSUME NEW st \in {"FAILED", "QUIT", "AUTOQUIT"}, Goto(n, W(i), st)
      PROVE  ContestStep(n)
  BY <1>4, TakeEnds DEF EndState, FailEntry
<1>5. CASE E(i) \notin {"FAILED", "QUIT", "AUTOQUIT"} /\ Step(n, W(i), << >>)
  <2> DEFINE u == W(i)
  <2>1. /\ HasQueue(u) /\ u.pc = s.pc /\ u.state = s.state /\ u.loop = s.loop
        /\ u.interrupting = s.interrupting
        /\ \A e : Queued(u, e) => Queued(s, e)
        /\ \A e : Queued(s, e) => Queued(u, e) \/ e = E(i)
    BY WithoutQueued DEF Contender
  <2> HIDE DEF W
  <2>2. Fit(s)
    BY DEF Contender
  <2>3. Fit(u)
    BY <1>5, <2>1, <2>2 DEF Fit
  <2>4. Contends(s, u)
    BY <1>2, <2>1, <2>3 DEF Contends, Low, Doomed
  <2>5. << >> \in Seq(ColodMessage)
    OBVIOUS
  <2> QED BY <1>5, <2>4, <2>5 DEF ContestStep
<1> QED BY <1>1, <1>3, <1>4, <1>5

LEMMA MigrationErrorContends ==
    ASSUME NEW n, Contender(n), NEW s, NEW result, Carries(node[n], s),
           node[n].pc \in PlainPc, MigrationError(n, s, result)
    PROVE  ContestStep(n)
<1>1. CASE Step(n, Execute(s, "sm_cancel"), << >>)
  <2>1. Carries(s, Execute(s, "sm_cancel")) /\ Execute(s, "sm_cancel").pc = "sm_cancel"
    BY CarriesExecute DEF Carries
  <2>2. Carries(node[n], Execute(s, "sm_cancel"))
    BY <2>1, CarriesTrans
  <2> QED BY <1>1, <2>1, <2>2, PlainPlace, MoveStep DEF PlainPc
<1>2. CASE Goto(n, s, "FAILED")
  <2>1. "FAILED" \in LaterState
    BY DEF LaterState, MainState
  <2> QED BY <1>2, <2>1, PlainPlace, GotoCarries
<1> QED BY <1>1, <1>2 DEF MigrationError

LEMMA ReturnsCarries ==
    ASSUME NEW n, Contender(n), NEW pc, NEW result, NEW yanked,
           Returns(n, pc, result, yanked)
    PROVE  /\ node[n].pc = pc
           /\ Carries(node[n], Executed(node[n], result, yanked))
           /\ HasQueue(Executed(node[n], result, yanked))
           /\ Executed(node[n], result, yanked).pc = pc
  BY CarriesExecuted DEF Returns, Contender, Carries

LEMMA MigrationCommandsContends ==
    ASSUME NEW n, Contender(n), MigrationCommands(n)
    PROVE  ContestStep(n)
<1> DEFINE S(result, yanked) == Executed(node[n], result, yanked)
<1>1. PICK pc \in {"sm_caps", "sm_start", "sm_switch"},
           result \in {"ok", "error", "fatal"}, yanked \in BOOLEAN :
        /\ Returns(n, pc, result, yanked)
        /\ \/ MigrationError(n, S(result, yanked), result)
           \/ Step(n, S(result, yanked), << >>)
           \/ Step(n, [S(result, yanked) EXCEPT !.pc = "sm_event"], << >>)
           \/ Step(n, ExecuteArray(S(result, yanked), "sm_start"), << >>)
  BY DEF MigrationCommands
<1> DEFINE s == S(result, yanked)
<1>2. node[n].pc = pc /\ Carries(node[n], s) /\ s.pc = node[n].pc /\ HasQueue(s)
  BY <1>1, ReturnsCarries
<1>3. node[n].pc \in PlainPc /\ "sm_event" \in PlainPc /\ "sm_start" \in PlainPc
  BY <1>2 DEF PlainPc, MigrationPc
<1> HIDE DEF S
<1>4. CASE MigrationError(n, s, result)
  BY <1>2, <1>3, <1>4, MigrationErrorContends
<1>5. CASE Step(n, s, << >>)
  BY <1>2, <1>3, <1>5, PlainPlace, MoveStep
<1>6. CASE Step(n, [s EXCEPT !.pc = "sm_event"], << >>)
  BY <1>2, <1>3, <1>6, PlainPlace, MoveTo
<1>7. CASE Step(n, ExecuteArray(s, "sm_start"), << >>)
  <2>1. Carries(s, ExecuteArray(s, "sm_start")) /\ ExecuteArray(s, "sm_start").pc = "sm_start"
    BY <1>2, CarriesExecuteArray
  <2>2. Carries(node[n], ExecuteArray(s, "sm_start"))
    BY <1>2, <2>1, CarriesTrans
  <2> QED BY <1>3, <1>7, <2>1, <2>2, PlainPlace, MoveStep
<1> QED BY <1>1, <1>4, <1>5, <1>6, <1>7

LEMMA ArrayNextContends ==
    ASSUME NEW n, Contender(n), ArrayNext(n)
    PROVE  ContestStep(n)
<1> DEFINE s == node[n]
           u == [s EXCEPT !.left = @ - 1]
           v == [s EXCEPT !.left = 0]
           t == [s EXCEPT !.pc = "sm_event", !.left = 0]
<1>1. /\ s.pc \in ArrayPc
      /\ \/ Step(n, Execute(u, s.pc), << >>)
         \/ Goto(n, v, "FAILED")
         \/ s.pc # "fo_array" /\ Step(n, t, << >>)
  BY DEF ArrayNext
<1>2. HasQueue(s)
  BY DEF Contender
<1>3. /\ Carries(s, u) /\ Carries(s, v) /\ u.pc = s.pc /\ HasQueue(u)
      /\ Carries(s, t) /\ t.pc = "sm_event"
  BY <1>2 DEF Carries, HasQueue, ContestFields, Queued
<1> HIDE DEF u, v, t
<1>4. CASE Step(n, Execute(u, s.pc), << >>)
  <2>1. Carries(u, Execute(u, s.pc)) /\ Execute(u, s.pc).pc = s.pc
    BY <1>3, CarriesExecute
  <2>2. Carries(s, Execute(u, s.pc)) /\ << >> \in Seq(ColodMessage)
    BY <1>3, <2>1, CarriesTrans
  <2> QED BY <1>4, <2>1, <2>2, StayStep
<1>5. CASE Goto(n, v, "FAILED")
  <2>1. "FAILED" \in LaterState /\ "FAILED" \in EndState
    BY DEF LaterState, MainState, EndState, FailEntry
  <2> QED BY <1>3, <1>5, <2>1, GotoCarries
<1>6. CASE s.pc # "fo_array" /\ Step(n, t, << >>)
  <2>1. s.pc \in PlainPc /\ "sm_event" \in PlainPc
    BY <1>1, <1>6 DEF PlainPc, ArrayPc, MigrationPc
  <2> QED BY <1>3, <1>6, <2>1, PlainPlace, MoveStep
<1> QED BY <1>1, <1>4, <1>5, <1>6

LEMMA MigrationContinueContends ==
    ASSUME NEW n, Contender(n), MigrationContinue(n)
    PROVE  ContestStep(n)
<1> DEFINE S(result, yanked) == Executed(node[n], result, yanked)
           L(result, yanked) == [S(result, yanked) EXCEPT !.timeout = "low"]
<1>1. PICK result \in {"ok", "error", "fatal"}, yanked \in BOOLEAN :
        /\ Returns(n, "sm_continue", result, yanked)
        /\ \/ MigrationError(n, L(result, yanked), result)
           \/ Step(n, [L(result, yanked) EXCEPT !.pc = "sm_event"], << >>)
           \/ Step(n, WaitEvent(S(result, yanked), "sm_colo"), << >>)
  BY DEF MigrationContinue
<1> DEFINE s == S(result, yanked)
           low == L(result, yanked)
<1>2. node[n].pc = "sm_continue" /\ Carries(node[n], s) /\ HasQueue(s)
  BY <1>1, ReturnsCarries
<1>3. node[n].pc \in PlainPc /\ "sm_event" \in PlainPc /\ "sm_colo" \in PlainPc
  BY <1>2 DEF PlainPc, MigrationPc
<1> HIDE DEF S
<1>4. Carries(s, low)
  BY <1>2 DEF Carries, HasQueue, ContestFields, Queued
<1> HIDE DEF L
<1>5. Carries(node[n], low)
  BY <1>2, <1>4, CarriesTrans
<1>6. CASE MigrationError(n, low, result)
  BY <1>3, <1>5, <1>6, MigrationErrorContends
<1>7. CASE Step(n, [low EXCEPT !.pc = "sm_event"], << >>)
  BY <1>3, <1>5, <1>7, PlainPlace, MoveTo
<1>8. CASE Step(n, WaitEvent(s, "sm_colo"), << >>)
  <2>1. Carries(s, WaitEvent(s, "sm_colo")) /\ WaitEvent(s, "sm_colo").pc = "sm_colo"
    BY <1>2, CarriesWaitEvent
  <2>2. Carries(node[n], WaitEvent(s, "sm_colo"))
    BY <1>2, <2>1, CarriesTrans
  <2> QED BY <1>3, <1>8, <2>1, <2>2, PlainPlace, MoveStep
<1> QED BY <1>1, <1>6, <1>7, <1>8

LEMMA MigrationWaitsContends ==
    ASSUME NEW n, Contender(n), MigrationWaits(n)
    PROVE  ContestStep(n)
<1> DEFINE s == EndWait(node[n])
           low == [s EXCEPT !.timeout = "low"]
<1>1. PICK why \in {"event", "timeout", "interrupt"}, pc \in {"sm_preswitch", "sm_colo"} :
        /\ node[n].pc = pc
        /\ LET f == IF pc = "sm_colo" THEN low ELSE s
           IN  CASE why = "timeout" -> Goto(n, f, "FAILED")
                 [] why = "interrupt" -> Step(n, [f EXCEPT !.pc = "sm_event"], << >>)
                 [] why = "event" ->
                      IF pc = "sm_preswitch"
                      THEN Step(n, ExecuteArray(s, "sm_switch"), << >>)
                      ELSE Goto(n, s, "PRIMARY_COLO_RUNNING")
  BY DEF MigrationWaits, Awaited
<1> DEFINE f == IF pc = "sm_colo" THEN low ELSE s
<1>2. Carries(node[n], s) /\ HasQueue(s)
  BY CarriesEndWait DEF Contender, Carries
<1> HIDE DEF s
<1>3. Carries(s, low)
  BY <1>2 DEF Carries, HasQueue, ContestFields, Queued
<1> HIDE DEF low
<1>4. Carries(node[n], f)
  BY <1>2, <1>3, CarriesTrans
<1>5. /\ node[n].pc \in PlainPc /\ "sm_event" \in PlainPc /\ "sm_switch" \in PlainPc
      /\ {"FAILED", "PRIMARY_COLO_RUNNING"} \subseteq LaterState
  BY <1>1 DEF PlainPc, MigrationPc, LaterState, MainState
<1>6. \/ Goto(n, f, "FAILED")
      \/ Step(n, [f EXCEPT !.pc = "sm_event"], << >>)
      \/ Step(n, ExecuteArray(s, "sm_switch"), << >>)
      \/ Goto(n, s, "PRIMARY_COLO_RUNNING")
  BY <1>1
<1> HIDE DEF f
<1>7. CASE Goto(n, f, "FAILED")
  BY <1>4, <1>5, <1>7, PlainPlace, GotoCarries
<1>8. CASE Step(n, [f EXCEPT !.pc = "sm_event"], << >>)
  BY <1>4, <1>5, <1>8, PlainPlace, MoveTo
<1>9. CASE Step(n, ExecuteArray(s, "sm_switch"), << >>)
  <2>1. /\ Carries(s, ExecuteArray(s, "sm_switch"))
        /\ ExecuteArray(s, "sm_switch").pc = "sm_switch"
    BY <1>2, CarriesExecuteArray
  <2>2. Carries(node[n], ExecuteArray(s, "sm_switch"))
    BY <1>2, <2>1, CarriesTrans
  <2> QED BY <1>5, <1>9, <2>1, <2>2, PlainPlace, MoveStep
<1>10. CASE Goto(n, s, "PRIMARY_COLO_RUNNING")
  BY <1>2, <1>5, <1>10, PlainPlace, GotoCarries
<1> QED BY <1>6, <1>7, <1>8, <1>9, <1>10

LEMMA MigrationEventContends ==
    ASSUME NEW n, NodeInv(node[n]), Contender(n), MigrationEvent(n)
    PROVE  ContestStep(n)
<1> DEFINE W(i) == Without(n, i)
           E(i) == node[n].queue[i]
<1>1. CASE \E i \in 1 .. Len(node[n].queue) :
             /\ Gets(n, "sm_event", i)
             /\ IF E(i) = "FAILOVER_SYNC"
                THEN Step(n, Execute(W(i), "sm_cancel"), << >>)
                ELSE Goto(n, W(i), handle_always_interrupting(E(i)))
  <2>1. PICK i \in 1 .. Len(node[n].queue) :
          /\ Gets(n, "sm_event", i)
          /\ IF E(i) = "FAILOVER_SYNC"
             THEN Step(n, Execute(W(i), "sm_cancel"), << >>)
             ELSE Goto(n, W(i), handle_always_interrupting(E(i)))
    BY <1>1
  <2>2. /\ node[n].pc = "sm_event" /\ IsFirst(node[n].queue, node[n].interrupting, i)
        /\ node[n].interrupting = SyncInterrupting /\ Interrupted(node[n])
    BY <2>1 DEF Gets, NodeInv, Place
  <2>3. E(i) \in SyncInterrupting
    BY <2>2 DEF IsFirst, Interrupted, PendingInterrupt
  <2>4. CASE E(i) = "FAILOVER_SYNC"
    <3>1. E(i) \notin AlwaysInterrupting
      BY <2>4 DEF AlwaysInterrupting
    <3>2. HasQueue(W(i))
      BY <3>1, TakeCarries
    <3>3. Carries(W(i), Execute(W(i), "sm_cancel")) /\ Execute(W(i), "sm_cancel").pc = "sm_cancel"
      BY <3>2, CarriesExecute
    <3> QED BY <2>1, <2>2, <2>4, <3>1, <3>3, TakeStays
  <2>5. CASE E(i) # "FAILOVER_SYNC"
    <3>1. E(i) \in AlwaysInterrupting
      BY <2>3, <2>5 DEF SyncInterrupting
    <3> QED BY <2>1, <2>5, <3>1, HandleEnds, TakeEnds
  <2> QED BY <2>4, <2>5
<1>2. CASE \E result \in {"ok", "error", "fatal"}, yanked \in BOOLEAN :
             /\ Returns(n, "sm_cancel", result, yanked)
             /\ Goto(n, Executed(node[n], result, yanked),
                     IF result = "ok" THEN "FAILOVER_SYNC" ELSE "FAILED")
  <2>1. PICK result \in {"ok", "error", "fatal"}, yanked \in BOOLEAN :
          /\ Returns(n, "sm_cancel", result, yanked)
          /\ Goto(n, Executed(node[n], result, yanked),
                  IF result = "ok" THEN "FAILOVER_SYNC" ELSE "FAILED")
    BY <1>2
  <2>2. node[n].pc = "sm_cancel" /\ Carries(node[n], Executed(node[n], result, yanked))
    BY <2>1, ReturnsCarries
  <2>3. node[n].pc \in PlainPc /\ {"FAILOVER_SYNC", "FAILED"} \subseteq LaterState
    BY <2>2 DEF PlainPc, LaterState, MainState
  <2> QED BY <2>1, <2>2, <2>3, PlainPlace, GotoCarries
<1> QED BY <1>1, <1>2 DEF MigrationEvent

LEMMA MigrationContends ==
    ASSUME NEW n, NodeInv(node[n]), Contender(n), colod_primary_start_migration_co(n)
    PROVE  ContestStep(n)
<1> DEFINE s == node[n]
<1>1. HasQueue(s) /\ Carries(s, s)
  BY CarriesSelf DEF Contender
<1>2. \A pc \in {"sm_start", "sm_switch", "sm_event", "sm_preswitch", "sm_continue"} :
        pc \in PlainPc
  BY DEF PlainPc, MigrationPc
<1>3. ASSUME s.pc \in {"sm_start", "sm_switch"}, Step(n, [s EXCEPT !.pc = "sm_event"], << >>)
      PROVE  ContestStep(n)
  BY <1>1, <1>2, <1>3, PlainPlace, MoveTo
<1>4. CASE ArrayDone(n, "sm_start") /\
           Step(n, IF Interrupted(s) THEN [s EXCEPT !.pc = "sm_event"]
                   ELSE WaitEvent([s EXCEPT !.transitioning = TRUE], "sm_preswitch"), << >>)
  <2> DEFINE u == [s EXCEPT !.transitioning = TRUE]
             t == WaitEvent(u, "sm_preswitch")
  <2>1. s.pc = "sm_start"
    BY <1>4 DEF ArrayDone
  <2>2. Carries(s, u) /\ HasQueue(u)
    BY <1>1 DEF Carries, HasQueue, ContestFields, Queued
  <2> HIDE DEF u
  <2>3. Carries(s, t) /\ t.pc = "sm_preswitch"
    BY <2>2, CarriesWaitEvent, CarriesTrans
  <2>4. \/ Step(n, [s EXCEPT !.pc = "sm_event"], << >>) \/ Step(n, t, << >>)
    BY <1>4 DEF u
  <2> HIDE DEF t
  <2> QED BY <1>2, <1>3, <2>1, <2>3, <2>4, PlainPlace, MoveStep
<1>5. CASE ArrayDone(n, "sm_switch") /\
           Step(n, IF Interrupted(s) THEN [s EXCEPT !.pc = "sm_event"]
                   ELSE Execute(RaiseTimeout(s), "sm_continue"), << >>)
  <2> DEFINE u == RaiseTimeout(s)
             t == Execute(u, "sm_continue")
  <2>1. s.pc = "sm_switch"
    BY <1>5 DEF ArrayDone
  <2>2. Carries(s, u) /\ HasQueue(u)
    BY <1>1, CarriesRaiseTimeout DEF Carries
  <2> HIDE DEF u
  <2>3. Carries(s, t) /\ t.pc = "sm_continue"
    BY <2>2, CarriesExecute, CarriesTrans
  <2>4. \/ Step(n, [s EXCEPT !.pc = "sm_event"], << >>) \/ Step(n, t, << >>)
    BY <1>5 DEF u
  <2> HIDE DEF t
  <2> QED BY <1>2, <1>3, <2>1, <2>3, <2>4, PlainPlace, MoveStep
<1>6. CASE MigrationCommands(n)
  BY <1>6, MigrationCommandsContends
<1>7. CASE MigrationContinue(n)
  BY <1>7, MigrationContinueContends
<1>8. CASE MigrationWaits(n)
  BY <1>8, MigrationWaitsContends
<1>9. CASE MigrationEvent(n)
  BY <1>9, MigrationEventContends
<1> QED BY <1>4, <1>5, <1>6, <1>7, <1>8, <1>9 DEF colod_primary_start_migration_co

LEMMA FailoverContends ==
    ASSUME NEW n, Contender(n), colod_failover_co(n)
    PROVE  ContestStep(n)
<1> DEFINE s == node[n]
           u == [s EXCEPT !.cmd = FALSE, !.io = FALSE]
           v == [u EXCEPT !.did_yank = TRUE, !.transitioning = TRUE]
           w == [s EXCEPT !.peer = FALSE]
           Q(result) == [u EXCEPT !.qmp_error = @ \/ result = "fatal"]
<1>1. HasQueue(s)
  BY DEF Contender
<1>2. Carries(s, u) /\ Carries(s, w)
  BY <1>1 DEF Carries, HasQueue, ContestFields, Queued
<1>3. \A pc \in {"fo_yank", "fo_array"} : pc \notin LowPc /\ pc \notin EarlyPc /\ pc \in OwnerPc
  BY DEF LowPc, FailedPc, EndPc, EarlyPc, OwnerPc
<1>4. {"FAILED", "PRIMARY_WAIT"} \subseteq LaterState
  BY DEF LaterState, MainState
<1>5. CASE FailoverYank(n)
  <2>1. PICK result \in {"ok", "error", "fatal"} :
          /\ s.pc = "fo_yank"
          /\ \/ Step(n, ExecuteArray(v, "fo_array"), << >>)
             \/ Goto(n, Q(result), "FAILED")
    BY <1>5 DEF FailoverYank, Returns
  <2> HIDE DEF u
  <2>2. Carries(u, v) /\ Carries(u, Q(result)) /\ HasQueue(v)
    BY <1>2 DEF Carries, HasQueue, ContestFields, Queued
  <2>3. Carries(s, v) /\ Carries(s, Q(result))
    BY <1>2, <2>2, CarriesTrans
  <2> HIDE DEF v, Q
  <2>4. Carries(v, ExecuteArray(v, "fo_array")) /\ ExecuteArray(v, "fo_array").pc = "fo_array"
    BY <2>2, CarriesExecuteArray
  <2>5. CASE Step(n, ExecuteArray(v, "fo_array"), << >>)
    <3>1. Carries(s, ExecuteArray(v, "fo_array"))
      BY <2>3, <2>4, CarriesTrans
    <3> QED BY <1>3, <2>1, <2>4, <2>5, <3>1, MoveStep
  <2>6. CASE Goto(n, Q(result), "FAILED")
    BY <1>3, <1>4, <2>1, <2>3, <2>6, GotoCarries
  <2> QED BY <2>1, <2>5, <2>6
<1>6. ASSUME NEW result \in {"ok", "error", "fatal"}, NEW yanked \in BOOLEAN,
             Returns(n, "fo_array", result, yanked),
             \/ Goto(n, Executed(s, result, yanked), "FAILED")
             \/ Step(n, Executed(s, result, yanked), << >>)
      PROVE  ContestStep(n)
  <2>1. s.pc = "fo_array" /\ Carries(s, Executed(s, result, yanked))
        /\ Executed(s, result, yanked).pc = s.pc
    BY <1>6, ReturnsCarries
  <2>2. CASE Goto(n, Executed(s, result, yanked), "FAILED")
    BY <1>3, <1>4, <2>1, <2>2, GotoCarries
  <2>3. CASE Step(n, Executed(s, result, yanked), << >>)
    BY <1>3, <2>1, <2>3, MoveStep
  <2> QED BY <1>6, <2>2, <2>3
<1>7. CASE ArrayDone(n, "fo_array") /\ Goto(n, w, "PRIMARY_WAIT")
  <2>1. s.pc = "fo_array"
    BY <1>7 DEF ArrayDone
  <2> HIDE DEF w
  <2> QED BY <1>2, <1>3, <1>4, <1>7, <2>1, GotoCarries
<1> QED BY <1>5, <1>6, <1>7 DEF colod_failover_co

\* The start of a daemon is behind it.
LEMMA NotStarting ==
    ASSUME NEW n, Contender(n)
    PROVE  ~Start(n) /\ ~colod_secondary_startup_co(n) /\ ~colod_secondary_wait_co(n)
<1>1. node[n].pc \notin EarlyPc
  BY DEF Contender, Fit
<1>2. ~Start(n)
  BY <1>1 DEF Start, EarlyPc
<1>3. ~colod_secondary_startup_co(n)
  BY <1>1 DEF colod_secondary_startup_co, Returns, EarlyPc
<1>4. ~colod_secondary_wait_co(n)
  BY <1>1 DEF colod_secondary_wait_co, Awaited, SecondaryDiscard, Gets, EarlyPc
<1> QED BY <1>2, <1>3, <1>4

LEMMA MainCoContends ==
    ASSUME NEW n, NodeInv(node[n]), Contender(n), MainCo(n)
    PROVE  ContestStep(n)
  BY NotStarting, EventYieldContends, QmpEventWaitContends, CommandYieldContends,
     ArrayNextContends, ColoRunningContends, PrimaryWaitContends, MigrationContends,
     FailoverSyncContends, FailoverContends, FailedContends, AutoquitContends DEF MainCo
-----------------------------------------------------------------------------
(* The callbacks: the place of the coroutine stays. *)

LEMMA SilentStay ==
    ASSUME NEW n, Contender(n), NEW t, Step(n, t, << >>), Carries(node[n], t),
           t.pc = node[n].pc
    PROVE  ContestStep(n)
<1>1. << >> \in Seq(ColodMessage)
  OBVIOUS
<1> QED BY <1>1, StayStep

LEMMA QueuedContends ==
    ASSUME NEW n, Contender(n), NEW s, NEW e \in ColodEvent \ {"FAILOVER_WIN"},
           Carries(node[n], s), s.pc = node[n].pc, Step(n, colod_event_queue(s, e), << >>)
    PROVE  ContestStep(n)
<1>1. Carries(s, colod_event_queue(s, e)) /\ colod_event_queue(s, e).pc = s.pc
  BY CarriesQueue DEF Carries
<1>2. Carries(node[n], colod_event_queue(s, e))
  BY <1>1, CarriesTrans
<1> QED BY <1>1, <1>2, SilentStay

LEMMA DispatchContends ==
    ASSUME NEW n, Contender(n),
           DispatchSource(n) \/ DispatchReply(n) \/ DispatchTimer(n) \/ RaiseStart(n)
    PROVE  ContestStep(n)
<1>0. HasQueue(node[n])
  BY DEF Contender
<1>1. CASE DispatchSource(n)
  <2>1. PICK src, run, id :
          Step(n, [node[n] EXCEPT !.sources = src, !.run = run, !.wake_source_id = id], << >>)
    BY <1>1 DEF DispatchSource, Continue
  <2> DEFINE t == [node[n] EXCEPT !.sources = src, !.run = run, !.wake_source_id = id]
  <2>2. Carries(node[n], t) /\ t.pc = node[n].pc
    BY <1>0 DEF Carries, HasQueue, ContestFields, Queued
  <2> HIDE DEF t
  <2> QED BY <2>1, <2>2, SilentStay DEF t
<1>2. CASE DispatchReply(n)
  <2> DEFINE t == [node[n] EXCEPT !.run = "reply", !.io = FALSE]
  <2>1. Step(n, t, << >>)
    BY <1>2 DEF DispatchReply, Continue
  <2>2. Carries(node[n], t) /\ t.pc = node[n].pc
    BY <1>0 DEF Carries, HasQueue, ContestFields, Queued
  <2> HIDE DEF t
  <2> QED BY <2>1, <2>2, SilentStay
<1>3. CASE DispatchTimer(n)
  <2> DEFINE t == [node[n] EXCEPT !.run = "timer"]
  <2>1. Step(n, t, << >>)
    BY <1>3 DEF DispatchTimer, Continue
  <2>2. Carries(node[n], t) /\ t.pc = node[n].pc
    BY <1>0 DEF Carries, HasQueue, ContestFields, Queued
  <2> HIDE DEF t
  <2> QED BY <2>1, <2>2, SilentStay
<1>4. CASE RaiseStart(n)
  <2> DEFINE t == [node[n] EXCEPT !.raise = "stop"]
  <2>1. Step(n, t, << >>)
    BY <1>4 DEF RaiseStart, Continue
  <2>2. Carries(node[n], t) /\ t.pc = node[n].pc
    BY <1>0 DEF Carries, HasQueue, ContestFields, Queued
  <2> HIDE DEF t
  <2> QED BY <2>1, <2>2, SilentStay
<1> QED BY <1>1, <1>2, <1>3, <1>4

LEMMA YellowEventContends ==
    ASSUME NEW n, Contender(n), colod_yellow_event_cb(n)
    PROVE  ContestStep(n)
<1>1. PICK y, l, e :
        /\ e \in {"YELLOW", "UNYELLOW"}
        /\ Step(n, colod_event_queue([node[n] EXCEPT !.yellow = y, !.link = l], e), << >>)
  BY DEF colod_yellow_event_cb, Continue
<1> DEFINE u == [node[n] EXCEPT !.yellow = y, !.link = l]
<1>2. Carries(node[n], u) /\ u.pc = node[n].pc
  BY DEF Contender, Carries, HasQueue, ContestFields, Queued
<1>3. e \in ColodEvent \ {"FAILOVER_WIN"}
  BY <1>1 DEF ColodEvent
<1> HIDE DEF u
<1> QED BY <1>1, <1>2, <1>3, QueuedContends DEF u

\* colod_main_free leaves EVENT_QUIT in a queue that is not full.
LEMMA MainFreeContends ==
    ASSUME NEW n, Contender(n), Len(node[n].queue) < QueueSize, colod_main_free(n)
    PROVE  ContestStep(n)
<1> DEFINE s == node[n]
           q == colod_event_queue(s, "QUIT")
<1>1. PICK x : s.loop = "quit" /\
        Step(n, [q EXCEPT !.loop = "teardown", !.link = "off", !.raise = "none",
                          !.timeout = x], Revert(s.link))
  BY DEF colod_main_free
<1> DEFINE t == [q EXCEPT !.loop = "teardown", !.link = "off", !.raise = "none",
                          !.timeout = x]
<1>2. /\ HasQueue(q) /\ q.pc = s.pc /\ q.state = s.state /\ q.interrupting = s.interrupting
      /\ \A f : Queued(s, f) => Queued(q, f)
      /\ \A f : Queued(q, f) => Queued(s, f) \/ f = "QUIT"
      /\ Queued(q, "QUIT")
  <2>1. HasQueue(s) /\ "QUIT" \in ColodEvent
    BY DEF Contender, ColodEvent, AlwaysInterrupting
  <2> QED BY <2>1, QueuedEvent
<1> HIDE DEF q
<1>3. /\ t.state = q.state /\ t.pc = q.pc /\ t.loop = "teardown"
      /\ t.interrupting = q.interrupting /\ t.queue = q.queue
  BY <1>2 DEF HasQueue, ContestFields
<1>4. Revert(s.link) \in Seq(ColodMessage)
  BY RevertType
<1> HIDE DEF t
<1>5. \A f : Queued(t, f) <=> Queued(q, f)
  BY <1>3 DEF Queued
<1>6. Fit(s)
  BY DEF Contender
<1>7. Fit(t)
  BY <1>1, <1>2, <1>3, <1>5, <1>6 DEF Fit
<1>8. Contends(s, t)
  BY <1>1, <1>2, <1>3, <1>5, <1>7 DEF Contends, Low, Doomed
<1> QED BY <1>1, <1>4, <1>8 DEF ContestStep, t

LEMMA CarriesNotifyEvent ==
    ASSUME NEW n, HasQueue(node[n]), NEW e
    PROVE  /\ Carries(node[n], NotifyEvent(n, e)) /\ NotifyEvent(n, e).pc = node[n].pc
<1> DEFINE s == node[n]
           d == [s EXCEPT !.yellow = TRUE, !.link = "off"]
           c == IF Notified(n) THEN colod_qmp_event_cb(s, e) ELSE s
<1>1. Carries(s, d) /\ d.pc = s.pc /\ Carries(s, s) /\ HasQueue(d)
  BY DEF Carries, HasQueue, ContestFields, Queued
<1>2. colod_qmp_event_cb(s, e) \in
        {colod_event_queue(s, "FAILOVER_SYNC"), colod_event_queue(d, "YELLOW"),
         RaiseTimeout(s), s}
  BY DEF colod_qmp_event_cb
<1> HIDE DEF d
<1>3. "FAILOVER_SYNC" \in ColodEvent /\ "YELLOW" \in ColodEvent
  BY DEF ColodEvent
<1>4. /\ Carries(s, colod_event_queue(s, "FAILOVER_SYNC"))
      /\ colod_event_queue(s, "FAILOVER_SYNC").pc = s.pc
      /\ Carries(d, colod_event_queue(d, "YELLOW"))
      /\ colod_event_queue(d, "YELLOW").pc = d.pc
  BY <1>1, <1>3, CarriesQueue
<1>5. Carries(s, colod_event_queue(d, "YELLOW"))
  BY <1>1, <1>4, CarriesTrans
<1>6. Carries(s, RaiseTimeout(s)) /\ RaiseTimeout(s).pc = s.pc
  BY CarriesRaiseTimeout
<1>7. Carries(s, c) /\ c.pc = s.pc
  BY <1>1, <1>2, <1>4, <1>5, <1>6
<1> HIDE DEF c
<1>8. Carries(c, WaitEventCb(c, e)) /\ WaitEventCb(c, e).pc = c.pc
  <2> DEFINE t == [c EXCEPT
                !.raise = IF @ = "stop" /\ e = "STOP" THEN "resume"
                          ELSE IF @ = "resume" /\ e = "RESUME" THEN "none" ELSE @,
                !.timeout = IF c.raise = "resume" /\ e = "RESUME" THEN "low" ELSE @]
             u == [t EXCEPT !.fired = TRUE, !.sources = Append(@, "fired")]
  <2>1. Carries(c, t) /\ t.pc = c.pc
    BY <1>7 DEF Carries, HasQueue, ContestFields, Queued
  <2>2. WaitEventCb(c, e) = IF Expects(c, e) THEN u ELSE t
    BY DEF WaitEventCb
  <2> HIDE DEF t
  <2>3. Carries(t, u) /\ u.pc = t.pc
    BY <2>1 DEF Carries, HasQueue, ContestFields, Queued
  <2> QED BY <2>1, <2>2, <2>3, CarriesTrans
<1>9. NotifyEvent(n, e) = WaitEventCb(c, e)
  BY DEF NotifyEvent, c
<1> QED BY <1>7, <1>8, <1>9, CarriesTrans

LEMMA QmpEventContends ==
    ASSUME IInv, NEW n \in Daemons, Contender(n), NEW e, QmpEvent(n, e) \/ CommandSelf(n, e)
    PROVE  ContestStep(n)
<1> DEFINE s == node[n]
           v == NotifyEvent(n, e)
           u == [v EXCEPT !.sources = Append(@, "self")]
           y == Yield(u)
           t == [y EXCEPT !.io = FALSE]
<1>1. Carries(s, v) /\ v.pc = s.pc
  BY CarriesNotifyEvent DEF Contender
<1>2. NotifyMessages(n, e) \in Seq(ColodMessage)
  BY NotifyMessagesType
<1>3. Step(n, v, NotifyMessages(n, e)) \/ Step(n, t, NotifyMessages(n, e))
  BY DEF QmpEvent, CommandSelf
<1> HIDE DEF v
<1>4. Carries(v, u) /\ u.pc = s.pc /\ HasQueue(u)
  BY <1>1 DEF Carries, HasQueue, ContestFields, Queued
<1> HIDE DEF u
<1>5. Carries(u, y) /\ y.pc = s.pc
  BY <1>4, CarriesYield
<1> HIDE DEF y
<1>6. Carries(y, t) /\ t.pc = s.pc
  BY <1>5 DEF Carries, HasQueue, ContestFields, Queued
<1>7. Carries(s, u)
  BY <1>1, <1>4, CarriesTrans
<1>8. Carries(s, y)
  BY <1>5, <1>7, CarriesTrans
<1> HIDE DEF t
<1>9. Carries(s, t)
  BY <1>6, <1>8, CarriesTrans
<1> QED BY <1>1, <1>2, <1>3, <1>6, <1>9, StayStep

LEMMA LinkChangeContends ==
    ASSUME NEW n, Contender(n), LinkChange(n)
    PROVE  ContestStep(n)
<1>1. PICK x \in LinkTransition : Step(n, [node[n] EXCEPT !.link = x[3]], <<x[4]>>)
  BY DEF LinkChange
<1> DEFINE t == [node[n] EXCEPT !.link = x[3]]
<1>2. Carries(node[n], t) /\ t.pc = node[n].pc
  BY DEF Contender, Carries, HasQueue, ContestFields, Queued
<1>3. x[4] \in ColodMessage
  BY DEF LinkTransition, ColodMessage
<1>4. <<x[4]>> \in Seq(ColodMessage)
  BY <1>3
<1> HIDE DEF t
<1> QED BY <1>1, <1>2, <1>4, StayStep DEF t

LEMMA QuitContends ==
    ASSUME NEW n, Contender(n), colod_quit(n)
    PROVE  ContestStep(n)
<1> DEFINE s == node[n]
           t == LoopQuit(s)
<1>1. s.loop = "run" /\ Step(n, t, << >>)
  BY DEF colod_quit
<1>2. /\ t.state = s.state /\ t.pc = s.pc /\ t.interrupting = s.interrupting
      /\ t.queue = s.queue /\ t.loop = "quit"
  BY <1>1 DEF LoopQuit, Contender, HasQueue, ContestFields
<1> HIDE DEF t
<1>3. \A e : Queued(t, e) <=> Queued(s, e)
  BY <1>2 DEF Queued
<1>4. Fit(t)
  BY <1>1, <1>2, <1>3 DEF Contender, Fit
<1>5. Contends(s, t)
  BY <1>1, <1>2, <1>3, <1>4 DEF Contends, Low, Doomed
<1>6. << >> \in Seq(ColodMessage)
  OBVIOUS
<1> QED BY <1>1, <1>5, <1>6 DEF ContestStep

LEMMA ClientContends ==
    ASSUME NEW n, Contender(n),
           \/ colod_hup_cb(n) \/ QmpSetError(n) \/ colod_clear_peer(n) \/ colod_set_peer(n)
           \/ colod_start_migration(n) \/ colod_autoquit(n) \/ colod_qemu_failed(n)
           \/ ClientExecute(n) \/ colod_yank_co(n) \/ colod_check_health_co(n)
    PROVE  ContestStep(n)
<1> DEFINE s == node[n]
           a == [s EXCEPT !.qemu_quit = TRUE]
           b == [s EXCEPT !.qmp_error = TRUE]
           c == [s EXCEPT !.peer = FALSE]
           d == [s EXCEPT !.did_yank = FALSE]
           p == [s EXCEPT !.peer = TRUE, !.peer_failed = FALSE, !.peer_yellow = FALSE]
<1>0. HasQueue(s)
  BY DEF Contender
<1>1. /\ Carries(s, a) /\ a.pc = s.pc /\ Carries(s, b) /\ b.pc = s.pc
      /\ Carries(s, c) /\ c.pc = s.pc /\ Carries(s, d) /\ d.pc = s.pc /\ Carries(s, s)
      /\ Carries(s, p) /\ p.pc = s.pc
  BY <1>0 DEF Carries, HasQueue, ContestFields, Queued
<1>2. {"FAILED", "FAILOVER_SYNC", "START_MIGRATION", "AUTOQUIT"} \subseteq
        ColodEvent \ {"FAILOVER_WIN"}
  BY DEF ColodEvent, AlwaysInterrupting
<1>3. CASE colod_hup_cb(n) \/ QmpSetError(n) \/ colod_clear_peer(n) \/ colod_set_peer(n)
  <2>1. \/ Step(n, colod_event_queue(a, "FAILED"), << >>) \/ Step(n, b, << >>)
        \/ Step(n, c, << >>) \/ Step(n, p, << >>)
    BY <1>3 DEF colod_hup_cb, QmpSetError, colod_clear_peer, colod_set_peer
  <2> HIDE DEF a, b, c, p
  <2> QED BY <1>1, <1>2, <2>1, QueuedContends, SilentStay
<1>4. CASE colod_start_migration(n) \/ colod_autoquit(n) \/ colod_qemu_failed(n)
  <2>1. PICK e \in {"FAILED", "START_MIGRATION", "AUTOQUIT"} :
          Step(n, colod_event_queue(s, e), << >>)
    BY <1>4 DEF colod_start_migration, colod_autoquit, colod_qemu_failed
  <2> QED BY <1>1, <1>2, <2>1, QueuedContends
<1>5. CASE ClientExecute(n)
  <2>1. PICK result, yanked : Step(n, Checked(s, result, yanked), << >>)
    BY <1>5 DEF ClientExecute
  <2> QED BY <1>0, <2>1, CarriesChecked, SilentStay
<1>6. CASE colod_yank_co(n)
  <2>1. \/ Step(n, colod_event_queue(d, "FAILOVER_SYNC"), << >>)
        \/ Step(n, colod_event_queue(b, "FAILED"), << >>)
    BY <1>6 DEF colod_yank_co
  <2> HIDE DEF b, d
  <2> QED BY <1>1, <1>2, <2>1, QueuedContends
<1>7. CASE colod_check_health_co(n)
  <2>1. PICK result, yanked :
          \/ Step(n, Checked(s, result, yanked), << >>)
          \/ Step(n, colod_event_queue(Checked(s, result, yanked), "FAILED"), << >>)
    BY <1>7 DEF colod_check_health_co
  <2>2. Carries(s, Checked(s, result, yanked)) /\ Checked(s, result, yanked).pc = s.pc
    BY <1>0, CarriesChecked
  <2> QED BY <1>2, <2>1, <2>2, QueuedContends, SilentStay
<1> QED BY <1>3, <1>4, <1>5, <1>6, <1>7

\* The steps of a daemon, by what they do to the contest.
LEMMA ContestCases ==
    ASSUME IInv, NEW n \in Daemons, Contender(n), Len(node[n].queue) < QueueSize,
           MainCo(n) \/ Loop(n) \/ Environment(n) \/ Exit(n)
    PROVE  \/ ContestStep(n) \/ CpgDispatch(n) \/ Retransmit(n)
           \/ \E p \in Nodes \ Daemons, m \in PeerMessages : PeerMessage(n, p, m)
           \/ Exit(n)
<1>1. CASE MainCo(n)
  BY <1>1, MainCoContends DEF IInv
<1>2. CASE Loop(n)
  BY <1>2, DispatchContends, YellowEventContends, MainFreeContends DEF Loop
<1>3. CASE Environment(n)
  <2>1. CASE \E e : QmpEvent(n, e) \/ CommandSelf(n, e)
    BY <2>1, QmpEventContends
  <2> QED BY <1>3, <2>1, LinkChangeContends, QuitContends, ClientContends DEF Environment
<1> QED BY <1>1, <1>2, <1>3
-----------------------------------------------------------------------------
\* The deliveries q hold a MESSAGE_FAILOVER of n; one that comes before that of
\* any other node; one of another node that comes before any of n.
Asks(q, n) == \E i \in 1 .. Len(q) : q[i].msg = "FAILOVER" /\ q[i].from = n

First(q, n) ==
    \E i \in 1 .. Len(q) :
        /\ q[i].msg = "FAILOVER" /\ q[i].from = n
        /\ \A j \in 1 .. (i - 1) : q[j].msg = "FAILOVER" => q[j].from = n

Behind(q, n) ==
    \E i \in 1 .. Len(q) :
        /\ q[i].msg = "FAILOVER" /\ q[i].from # n
        /\ \A j \in 1 .. (i - 1) : q[j].msg = "FAILOVER" => q[j].from # n

\* Daemon n, in state s and with the deliveries q before it, has the guest or
\* will be given it; will never have it; has asked for it.
HasWin(s, q, n) ==
    \/ ~Low(s)
    \/ ~Doomed(s) /\ (Queued(s, "FAILOVER_WIN") \/ First(q, n))

Beaten(s, q, n) ==
    Low(s) /\ (Doomed(s) \/ (~Queued(s, "FAILOVER_WIN") /\ Behind(q, n)))

Sent(s, q, n) == ~Low(s) \/ Queued(s, "FAILOVER_WIN") \/ Asks(q, n)

\* If one has won, the others have lost; and of one that has asked and has not
\* lost the others know, or will.
Contest(nd, box) ==
    \A n, p \in Daemons : n # p =>
        /\ HasWin(nd[n], box[n], n) => Beaten(nd[p], box[p], p)
        /\ Sent(nd[n], box[n], n) /\ ~Beaten(nd[n], box[n], n)
             => Doomed(nd[p]) \/ Asks(box[p], n)

\* From (s, q) to (t, r) daemon n does not gain anything.
Fades(s, q, t, r, n) ==
    /\ HasWin(t, r, n) => HasWin(s, q, n)
    /\ Beaten(s, q, n) => Beaten(t, r, n)
    /\ Sent(t, r, n) => Sent(s, q, n)
    /\ Doomed(s) => Doomed(t)
    /\ \A p \in Daemons \ {n} : Asks(q, p) => Asks(r, p) \/ Doomed(t) \/ HasWin(s, q, n)

LEMMA FadesContest ==
    ASSUME NEW nd, NEW box, NEW nd1, NEW box1, Contest(nd, box),
           \A n \in Daemons : Fades(nd[n], box[n], nd1[n], box1[n], n)
    PROVE  Contest(nd1, box1)
<1> SUFFICES ASSUME NEW n \in Daemons, NEW p \in Daemons, n # p
             PROVE  /\ HasWin(nd1[n], box1[n], n) => Beaten(nd1[p], box1[p], p)
                    /\ Sent(nd1[n], box1[n], n) /\ ~Beaten(nd1[n], box1[n], n)
                         => Doomed(nd1[p]) \/ Asks(box1[p], n)
  BY DEF Contest
<1>1. Fades(nd[n], box[n], nd1[n], box1[n], n) /\ Fades(nd[p], box[p], nd1[p], box1[p], p)
  OBVIOUS
<1>2. /\ HasWin(nd[n], box[n], n) => Beaten(nd[p], box[p], p)
      /\ HasWin(nd[p], box[p], p) => Beaten(nd[n], box[n], n)
      /\ Sent(nd[n], box[n], n) /\ ~Beaten(nd[n], box[n], n)
           => Doomed(nd[p]) \/ Asks(box[p], n)
  BY DEF Contest
<1> QED BY <1>1, <1>2 DEF Fades

LEMMA FadesSame ==
    ASSUME NEW s, NEW q, NEW n
    PROVE  Fades(s, q, s, q, n)
  BY DEF Fades

\* A step of the daemon, without a delivery.
LEMMA ContendsFades ==
    ASSUME NEW s, NEW t, NEW q, NEW n, Contends(s, t)
    PROVE  Fades(s, q, t, q, n)
<1>1. HasWin(t, q, n) => HasWin(s, q, n)
  BY DEF Contends, HasWin
<1>2. Beaten(s, q, n) => Beaten(t, q, n)
  BY DEF Contends, Beaten, Doomed
<1>3. Sent(t, q, n) => Sent(s, q, n)
  BY DEF Contends, Sent
<1> QED BY <1>1, <1>2, <1>3 DEF Fades, Contends

\* The deliveries q, followed by new ones that are all of m.
LEMMA ConcatAsks ==
    ASSUME NEW q \in Seq(Delivery), NEW new \in Seq(Delivery), NEW m,
           \A i \in 1 .. Len(new) : new[i].from = m, NEW n
    PROVE  /\ Asks(q, n) => Asks(q \o new, n)
           /\ Asks(q \o new, n) => Asks(q, n) \/ (n = m /\ Asks(new, m))
           /\ Asks(new, n) => Asks(q \o new, n)
           /\ Behind(q, n) => Behind(q \o new, n)
           /\ First(q \o new, n) =>
                First(q, n) \/ (n = m /\ Asks(new, m) /\ \A p : p # m => ~Asks(q, p))
           /\ n # m /\ Asks(new, m) /\ ~Asks(q, n) => Behind(q \o new, n)
<1> DEFINE r == q \o new
           l == Len(q)
           k == Len(new)
<1>1. /\ l \in Nat /\ k \in Nat /\ Len(r) = l + k
      /\ \A i \in 1 .. (l + k) : r[i] = IF i <= l THEN q[i] ELSE new[i - l]
  <2>1. Len(r) = Len(q) + Len(new)
        /\ \A i \in 1 .. Len(q) + Len(new) :
             r[i] = IF i <= Len(q) THEN q[i] ELSE new[i - Len(q)]
    BY ConcatProperties, Zenon
  <2>2. l \in Nat /\ k \in Nat
    OBVIOUS
  <2> QED BY <2>1, <2>2
<1> HIDE DEF r, l, k
<1>2. \A i \in 1 .. l : i \in 1 .. Len(r) /\ r[i] = q[i]
  BY <1>1
<1>3. \A i \in 1 .. k : l + i \in 1 .. Len(r) /\ r[l + i] = new[i]
  <2> SUFFICES ASSUME NEW i \in 1 .. k PROVE l + i \in 1 .. Len(r) /\ r[l + i] = new[i]
    OBVIOUS
  <2>1. l + i \in 1 .. (l + k) /\ ~(l + i <= l) /\ (l + i) - l = i
    BY <1>1
  <2> QED BY <1>1, <2>1
<1>4. ASSUME NEW i \in 1 .. Len(r)
      PROVE  (i \in 1 .. l /\ r[i] = q[i])
             \/ (i > l /\ i - l \in 1 .. k /\ r[i] = new[i - l] /\ r[i].from = m)
  BY <1>1 DEF k
<1>5. Asks(q, n) => Asks(r, n)
  BY <1>2 DEF Asks, l
<1>6. Asks(r, n) => Asks(q, n) \/ (n = m /\ Asks(new, m))
  <2> SUFFICES ASSUME NEW i \in 1 .. Len(r), r[i].msg = "FAILOVER", r[i].from = n
               PROVE  Asks(q, n) \/ (n = m /\ Asks(new, m))
    BY DEF Asks
  <2> QED BY <1>4 DEF Asks, l, k
<1>7. Asks(new, n) => Asks(r, n)
  <2> SUFFICES ASSUME NEW i \in 1 .. k, new[i].msg = "FAILOVER", new[i].from = n
               PROVE  Asks(r, n)
    BY DEF Asks, k
  <2>1. l + i \in 1 .. Len(r) /\ r[l + i] = new[i]
    BY <1>3
  <2> QED BY <2>1 DEF Asks
<1>8. Behind(q, n) => Behind(r, n)
  <2> SUFFICES ASSUME NEW i \in 1 .. l, q[i].msg = "FAILOVER", q[i].from # n,
                      \A j \in 1 .. (i - 1) : q[j].msg = "FAILOVER" => q[j].from # n
               PROVE  Behind(r, n)
    BY DEF Behind, l
  <2>1. \A j \in 1 .. (i - 1) : r[j] = q[j]
    BY <1>1, <1>2
  <2>2. i \in 1 .. Len(r) /\ r[i] = q[i]
    BY <1>2
  <2> QED BY <2>1, <2>2 DEF Behind
<1>9. First(r, n) =>
        First(q, n) \/ (n = m /\ Asks(new, m) /\ \A p : p # m => ~Asks(q, p))
  <2> SUFFICES ASSUME NEW i \in 1 .. Len(r), r[i].msg = "FAILOVER", r[i].from = n,
                      \A j \in 1 .. (i - 1) : r[j].msg = "FAILOVER" => r[j].from = n
               PROVE  First(q, n) \/ (n = m /\ Asks(new, m) /\ \A p : p # m => ~Asks(q, p))
    BY DEF First
  <2>1. CASE i \in 1 .. l
    <3>1. \A j \in 1 .. (i - 1) : r[j] = q[j]
      BY <1>1, <1>2, <2>1
    <3>2. r[i] = q[i]
      BY <1>2, <2>1
    <3>3. First(q, n)
      BY <2>1, <3>1, <3>2 DEF First, l
    <3> QED BY <3>3
  <2>2. CASE i > l
    <3>1. i - l \in 1 .. k /\ r[i] = new[i - l] /\ r[i].from = m
      BY <1>1, <1>4, <2>2
    <3>2. n = m /\ Asks(new, m)
      BY <3>1 DEF Asks, k
    <3>3. ASSUME NEW p, p # m, NEW j \in 1 .. l, q[j].msg = "FAILOVER", q[j].from = p
          PROVE  FALSE
      <4>1. j \in 1 .. (i - 1) /\ r[j] = q[j]
        BY <1>1, <1>2, <2>2
      <4> QED BY <3>2, <3>3, <4>1
    <3>4. \A p : p # m => ~Asks(q, p)
      BY <3>3 DEF Asks, l
    <3> QED BY <3>2, <3>4
  <2> QED BY <1>4, <2>1, <2>2
<1>10. n # m /\ Asks(new, m) /\ ~Asks(q, n) => Behind(r, n)
  <2> SUFFICES ASSUME n # m, ~Asks(q, n), NEW i \in 1 .. k, new[i].msg = "FAILOVER",
                      new[i].from = m
               PROVE  Behind(r, n)
    BY DEF Asks, k
  <2>1. l + i \in 1 .. Len(r) /\ r[l + i] = new[i]
    BY <1>3
  <2>2. ASSUME NEW j \in 1 .. ((l + i) - 1), r[j].msg = "FAILOVER"
        PROVE  r[j].from # n
    <3>1. j \in 1 .. Len(r)
      BY <1>1, <2>1
    <3>2. CASE j \in 1 .. l /\ r[j] = q[j]
      BY <2>2, <3>2 DEF Asks, l
    <3> QED BY <1>4, <3>1, <3>2
  <2> QED BY <2>1, <2>2 DEF Behind
<1> QED BY <1>5, <1>6, <1>7, <1>8, <1>9, <1>10 DEF r

\* The first delivery is taken.
LEMMA TakenAsks ==
    ASSUME NEW q \in Seq(Delivery), q # << >>, NEW n
    PROVE  LET d == Head(q)
               r == Tail(q)
           IN  /\ Asks(r, n) => Asks(q, n)
               /\ Asks(q, n) => Asks(r, n) \/ (d.msg = "FAILOVER" /\ d.from = n)
               /\ d.msg # "FAILOVER" => (First(r, n) => First(q, n))
                                        /\ (Behind(q, n) => Behind(r, n))
               /\ d.msg = "FAILOVER" /\ d.from = n => First(q, n) /\ ~Behind(q, n)
<1> DEFINE d == Head(q)
           r == Tail(q)
<1>1. /\ Len(q) \in Nat \ {0} /\ d = q[1] /\ Len(r) = Len(q) - 1
      /\ \A i \in 1 .. Len(r) : r[i] = q[i + 1]
  BY HeadTailProperties, EmptySeq
<1> HIDE DEF d, r
<1>2. Asks(r, n) => Asks(q, n)
  <2> SUFFICES ASSUME NEW i \in 1 .. Len(r), r[i].msg = "FAILOVER", r[i].from = n
               PROVE  Asks(q, n)
    BY DEF Asks
  <2>1. i + 1 \in 1 .. Len(q) /\ q[i + 1] = r[i]
    BY <1>1
  <2> QED BY <2>1 DEF Asks
<1>3. ASSUME NEW i \in 1 .. Len(q), i # 1
      PROVE  i - 1 \in 1 .. Len(r) /\ r[i - 1] = q[i]
  <2>1. i - 1 \in 1 .. Len(r) /\ (i - 1) + 1 = i
    BY <1>1, <1>3
  <2> QED BY <1>1, <2>1
<1>4. Asks(q, n) => Asks(r, n) \/ (d.msg = "FAILOVER" /\ d.from = n)
  <2> SUFFICES ASSUME NEW i \in 1 .. Len(q), q[i].msg = "FAILOVER", q[i].from = n
               PROVE  Asks(r, n) \/ (d.msg = "FAILOVER" /\ d.from = n)
    BY DEF Asks
  <2> QED BY <1>1, <1>3 DEF Asks
<1>5. ASSUME d.msg # "FAILOVER"
      PROVE  First(r, n) => First(q, n)
  <2> SUFFICES ASSUME NEW i \in 1 .. Len(r), r[i].msg = "FAILOVER", r[i].from = n,
                      \A j \in 1 .. (i - 1) : r[j].msg = "FAILOVER" => r[j].from = n
               PROVE  First(q, n)
    BY DEF First
  <2>1. i + 1 \in 1 .. Len(q) /\ q[i + 1] = r[i]
    BY <1>1
  <2>2. ASSUME NEW j \in 1 .. ((i + 1) - 1), q[j].msg = "FAILOVER"
        PROVE  q[j].from = n
    <3>1. j \in 1 .. Len(q) /\ j # 1
      BY <1>1, <1>5, <2>2
    <3>2. j - 1 \in 1 .. (i - 1) /\ r[j - 1] = q[j]
      BY <1>1, <1>3, <3>1
    <3> QED BY <2>2, <3>2
  <2> QED BY <2>1, <2>2 DEF First
<1>6. ASSUME d.msg # "FAILOVER"
      PROVE  Behind(q, n) => Behind(r, n)
  <2> SUFFICES ASSUME NEW i \in 1 .. Len(q), q[i].msg = "FAILOVER", q[i].from # n,
                      \A j \in 1 .. (i - 1) : q[j].msg = "FAILOVER" => q[j].from # n
               PROVE  Behind(r, n)
    BY DEF Behind
  <2>1. i # 1
    BY <1>1, <1>6
  <2>2. i - 1 \in 1 .. Len(r) /\ r[i - 1] = q[i]
    BY <1>3, <2>1
  <2>3. ASSUME NEW j \in 1 .. ((i - 1) - 1), r[j].msg = "FAILOVER"
        PROVE  r[j].from # n
    <3>1. j \in 1 .. Len(r) /\ j + 1 \in 1 .. (i - 1)
      BY <1>1, <2>2
    <3> QED BY <1>1, <2>3, <3>1
  <2> QED BY <2>2, <2>3 DEF Behind
<1>7. ASSUME d.msg = "FAILOVER", d.from = n
      PROVE  First(q, n) /\ ~Behind(q, n)
  <2>1. First(q, n)
    <3>1. 1 \in 1 .. Len(q) /\ \A j \in 1 .. (1 - 1) : FALSE
      BY <1>1
    <3> QED BY <1>1, <1>7, <3>1 DEF First
  <2>2. ASSUME NEW i \in 1 .. Len(q), q[i].from # n,
               \A j \in 1 .. (i - 1) : q[j].msg = "FAILOVER" => q[j].from # n
        PROVE  FALSE
    <3>1. i # 1
      BY <1>1, <1>7, <2>2
    <3>2. 1 \in 1 .. (i - 1)
      BY <3>1
    <3> QED BY <1>1, <1>7, <2>2, <3>2
  <2> QED BY <2>1, <2>2 DEF Behind
<1> QED BY <1>2, <1>4, <1>5, <1>6, <1>7 DEF d, r
-----------------------------------------------------------------------------
\* What a multicast adds, the same for all members.
LEMMA SendAdds ==
    ASSUME NEW m \in Daemons, NEW msgs \in Seq(ColodMessage), NEW marks,
           NEW box \in [Daemons -> Seq(Delivery)], colod_cpg_send(m, box, marks, msgs)
    PROVE  \E new \in Seq(Delivery) :
             /\ \A i \in 1 .. Len(new) : new[i].from = m
             /\ \A q \in Daemons : inbox'[q] = IF q \in members THEN box[q] \o new ELSE box[q]
<1>1. PICK sent \in 0 .. Len(msgs) : inbox' = Multicast(box, m, SubSeq(msgs, 1, sent))
  BY DEF colod_cpg_send
<1> DEFINE sub == SubSeq(msgs, 1, sent)
           new == [i \in 1 .. Len(sub) |-> [msg |-> sub[i], from |-> m]]
<1>2. sub \in Seq(ColodMessage)
  OBVIOUS
<1>3. \A q \in Daemons : inbox'[q] = IF q \in members THEN box[q] \o new ELSE box[q]
  BY <1>1 DEF Multicast
<1> HIDE DEF sub
<1>4. new \in Seq(Delivery) /\ Len(new) = Len(sub) /\ Len(sub) \in Nat
  <2>1. Len(sub) \in Nat /\ \A i \in 1 .. Len(sub) : sub[i] \in ColodMessage
    BY <1>2
  <2>2. \A i \in 1 .. Len(sub) : [msg |-> sub[i], from |-> m] \in Delivery
    BY <2>1, CpgAssumption DEF Delivery
  <2>3. new \in Seq(Delivery)
    BY <2>1, <2>2, IsASeq
  <2>4. DOMAIN new = 1 .. Len(sub)
    OBVIOUS
  <2> QED BY <2>1, <2>3, <2>4, LenProperties
<1>5. \A i \in 1 .. Len(new) : new[i].from = m
  BY <1>4
<1> HIDE DEF new
<1> QED BY <1>3, <1>4, <1>5

\* A send does not decide the contest in favour of two.
LEMMA SendContest ==
    ASSUME NEW nd, NEW m \in Daemons, NEW msgs \in Seq(ColodMessage), NEW marks,
           NEW box \in [Daemons -> Seq(Delivery)], colod_cpg_send(m, box, marks, msgs),
           \A p \in Daemons \ members : Doomed(nd[p]), Contest(nd, box)
    PROVE  Contest(nd, inbox')
<1>1. PICK new \in Seq(Delivery) :
        /\ \A i \in 1 .. Len(new) : new[i].from = m
        /\ \A q \in Daemons : inbox'[q] = IF q \in members THEN box[q] \o new ELSE box[q]
  BY SendAdds
<1>2. ASSUME NEW p \in Daemons, NEW n
      PROVE  /\ Asks(box[p], n) => Asks(inbox'[p], n)
             /\ Asks(inbox'[p], n) => Asks(box[p], n) \/ (n = m /\ Asks(new, m))
             /\ p \in members /\ Asks(new, n) => Asks(inbox'[p], n)
             /\ Behind(box[p], n) => Behind(inbox'[p], n)
             /\ First(inbox'[p], n) =>
                  \/ First(box[p], n)
                  \/ n = m /\ Asks(new, m) /\ \A r : r # m => ~Asks(box[p], r)
             /\ p \in members /\ n # m /\ Asks(new, m) /\ ~Asks(box[p], n)
                  => Behind(inbox'[p], n)
  <2> DEFINE q == box[p]
  <2>1. q \in Seq(Delivery)
    OBVIOUS
  <2> HIDE DEF q
  <2>2. /\ Asks(q, n) => Asks(q \o new, n)
        /\ Asks(q \o new, n) => Asks(q, n) \/ (n = m /\ Asks(new, m))
        /\ Asks(new, n) => Asks(q \o new, n)
        /\ Behind(q, n) => Behind(q \o new, n)
        /\ First(q \o new, n) =>
             First(q, n) \/ (n = m /\ Asks(new, m) /\ \A r : r # m => ~Asks(q, r))
        /\ n # m /\ Asks(new, m) /\ ~Asks(q, n) => Behind(q \o new, n)
    BY <1>1, <2>1, ConcatAsks
  <2>3. inbox'[p] = IF p \in members THEN q \o new ELSE q
    BY <1>1 DEF q
  <2>4. CASE p \in members
    BY <2>2, <2>3, <2>4 DEF q
  <2>5. CASE p \notin members
    BY <2>3, <2>5 DEF q
  <2> QED BY <2>4, <2>5
<1>3. ASSUME NEW n \in Daemons
      PROVE  Beaten(nd[n], box[n], n) => Beaten(nd[n], inbox'[n], n)
  BY <1>2 DEF Beaten
<1> SUFFICES ASSUME NEW n \in Daemons, NEW p \in Daemons, n # p
             PROVE  /\ HasWin(nd[n], inbox'[n], n) => Beaten(nd[p], inbox'[p], p)
                    /\ Sent(nd[n], inbox'[n], n) /\ ~Beaten(nd[n], inbox'[n], n)
                         => Doomed(nd[p]) \/ Asks(inbox'[p], n)
  BY DEF Contest
<1>4. /\ HasWin(nd[n], box[n], n) => Beaten(nd[p], box[p], p)
      /\ HasWin(nd[p], box[p], p) => Beaten(nd[n], box[n], n)
      /\ Sent(nd[n], box[n], n) /\ ~Beaten(nd[n], box[n], n)
           => Doomed(nd[p]) \/ Asks(box[p], n)
      /\ Sent(nd[p], box[p], p) /\ ~Beaten(nd[p], box[p], p)
           => Doomed(nd[n]) \/ Asks(box[n], p)
  BY DEF Contest
<1>5. ASSUME HasWin(nd[n], inbox'[n], n)
      PROVE  Beaten(nd[p], inbox'[p], p)
  <2>1. CASE HasWin(nd[n], box[n], n)
    BY <1>3, <1>4, <2>1
  <2>2. CASE ~HasWin(nd[n], box[n], n)
    <3>1. Low(nd[n]) /\ ~Doomed(nd[n]) /\ First(inbox'[n], n) /\ ~First(box[n], n)
      BY <1>5, <2>2 DEF HasWin
    <3>2. n = m /\ Asks(new, m) /\ \A r : r # m => ~Asks(box[n], r)
      BY <1>2, <3>1
    <3>3. ~Asks(box[n], p)
      BY <3>2
    <3>4. CASE Beaten(nd[p], box[p], p)
      BY <1>3, <3>4
    <3>5. CASE ~Beaten(nd[p], box[p], p)
      <4>1. ~Sent(nd[p], box[p], p)
        BY <1>4, <3>1, <3>3, <3>5
      <4>2. Low(nd[p]) /\ ~Queued(nd[p], "FAILOVER_WIN") /\ ~Asks(box[p], p)
        BY <4>1 DEF Sent
      <4>3. CASE p \in members
        <5>1. Behind(inbox'[p], p)
          BY <1>2, <3>2, <4>2, <4>3
        <5> QED BY <4>2, <5>1 DEF Beaten
      <4>4. CASE p \notin members
        BY <4>2, <4>4 DEF Beaten
      <4> QED BY <4>3, <4>4
    <3> QED BY <3>4, <3>5
  <2> QED BY <2>1, <2>2
<1>6. ASSUME Sent(nd[n], inbox'[n], n), ~Beaten(nd[n], inbox'[n], n)
      PROVE  Doomed(nd[p]) \/ Asks(inbox'[p], n)
  <2>1. ~Beaten(nd[n], box[n], n)
    BY <1>3, <1>6
  <2>2. CASE Sent(nd[n], box[n], n)
    BY <1>2, <1>4, <2>1, <2>2
  <2>3. CASE ~Sent(nd[n], box[n], n)
    <3>1. n = m /\ Asks(new, m)
      BY <1>2, <1>6, <2>3 DEF Sent
    <3>2. CASE p \in members
      BY <1>2, <3>1, <3>2
    <3> QED BY <3>2
  <2> QED BY <2>2, <2>3
<1> QED BY <1>5, <1>6
-----------------------------------------------------------------------------
\* The inductive invariant: a daemon that is no member is dead, each is where its
\* state says, and the contest has at most one winner.
OwnInv == Present /\ (\A n \in Daemons : Fit(node[n])) /\ Contest(node, inbox)

\* Every queue has room for another event.
NotFull == \A n \in Daemons : Len(node[n].queue) < QueueSize

LEMMA IsContender ==
    ASSUME IInv, OwnInv, NEW n \in Daemons
    PROVE  Contender(n) /\ (n \notin members => Doomed(node[n]))
<1>1. node[n] \in NodeState
  BY DEF IInv, TypeOK
<1>2. HasQueue(node[n])
  BY <1>1 DEF NodeState, HasQueue, ContestFields
<1>3. Fit(node[n]) /\ (n \in members <=> node[n].loop # "dead")
  BY DEF OwnInv, Present
<1>4. n \notin members => Doomed(node[n])
  BY <1>3 DEF Fit, Doomed, Low, LowPc
<1> QED BY <1>2, <1>3, <1>4 DEF Contender

\* A step of daemon m to state t, after a delivery perhaps, in which msgs are sent.
LEMMA OwnStep ==
    ASSUME IInv, OwnInv, NEW m \in Daemons, NEW t, NEW msgs \in Seq(ColodMessage),
           NEW marks, NEW box \in [Daemons -> Seq(Delivery)],
           node' = [node EXCEPT ![m] = t], UNCHANGED members,
           colod_cpg_send(m, box, marks, msgs),
           Fit(t), t.loop = "dead" <=> node[m].loop = "dead",
           Fades(node[m], inbox[m], t, box[m], m),
           \A p \in Daemons \ {m} : box[p] = inbox[p]
    PROVE  OwnInv'
<1>1. \A n \in Daemons : node'[n] = IF n = m THEN t ELSE node[n]
  BY DEF IInv, TypeOK
<1>2. Present'
  BY <1>1 DEF OwnInv, Present
<1>3. \A n \in Daemons : Fit(node'[n])
  BY <1>1 DEF OwnInv
<1>4. \A n \in Daemons : Fades(node[n], inbox[n], node'[n], box[n], n)
  BY <1>1, FadesSame
<1> DEFINE nd == node'
<1>5. Contest(nd, box)
  <2>1. \A n \in Daemons : Fades(node[n], inbox[n], nd[n], box[n], n)
    BY <1>4
  <2> HIDE DEF nd
  <2> QED BY <2>1, FadesContest DEF OwnInv
<1>6. \A p \in Daemons \ members : Doomed(nd[p])
  <2>1. \A p \in Daemons \ members : nd[p].loop = "dead" /\ Fit(nd[p])
    BY <1>2, <1>3 DEF Present
  <2> HIDE DEF nd
  <2> QED BY <2>1 DEF Fit, Doomed, Low, LowPc
<1>7. Contest(nd, inbox')
  <2> HIDE DEF nd
  <2> QED BY <1>5, <1>6, SendContest
<1>8. Contest(node, inbox)'
  BY <1>7 DEF Contest, HasWin, Beaten, Sent, Doomed, Low, Queued, Asks, First, Behind
<1>9. (\A n \in Daemons : Fit(node[n]))'
  BY <1>3 DEF Fit, Queued
<1> QED BY <1>2, <1>8, <1>9 DEF OwnInv

LEMMA ContestOwn ==
    ASSUME IInv, OwnInv, NEW n \in Daemons, ContestStep(n)
    PROVE  OwnInv'
<1>1. PICK t : \E msgs \in Seq(ColodMessage) : Step(n, t, msgs) /\ Contends(node[n], t)
  BY DEF ContestStep
<1>2. PICK msgs \in Seq(ColodMessage) : Step(n, t, msgs) /\ Contends(node[n], t)
  BY <1>1
<1>3. inbox \in [Daemons -> Seq(Delivery)]
  BY DEF IInv, TypeOK, CpgTypeOK
<1>4. Fades(node[n], inbox[n], t, inbox[n], n)
  BY <1>2, ContendsFades
<1>5. Fit(t) /\ (t.loop = "dead" <=> node[n].loop = "dead")
  BY <1>2 DEF Contends
<1> QED BY <1>2, <1>3, <1>4, <1>5, OwnStep DEF Step, Send

LEMMA RetransmitOwn ==
    ASSUME IInv, OwnInv, NEW n \in Daemons, Retransmit(n)
    PROVE  OwnInv'
<1>1. node \in [Daemons -> NodeState] /\ UNCHANGED node /\ colod_cpg_retransmit_cb(n)
  BY DEF Retransmit, IInv, TypeOK
<1>2. CASE retransmit[n] = {}
  <2>1. UNCHANGED <<node, members, inbox>>
    BY <1>1, <1>2 DEF colod_cpg_retransmit_cb
  <2> QED BY <2>1 DEF OwnInv, Present, Fit, Queued, Contest, HasWin, Beaten, Sent, Doomed,
                      Low, Asks, First, Behind
<1>3. CASE retransmit[n] # {}
  <2> DEFINE t == node[n]
  <2>1. Step(n, t, Marked(n))
    BY <1>1, <1>3 DEF colod_cpg_retransmit_cb, Step
  <2>2. Contends(node[n], t)
    BY DEF OwnInv, Contends
  <2>3. Marked(n) \in Seq(ColodMessage)
    BY MarkedType
  <2>4. ContestStep(n)
    BY <2>1, <2>2, <2>3 DEF ContestStep
  <2> QED BY <2>4, ContestOwn
<1> QED BY <1>2, <1>3

\* A delivery and what the callback makes of it.
LEMMA CpgEventQueued ==
    ASSUME NEW s, HasQueue(s), NEW msg, NEW own \in BOOLEAN
    PROVE  LET t == colod_cpg_event_cb(s, msg, own)
           IN  /\ t.pc = s.pc /\ t.state = s.state /\ t.loop = s.loop
               /\ t.interrupting = s.interrupting
               /\ \A e : Queued(s, e) => Queued(t, e)
               /\ Queued(t, "FAILOVER_WIN") =>
                    Queued(s, "FAILOVER_WIN") \/ (msg = "FAILOVER" /\ own)
               /\ msg = "FAILOVER" /\ ~own /\ Len(s.queue) < QueueSize =>
                    Queued(t, "PEER_FAILOVER")
<1> DEFINE t == colod_cpg_event_cb(s, msg, own)
           u == [s EXCEPT !.peer_failed = TRUE]
           v == [s EXCEPT !.peer_yellow = msg = "YELLOW"]
<1>1. Carries(s, u) /\ u.pc = s.pc /\ Carries(s, v) /\ v.pc = s.pc /\ Carries(s, s)
  BY DEF Carries, HasQueue, ContestFields, Queued
<1>2. {"FAILOVER_SYNC", "FAILOVER_WIN", "PEER_FAILOVER", "YELLOW"} \subseteq ColodEvent
  BY DEF ColodEvent, AlwaysInterrupting
<1>3. CASE msg = "FAILOVER"
  <2> DEFINE e == IF own THEN "FAILOVER_WIN" ELSE "PEER_FAILOVER"
             x == colod_event_queue(s, e)
  <2>1. t = x
    BY <1>3 DEF colod_cpg_event_cb, FailoverMessage
  <2>2. e \in ColodEvent /\ (e = "FAILOVER_WIN" => own) /\ (~own => e = "PEER_FAILOVER")
    BY <1>2
  <2> HIDE DEF e, t
  <2>3. /\ x.pc = s.pc /\ x.state = s.state /\ x.loop = s.loop
        /\ x.interrupting = s.interrupting
        /\ \A f : Queued(s, f) => Queued(x, f)
        /\ \A f : Queued(x, f) => Queued(s, f) \/ f = e
        /\ Len(s.queue) < QueueSize => Queued(x, e)
    BY <2>2, QueuedEvent
  <2> HIDE DEF x
  <2> QED BY <1>3, <2>1, <2>2, <2>3 DEF t
<1>4. CASE msg # "FAILOVER"
  <2>1. t \in {colod_event_queue(u, "FAILOVER_SYNC"), colod_event_queue(v, "YELLOW"), s}
    BY <1>4 DEF colod_cpg_event_cb, PeerFailed
  <2> HIDE DEF u, v, t
  <2>2. HasQueue(u) /\ HasQueue(v)
    BY <1>1 DEF Carries
  <2>3. /\ Carries(u, colod_event_queue(u, "FAILOVER_SYNC"))
        /\ colod_event_queue(u, "FAILOVER_SYNC").pc = u.pc
        /\ Carries(v, colod_event_queue(v, "YELLOW"))
        /\ colod_event_queue(v, "YELLOW").pc = v.pc
    BY <1>2, <2>2, CarriesQueue
  <2>4. Carries(s, t) /\ t.pc = s.pc
    BY <1>1, <2>1, <2>3, CarriesTrans
  <2> QED BY <1>4, <2>4 DEF Carries, t
<1> QED BY <1>3, <1>4

\* The delivery of the own message gives what was won before, that of another's
\* beats the daemon.
LEMMA DispatchFades ==
    ASSUME NEW s, NEW t, NEW q \in Seq(Delivery), q # << >>, NEW n,
           Fit(s), s.loop # "dead",
           t.pc = s.pc, \A e : Queued(s, e) => Queued(t, e),
           Queued(t, "FAILOVER_WIN") => Queued(s, "FAILOVER_WIN") \/
              (Head(q).msg = "FAILOVER" /\ Head(q).from = n),
           Head(q).msg = "FAILOVER" /\ Head(q).from # n /\ s.loop # "teardown"
              => Queued(t, "PEER_FAILOVER")
    PROVE  Fades(s, q, t, Tail(q), n)
<1> DEFINE r == Tail(q)
           d == Head(q)
<1>1. ASSUME NEW p
      PROVE  /\ Asks(r, p) => Asks(q, p)
             /\ Asks(q, p) => Asks(r, p) \/ (d.msg = "FAILOVER" /\ d.from = p)
             /\ d.msg # "FAILOVER" => (First(r, p) => First(q, p))
                                      /\ (Behind(q, p) => Behind(r, p))
             /\ d.msg = "FAILOVER" /\ d.from = p => First(q, p) /\ ~Behind(q, p)
  BY TakenAsks
<1> HIDE DEF r, d
<1>2. (Low(s) <=> Low(t)) /\ (Doomed(s) => Doomed(t))
  BY DEF Low, Doomed
<1>3. CASE d.msg # "FAILOVER"
  BY <1>1, <1>2, <1>3 DEF Fades, HasWin, Beaten, Sent, r, d
<1>4. CASE d.msg = "FAILOVER" /\ d.from = n
  <2>1. First(q, n) /\ ~Behind(q, n) /\ Asks(q, n)
    BY <1>1, <1>4 DEF First, Asks
  <2>2. \A p : p # n /\ Asks(q, p) => Asks(r, p)
    BY <1>1, <1>4
  <2> QED BY <1>2, <2>1, <2>2 DEF Fades, HasWin, Beaten, Sent, r
<1>5. CASE d.msg = "FAILOVER" /\ d.from # n
  <2>1. Low(t) => Doomed(t)
    <3>1. {"PEER_FAILOVER", "QUIT"} \subseteq AlwaysInterrupting
      BY DEF AlwaysInterrupting
    <3>2. CASE s.loop = "teardown"
      <4>1. Queued(s, "QUIT") \/ s.pc \in FailedPc
        BY <3>2 DEF Fit
      <4> QED BY <3>1, <4>1 DEF Doomed
    <3>3. CASE s.loop # "teardown"
      BY <1>5, <3>1, <3>3 DEF Doomed, d
    <3> QED BY <3>2, <3>3
  <2>2. Queued(t, "FAILOVER_WIN") => Queued(s, "FAILOVER_WIN")
    BY <1>5 DEF d
  <2>3. HasWin(t, r, n) => HasWin(s, q, n)
    BY <1>2, <2>1 DEF HasWin
  <2>4. Beaten(s, q, n) => Beaten(t, r, n)
    BY <1>2, <2>1 DEF Beaten
  <2>5. Sent(t, r, n) => Sent(s, q, n)
    BY <1>1, <1>2, <2>2 DEF Sent
  <2>6. Doomed(t) \/ HasWin(s, q, n)
    BY <1>2, <2>1 DEF HasWin
  <2> QED BY <1>2, <2>3, <2>4, <2>5, <2>6 DEF Fades, r
<1> QED BY <1>3, <1>4, <1>5

LEMMA DispatchOwn ==
    ASSUME IInv, OwnInv, NotFull, NEW m \in Daemons, CpgDispatch(m)
    PROVE  OwnInv'
<1> DEFINE s == node[m]
           d == Head(inbox[m])
           box == Taken(m)
           marks == Unmark(m)
           msgs == CASE d.msg = "LEFT" -> Marked(m)
                     [] d.msg = "HELLO" /\ Notified(m) /\ node[m].yellow -> <<"YELLOW">>
                     [] OTHER -> << >>
           c == colod_cpg_event_cb(s, d.msg, d.from = m)
           t == IF Notified(m) THEN c ELSE s
<1>1. /\ inbox[m] \in Seq(Delivery) /\ inbox[m] # << >> /\ members' = members
      /\ colod_cpg_send(m, box, marks, msgs)
      /\ inbox \in [Daemons -> Seq(Delivery)]
      /\ node \in [Daemons -> NodeState]
      /\ s.loop # "dead"
  BY DEF CpgDispatch, Looping, IInv, TypeOK, CpgTypeOK
<1>2. msgs \in Seq(ColodMessage)
  <2>1. /\ Marked(m) \in Seq(ColodMessage) /\ << >> \in Seq(ColodMessage)
        /\ <<"YELLOW">> \in Seq(ColodMessage)
    BY MarkedType DEF ColodMessage
  <2> QED BY <2>1
<1>3. box \in [Daemons -> Seq(Delivery)]
  BY <1>1, TakenType DEF IInv, TypeOK, CpgInv
<1>4. node' = [node EXCEPT ![m] = t]
  BY <1>1 DEF CpgDispatch
<1>5. HasQueue(s) /\ Fit(s)
  BY IsContender DEF Contender
<1>6. /\ c.pc = s.pc /\ c.state = s.state /\ c.loop = s.loop
      /\ c.interrupting = s.interrupting
      /\ \A e : Queued(s, e) => Queued(c, e)
      /\ Queued(c, "FAILOVER_WIN") =>
           Queued(s, "FAILOVER_WIN") \/ (d.msg = "FAILOVER" /\ d.from = m)
      /\ d.msg = "FAILOVER" /\ d.from # m /\ Len(s.queue) < QueueSize =>
           Queued(c, "PEER_FAILOVER")
  <2> DEFINE msg == d.msg
             own == d.from = m
             u == colod_cpg_event_cb(s, msg, own)
  <2>1. own \in BOOLEAN
    OBVIOUS
  <2> HIDE DEF msg, own, d, s
  <2>2. /\ u.pc = s.pc /\ u.state = s.state /\ u.loop = s.loop
        /\ u.interrupting = s.interrupting
        /\ \A e : Queued(s, e) => Queued(u, e)
        /\ Queued(u, "FAILOVER_WIN") => Queued(s, "FAILOVER_WIN") \/ (msg = "FAILOVER" /\ own)
        /\ msg = "FAILOVER" /\ ~own /\ Len(s.queue) < QueueSize => Queued(u, "PEER_FAILOVER")
    BY <1>5, <2>1, CpgEventQueued
  <2> HIDE DEF u
  <2>3. c = u
    BY DEF u, msg, own
  <2> HIDE DEF c
  <2> QED BY <2>2, <2>3 DEF msg, own
<1> HIDE DEF c, msgs
<1>7. Len(s.queue) < QueueSize
  BY DEF NotFull
<1>8. s.loop \in {"run", "quit", "teardown"}
  BY <1>1 DEF NodeState
<1>9. /\ t.pc = s.pc /\ t.state = s.state /\ t.loop = s.loop
      /\ t.interrupting = s.interrupting
      /\ \A e : Queued(s, e) => Queued(t, e)
      /\ Queued(t, "FAILOVER_WIN") =>
           Queued(s, "FAILOVER_WIN") \/ (d.msg = "FAILOVER" /\ d.from = m)
      /\ d.msg = "FAILOVER" /\ d.from # m /\ s.loop # "teardown" => Queued(t, "PEER_FAILOVER")
  <2>1. CASE Notified(m)
    BY <1>6, <1>7, <2>1
  <2>2. CASE ~Notified(m)
    BY <1>8, <2>2 DEF Notified
  <2> QED BY <2>1, <2>2
<1> HIDE DEF t
<1>10. Fit(t)
  BY <1>5, <1>9 DEF Fit
<1>11. box[m] = Tail(inbox[m]) /\ \A p \in Daemons \ {m} : box[p] = inbox[p]
  BY <1>1 DEF Taken
<1>12. Fades(s, inbox[m], t, box[m], m)
  BY <1>1, <1>5, <1>9, <1>11, DispatchFades
<1> HIDE DEF box, marks
<1> QED BY <1>1, <1>2, <1>3, <1>4, <1>9, <1>10, <1>11, <1>12, OwnStep

LEMMA AppendFades ==
    ASSUME NEW s, NEW q \in Seq(Delivery), NEW d \in Delivery, NEW n,
           d.msg # "FAILOVER" \/ d.from # n
    PROVE  Fades(s, q, s, Append(q, d), n)
<1> DEFINE new == <<d>>
           m == d.from
<1>1. /\ new \in Seq(Delivery) /\ Append(q, d) = q \o new
      /\ \A i \in 1 .. Len(new) : new[i].from = m
      /\ n = m => ~Asks(new, m)
  BY DEF Asks
<1> HIDE DEF new, m
<1>2. ASSUME NEW p
      PROVE  /\ Asks(q, p) => Asks(q \o new, p)
             /\ Asks(q \o new, p) => Asks(q, p) \/ (p = m /\ Asks(new, m))
             /\ Behind(q, p) => Behind(q \o new, p)
             /\ First(q \o new, p) => First(q, p) \/ (p = m /\ Asks(new, m))
  BY <1>1, ConcatAsks
<1> QED BY <1>1, <1>2 DEF Fades, HasWin, Beaten, Sent

LEMMA PeerMessageOwn ==
    ASSUME IInv, OwnInv, NEW n \in Daemons, NEW p \in Nodes \ Daemons,
           NEW msg \in PeerMessages, PeerMessage(n, p, msg)
    PROVE  OwnInv'
<1> DEFINE d == [msg |-> msg, from |-> p]
<1>1. d \in Delivery /\ d.from = p
  BY MainAssumption DEF Delivery
<1>2. UNCHANGED <<node, members>> /\ inbox' = [inbox EXCEPT ![n] = Append(@, d)]
  BY DEF PeerMessage
<1>3. inbox \in [Daemons -> Seq(Delivery)]
  BY DEF IInv, TypeOK, CpgTypeOK
<1> HIDE DEF d
<1>4. \A r \in Daemons : inbox'[r] = IF r = n THEN Append(inbox[r], d) ELSE inbox[r]
  BY <1>2, <1>3
<1> DEFINE nd == node'
           box == inbox'
<1>5. ASSUME NEW r \in Daemons
      PROVE  Fades(node[r], inbox[r], nd[r], box[r], r)
  <2>1. Fades(node[r], inbox[r], node[r], Append(inbox[r], d), r)
    BY <1>1, <1>3, AppendFades
  <2>2. nd = node /\ box[r] \in {Append(inbox[r], d), inbox[r]}
    BY <1>2, <1>4
  <2> HIDE DEF nd, box
  <2> QED BY <2>1, <2>2, FadesSame
<1>6. Contest(nd, box)
  <2> HIDE DEF nd, box
  <2> QED BY <1>5, FadesContest DEF OwnInv
<1>7. Contest(node, inbox)'
  BY <1>6 DEF Contest, HasWin, Beaten, Sent, Doomed, Low, Queued, Asks, First, Behind
<1>8. (\A r \in Daemons : Fit(node[r]))'
  BY <1>2 DEF OwnInv, Fit, Queued
<1>9. Present'
  BY <1>2 DEF OwnInv, Present
<1> QED BY <1>7, <1>8, <1>9 DEF OwnInv

LEMMA ExitOwn ==
    ASSUME IInv, OwnInv, NEW m \in Daemons, Exit(m)
    PROVE  OwnInv'
<1> DEFINE t == Dead(node[m])
           d == [msg |-> "LEFT", from |-> m]
<1>1. /\ t.loop = "dead" /\ t.pc = "done" /\ t.queue = << >>
      /\ t.interrupting = node[m].interrupting
  <2>1. HasQueue(node[m])
    BY IsContender DEF Contender
  <2> QED BY <2>1 DEF Dead, HasQueue, ContestFields
<1>2. \A n \in Daemons : node'[n] = IF n = m THEN t ELSE node[n]
  BY DEF Exit, IInv, TypeOK
<1>3. /\ members' = members \ {m} /\ members \subseteq Daemons
      /\ \A n \in Daemons : inbox'[n] = IF n = m THEN << >>
                                        ELSE IF n \in members THEN Append(inbox[n], d)
                                        ELSE inbox[n]
  BY DEF Exit, Leave, IInv, TypeOK, CpgTypeOK
<1>4. d \in Delivery /\ d.msg = "LEFT"
  BY CpgAssumption DEF Delivery
<1>5. "done" \in FailedPc /\ "done" \notin EarlyPc
  BY DEF FailedPc, EndPc, EarlyPc
<1> HIDE DEF t, d
<1>6. Doomed(t) /\ Fit(t)
  BY <1>1, <1>5 DEF OwnInv, Fit, Doomed, Low, LowPc
<1> DEFINE nd == node'
           box == inbox'
<1>7. ASSUME NEW n \in Daemons
      PROVE  Fades(node[n], inbox[n], nd[n], box[n], n)
  <2>1. CASE n = m
    <3>1. nd[n] = t
      BY <1>2, <2>1
    <3> HIDE DEF nd, box
    <3>2. /\ ~HasWin(nd[n], box[n], n) /\ Beaten(nd[n], box[n], n)
          /\ Sent(nd[n], box[n], n) => Sent(node[n], inbox[n], n)
      <4>1. box[n] = << >> /\ ~Asks(<< >>, n)
        BY <1>3, <2>1 DEF Asks, box
      <4>2. ~Queued(t, "FAILOVER_WIN")
        BY <1>1 DEF Queued
      <4>3. Low(t) /\ Doomed(t)
        BY <1>6 DEF Doomed
      <4> QED BY <3>1, <4>1, <4>2, <4>3 DEF HasWin, Beaten, Sent
    <3> QED BY <1>6, <3>1, <3>2 DEF Fades
  <2>2. CASE n # m
    <3>1. nd[n] = node[n] /\ box[n] \in {Append(inbox[n], d), inbox[n]}
      BY <1>2, <1>3, <2>2
    <3>2. inbox[n] \in Seq(Delivery)
      BY DEF IInv, TypeOK, CpgTypeOK
    <3> HIDE DEF nd, box
    <3>3. Fades(node[n], inbox[n], node[n], Append(inbox[n], d), n)
      BY <1>4, <3>2, AppendFades
    <3> QED BY <3>1, <3>3, FadesSame
  <2> QED BY <2>1, <2>2
<1>8. Contest(nd, box)
  <2> HIDE DEF nd, box
  <2> QED BY <1>7, FadesContest DEF OwnInv
<1>9. Contest(node, inbox)'
  BY <1>8 DEF Contest, HasWin, Beaten, Sent, Doomed, Low, Queued, Asks, First, Behind
<1>10. \A n \in Daemons : Fit(nd[n])
  BY <1>2, <1>6 DEF OwnInv
<1>11. (\A n \in Daemons : Fit(node[n]))'
  BY <1>10 DEF Fit, Queued
<1>12. Present'
  BY <1>1, <1>2, <1>3 DEF OwnInv, Present
<1> QED BY <1>9, <1>11, <1>12 DEF OwnInv

LEMMA InitOwn ==
    ASSUME Init, Replicating
    PROVE  OwnInv
<1>1. \A n \in Daemons : /\ node[n].loop = "run" /\ node[n].pc = "cr_event"
                         /\ node[n].state \in {"PRIMARY_COLO_RUNNING", "SECONDARY_COLO_RUNNING"}
                         /\ node[n].queue = << >> /\ inbox[n] = << >>
                         /\ node[n].interrupting = SyncInterrupting
  BY DEF Init, InitNode, CpgInit, SyncInterrupting
<1>2. members = Daemons
  BY DEF Init, CpgInit
<1>3. "cr_event" \in LowPc /\ "cr_event" \notin EarlyPc
  BY DEF LowPc, EarlyPc
<1>4. \A n \in Daemons : Fit(node[n])
  BY <1>1, <1>3 DEF Fit
<1>5. \A n \in Daemons : /\ ~HasWin(node[n], inbox[n], n) /\ ~Sent(node[n], inbox[n], n)
  BY <1>1, <1>3 DEF HasWin, Sent, Low, Queued, Asks, First
<1> QED BY <1>1, <1>2, <1>4, <1>5 DEF OwnInv, Present, Contest

LEMMA OwnNext ==
    ASSUME IInv, OwnInv, NotFull, [Next]_vars
    PROVE  OwnInv'
<1>1. CASE UNCHANGED vars
  BY <1>1 DEF vars, cpgVars, OwnInv, Present, Fit, Queued, Contest, HasWin, Beaten, Sent,
              Doomed, Low, Asks, First, Behind
<1>2. ASSUME NEW n \in Daemons, MainCo(n) \/ Loop(n) \/ Environment(n) \/ Exit(n)
      PROVE  OwnInv'
  <2>1. Contender(n) /\ Len(node[n].queue) < QueueSize
    BY IsContender DEF NotFull
  <2>2. \/ ContestStep(n) \/ CpgDispatch(n) \/ Retransmit(n)
        \/ \E p \in Nodes \ Daemons, m \in PeerMessages : PeerMessage(n, p, m)
        \/ Exit(n)
    BY <1>2, <2>1, ContestCases
  <2> QED BY <2>2, ContestOwn, DispatchOwn, RetransmitOwn, PeerMessageOwn, ExitOwn
<1> QED BY <1>1, <1>2 DEF Next

\* At most one daemon of a replicating pair runs the guest.  Each may ask for
\* it with FAILOVER, at any time and more than once, answers may be lost with a
\* daemon that crashes, and errors, quits and new failures may come in between;
\* yet FAILOVER_WIN and PEER_FAILOVER (colod_cpg_event_cb) let only one of them
\* leave colod_failover_sync_co for colod_failover_co and PRIMARY_WAIT.
\* The queue must not be full: colod_event_queue then drops PEER_FAILOVER like
\* any other event, and the loser would go on to handle its FAILOVER_WIN.
THEOREM OwnerUnique ==
    ASSUME Replicating
    PROVE  Spec /\ []NotFull => []OneOwner
<1>1. Init => OwnInv
  BY InitOwn
<1>2. IInv /\ OwnInv /\ NotFull /\ [Next]_vars => OwnInv'
  BY OwnNext
<1>3. OwnInv => OneOwner
  <2> SUFFICES ASSUME OwnInv, NEW m \in Daemons, NEW n \in Daemons, Owns(m), Owns(n), m # n
               PROVE  FALSE
    BY DEF OneOwner
  <2>1. node[m].pc \in OwnerPc /\ node[n].pc \in OwnerPc
    BY DEF OwnInv, Fit, Owns
  <2>2. ~Low(node[m]) /\ ~Low(node[n])
    BY <2>1 DEF Low, LowPc, OwnerPc, FailedPc, EndPc
  <2>3. HasWin(node[m], inbox[m], m) /\ ~Beaten(node[n], inbox[n], n)
    BY <2>2 DEF HasWin, Beaten
  <2> QED BY <2>3 DEF OwnInv, Contest
<1> QED BY <1>1, <1>2, <1>3, InductiveInvariant, PTL DEF Spec
=============================================================================
