--------------------------- MODULE YellowCoroutine ---------------------------
(***************************************************************************)
(* yellow_coroutine.c: when the monitored interface has been down (up) for *)
(* timeout1, the coroutine sends MESSAGE_YELLOW (UNYELLOW) to the peer,    *)
(* and when it stays so for timeout2 as well, it notifies the main         *)
(* coroutine.  Netlink events enter the coroutine directly, with the event *)
(* as an argument; timers enter it without one.  The messages go through   *)
(* Cpg, and what becomes of them is the peer's peer_yellow.                *)
(***************************************************************************)
EXTENDS ColodEvents, Cpg

CONSTANT Monitored   \* the daemons started with --monitor_interface

ASSUME YellowAssumption == Monitored \subseteq Daemons

VARIABLES
    co,            \* per daemon, its yellow coroutine
    iface,         \* per daemon, what netlink said last of the interface
    said,          \* per daemon, the last message of the coroutine
    told,          \* per daemon, the last event of its notifications
    peer_yellow    \* per daemon, what it believes of its peer

yellowVars == <<co, iface, said, told, peer_yellow>>
vars == <<yellowVars, cpgVars>>

LinkEvent == {"YELLOW", "UNYELLOW"}

\* Mutation: after a full turn the coroutine waits for no event.
OtherUnset(e) == IF e = "YELLOW" THEN "UNYELLOW" ELSE "none"

Other(e) == IF e = "YELLOW" THEN "UNYELLOW" ELSE "YELLOW"

\* "wait" is the yield before the target event, "delay1" and "delay2" those
\* while timeout1 and timeout2 are running; timers are the attached sources.
CoState ==
    [pc : {"wait", "delay1", "delay2", "quit", "abort"},
     target : LinkEvent,
     timers : SUBSET {"timeout1", "timeout2"}]

\* The state is of its type.
TypeOK ==
    /\ co \in [Daemons -> CoState]
    /\ iface \in [Daemons -> LinkEvent \cup {"none"}]
    /\ said \in [Daemons -> LinkEvent \cup {"none"}]
    /\ told \in [Daemons -> LinkEvent \cup {"none"}]
    /\ peer_yellow \in [Daemons -> BOOLEAN]
    /\ CpgTypeOK

Init ==
    /\ co = [n \in Daemons |-> [pc |-> "wait", target |-> "YELLOW", timers |-> {}]]
    /\ iface = [n \in Daemons |-> "none"]
    /\ said = [n \in Daemons |-> "none"]
    /\ told = [n \in Daemons |-> "none"]
    /\ peer_yellow = [n \in Daemons |-> FALSE]
    /\ CpgInit
-----------------------------------------------------------------------------
\* Mutation: the timer is left to run when the link changes back.
DelayRestartsKeepsTimer(c, e) ==
    IF e = "QUIT" THEN [c EXCEPT !.pc = "quit", !.timers = {}]
    ELSE [c EXCEPT !.pc = "wait"]

\* `continue' in yellow_delay_co with an event other than the target: the timer
\* of the present delay is removed, and the loop starts over.
DelayRestarts(c, e) ==
    [c EXCEPT !.pc = IF e = "QUIT" THEN "quit" ELSE "wait", !.timers = {}]

\* What entering the coroutine with the event e (a link event, QUIT, or "none"
\* for a timer) makes of its state c.
Entered(c, e) ==
    CASE c.pc = "wait" ->
           (CASE e = "none" -> [c EXCEPT !.pc = "abort"]
              [] e = "QUIT" -> [c EXCEPT !.pc = "quit"]
              [] e = c.target ->
                   [c EXCEPT !.pc = "delay1", !.timers = @ \cup {"timeout1"}]
              [] OTHER -> c)
      [] c.pc \in {"delay1", "delay2"} /\ e \notin {"none", c.target} ->
           DelayRestarts(c, e)
      [] c.pc = "delay1" /\ e = "none" ->
           [c EXCEPT !.pc = "delay2", !.timers = @ \cup {"timeout2"}]
      [] c.pc = "delay2" /\ e = "none" ->
           [c EXCEPT !.pc = "wait", !.target = Other(@)]
      [] OTHER -> c

\* Mutation: a message that turns out to be premature is not taken back.
EnteredMessagesOnce(c, e) ==
    IF c.pc = "delay1" /\ e = "none" THEN <<c.target>> ELSE << >>

\* Mutation: the two functions that send are mixed up.
EnteredMessagesSwapped(c, e) ==
    CASE c.pc = "delay1" /\ e = "none" -> <<Other(c.target)>>
      [] c.pc = "delay2" /\ e \notin {"none", c.target} -> <<c.target>>
      [] OTHER -> << >>

\* The messages sent on that way: yellow_send_target_message after the first
\* delay, yellow_send_revert_message when the second is cut short.
EnteredMessages(c, e) ==
    CASE c.pc = "delay1" /\ e = "none" -> <<c.target>>
      [] c.pc = "delay2" /\ e \notin {"none", c.target} -> <<Other(c.target)>>
      [] OTHER -> << >>

\* Daemon n enters its yellow coroutine, out of state c.  The delays leave
\* corosync the time to deliver: no message is sent while MaxInbox are under
\* way.
Enter(n, c, e) ==
    LET msgs == EnteredMessages(c, e)
    IN  /\ msgs # << >> => \A p \in members : Len(inbox[p]) < MaxInbox
        /\ co' = [co EXCEPT ![n] = Entered(c, e)]
        /\ said' = [said EXCEPT ![n] = IF msgs = << >> THEN @ ELSE Head(msgs)]
        /\ told' = [told EXCEPT ![n] = IF c.pc = "delay2" /\ e = "none"
                                       THEN c.target ELSE @]
        /\ Send(n, msgs)
        /\ UNCHANGED peer_yellow

Alive(n) == co[n].pc \notin {"quit", "abort"}

\* A timer has expired; its source goes when the callback returns.
Timeout(n) ==
    /\ Alive(n)
    /\ \E t \in co[n].timers : Enter(n, [co[n] EXCEPT !.timers = @ \ {t}], "none")
    /\ UNCHANGED iface

\* Netlink reports the state of the interface, perhaps once more.
yellow_netlink_event_cb(n, e) ==
    /\ Alive(n) /\ n \in Monitored
    /\ Enter(n, co[n], e)
    /\ iface' = [iface EXCEPT ![n] = e]

yellow_shutdown(n) ==
    /\ Alive(n)
    /\ Enter(n, co[n], "QUIT")
    /\ UNCHANGED iface

\* colod_cpg_deliver with the part of colod_cpg_event_cb that is about links.
Deliver(n) ==
    /\ inbox[n] # << >>
    /\ LET d == Head(inbox[n])
       IN  peer_yellow' = [peer_yellow EXCEPT ![n] =
                             IF d.from = n THEN @ ELSE d.msg = "YELLOW"]
    /\ colod_cpg_send(n, Taken(n), Unmark(n), << >>)
    /\ UNCHANGED <<members, co, iface, said, told>>

Retransmit(n) == colod_cpg_retransmit_cb(n) /\ UNCHANGED yellowVars

Next ==
    \E n \in Daemons :
        \/ Timeout(n) \/ yellow_shutdown(n)
        \/ \E e \in LinkEvent : yellow_netlink_event_cb(n, e)
        \/ Deliver(n) \/ Retransmit(n)

Spec == Init /\ [][Next]_vars

\* Timers expire, and corosync delivers.
FairSpec ==
    /\ Spec
    /\ \A n \in Daemons : WF_vars(Timeout(n)) /\ WF_vars(Deliver(n))
                            /\ WF_vars(Retransmit(n))
-----------------------------------------------------------------------------
\* Exactly the timer of the present delay is attached: none is left over to
\* enter the coroutine when it expects an event (assert(event)) or to cut a
\* later delay short.
TimerIsCurrent ==
    \A n \in Daemons :
        /\ co[n].pc # "abort"
        /\ co[n].timers = CASE co[n].pc = "delay1" -> {"timeout1"}
                            [] co[n].pc = "delay2" -> {"timeout2"}
                            [] OTHER -> {}

\* Whenever the coroutine has come to rest, its main coroutine, the peer and
\* the interface agree, however the interface flapped before.
AtRestAgreed ==
    \A n \in Daemons :
        co[n].pc = "wait" =>
            /\ (told[n] = "YELLOW") = (iface[n] = "YELLOW")
            /\ (said[n] = "YELLOW") = (iface[n] = "YELLOW")

\* When the coroutine is at rest and its messages have arrived, the peer
\* believes what the interface says.
PeerAgrees ==
    \A n, p \in Daemons :
        /\ n # p /\ co[n].pc = "wait" /\ retransmit[n] = {}
        /\ \A i \in 1 .. Len(inbox[p]) : inbox[p][i].from # n
        => peer_yellow[p] = (iface[n] = "YELLOW")

\* An interface that stays down is reported to the peer and stays so.
LinkLossReported ==
    \A n, p \in Daemons :
        n # p /\ <>[](iface[n] = "YELLOW" /\ Alive(n)) => <>[](peer_yellow[p])

\* The link state of the abstract specification.
LinkOf(c) ==
    CASE c.pc \in {"quit", "abort"} -> "off"
      [] c.pc = "delay2" -> IF c.target = "YELLOW" THEN "to_yellow" ELSE "to_green"
      [] OTHER -> IF c.target = "YELLOW" THEN "green" ELSE "yellow"

Abstract == INSTANCE YellowLink WITH link <- [n \in Daemons |-> LinkOf(co[n])]

\* The coroutine does what the rest of the daemon takes it to do.
ImplementsLink == Abstract!Spec
=============================================================================
