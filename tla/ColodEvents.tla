----------------------------- MODULE ColodEvents -----------------------------
(***************************************************************************)
(* The events of the main coroutine (eventqueue.h) and what its event      *)
(* queue (eventqueue.c) gives back, as operators on the list of the queued *)
(* events in order of arrival.  eventqueue.c keeps the same events in a    *)
(* GSequence sorted by (interrupting first, then sequence number); module  *)
(* EventQueue models that representation and shows that it implements      *)
(* this one.                                                               *)
(***************************************************************************)
EXTENDS Naturals, Sequences, SequencesExt

\* The events main_coroutine.c is always interrupted by.
AlwaysInterrupting == {"FAILED", "PEER_FAILOVER", "QUIT", "AUTOQUIT"}

ColodEvent == AlwaysInterrupting \cup
    {"FAILOVER_SYNC", "FAILOVER_WIN", "YELLOW", "UNYELLOW", "START_MIGRATION"}

\* Positions of the events of a kind in `interrupting'.
InterruptingAt(q, interrupting) == {i \in 1 .. Len(q) : q[i] \in interrupting}

\* i is the position of the event that eventqueue_peek and eventqueue_remove
\* give: the oldest interrupting event, or the oldest event if none interrupts.
IsFirst(q, interrupting, i) ==
    /\ i \in 1 .. Len(q)
    /\ IF InterruptingAt(q, interrupting) = {}
       THEN i = 1
       ELSE /\ q[i] \in interrupting
            /\ \A j \in 1 .. (i - 1) : q[j] \notin interrupting

\* i is the position of the event that eventqueue_last gives: the youngest
\* event that does not interrupt, or the youngest event if all interrupt.
IsLast(q, interrupting, i) ==
    /\ i \in 1 .. Len(q)
    /\ IF InterruptingAt(q, interrupting) = 1 .. Len(q)
       THEN i = Len(q)
       ELSE /\ q[i] \notin interrupting
            /\ \A j \in (i + 1) .. Len(q) : q[j] \in interrupting

\* The event eventqueue_last gives is e (FALSE for the empty queue).
LastIs(q, interrupting, e) ==
    \E i \in 1 .. Len(q) : IsLast(q, interrupting, i) /\ q[i] = e

\* eventqueue_pending_interrupt: the first event interrupts.
PendingInterrupt(q, interrupting) == InterruptingAt(q, interrupting) # {}
-----------------------------------------------------------------------------
(***************************************************************************)
(* The link to the peer as the yellow coroutine (yellow_coroutine.c) sees  *)
(* it: down or up for longer than its two delays, or on the way, when the  *)
(* peer has been told and the main coroutine has not.  Module              *)
(* YellowCoroutine models the coroutine and shows that it implements this. *)
(***************************************************************************)
LinkState == {"green", "to_yellow", "yellow", "to_green", "off"}

\* From where, because of what, to where, and which message is sent: the first
\* delay is over, or the link has changed again during the second.
LinkTransition ==
    {<<"green", "link_down", "to_yellow", "YELLOW">>,
     <<"to_yellow", "link_up", "green", "UNYELLOW">>,
     <<"yellow", "link_up", "to_green", "UNYELLOW">>,
     <<"to_green", "link_down", "yellow", "YELLOW">>}

\* The message with which a yellow coroutine that is asked to quit takes back
\* the one it has sent.
Revert(link) ==
    CASE link = "to_yellow" -> <<"UNYELLOW">>
      [] link = "to_green" -> <<"YELLOW">>
      [] OTHER -> << >>
=============================================================================
