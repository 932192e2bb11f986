--------------------------------- MODULE Cpg ---------------------------------
(***************************************************************************)
(* cpg.c: the messages the daemons exchange through a corosync closed      *)
(* process group.  Corosync delivers the messages of a group to all its    *)
(* members, the sender included, in one agreed order (CPG_TYPE_AGREED),    *)
(* and reports a member that left in that same order.  cpg.c ignores the   *)
(* result of cpg_mcast_joined, so a message may not go out at all; it      *)
(* marks each message it sends for retransmission until the message comes  *)
(* back, and a 100 ms timer sends the marked ones again.                   *)
(*                                                                         *)
(* This module defines the state and what a send does to it; the callbacks *)
(* that a delivery runs are in the modules that extend it.                 *)
(***************************************************************************)
EXTENDS Naturals, Sequences, SequencesExt, FiniteSets

CONSTANTS
    Nodes,       \* the nodes of the cluster
    Daemons,     \* those that run the modelled daemon; of any other node only
                 \* the messages are seen
    MaxInbox,    \* bound on the messages under way to a node
    MaxLost      \* bound on the calls of cpg_mcast_joined that fail

ASSUME CpgAssumption ==
    /\ IsFiniteSet(Nodes)
    /\ Daemons \subseteq Nodes
    /\ MaxInbox \in Nat
    /\ MaxLost \in Nat

ColodMessage == {"FAILOVER", "FAILED", "HELLO", "YELLOW", "UNYELLOW"}

\* What corosync has yet to hand to a member: messages, and departures.
Delivery == [msg : ColodMessage \cup {"LEFT"}, from : Nodes]

VARIABLES
    members,        \* the members of the group
    inbox,          \* per node, what is still to be delivered to it, in order
    retransmit,     \* per node, the messages it has not seen come back
    retransmit_timer, \* per node, retransmit_source_id is set
    lost            \* number of multicasts that failed so far

cpgVars == <<members, inbox, retransmit, retransmit_timer, lost>>

CpgTypeOK ==
    /\ members \in SUBSET Daemons
    /\ inbox \in [Daemons -> Seq(Delivery)]
    /\ retransmit \in [Daemons -> SUBSET ColodMessage]
    /\ retransmit_timer \in [Daemons -> BOOLEAN]
    /\ lost \in Nat

CpgInit ==
    /\ members = Daemons
    /\ inbox = [n \in Daemons |-> << >>]
    /\ retransmit = [n \in Daemons |-> {}]
    /\ retransmit_timer = [n \in Daemons |-> FALSE]
    /\ lost = 0
-----------------------------------------------------------------------------
\* corosync: the messages msgs of node n enter the agreed order; box is what
\* is under way already.
Multicast(box, n, msgs) ==
    [p \in Daemons |->
       IF p \in members
       THEN box[p] \o [i \in 1 .. Len(msgs) |-> [msg |-> msgs[i], from |-> n]]
       ELSE box[p]]

\* Mutation: the result of cpg_mcast_joined is still ignored, and nothing is
\* marked for retransmission.
CpgSendOnce(n, box, marks, msgs) ==
    /\ retransmit' = marks
    /\ UNCHANGED retransmit_timer
    /\ \E sent \in 0 .. Len(msgs) :
         /\ sent < Len(msgs) => lost < MaxLost
         /\ lost' = IF sent < Len(msgs) THEN lost + 1 ELSE lost
         /\ inbox' = Multicast(box, n, SubSeq(msgs, 1, sent))

\* colod_cpg_send of the messages msgs, one after the other.  When corosync
\* is congested, the calls from some point on fail.
colod_cpg_send(n, box, marks, msgs) ==
    /\ retransmit' = [marks EXCEPT ![n] = @ \cup ToSet(msgs)]
    /\ retransmit_timer' = [retransmit_timer EXCEPT ![n] = @ \/ msgs # << >>]
    /\ \E sent \in 0 .. Len(msgs) :
         /\ sent < Len(msgs) => lost < MaxLost
         /\ lost' = IF sent < Len(msgs) THEN lost + 1 ELSE lost
         /\ inbox' = Multicast(box, n, SubSeq(msgs, 1, sent))

Send(n, msgs) == colod_cpg_send(n, inbox, retransmit, msgs) /\ UNCHANGED members

\* The marked messages in the order in which colod_cpg_retransmit sends them.
Marked(n) ==
    LET If(m) == IF m \in retransmit[n] THEN <<m>> ELSE << >>
    IN  If("FAILOVER") \o If("FAILED") \o If("HELLO") \o If("YELLOW")
          \o If("UNYELLOW")

\* Mutation: the marked messages are sent again once.
RetransmitOnce(n) ==
    /\ n \in members
    /\ retransmit_timer[n]
    /\ retransmit_timer' = [retransmit_timer EXCEPT ![n] = FALSE]
    /\ UNCHANGED <<members, retransmit>>
    /\ \E sent \in 0 .. Len(Marked(n)) :
         /\ sent < Len(Marked(n)) => lost < MaxLost
         /\ lost' = IF sent < Len(Marked(n)) THEN lost + 1 ELSE lost
         /\ inbox' = Multicast(inbox, n, SubSeq(Marked(n), 1, sent))

\* The 100 ms timer: send the marked messages again, stop if there are none.
colod_cpg_retransmit_cb(n) ==
    /\ n \in members
    /\ retransmit_timer[n]
    /\ IF retransmit[n] = {}
       THEN /\ retransmit_timer' = [retransmit_timer EXCEPT ![n] = FALSE]
            /\ UNCHANGED <<members, inbox, retransmit, lost>>
       ELSE /\ \A p \in members : Len(inbox[p]) < MaxInbox
            /\ Send(n, Marked(n))

\* colod_cpg_deliver of the first delivery of n, up to the call of notify: a
\* message of its own needs no more retransmission.
Unmark(n) ==
    IF Head(inbox[n]).from = n
    THEN [retransmit EXCEPT ![n] = @ \ {Head(inbox[n]).msg}]
    ELSE retransmit

Taken(n) == [inbox EXCEPT ![n] = Tail(@)]

\* corosync: n leaves the group, and the others will be told.
Leave(n) ==
    /\ members' = members \ {n}
    /\ inbox' = [p \in Daemons |->
                   IF p = n THEN << >>
                   ELSE IF p \in members
                   THEN Append(inbox[p], [msg |-> "LEFT", from |-> n])
                   ELSE inbox[p]]
    /\ retransmit' = [retransmit EXCEPT ![n] = {}]
    /\ retransmit_timer' = [retransmit_timer EXCEPT ![n] = FALSE]
    /\ UNCHANGED lost
-----------------------------------------------------------------------------
\* A message that may have been lost is never forgotten: whenever a message
\* is marked, the timer that sends it again is running.
MarkedIsTimed ==
    \A n \in members : retransmit[n] # {} => retransmit_timer[n]
=============================================================================
