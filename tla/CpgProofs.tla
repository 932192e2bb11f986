------------------------------ MODULE CpgProofs ------------------------------
(***************************************************************************)
(* Lemmas about the operations of module Cpg, for any number of nodes: each *)
(* of them keeps the types, and keeps the retransmission timer running     *)
(* while a message is marked.  Module MainCoroutineProofs puts them        *)
(* together.                                                               *)
(***************************************************************************)
EXTENDS Cpg, TLAPS, SequenceTheorems

CpgInv == CpgTypeOK /\ MarkedIsTimed

LEMMA MulticastType ==
    ASSUME NEW box \in [Daemons -> Seq(Delivery)], NEW n \in Daemons,
           NEW msgs \in Seq(ColodMessage)
    PROVE  Multicast(box, n, msgs) \in [Daemons -> Seq(Delivery)]
<1> DEFINE new == [i \in 1 .. Len(msgs) |-> [msg |-> msgs[i], from |-> n]]
<1>1. new \in Seq(Delivery)
  <2>1. Len(msgs) \in Nat /\ \A i \in 1 .. Len(msgs) : msgs[i] \in ColodMessage
    OBVIOUS
  <2>2. \A i \in 1 .. Len(msgs) : [msg |-> msgs[i], from |-> n] \in Delivery
    BY <2>1, CpgAssumption DEF Delivery
  <2> QED BY <2>1, <2>2, IsASeq
<1> HIDE DEF new
<1>2. \A p \in Daemons : box[p] \in Seq(Delivery) /\ box[p] \o new \in Seq(Delivery)
  BY <1>1, ConcatProperties
<1>3. Multicast(box, n, msgs) =
        [p \in Daemons |-> IF p \in members THEN box[p] \o new ELSE box[p]]
  BY DEF Multicast, new
<1> QED BY <1>2, <1>3

\* colod_cpg_send with what is under way and what is marked before it.
LEMMA CpgSendInv ==
    ASSUME CpgInv, NEW n \in Daemons, NEW msgs \in Seq(ColodMessage),
           NEW box \in [Daemons -> Seq(Delivery)],
           NEW marks \in [Daemons -> SUBSET ColodMessage],
           \A p \in Daemons : marks[p] \subseteq retransmit[p],
           colod_cpg_send(n, box, marks, msgs), UNCHANGED members
    PROVE  CpgInv'
<1>1. ToSet(msgs) \subseteq ColodMessage /\ (msgs = << >> => ToSet(msgs) = {})
  BY DEF ToSet
<1>2. /\ retransmit' = [marks EXCEPT ![n] = @ \cup ToSet(msgs)]
      /\ retransmit_timer' = [retransmit_timer EXCEPT ![n] = @ \/ msgs # << >>]
  BY DEF colod_cpg_send
<1>3. retransmit' \in [Daemons -> SUBSET ColodMessage]
  BY <1>1, <1>2
<1>4. retransmit_timer' \in [Daemons -> BOOLEAN]
  BY <1>2 DEF CpgInv, CpgTypeOK
<1>5. PICK sent \in 0 .. Len(msgs) :
        /\ lost' = IF sent < Len(msgs) THEN lost + 1 ELSE lost
        /\ inbox' = Multicast(box, n, SubSeq(msgs, 1, sent))
  BY DEF colod_cpg_send
<1>6. SubSeq(msgs, 1, sent) \in Seq(ColodMessage)
  OBVIOUS
<1>7. inbox' \in [Daemons -> Seq(Delivery)]
  BY <1>5, <1>6, MulticastType
<1>8. lost' \in Nat
  BY <1>5 DEF CpgInv, CpgTypeOK
<1>9. CpgTypeOK'
  BY <1>3, <1>4, <1>7, <1>8 DEF CpgInv, CpgTypeOK
<1>10. ASSUME NEW p \in members, retransmit'[p] # {}
       PROVE  retransmit_timer'[p]
  <2>1. p \in Daemons
    BY DEF CpgInv, CpgTypeOK
  <2>2. CASE p # n
    <3>1. retransmit'[p] = marks[p] /\ retransmit_timer'[p] = retransmit_timer[p]
      BY <1>2, <2>1, <2>2 DEF CpgInv, CpgTypeOK
    <3> QED BY <1>10, <2>1, <3>1 DEF CpgInv, MarkedIsTimed
  <2>3. CASE p = n /\ msgs # << >>
    BY <1>2, <2>3 DEF CpgInv, CpgTypeOK
  <2>4. CASE p = n /\ msgs = << >>
    <3>1. retransmit'[p] = marks[p]
      BY <1>1, <1>2, <2>4
    <3>2. retransmit_timer'[p] = (retransmit_timer[p] \/ msgs # << >>)
      BY <1>2, <2>4 DEF CpgInv, CpgTypeOK
    <3> QED BY <1>10, <2>1, <3>1, <3>2 DEF CpgInv, MarkedIsTimed
  <2> QED BY <2>2, <2>3, <2>4
<1> QED BY <1>9, <1>10 DEF CpgInv, MarkedIsTimed

LEMMA SendInv ==
    ASSUME CpgInv, NEW n \in Daemons, NEW msgs \in Seq(ColodMessage), Send(n, msgs)
    PROVE  CpgInv'
  BY CpgSendInv DEF Send, CpgInv, CpgTypeOK

LEMMA MarkedType ==
    ASSUME NEW n
    PROVE  Marked(n) \in Seq(ColodMessage)
<1> DEFINE If(m) == IF m \in retransmit[n] THEN <<m>> ELSE << >>
<1>1. \A m \in ColodMessage : If(m) \in Seq(ColodMessage)
  OBVIOUS
<1>2. Marked(n) = If("FAILOVER") \o If("FAILED") \o If("HELLO") \o If("YELLOW")
                    \o If("UNYELLOW")
  BY DEF Marked
<1> HIDE DEF If
<1>3. /\ If("FAILOVER") \in Seq(ColodMessage) /\ If("FAILED") \in Seq(ColodMessage)
      /\ If("HELLO") \in Seq(ColodMessage) /\ If("YELLOW") \in Seq(ColodMessage)
      /\ If("UNYELLOW") \in Seq(ColodMessage)
  BY <1>1 DEF ColodMessage
<1>4. If("FAILOVER") \o If("FAILED") \in Seq(ColodMessage)
  BY <1>3, ConcatProperties
<1>5. If("FAILOVER") \o If("FAILED") \o If("HELLO") \in Seq(ColodMessage)
  BY <1>3, <1>4, ConcatProperties
<1>6. If("FAILOVER") \o If("FAILED") \o If("HELLO") \o If("YELLOW") \in Seq(ColodMessage)
  BY <1>3, <1>5, ConcatProperties
<1> QED BY <1>2, <1>3, <1>6, ConcatProperties

\* The timer goes only when nothing is marked.
LEMMA RetransmitInv ==
    ASSUME CpgInv, NEW n \in Daemons, colod_cpg_retransmit_cb(n)
    PROVE  CpgInv'
<1>1. CASE retransmit[n] = {}
  BY <1>1 DEF colod_cpg_retransmit_cb, CpgInv, CpgTypeOK, MarkedIsTimed
<1>2. CASE retransmit[n] # {}
  BY <1>2, SendInv, MarkedType DEF colod_cpg_retransmit_cb
<1> QED BY <1>1, <1>2

\* A delivery takes a message out of the inbox and perhaps a mark away.
LEMMA TakenType ==
    ASSUME CpgInv, NEW n \in Daemons, inbox[n] # << >>
    PROVE  /\ Taken(n) \in [Daemons -> Seq(Delivery)]
           /\ Unmark(n) \in [Daemons -> SUBSET ColodMessage]
           /\ \A p \in Daemons : Unmark(n)[p] \subseteq retransmit[p]
<1>1. inbox[n] \in Seq(Delivery) /\ Tail(inbox[n]) \in Seq(Delivery)
  BY DEF CpgInv, CpgTypeOK
<1>2. Taken(n) \in [Daemons -> Seq(Delivery)]
  BY <1>1 DEF Taken, CpgInv, CpgTypeOK
<1> QED BY <1>2 DEF Unmark, CpgInv, CpgTypeOK

LEMMA LeaveInv ==
    ASSUME CpgInv, NEW n \in Daemons, Leave(n)
    PROVE  CpgInv'
<1>1. [msg |-> "LEFT", from |-> n] \in Delivery
  BY CpgAssumption DEF Delivery
<1>2. \A p \in Daemons :
        /\ inbox[p] \in Seq(Delivery) /\ << >> \in Seq(Delivery)
        /\ Append(inbox[p], [msg |-> "LEFT", from |-> n]) \in Seq(Delivery)
  BY <1>1 DEF CpgInv, CpgTypeOK
<1>3. inbox' \in [Daemons -> Seq(Delivery)]
  BY <1>2 DEF Leave
<1>4. /\ members' \in SUBSET Daemons /\ retransmit' \in [Daemons -> SUBSET ColodMessage]
      /\ retransmit_timer' \in [Daemons -> BOOLEAN] /\ lost' \in Nat
  BY DEF Leave, CpgInv, CpgTypeOK
<1>5. MarkedIsTimed'
  BY DEF Leave, CpgInv, CpgTypeOK, MarkedIsTimed
<1> QED BY <1>3, <1>4, <1>5 DEF CpgInv, CpgTypeOK
=============================================================================
