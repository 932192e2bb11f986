------------------------ MODULE YellowCoroutineProofs ------------------------
(***************************************************************************)
(* Proofs about module YellowCoroutine, for any number of daemons, any     *)
(* delay of corosync and any losses: no timer is left over, main coroutine *)
(* and peer have been told the truth whenever the coroutine is at rest,    *)
(* and the coroutine implements YellowLink.  The invariant IInv adds to    *)
(* TypeOK and TimerIsCurrent what the interface, the last message and the  *)
(* last notification are in each of the two delays.                        *)
(*                                                                         *)
(* The last part is about the peer, while a message is only sent when the  *)
(* one before has come back (OneAtATime): PeerInv relates what is under    *)
(* way to what was said last, and PeerAgrees follows.                      *)
(***************************************************************************)
EXTENDS YellowCoroutine, CpgProofs

\* One daemon: its coroutine c, and i, s and t for iface, said and told.
Current(c) ==
    /\ c.pc # "abort"
    /\ c.timers = CASE c.pc = "delay1" -> {"timeout1"}
                    [] c.pc = "delay2" -> {"timeout2"}
                    [] OTHER -> {}

Agreed(c, i, s, t) ==
    /\ c.pc \in {"wait", "delay1", "delay2"} =>
         (t = "YELLOW") = (c.target = "UNYELLOW")
    /\ c.pc = "wait" => /\ (i = "YELLOW") = (c.target = "UNYELLOW")
                        /\ (s = "YELLOW") = (c.target = "UNYELLOW")
    /\ c.pc = "delay1" => i = c.target /\ (s = "YELLOW") = (c.target = "UNYELLOW")
    /\ c.pc = "delay2" => i = c.target /\ s = c.target

Report == LinkEvent \cup {"none"}

CoInv(c, i, s, t) ==
    /\ c \in CoState /\ i \in Report /\ s \in Report /\ t \in Report
    /\ Current(c) /\ Agreed(c, i, s, t)

IInv ==
    /\ TypeOK /\ MarkedIsTimed
    /\ \A n \in Daemons : CoInv(co[n], iface[n], said[n], told[n])

\* The last message and the last notification after entering c with e.
Said(c, e, s) == IF EnteredMessages(c, e) = << >> THEN s ELSE Head(EnteredMessages(c, e))
Told(c, e, t) == IF c.pc = "delay2" /\ e = "none" THEN c.target ELSE t
-----------------------------------------------------------------------------
LEMMA MessagesType ==
    ASSUME NEW c \in CoState, NEW e
    PROVE  /\ EnteredMessages(c, e) \in Seq(ColodMessage)
           /\ \A s \in Report : Said(c, e, s) \in Report
<1>1. /\ c.target \in LinkEvent /\ Other(c.target) \in LinkEvent
      /\ LinkEvent \subseteq ColodMessage
  BY DEF CoState, Other, LinkEvent, ColodMessage
<1>2. /\ << >> \in Seq(ColodMessage) /\ <<c.target>> \in Seq(ColodMessage)
      /\ <<Other(c.target)>> \in Seq(ColodMessage)
  BY <1>1
<1>3. EnteredMessages(c, e) \in {<< >>, <<c.target>>, <<Other(c.target)>>}
  BY DEF EnteredMessages
<1>4. Head(<<c.target>>) = c.target /\ Head(<<Other(c.target)>>) = Other(c.target)
  BY <1>1
<1> QED BY <1>1, <1>2, <1>3, <1>4 DEF Said, Report

LEMMA EnteredType ==
    ASSUME NEW c \in CoState, NEW e
    PROVE  Entered(c, e) \in CoState
<1>1. Other(c.target) \in LinkEvent
  BY DEF Other, LinkEvent
<1>2. \A p \in {"wait", "delay1", "delay2", "quit", "abort"} :
        \A ts \in SUBSET {"timeout1", "timeout2"} :
          /\ [c EXCEPT !.pc = p, !.timers = ts] \in CoState
          /\ [c EXCEPT !.pc = p] \in CoState
  BY DEF CoState
<1>3. [c EXCEPT !.pc = "wait", !.target = Other(@)] \in CoState
  BY <1>1 DEF CoState
<1>4. c.timers \cup {"timeout1"} \in SUBSET {"timeout1", "timeout2"}
      /\ c.timers \cup {"timeout2"} \in SUBSET {"timeout1", "timeout2"}
      /\ {} \in SUBSET {"timeout1", "timeout2"}
  BY DEF CoState
<1> QED BY <1>2, <1>3, <1>4 DEF Entered, DelayRestarts

\* A timer enters the coroutine: the one of the present delay.
LEMMA TimeoutInv ==
    ASSUME NEW c0, NEW i, NEW s, NEW t, CoInv(c0, i, s, t), NEW x \in c0.timers
    PROVE  LET c == [c0 EXCEPT !.timers = @ \ {x}]
           IN  /\ c0.pc \in {"delay1", "delay2"} /\ c \in CoState
               /\ c.pc = c0.pc /\ c.target = c0.target
               /\ CoInv(Entered(c, "none"), i, Said(c, "none", s), Told(c, "none", t))
<1> DEFINE c == [c0 EXCEPT !.timers = @ \ {x}]
           d == Entered(c, "none")
<1>1. /\ c0.pc \in {"delay1", "delay2"} /\ c0.target \in LinkEvent
      /\ c \in CoState /\ c.pc = c0.pc /\ c.target = c0.target /\ c.timers = {}
  BY DEF CoInv, Current, CoState
<1> HIDE DEF c
<1>2. d \in CoState /\ Said(c, "none", s) \in Report /\ Told(c, "none", t) \in Report
  BY <1>1, EnteredType, MessagesType DEF CoInv, Told, Report
<1>3. CASE c0.pc = "delay1"
  <2>1. d = [c EXCEPT !.pc = "delay2", !.timers = @ \cup {"timeout2"}]
    BY <1>1, <1>3 DEF Entered, LinkEvent
  <2>2. d.pc = "delay2" /\ d.target = c0.target /\ d.timers = {"timeout2"}
    BY <1>1, <2>1 DEF CoState
  <2>3. EnteredMessages(c, "none") = <<c0.target>>
    BY <1>1, <1>3 DEF EnteredMessages
  <2>4. Said(c, "none", s) = c0.target /\ Told(c, "none", t) = t
    BY <1>1, <1>3, <2>3 DEF Said, Told
  <2> HIDE DEF d
  <2> QED BY <1>1, <1>2, <1>3, <2>2, <2>4 DEF CoInv, Current, Agreed, c, d
<1>4. CASE c0.pc = "delay2"
  <2>1. d = [c EXCEPT !.pc = "wait", !.target = Other(@)]
    BY <1>1, <1>4 DEF Entered, LinkEvent
  <2>2. d.pc = "wait" /\ d.target = Other(c0.target) /\ d.timers = {}
    BY <1>1, <2>1 DEF CoState
  <2>3. EnteredMessages(c, "none") = << >>
    BY <1>1, <1>4 DEF EnteredMessages
  <2>4. Said(c, "none", s) = s /\ Told(c, "none", t) = c0.target
    BY <1>1, <1>4, <2>3 DEF Said, Told
  <2> HIDE DEF d
  <2> QED BY <1>1, <1>2, <1>4, <2>2, <2>4 DEF CoInv, Current, Agreed, Other, LinkEvent, c, d
<1> QED BY <1>1, <1>3, <1>4 DEF c

\* An event of the interface enters it.
LEMMA LinkEventInv ==
    ASSUME NEW c, NEW i, NEW s, NEW t, CoInv(c, i, s, t),
           c.pc \in {"wait", "delay1", "delay2"}, NEW e \in LinkEvent
    PROVE  CoInv(Entered(c, e), e, Said(c, e, s), Told(c, e, t))
<1> DEFINE d == Entered(c, e)
<1>1. c \in CoState /\ c.target \in LinkEvent /\ e \in {"YELLOW", "UNYELLOW"}
  BY DEF CoInv, CoState, LinkEvent
<1>2. d \in CoState /\ e \in Report /\ Said(c, e, s) \in Report
      /\ Told(c, e, t) = t /\ t \in Report
  BY <1>1, EnteredType, MessagesType DEF CoInv, Told, Report
<1>3. CASE c.pc = "wait" /\ e = c.target
  <2>1. d = [c EXCEPT !.pc = "delay1", !.timers = @ \cup {"timeout1"}]
    BY <1>1, <1>3 DEF Entered
  <2>2. d.pc = "delay1" /\ d.target = c.target /\ d.timers = {"timeout1"}
    BY <1>1, <1>3, <2>1 DEF CoState, CoInv, Current
  <2>3. Said(c, e, s) = s
    BY <1>3 DEF EnteredMessages, Said
  <2> HIDE DEF d
  <2> QED BY <1>1, <1>2, <1>3, <2>2, <2>3 DEF CoInv, Current, Agreed, d
<1>4. CASE c.pc = "wait" /\ e # c.target
  <2>1. d = c
    BY <1>1, <1>4 DEF Entered
  <2>2. Said(c, e, s) = s
    BY <1>4 DEF EnteredMessages, Said
  <2> QED BY <1>1, <1>2, <1>4, <2>1, <2>2 DEF CoInv, Current, Agreed, LinkEvent
<1>5. CASE c.pc \in {"delay1", "delay2"} /\ e = c.target
  <2>1. d = c
    BY <1>1, <1>5 DEF Entered
  <2>2. Said(c, e, s) = s
    BY <1>1, <1>5 DEF EnteredMessages, Said
  <2> QED BY <1>1, <1>2, <1>5, <2>1, <2>2 DEF CoInv, Current, Agreed
<1>6. CASE c.pc \in {"delay1", "delay2"} /\ e # c.target
  <2>1. d = [c EXCEPT !.pc = "wait", !.timers = {}]
    BY <1>1, <1>6 DEF Entered, DelayRestarts
  <2>2. d.pc = "wait" /\ d.target = c.target /\ d.timers = {}
    BY <1>1, <2>1 DEF CoState
  <2>3. EnteredMessages(c, e) = IF c.pc = "delay2" THEN <<Other(c.target)>> ELSE << >>
    BY <1>1, <1>6 DEF EnteredMessages
  <2>4. Said(c, e, s) = IF c.pc = "delay2" THEN Other(c.target) ELSE s
    BY <2>3 DEF Said
  <2> HIDE DEF d
  <2> QED BY <1>1, <1>2, <1>6, <2>2, <2>4 DEF CoInv, Current, Agreed, Other, LinkEvent, d
<1> QED BY <1>3, <1>4, <1>5, <1>6

\* It is asked to quit.
LEMMA QuitInv ==
    ASSUME NEW c, NEW i, NEW s, NEW t, CoInv(c, i, s, t),
           c.pc \in {"wait", "delay1", "delay2"}
    PROVE  CoInv(Entered(c, "QUIT"), i, Said(c, "QUIT", s), Told(c, "QUIT", t))
<1> DEFINE d == Entered(c, "QUIT")
<1>1. c \in CoState /\ c.target \in LinkEvent /\ c.target # "QUIT"
  BY DEF CoInv, CoState, LinkEvent
<1>2. d \in CoState /\ Said(c, "QUIT", s) \in Report /\ Told(c, "QUIT", t) = t
  BY <1>1, EnteredType, MessagesType DEF CoInv, Told, Report
<1>3. d.pc = "quit" /\ d.timers = {}
  <2>1. CASE c.pc = "wait"
    <3>1. d = [c EXCEPT !.pc = "quit"] /\ c.timers = {}
      BY <1>1, <2>1 DEF Entered, CoInv, Current
    <3> QED BY <1>1, <3>1 DEF CoState
  <2>2. CASE c.pc \in {"delay1", "delay2"}
    <3>1. d = [c EXCEPT !.pc = "quit", !.timers = {}]
      BY <1>1, <2>2 DEF Entered, DelayRestarts
    <3> QED BY <1>1, <3>1 DEF CoState
  <2> QED BY <2>1, <2>2
<1> HIDE DEF d
<1> QED BY <1>2, <1>3 DEF CoInv, Current, Agreed, d
-----------------------------------------------------------------------------
\* A daemon enters its coroutine, and what it makes of it is sound.
LEMMA EnterInv ==
    ASSUME IInv, NEW n \in Daemons, NEW c \in CoState, NEW e, Enter(n, c, e),
           NEW i \in Report, iface' = [iface EXCEPT ![n] = i],
           CoInv(Entered(c, e), i, Said(c, e, said[n]), Told(c, e, told[n]))
    PROVE  IInv'
<1> DEFINE d == Entered(c, e)
           s == Said(c, e, said[n])
           t == Told(c, e, told[n])
<1>1. /\ co' = [co EXCEPT ![n] = d] /\ said' = [said EXCEPT ![n] = s]
      /\ told' = [told EXCEPT ![n] = t] /\ UNCHANGED peer_yellow
      /\ Send(n, EnteredMessages(c, e))
  BY DEF Enter, Said, Told
<1>2. d \in CoState /\ s \in Report /\ t \in Report
  BY DEF CoInv
<1> HIDE DEF d, s, t
<1>3. CpgInv'
  BY <1>1, MessagesType, SendInv DEF IInv, TypeOK, CpgInv
<1>4. TypeOK'
  BY <1>1, <1>2, <1>3 DEF IInv, TypeOK, CpgInv, Report
<1>5. ASSUME NEW m \in Daemons
      PROVE  CoInv(co'[m], iface'[m], said'[m], told'[m])
  <2>1. CASE m = n
    <3>1. co'[m] = d /\ iface'[m] = i /\ said'[m] = s /\ told'[m] = t
      BY <1>1, <2>1 DEF IInv, TypeOK
    <3> QED BY <3>1 DEF d, s, t
  <2>2. CASE m # n
    <3>1. /\ co'[m] = co[m] /\ iface'[m] = iface[m] /\ said'[m] = said[m]
          /\ told'[m] = told[m]
      BY <1>1, <2>2 DEF IInv, TypeOK
    <3> QED BY <3>1 DEF IInv
  <2> QED BY <2>1, <2>2
<1> QED BY <1>3, <1>4, <1>5 DEF IInv, CpgInv

LEMMA AliveCo ==
    ASSUME IInv, NEW n \in Daemons, Alive(n)
    PROVE  /\ co[n].pc \in {"wait", "delay1", "delay2"} /\ co[n] \in CoState
           /\ CoInv(co[n], iface[n], said[n], told[n])
  BY DEF IInv, CoInv, CoState, Alive

LEMMA StepInv ==
    ASSUME IInv, NEW n \in Daemons,
           \/ Timeout(n) \/ yellow_shutdown(n)
           \/ \E e \in LinkEvent : yellow_netlink_event_cb(n, e)
           \/ Deliver(n) \/ Retransmit(n)
    PROVE  IInv'
<1>0. iface[n] \in Report /\ iface = [iface EXCEPT ![n] = iface[n]]
  BY DEF IInv, TypeOK, Report
<1>1. CASE Timeout(n)
  <2>1. PICK x \in co[n].timers : Enter(n, [co[n] EXCEPT !.timers = @ \ {x}], "none")
    BY <1>1 DEF Timeout
  <2>2. CoInv(co[n], iface[n], said[n], told[n]) /\ iface' = iface
    BY <1>1, AliveCo DEF Timeout
  <2> DEFINE c == [co[n] EXCEPT !.timers = @ \ {x}]
  <2>3. c \in CoState /\ CoInv(Entered(c, "none"), iface[n], Said(c, "none", said[n]),
                               Told(c, "none", told[n]))
    BY <2>2, TimeoutInv
  <2> HIDE DEF c
  <2> QED BY <1>0, <2>1, <2>2, <2>3, EnterInv DEF c
<1>2. CASE yellow_shutdown(n)
  <2>1. /\ co[n] \in CoState
        /\ CoInv(Entered(co[n], "QUIT"), iface[n], Said(co[n], "QUIT", said[n]),
                 Told(co[n], "QUIT", told[n]))
    BY <1>2, AliveCo, QuitInv DEF yellow_shutdown
  <2>2. Enter(n, co[n], "QUIT") /\ iface' = iface
    BY <1>2 DEF yellow_shutdown
  <2> QED BY <1>0, <2>1, <2>2, EnterInv
<1>3. ASSUME NEW e \in LinkEvent, yellow_netlink_event_cb(n, e)
      PROVE  IInv'
  <2>1. /\ co[n] \in CoState /\ e \in Report
        /\ CoInv(Entered(co[n], e), e, Said(co[n], e, said[n]), Told(co[n], e, told[n]))
    BY <1>3, AliveCo, LinkEventInv DEF yellow_netlink_event_cb, Report
  <2>2. Enter(n, co[n], e) /\ iface' = [iface EXCEPT ![n] = e]
    BY <1>3 DEF yellow_netlink_event_cb
  <2> QED BY <2>1, <2>2, EnterInv
<1>4. CASE Deliver(n)
  <2>1. << >> \in Seq(ColodMessage)
    OBVIOUS
  <2>2. CpgInv'
    BY <1>4, <2>1, TakenType, CpgSendInv DEF Deliver, IInv, TypeOK, CpgInv
  <2>3. peer_yellow' \in [Daemons -> BOOLEAN]
    <3> DEFINE b == IF Head(inbox[n]).from = n THEN peer_yellow[n]
                    ELSE Head(inbox[n]).msg = "YELLOW"
    <3>1. b \in BOOLEAN
      BY DEF IInv, TypeOK
    <3>2. peer_yellow' = [peer_yellow EXCEPT ![n] = b]
      BY <1>4 DEF Deliver
    <3> HIDE DEF b
    <3> QED BY <3>1, <3>2 DEF IInv, TypeOK
  <2>4. UNCHANGED <<co, iface, said, told>>
    BY <1>4 DEF Deliver
  <2> QED BY <2>2, <2>3, <2>4 DEF IInv, TypeOK, CpgInv
<1>5. CASE Retransmit(n)
  <2>1. CpgInv'
    BY <1>5, RetransmitInv DEF Retransmit, IInv, TypeOK, CpgInv
  <2> QED BY <1>5, <2>1 DEF Retransmit, yellowVars, IInv, TypeOK, CpgInv
<1> QED BY <1>1, <1>2, <1>3, <1>4, <1>5

\* The invariant that the other theorems project.
THEOREM InductiveInvariant == Spec => []IInv
<1>1. Init => IInv
  <2> SUFFICES ASSUME Init PROVE IInv
    OBVIOUS
  <2>1. << >> \in Seq(Delivery)
    OBVIOUS
  <2>2. CpgTypeOK /\ MarkedIsTimed
    BY <2>1 DEF Init, CpgInit, CpgTypeOK, MarkedIsTimed
  <2>3. [pc |-> "wait", target |-> "YELLOW", timers |-> {}] \in CoState
    BY DEF CoState, LinkEvent
  <2>4. TypeOK
    BY <2>2, <2>3 DEF Init, TypeOK
  <2>5. \A n \in Daemons : CoInv(co[n], iface[n], said[n], told[n])
    BY <2>3 DEF Init, CoInv, Current, Agreed, Report
  <2> QED BY <2>2, <2>4, <2>5 DEF IInv
<1>2. IInv /\ [Next]_vars => IInv'
  <2> SUFFICES ASSUME IInv, [Next]_vars PROVE IInv'
    OBVIOUS
  <2>1. CASE UNCHANGED vars
    BY <2>1 DEF vars, yellowVars, cpgVars, IInv, TypeOK, CpgTypeOK, MarkedIsTimed
  <2>2. CASE Next
    BY <2>2, StepInv DEF Next
  <2> QED BY <2>1, <2>2
<1> QED BY <1>1, <1>2, PTL DEF Spec

\* The state of the yellow coroutines keeps its type.
THEOREM YellowTypeCorrect == Spec => []TypeOK
<1>1. IInv => TypeOK
  BY DEF IInv
<1> QED BY <1>1, InductiveInvariant, PTL

\* yellow_delay_co leaves no timer behind when it starts over, so that
\* assert(event) holds and no delay is cut short by the timer of another.
THEOREM NoTimerLeft == Spec => []TimerIsCurrent
<1>1. IInv => TimerIsCurrent
  BY DEF IInv, CoInv, Current, TimerIsCurrent
<1> QED BY <1>1, InductiveInvariant, PTL

\* However the interface flaps, when yellow_delay_co is back at its first yield
\* the last notification and the last message say what netlink said last.
THEOREM RestAgreed == Spec => []AtRestAgreed
<1>1. IInv => AtRestAgreed
  BY DEF IInv, CoInv, Agreed, AtRestAgreed
<1> QED BY <1>1, InductiveInvariant, PTL
-----------------------------------------------------------------------------
\* From link state l, last message s and last notification t to l2, s2 and t2:
\* what one daemon sees of a step of YellowLink, or of no step.
LinkMoves(l, s, t, l2, s2, t2) ==
    \/ t2 = t /\ \E x \in LinkTransition : l = x[1] /\ l2 = x[3] /\ s2 = x[4]
    \/ /\ l \in {"to_yellow", "to_green"} /\ s2 = s /\ t2 = s
       /\ l2 = IF l = "to_yellow" THEN "yellow" ELSE "green"
    \/ /\ l # "off" /\ l2 = "off" /\ t2 = t
       /\ s2 = IF Revert(l) = << >> THEN s ELSE Head(Revert(l))
    \/ l2 = l /\ s2 = s /\ t2 = t

\* A timer maps to Tell after the first delay, to Notify after the second.
LEMMA TimeoutMaps ==
    ASSUME NEW c0, NEW i, NEW s, NEW t, CoInv(c0, i, s, t), NEW x \in c0.timers
    PROVE  LET c == [c0 EXCEPT !.timers = @ \ {x}]
           IN  LinkMoves(LinkOf(c0), s, t, LinkOf(Entered(c, "none")),
                         Said(c, "none", s), Told(c, "none", t))
<1> DEFINE c == [c0 EXCEPT !.timers = @ \ {x}]
           d == Entered(c, "none")
<1>1. /\ c0.pc \in {"delay1", "delay2"} /\ c0.target \in {"YELLOW", "UNYELLOW"}
      /\ c \in CoState /\ c.pc = c0.pc /\ c.target = c0.target
  BY DEF CoInv, Current, CoState, LinkEvent
<1> HIDE DEF c
<1>2. CASE c0.pc = "delay1"
  <2>1. d = [c EXCEPT !.pc = "delay2", !.timers = @ \cup {"timeout2"}]
    BY <1>1, <1>2 DEF Entered, LinkEvent
  <2>2. d.pc = "delay2" /\ d.target = c0.target
    BY <1>1, <2>1 DEF CoState
  <2>3. EnteredMessages(c, "none") = <<c0.target>>
    BY <1>1, <1>2 DEF EnteredMessages
  <2>4. Said(c, "none", s) = c0.target /\ Told(c, "none", t) = t
    <3>1. <<c0.target>> # << >> /\ Head(<<c0.target>>) = c0.target
      OBVIOUS
    <3> QED BY <1>1, <1>2, <2>3, <3>1 DEF Said, Told
  <2> HIDE DEF d
  <2>5. /\ LinkOf(c0) = IF c0.target = "YELLOW" THEN "green" ELSE "yellow"
        /\ LinkOf(d) = IF c0.target = "YELLOW" THEN "to_yellow" ELSE "to_green"
    BY <1>2, <2>2 DEF LinkOf
  <2>6. \E y \in LinkTransition :
          LinkOf(c0) = y[1] /\ LinkOf(d) = y[3] /\ c0.target = y[4]
    <3>1. CASE c0.target = "YELLOW"
      <4>1. <<"green", "link_down", "to_yellow", "YELLOW">> \in LinkTransition
        BY DEF LinkTransition
      <4> QED BY <2>5, <3>1, <4>1
    <3>2. CASE c0.target = "UNYELLOW"
      <4>1. <<"yellow", "link_up", "to_green", "UNYELLOW">> \in LinkTransition
        BY DEF LinkTransition
      <4> QED BY <2>5, <3>2, <4>1
    <3> QED BY <1>1, <3>1, <3>2
  <2> QED BY <2>4, <2>6 DEF LinkMoves, d, c
<1>3. CASE c0.pc = "delay2"
  <2>1. d = [c EXCEPT !.pc = "wait", !.target = Other(@)]
    BY <1>1, <1>3 DEF Entered, LinkEvent
  <2>2. d.pc = "wait" /\ d.target = Other(c0.target)
    BY <1>1, <2>1 DEF CoState
  <2>3. EnteredMessages(c, "none") = << >>
    BY <1>1, <1>3 DEF EnteredMessages
  <2>4. Said(c, "none", s) = s /\ Told(c, "none", t) = c0.target /\ s = c0.target
    BY <1>1, <1>3, <2>3 DEF Said, Told, CoInv, Agreed
  <2> HIDE DEF d
  <2>5. /\ LinkOf(c0) = IF c0.target = "YELLOW" THEN "to_yellow" ELSE "to_green"
        /\ LinkOf(d) = IF c0.target = "YELLOW" THEN "yellow" ELSE "green"
    BY <1>1, <1>3, <2>2 DEF LinkOf, Other
  <2> QED BY <1>1, <2>4, <2>5 DEF LinkMoves, d, c
<1> QED BY <1>1, <1>2, <1>3 DEF c

\* An event of the interface maps to Tell when it cuts the second delay short,
\* and is not seen otherwise.
LEMMA LinkEventMaps ==
    ASSUME NEW c, NEW i, NEW s, NEW t, CoInv(c, i, s, t),
           c.pc \in {"wait", "delay1", "delay2"}, NEW e \in LinkEvent
    PROVE  LinkMoves(LinkOf(c), s, t, LinkOf(Entered(c, e)), Said(c, e, s), Told(c, e, t))
<1> DEFINE d == Entered(c, e)
<1>1. /\ c \in CoState /\ c.target \in {"YELLOW", "UNYELLOW"}
      /\ e \in {"YELLOW", "UNYELLOW"} /\ Told(c, e, t) = t
  BY DEF CoInv, CoState, LinkEvent, Told
<1>2. CASE c.pc = "delay2" /\ e # c.target
  <2>1. d = [c EXCEPT !.pc = "wait", !.timers = {}]
    BY <1>1, <1>2 DEF Entered, DelayRestarts
  <2>2. d.pc = "wait" /\ d.target = c.target
    BY <1>1, <2>1 DEF CoState
  <2>3. EnteredMessages(c, e) = <<Other(c.target)>>
    BY <1>1, <1>2 DEF EnteredMessages
  <2>4. Said(c, e, s) = Other(c.target)
    BY <2>3 DEF Said
  <2> HIDE DEF d
  <2>5. /\ LinkOf(c) = IF c.target = "YELLOW" THEN "to_yellow" ELSE "to_green"
        /\ LinkOf(d) = IF c.target = "YELLOW" THEN "green" ELSE "yellow"
    BY <1>2, <2>2 DEF LinkOf
  <2>6. \E y \in LinkTransition :
          LinkOf(c) = y[1] /\ LinkOf(d) = y[3] /\ Other(c.target) = y[4]
    <3>1. CASE c.target = "YELLOW"
      <4>1. <<"to_yellow", "link_up", "green", "UNYELLOW">> \in LinkTransition
        BY DEF LinkTransition
      <4> QED BY <2>5, <3>1, <4>1 DEF Other
    <3>2. CASE c.target = "UNYELLOW"
      <4>1. <<"to_green", "link_down", "yellow", "YELLOW">> \in LinkTransition
        BY DEF LinkTransition
      <4> QED BY <2>5, <3>2, <4>1 DEF Other
    <3> QED BY <1>1, <3>1, <3>2
  <2> QED BY <1>1, <2>4, <2>6 DEF LinkMoves, d
<1>3. CASE ~(c.pc = "delay2" /\ e # c.target)
  <2>1. d.target = c.target /\ d.pc \in {"wait", "delay1", "delay2"}
        /\ (d.pc = "delay2") = (c.pc = "delay2")
    <3>1. CASE c.pc = "wait" /\ e = c.target
      <4>1. d = [c EXCEPT !.pc = "delay1", !.timers = @ \cup {"timeout1"}]
        BY <1>1, <3>1 DEF Entered
      <4> QED BY <1>1, <3>1, <4>1 DEF CoState
    <3>2. CASE (c.pc = "wait" /\ e # c.target) \/ (c.pc # "wait" /\ e = c.target)
      <4>1. d = c
        BY <1>1, <3>2 DEF Entered
      <4> QED BY <4>1
    <3>3. CASE c.pc = "delay1" /\ e # c.target
      <4>1. d = [c EXCEPT !.pc = "wait", !.timers = {}]
        BY <1>1, <3>3 DEF Entered, DelayRestarts
      <4> QED BY <1>1, <3>3, <4>1 DEF CoState
    <3> QED BY <1>3, <3>1, <3>2, <3>3
  <2>2. Said(c, e, s) = s
    BY <1>1, <1>3 DEF EnteredMessages, Said
  <2> HIDE DEF d
  <2>3. LinkOf(d) = LinkOf(c)
    BY <2>1 DEF LinkOf
  <2> QED BY <1>1, <2>2, <2>3 DEF LinkMoves, d
<1> QED BY <1>2, <1>3

\* yellow_shutdown maps to Quit.
LEMMA QuitMaps ==
    ASSUME NEW c, NEW i, NEW s, NEW t, CoInv(c, i, s, t),
           c.pc \in {"wait", "delay1", "delay2"}
    PROVE  LinkMoves(LinkOf(c), s, t, LinkOf(Entered(c, "QUIT")),
                     Said(c, "QUIT", s), Told(c, "QUIT", t))
<1> DEFINE d == Entered(c, "QUIT")
<1>1. /\ c \in CoState /\ c.target \in {"YELLOW", "UNYELLOW"}
      /\ Told(c, "QUIT", t) = t
  BY DEF CoInv, CoState, LinkEvent, Told
<1>2. d = [c EXCEPT !.pc = "quit"] \/ d = [c EXCEPT !.pc = "quit", !.timers = {}]
  BY <1>1 DEF Entered, DelayRestarts
<1>3. d.pc = "quit"
  BY <1>1, <1>2 DEF CoState
<1> HIDE DEF d
<1>4. LinkOf(d) = "off" /\ LinkOf(c) # "off"
  BY <1>3 DEF LinkOf
<1>5. Said(c, "QUIT", s) = IF Revert(LinkOf(c)) = << >> THEN s ELSE Head(Revert(LinkOf(c)))
  <2>1. CASE c.pc = "delay2" /\ c.target = "YELLOW"
    BY <2>1 DEF LinkOf, Revert, Said, EnteredMessages, Other
  <2>2. CASE c.pc = "delay2" /\ c.target = "UNYELLOW"
    BY <2>2 DEF LinkOf, Revert, Said, EnteredMessages, Other
  <2>3. CASE c.pc # "delay2"
    BY <2>3 DEF LinkOf, Revert, Said, EnteredMessages
  <2> QED BY <1>1, <2>1, <2>2, <2>3
<1> QED BY <1>1, <1>4, <1>5 DEF LinkMoves, d

\* A step of one coroutine is a step of YellowLink.
LEMMA EnterMaps ==
    ASSUME IInv, NEW n \in Daemons, NEW c, NEW e, Enter(n, c, e),
           LinkMoves(LinkOf(co[n]), said[n], told[n],
                     LinkOf(Entered(c, e)), Said(c, e, said[n]), Told(c, e, told[n]))
    PROVE  [Abstract!Next]_(Abstract!vars)
<1> DEFINE link == [m \in Daemons |-> LinkOf(co[m])]
           l2 == LinkOf(Entered(c, e))
           s2 == Said(c, e, said[n])
           t2 == Told(c, e, told[n])
<1>1. /\ co' = [co EXCEPT ![n] = Entered(c, e)] /\ said' = [said EXCEPT ![n] = s2]
      /\ told' = [told EXCEPT ![n] = t2]
  BY DEF Enter, Said, Told
<1>2. link' = [link EXCEPT ![n] = l2]
  BY <1>1 DEF IInv, TypeOK
<1>3. /\ link[n] = LinkOf(co[n]) /\ link = [link EXCEPT ![n] = link[n]]
      /\ said = [said EXCEPT ![n] = said[n]] /\ told = [told EXCEPT ![n] = told[n]]
  BY DEF IInv, TypeOK
<1>4. LinkMoves(link[n], said[n], told[n], l2, s2, t2)
  BY <1>3
<1> HIDE DEF link, l2, s2, t2
<1>5. \/ Abstract!Tell(n) \/ Abstract!Notify(n) \/ Abstract!Quit(n)
      \/ UNCHANGED <<link, said, told>>
  <2>0. Abstract!LinkTransition = LinkTransition
    BY DEF Abstract!LinkTransition, LinkTransition
  <2>1. CASE t2 = told[n] /\ \E x \in LinkTransition :
                               link[n] = x[1] /\ l2 = x[3] /\ s2 = x[4]
    BY <1>1, <1>2, <1>3, <2>0, <2>1 DEF Abstract!Tell, link
  <2>2. CASE /\ link[n] \in {"to_yellow", "to_green"} /\ s2 = said[n] /\ t2 = said[n]
             /\ l2 = IF link[n] = "to_yellow" THEN "yellow" ELSE "green"
    BY <1>1, <1>2, <1>3, <2>2 DEF Abstract!Notify, link
  <2>3. CASE /\ link[n] # "off" /\ l2 = "off" /\ t2 = told[n]
             /\ s2 = IF Revert(link[n]) = << >> THEN said[n] ELSE Head(Revert(link[n]))
    BY <1>1, <1>2, <1>3, <2>3 DEF Abstract!Quit, Abstract!Revert, Revert, link
  <2>4. CASE l2 = link[n] /\ s2 = said[n] /\ t2 = told[n]
    BY <1>1, <1>2, <1>3, <2>4
  <2> QED BY <1>4, <2>1, <2>2, <2>3, <2>4 DEF LinkMoves
<1> QED BY <1>5 DEF Abstract!Next, Abstract!vars, link

\* The coroutine does what YellowLink promises to the rest of the daemon: the
\* main coroutine is notified only of what the peer has been told, and a
\* message that turns out to be premature is taken back.
THEOREM LinkImplemented == Spec => ImplementsLink
<1>1. Init => Abstract!Init
  BY DEF Init, Abstract!Init, LinkOf
<1>2. IInv /\ [Next]_vars => [Abstract!Next]_(Abstract!vars)
  <2> SUFFICES ASSUME IInv, [Next]_vars
               PROVE  [Abstract!Next]_(Abstract!vars)
    OBVIOUS
  <2>1. CASE UNCHANGED vars
    BY <2>1 DEF vars, yellowVars, Abstract!vars
  <2>2. ASSUME NEW n \in Daemons, Timeout(n)
        PROVE  [Abstract!Next]_(Abstract!vars)
    <3>1. PICK x \in co[n].timers : Enter(n, [co[n] EXCEPT !.timers = @ \ {x}], "none")
      BY <2>2 DEF Timeout
    <3>2. CoInv(co[n], iface[n], said[n], told[n])
      BY DEF IInv
    <3> DEFINE c == [co[n] EXCEPT !.timers = @ \ {x}]
    <3>3. LinkMoves(LinkOf(co[n]), said[n], told[n], LinkOf(Entered(c, "none")),
                    Said(c, "none", said[n]), Told(c, "none", told[n]))
      BY <3>2, TimeoutMaps
    <3> HIDE DEF c
    <3> QED BY <3>1, <3>3, EnterMaps DEF c
  <2>3. ASSUME NEW n \in Daemons, yellow_shutdown(n)
        PROVE  [Abstract!Next]_(Abstract!vars)
    BY <2>3, AliveCo, QuitMaps, EnterMaps DEF yellow_shutdown
  <2>4. ASSUME NEW n \in Daemons, NEW e \in LinkEvent, yellow_netlink_event_cb(n, e)
        PROVE  [Abstract!Next]_(Abstract!vars)
    BY <2>4, AliveCo, LinkEventMaps, EnterMaps DEF yellow_netlink_event_cb
  <2>5. ASSUME NEW n \in Daemons, Deliver(n) \/ Retransmit(n)
        PROVE  [Abstract!Next]_(Abstract!vars)
    BY <2>5 DEF Deliver, Retransmit, yellowVars, Abstract!vars
  <2> QED BY <2>1, <2>2, <2>3, <2>4, <2>5 DEF Next
<1> QED BY <1>1, <1>2, InductiveInvariant, PTL DEF Spec, ImplementsLink, Abstract!Spec
-----------------------------------------------------------------------------
(***************************************************************************)
(* What the peer believes, whatever corosync delays and loses.  While only *)
(* one message of a daemon waits to come back, it is the one said last,    *)
(* and colod_cpg_retransmit sends no other (SaidMarked).  When a copy of   *)
(* it is on its way back or has come, the same copy is on its way to the   *)
(* peer or has come there, and no other message after it (Believed).       *)
(***************************************************************************)

\* Of the deliveries q, the last one from n says s.
LastFrom(q, n, s) ==
    \A i \in 1 .. Len(q) :
        q[i].from = n /\ (\A j \in (i + 1) .. Len(q) : q[j].from # n) => q[i].msg = s

NoneFrom(q, n) == \A i \in 1 .. Len(q) : q[i].from # n

\* Of what n has sent, the messages marks have not come back, q is under way to n
\* itself, and s was said last: s is all that waits, and follows all else.
SaidMarked(marks, q, n, s) ==
    /\ marks # {} => marks = {s} /\ s \in LinkEvent
    /\ marks = {} => \A i \in 1 .. Len(q) : q[i].from = n => q[i].msg = s
    /\ \A i, j \in 1 .. Len(q) :
          i < j /\ q[i].from = n /\ q[j].from = n /\ q[i].msg = s => q[j].msg = s

\* What was said last has come back to n, or a copy of it will.
Returns(marks, q, n, s) ==
    marks = {} \/ \E i \in 1 .. Len(q) : q[i].from = n /\ q[i].msg = s

Believed(q, n, s, yellow) ==
    LastFrom(q, n, s) /\ (NoneFrom(q, n) => yellow = (s = "YELLOW"))

PeerInv ==
    /\ members = Daemons
    /\ \A p \in Daemons : \A i \in 1 .. Len(inbox[p]) : inbox[p][i].from \in Daemons
    /\ \A n \in Daemons : SaidMarked(retransmit[n], inbox[n], n, said[n])
    /\ \A n, p \in Daemons :
          n # p /\ Returns(retransmit[n], inbox[n], n, said[n]) =>
              Believed(inbox[p], n, said[n], peer_yellow[p])

\* The daemons are a pair, so that all that is not of a daemon is of its peer.
Pair == \A n, p, q \in Daemons : n # p /\ q # p => q = n

\* A message is sent when the one before has come back: YELLOW and UNYELLOW never
\* wait for it together, to be sent again in the order of their numbers.
OneAtATime == \A n \in Daemons : ~(LinkEvent \subseteq retransmit[n])

LEMMA AppendLast ==
    ASSUME NEW q \in Seq(Delivery), NEW d \in Delivery, NEW n
    PROVE  /\ d.from = n => LastFrom(Append(q, d), n, d.msg) /\ ~NoneFrom(Append(q, d), n)
           /\ \A s : d.from # n /\ LastFrom(q, n, s) => LastFrom(Append(q, d), n, s)
           /\ d.from # n /\ NoneFrom(Append(q, d), n) => NoneFrom(q, n)
<1> DEFINE r == Append(q, d)
<1>1. /\ Len(q) \in Nat /\ Len(r) = Len(q) + 1 /\ r[Len(q) + 1] = d
      /\ \A i \in 1 .. Len(q) : r[i] = q[i]
  OBVIOUS
<1> HIDE DEF r
<1>2. ASSUME d.from = n PROVE LastFrom(r, n, d.msg) /\ ~NoneFrom(r, n)
  BY <1>1, <1>2 DEF LastFrom, NoneFrom
<1>3. ASSUME NEW s, d.from # n, LastFrom(q, n, s) PROVE LastFrom(r, n, s)
  <2> SUFFICES ASSUME NEW i \in 1 .. Len(r), r[i].from = n,
                      \A j \in (i + 1) .. Len(r) : r[j].from # n
               PROVE  r[i].msg = s
    BY DEF LastFrom
  <2>1. i \in 1 .. Len(q) /\ r[i] = q[i]
    BY <1>1, <1>3
  <2>2. \A j \in (i + 1) .. Len(q) : q[j].from # n
    BY <1>1, <2>1
  <2> QED BY <1>3, <2>1, <2>2 DEF LastFrom
<1>4. NoneFrom(r, n) => NoneFrom(q, n)
  BY <1>1 DEF NoneFrom
<1> QED BY <1>2, <1>3, <1>4 DEF r

LEMMA TailLast ==
    ASSUME NEW q \in Seq(Delivery), q # << >>, NEW n
    PROVE  /\ \A s : LastFrom(q, n, s) => LastFrom(Tail(q), n, s)
           /\ Head(q).from # n /\ NoneFrom(Tail(q), n) => NoneFrom(q, n)
           /\ \A s : Head(q).from = n /\ NoneFrom(Tail(q), n) /\ LastFrom(q, n, s)
                       => Head(q).msg = s
<1> DEFINE r == Tail(q)
<1>1. /\ Len(q) \in Nat /\ Len(q) >= 1 /\ Len(r) = Len(q) - 1 /\ Head(q) = q[1]
      /\ \A i \in 1 .. Len(r) : r[i] = q[i + 1]
  OBVIOUS
<1> HIDE DEF r
<1>2. ASSUME NEW i \in 2 .. Len(q) PROVE i - 1 \in 1 .. Len(r) /\ r[i - 1] = q[i]
  BY <1>1
<1>3. ASSUME NEW s, LastFrom(q, n, s) PROVE LastFrom(r, n, s)
  <2> SUFFICES ASSUME NEW i \in 1 .. Len(r), r[i].from = n,
                      \A j \in (i + 1) .. Len(r) : r[j].from # n
               PROVE  r[i].msg = s
    BY DEF LastFrom
  <2>1. i + 1 \in 1 .. Len(q) /\ q[i + 1] = r[i]
    BY <1>1
  <2>2. ASSUME NEW j \in (i + 2) .. Len(q) PROVE q[j].from # n
    <3>1. j - 1 \in (i + 1) .. Len(r) /\ r[j - 1] = q[j]
      BY <1>1, <1>2
    <3> QED BY <3>1
  <2> QED BY <1>3, <2>1, <2>2 DEF LastFrom
<1>4. ASSUME NoneFrom(r, n) PROVE \A i \in 2 .. Len(q) : q[i].from # n
  BY <1>2, <1>4 DEF NoneFrom
<1>5. Head(q).from # n /\ NoneFrom(r, n) => NoneFrom(q, n)
  BY <1>1, <1>4 DEF NoneFrom
<1>6. ASSUME NEW s, Head(q).from = n, NoneFrom(r, n), LastFrom(q, n, s)
      PROVE  Head(q).msg = s
  <2>1. 1 \in 1 .. Len(q) /\ q[1].from = n /\ \A j \in (1 + 1) .. Len(q) : q[j].from # n
    BY <1>1, <1>4, <1>6
  <2> QED BY <1>1, <1>6, <2>1 DEF LastFrom
<1> QED BY <1>3, <1>5, <1>6 DEF r

LEMMA AppendMarked ==
    ASSUME NEW q \in Seq(Delivery), NEW d \in Delivery, NEW n, NEW marks, NEW s,
           SaidMarked(marks, q, n, s), d.from # n
    PROVE  /\ SaidMarked(marks, Append(q, d), n, s)
           /\ Returns(marks, Append(q, d), n, s) => Returns(marks, q, n, s)
<1> DEFINE r == Append(q, d)
<1>1. /\ Len(q) \in Nat /\ Len(r) = Len(q) + 1 /\ r[Len(q) + 1] = d
      /\ \A i \in 1 .. Len(q) : r[i] = q[i]
  OBVIOUS
<1> HIDE DEF r
<1>2. \A i \in 1 .. Len(r) : r[i].from = n => i \in 1 .. Len(q) /\ r[i] = q[i]
  BY <1>1
<1>3. SaidMarked(marks, r, n, s)
  BY <1>2 DEF SaidMarked
<1>4. Returns(marks, r, n, s) => Returns(marks, q, n, s)
  BY <1>2 DEF Returns
<1> QED BY <1>3, <1>4 DEF r

\* One more message m is said when the one before has come back, and it is under
\* way, ...
LEMMA AppendSaid ==
    ASSUME NEW q \in Seq(Delivery), NEW d \in Delivery, NEW n, NEW marks, NEW s,
           SaidMarked(marks, q, n, s), d.from = n, d.msg \in LinkEvent,
           ~(LinkEvent \subseteq marks \cup {d.msg})
    PROVE  SaidMarked(marks \cup {d.msg}, Append(q, d), n, d.msg)
<1> DEFINE r == Append(q, d)
           m == d.msg
<1>1. /\ Len(q) \in Nat /\ Len(r) = Len(q) + 1 /\ r[Len(q) + 1] = d
      /\ \A i \in 1 .. Len(q) : r[i] = q[i]
  OBVIOUS
<1> HIDE DEF r
<1>2. marks \cup {m} = {m} /\ (marks = {} \/ s = m)
  BY DEF SaidMarked, LinkEvent
<1>3. ASSUME NEW i \in 1 .. Len(r), NEW j \in 1 .. Len(r),
             i < j, r[i].from = n, r[j].from = n, r[i].msg = m
      PROVE  r[j].msg = m
  <2>1. CASE j = Len(q) + 1
    BY <1>1, <2>1
  <2>2. CASE j # Len(q) + 1
    <3>1. /\ i \in 1 .. Len(q) /\ r[i] = q[i]
          /\ j \in 1 .. Len(q) /\ r[j] = q[j]
      BY <1>1, <1>3, <2>2
    <3>2. s = m
      BY <1>2, <1>3, <3>1 DEF SaidMarked
    <3> QED BY <1>3, <3>1, <3>2 DEF SaidMarked
  <2> QED BY <2>1, <2>2
<1> QED BY <1>2, <1>3 DEF SaidMarked, r

\* ... or it is lost.
LEMMA LostSaid ==
    ASSUME NEW q, NEW n, NEW m \in LinkEvent, NEW marks, NEW s,
           SaidMarked(marks, q, n, s), ~(LinkEvent \subseteq marks \cup {m})
    PROVE  /\ SaidMarked(marks \cup {m}, q, n, m)
           /\ Returns(marks \cup {m}, q, n, m) => s = m /\ Returns(marks, q, n, s)
<1>1. marks \cup {m} = {m} /\ (marks = {} \/ s = m)
  BY DEF SaidMarked, LinkEvent
<1>2. CASE s = m
  BY <1>1, <1>2 DEF SaidMarked, Returns
<1>3. CASE s # m
  <2>1. \A i \in 1 .. Len(q) : q[i].from = n => q[i].msg # m
    BY <1>1, <1>3 DEF SaidMarked
  <2> QED BY <1>1, <2>1 DEF SaidMarked, Returns
<1> QED BY <1>2, <1>3

\* The first delivery is taken: colod_cpg_deliver unmarks a message that is back.
LEMMA TailMarked ==
    ASSUME NEW q \in Seq(Delivery), q # << >>, NEW n, NEW marks, NEW s,
           SaidMarked(marks, q, n, s)
    PROVE  LET rest == IF Head(q).from = n THEN marks \ {Head(q).msg} ELSE marks
           IN  /\ SaidMarked(rest, Tail(q), n, s)
               /\ Returns(rest, Tail(q), n, s) => Returns(marks, q, n, s)
<1> DEFINE r == Tail(q)
           rest == IF Head(q).from = n THEN marks \ {Head(q).msg} ELSE marks
<1>1. /\ Len(q) \in Nat /\ Len(q) >= 1 /\ Len(r) = Len(q) - 1 /\ Head(q) = q[1]
      /\ \A i \in 1 .. Len(r) : r[i] = q[i + 1]
  OBVIOUS
<1>2. rest = marks \/ (rest = {} /\ marks = {s} /\ Head(q).from = n /\ Head(q).msg = s)
  BY DEF SaidMarked
<1> HIDE DEF r, rest
<1>3. \A i \in 1 .. Len(r) : i + 1 \in 1 .. Len(q) /\ 1 < i + 1 /\ r[i] = q[i + 1]
  BY <1>1
<1>4. 1 \in 1 .. Len(q)
  BY <1>1
<1>5. rest = {} => \A i \in 1 .. Len(r) : r[i].from = n => r[i].msg = s
  BY <1>1, <1>2, <1>3, <1>4 DEF SaidMarked
<1>6. ASSUME NEW i \in 1 .. Len(r), NEW j \in 1 .. Len(r),
             i < j, r[i].from = n, r[j].from = n, r[i].msg = s
      PROVE  r[j].msg = s
  <2>1. i + 1 < j + 1
    BY <1>6
  <2> QED BY <1>3, <1>6, <2>1 DEF SaidMarked
<1>7. SaidMarked(rest, r, n, s)
  BY <1>2, <1>5, <1>6 DEF SaidMarked
<1>8. Returns(rest, r, n, s) => Returns(marks, q, n, s)
  BY <1>1, <1>2, <1>3, <1>4 DEF Returns
<1> QED BY <1>7, <1>8 DEF r, rest

\* A multicast of nothing, and of one message, which may be lost.
LEMMA SendsNothing ==
    ASSUME PeerInv, NEW n \in Daemons, NEW box \in [Daemons -> Seq(Delivery)],
           NEW marks \in [Daemons -> SUBSET ColodMessage],
           colod_cpg_send(n, box, marks, << >>)
    PROVE  \A p \in Daemons : inbox'[p] = box[p] /\ retransmit'[p] = marks[p]
<1>1. ToSet(<< >>) = {} /\ retransmit' = [marks EXCEPT ![n] = @ \cup ToSet(<< >>)]
  BY DEF ToSet, colod_cpg_send
<1>2. PICK sent \in 0 .. Len(<< >>) : inbox' = Multicast(box, n, SubSeq(<< >>, 1, sent))
  BY DEF colod_cpg_send
<1>3. SubSeq(<< >>, 1, sent) = << >>
  OBVIOUS
<1>4. ASSUME NEW p \in Daemons PROVE inbox'[p] = box[p]
  <2>1. inbox'[p] = box[p] \o [i \in 1 .. Len(<< >>) |-> [msg |-> << >>[i], from |-> n]]
    BY <1>2, <1>3 DEF Multicast, PeerInv
  <2>2. [i \in 1 .. Len(<< >>) |-> [msg |-> << >>[i], from |-> n]] = << >>
    OBVIOUS
  <2> QED BY <2>1, <2>2
<1> QED BY <1>1, <1>4

LEMMA SendsOne ==
    ASSUME TypeOK, PeerInv, NEW n \in Daemons, NEW m \in LinkEvent,
           colod_cpg_send(n, inbox, retransmit, <<m>>)
    PROVE  /\ \/ \A p \in Daemons : inbox'[p] = Append(inbox[p], [msg |-> m, from |-> n])
              \/ \A p \in Daemons : inbox'[p] = inbox[p]
           /\ \A p \in Daemons :
                retransmit'[p] = IF p = n THEN retransmit[p] \cup {m} ELSE retransmit[p]
<1> DEFINE d == [msg |-> m, from |-> n]
           new == [i \in 1 .. Len(<<m>>) |-> [msg |-> <<m>>[i], from |-> n]]
           none == [i \in 1 .. Len(<< >>) |-> [msg |-> << >>[i], from |-> n]]
<1>1. ToSet(<<m>>) = {m} /\ retransmit' = [retransmit EXCEPT ![n] = @ \cup ToSet(<<m>>)]
  BY DEF ToSet, colod_cpg_send
<1>2. PICK sent \in 0 .. Len(<<m>>) : inbox' = Multicast(inbox, n, SubSeq(<<m>>, 1, sent))
  BY DEF colod_cpg_send
<1>3. \/ sent = 1 /\ SubSeq(<<m>>, 1, sent) = <<m>>
      \/ sent = 0 /\ SubSeq(<<m>>, 1, sent) = << >>
  <2>1. Len(<<m>>) = 1 /\ <<m>> \in Seq(LinkEvent)
    OBVIOUS
  <2>2. sent = 1 \/ sent = 0
    BY <1>2, <2>1
  <2>3. SubSeq(<<m>>, 1, 1) = <<m>>
    BY <2>1, SubSeqFull
  <2>4. SubSeq(<<m>>, 1, 0) = << >>
    OBVIOUS
  <2> QED BY <2>2, <2>3, <2>4
<1>4. new = <<d>> /\ none = << >>
  OBVIOUS
<1>5. d \in Delivery
  BY CpgAssumption DEF Delivery, LinkEvent, ColodMessage
<1>6. \A p \in Daemons : inbox[p] \in Seq(Delivery)
  BY DEF TypeOK, CpgTypeOK
<1>7. ASSUME sent = 1, SubSeq(<<m>>, 1, sent) = <<m>>, NEW p \in Daemons
      PROVE  inbox'[p] = Append(inbox[p], d)
  <2>1. inbox'[p] = inbox[p] \o new
    BY <1>2, <1>7 DEF Multicast, PeerInv
  <2> HIDE DEF new, d
  <2> QED BY <1>4, <1>5, <1>6, <2>1
<1>8. ASSUME sent = 0, SubSeq(<<m>>, 1, sent) = << >>, NEW p \in Daemons
      PROVE  inbox'[p] = inbox[p]
  <2>1. inbox'[p] = inbox[p] \o none
    BY <1>2, <1>8 DEF Multicast, PeerInv
  <2> HIDE DEF none
  <2> QED BY <1>4, <1>6, <2>1
<1>9. \A p \in Daemons :
        retransmit'[p] = IF p = n THEN retransmit[p] \cup {m} ELSE retransmit[p]
  BY <1>1 DEF TypeOK, CpgTypeOK
<1> QED BY <1>3, <1>7, <1>8, <1>9

\* What a message m of n, said last, changes for n and for the others.
Posts(n, m) ==
    /\ \A p \in Daemons :
          /\ retransmit'[p] = IF p = n THEN retransmit[p] \cup {m} ELSE retransmit[p]
          /\ said'[p] = IF p = n THEN m ELSE said[p]
    /\ UNCHANGED <<members, peer_yellow>>

\* The message is under way.
LEMMA SaidPeer ==
    ASSUME TypeOK, PeerInv, OneAtATime', NEW n \in Daemons, NEW m \in LinkEvent, Posts(n, m),
           \A p \in Daemons : inbox'[p] = Append(inbox[p], [msg |-> m, from |-> n])
    PROVE  PeerInv'
<1> DEFINE d == [msg |-> m, from |-> n]
<1>1. d \in Delivery /\ d.msg = m /\ d.from = n
  BY CpgAssumption DEF Delivery, LinkEvent, ColodMessage
<1>2. \A p \in Daemons : inbox[p] \in Seq(Delivery) /\ inbox'[p] = Append(inbox[p], d)
  BY DEF TypeOK, CpgTypeOK
<1> HIDE DEF d
<1>3. /\ members' = Daemons
      /\ \A p \in Daemons : \A i \in 1 .. Len(inbox'[p]) : inbox'[p][i].from \in Daemons
  <2> SUFFICES ASSUME NEW p \in Daemons, NEW i \in 1 .. Len(inbox'[p])
               PROVE  inbox'[p][i].from \in Daemons
    BY DEF Posts, PeerInv
  <2>0. inbox[p] \in Seq(Delivery) /\ inbox'[p] = Append(inbox[p], d)
    BY <1>2
  <2>1. \/ inbox'[p][i] = d
        \/ i \in 1 .. Len(inbox[p]) /\ inbox'[p][i] = inbox[p][i]
    BY <1>1, <2>0
  <2> QED BY <1>1, <2>1 DEF PeerInv
<1>4. SaidMarked(retransmit'[n], inbox'[n], n, said'[n])
  <2>1. ~(LinkEvent \subseteq retransmit[n] \cup {d.msg})
    BY <1>1 DEF OneAtATime, Posts
  <2>2. SaidMarked(retransmit[n], inbox[n], n, said[n])
    BY DEF PeerInv
  <2>3. SaidMarked(retransmit[n] \cup {d.msg}, Append(inbox[n], d), n, d.msg)
    BY <1>1, <1>2, <2>1, <2>2, AppendSaid
  <2> QED BY <1>1, <1>2, <2>3 DEF Posts
<1>5. ASSUME NEW p \in Daemons, p # n PROVE Believed(inbox'[p], n, said'[n], peer_yellow'[p])
  <2>1. LastFrom(Append(inbox[p], d), n, m) /\ ~NoneFrom(Append(inbox[p], d), n)
    BY <1>1, <1>2, AppendLast
  <2> QED BY <1>2, <2>1 DEF Believed, Posts
<1>6. ASSUME NEW r \in Daemons, r # n
      PROVE  /\ SaidMarked(retransmit'[r], inbox'[r], r, said'[r])
             /\ Returns(retransmit'[r], inbox'[r], r, said'[r]) =>
                  Returns(retransmit[r], inbox[r], r, said[r])
             /\ \A p \in Daemons : Believed(inbox[p], r, said[r], peer_yellow[p]) =>
                  Believed(inbox'[p], r, said'[r], peer_yellow'[p])
  <2>1. retransmit'[r] = retransmit[r] /\ said'[r] = said[r] /\ peer_yellow' = peer_yellow
    BY <1>6 DEF Posts
  <2>2. SaidMarked(retransmit[r], inbox[r], r, said[r])
    BY DEF PeerInv
  <2>3. /\ SaidMarked(retransmit[r], Append(inbox[r], d), r, said[r])
        /\ Returns(retransmit[r], Append(inbox[r], d), r, said[r]) =>
             Returns(retransmit[r], inbox[r], r, said[r])
    BY <1>1, <1>2, <1>6, <2>2, AppendMarked
  <2>4. ASSUME NEW p \in Daemons, Believed(inbox[p], r, said[r], peer_yellow[p])
        PROVE  Believed(Append(inbox[p], d), r, said[r], peer_yellow[p])
    <3>1. /\ LastFrom(inbox[p], r, said[r]) => LastFrom(Append(inbox[p], d), r, said[r])
          /\ NoneFrom(Append(inbox[p], d), r) => NoneFrom(inbox[p], r)
      BY <1>1, <1>2, <1>6, AppendLast
    <3> QED BY <2>4, <3>1 DEF Believed
  <2> QED BY <1>2, <2>1, <2>3, <2>4
<1>7. ASSUME NEW r \in Daemons, NEW p \in Daemons, r # p,
             Returns(retransmit'[r], inbox'[r], r, said'[r])
      PROVE  Believed(inbox'[p], r, said'[r], peer_yellow'[p])
  BY <1>5, <1>6, <1>7 DEF PeerInv
<1>8. \A r \in Daemons : SaidMarked(retransmit'[r], inbox'[r], r, said'[r])
  BY <1>4, <1>6
<1> HIDE DEF Posts
<1> QED BY <1>3, <1>7, <1>8 DEF PeerInv, SaidMarked, Returns, Believed, LastFrom, NoneFrom

\* The message is lost.
LEMMA LostPeer ==
    ASSUME PeerInv, OneAtATime', NEW n \in Daemons, NEW m \in LinkEvent, Posts(n, m),
           \A p \in Daemons : inbox'[p] = inbox[p]
    PROVE  PeerInv'
<1>1. ~(LinkEvent \subseteq retransmit[n] \cup {m})
  BY DEF OneAtATime, Posts
<1>2. SaidMarked(retransmit[n], inbox[n], n, said[n])
  BY DEF PeerInv
<1>3. /\ SaidMarked(retransmit[n] \cup {m}, inbox[n], n, m)
      /\ Returns(retransmit[n] \cup {m}, inbox[n], n, m) =>
           said[n] = m /\ Returns(retransmit[n], inbox[n], n, said[n])
  BY <1>1, <1>2, LostSaid
<1>4. \A r \in Daemons :
        /\ SaidMarked(retransmit'[r], inbox'[r], r, said'[r])
        /\ Returns(retransmit'[r], inbox'[r], r, said'[r]) =>
             said'[r] = said[r] /\ Returns(retransmit[r], inbox[r], r, said[r])
  BY <1>3 DEF Posts, PeerInv
<1>5. ASSUME NEW r \in Daemons, NEW p \in Daemons, r # p,
             Returns(retransmit'[r], inbox'[r], r, said'[r])
      PROVE  Believed(inbox'[p], r, said'[r], peer_yellow'[p])
  <2>1. Believed(inbox[p], r, said[r], peer_yellow[p]) /\ said'[r] = said[r]
    BY <1>4, <1>5 DEF PeerInv
  <2> QED BY <2>1 DEF Posts
<1>6. /\ members' = Daemons
      /\ \A p \in Daemons : \A i \in 1 .. Len(inbox'[p]) : inbox'[p][i].from \in Daemons
  BY DEF Posts, PeerInv
<1> HIDE DEF Posts
<1> QED BY <1>4, <1>5, <1>6 DEF PeerInv, SaidMarked, Returns, Believed, LastFrom, NoneFrom

LEMMA SendPeer ==
    ASSUME TypeOK, PeerInv, OneAtATime', NEW n \in Daemons, NEW m \in LinkEvent,
           colod_cpg_send(n, inbox, retransmit, <<m>>), UNCHANGED <<members, peer_yellow>>,
           \A p \in Daemons : said'[p] = IF p = n THEN m ELSE said[p]
    PROVE  PeerInv'
<1>1. Posts(n, m)
  BY SendsOne DEF Posts
<1>2. CASE \A p \in Daemons : inbox'[p] = Append(inbox[p], [msg |-> m, from |-> n])
  BY <1>1, <1>2, SaidPeer
<1>3. CASE \A p \in Daemons : inbox'[p] = inbox[p]
  BY <1>1, <1>3, LostPeer
<1> QED BY <1>2, <1>3, SendsOne

\* Nothing is said.
LEMMA SilentPeer ==
    ASSUME PeerInv, UNCHANGED <<members, peer_yellow>>,
           \A p \in Daemons : /\ inbox'[p] = inbox[p] /\ retransmit'[p] = retransmit[p]
                              /\ said'[p] = said[p]
    PROVE  PeerInv'
  BY DEF PeerInv, LastFrom, SaidMarked, Returns, Believed, NoneFrom

LEMMA RetransmitPeer ==
    ASSUME TypeOK, PeerInv, OneAtATime', NEW n \in Daemons, Retransmit(n)
    PROVE  PeerInv'
<1>1. UNCHANGED <<members, peer_yellow, said>>
  BY DEF Retransmit, yellowVars, colod_cpg_retransmit_cb, Send
<1>2. CASE retransmit[n] = {}
  <2>1. UNCHANGED <<inbox, retransmit>>
    BY <1>2 DEF Retransmit, colod_cpg_retransmit_cb
  <2> QED BY <1>1, <2>1, SilentPeer
<1>3. CASE retransmit[n] # {}
  <2>1. said[n] \in LinkEvent /\ retransmit[n] = {said[n]}
    BY <1>3 DEF PeerInv, SaidMarked
  <2>2. Marked(n) = <<said[n]>>
    <3>1. CASE said[n] = "YELLOW"
      BY <2>1, <3>1 DEF Marked
    <3>2. CASE said[n] = "UNYELLOW"
      BY <2>1, <3>2 DEF Marked
    <3> QED BY <2>1, <3>1, <3>2 DEF LinkEvent
  <2>3. colod_cpg_send(n, inbox, retransmit, Marked(n))
    BY <1>3 DEF Retransmit, colod_cpg_retransmit_cb, Send
  <2>4. colod_cpg_send(n, inbox, retransmit, <<said[n]>>)
    BY <2>2, <2>3 DEF colod_cpg_send
  <2>5. \A p \in Daemons : said'[p] = IF p = n THEN said[n] ELSE said[p]
    BY <1>1
  <2> QED BY <1>1, <2>1, <2>4, <2>5, SendPeer
<1> QED BY <1>2, <1>3

LEMMA EnterPeer ==
    ASSUME TypeOK, PeerInv, OneAtATime', NEW n \in Daemons, NEW c \in CoState, NEW e,
           Enter(n, c, e)
    PROVE  PeerInv'
<1> DEFINE msgs == EnteredMessages(c, e)
<1>1. c.target \in LinkEvent /\ Other(c.target) \in LinkEvent
  BY DEF CoState, Other, LinkEvent
<1>2. msgs = << >> \/ \E m \in LinkEvent : msgs = <<m>>
  <2>1. msgs \in {<< >>, <<c.target>>, <<Other(c.target)>>}
    BY DEF EnteredMessages
  <2> QED BY <1>1, <2>1
<1>3. /\ said' = [said EXCEPT ![n] = IF msgs = << >> THEN @ ELSE Head(msgs)]
      /\ colod_cpg_send(n, inbox, retransmit, msgs) /\ UNCHANGED <<members, peer_yellow>>
  BY DEF Enter, Send, PeerInv
<1>4. /\ inbox \in [Daemons -> Seq(Delivery)]
      /\ retransmit \in [Daemons -> SUBSET ColodMessage]
      /\ DOMAIN said = Daemons
  BY DEF TypeOK, CpgTypeOK
<1> HIDE DEF msgs
<1>5. CASE msgs = << >>
  <2>1. \A p \in Daemons : inbox'[p] = inbox[p] /\ retransmit'[p] = retransmit[p]
    <3> DEFINE box == inbox
               marks == retransmit
    <3>1. colod_cpg_send(n, box, marks, << >>)
      BY <1>3, <1>5 DEF colod_cpg_send
    <3>2. /\ box \in [Daemons -> Seq(Delivery)]
          /\ marks \in [Daemons -> SUBSET ColodMessage]
      BY <1>4
    <3> HIDE DEF box, marks
    <3>3. \A p \in Daemons : inbox'[p] = box[p] /\ retransmit'[p] = marks[p]
      BY <3>1, <3>2, SendsNothing
    <3> QED BY <3>3 DEF box, marks
  <2>2. \A p \in Daemons : said'[p] = said[p]
    BY <1>3, <1>4, <1>5
  <2> QED BY <1>3, <2>1, <2>2, SilentPeer
<1>6. ASSUME NEW m \in LinkEvent, msgs = <<m>>
      PROVE  PeerInv'
  <2>1. msgs # << >> /\ Head(msgs) = m
    BY <1>6
  <2>2. colod_cpg_send(n, inbox, retransmit, <<m>>)
    BY <1>3, <1>6 DEF colod_cpg_send
  <2>3. \A p \in Daemons : said'[p] = IF p = n THEN m ELSE said[p]
    BY <1>3, <1>4, <2>1
  <2> QED BY <1>3, <2>2, <2>3, SendPeer
<1> QED BY <1>2, <1>5, <1>6

LEMMA DeliverPeer ==
    ASSUME TypeOK, PeerInv, Pair, NEW n \in Daemons, Deliver(n)
    PROVE  PeerInv'
<1> DEFINE q == inbox[n]
           d == Head(q)
<1>1. /\ q \in Seq(Delivery) /\ q # << >> /\ Tail(q) \in Seq(Delivery)
      /\ \A i \in 1 .. Len(q) : q[i].from \in Daemons
  BY DEF Deliver, TypeOK, CpgTypeOK, PeerInv
<1>2. /\ d.from \in Daemons
      /\ \A i \in 1 .. Len(Tail(q)) : Tail(q)[i].from \in Daemons
  <2> HIDE DEF q
  <2>1. /\ Head(q) = q[1] /\ 1 \in 1 .. Len(q)
        /\ \A i \in 1 .. Len(Tail(q)) : Tail(q)[i] = q[i + 1] /\ i + 1 \in 1 .. Len(q)
    BY <1>1
  <2> QED BY <1>1, <2>1
<1>3. /\ UNCHANGED <<members, said>> /\ colod_cpg_send(n, Taken(n), Unmark(n), << >>)
      /\ peer_yellow' = [peer_yellow EXCEPT ![n] = IF d.from = n THEN @ ELSE d.msg = "YELLOW"]
  BY DEF Deliver
<1>4. /\ Taken(n) \in [Daemons -> Seq(Delivery)]
      /\ Unmark(n) \in [Daemons -> SUBSET ColodMessage]
      /\ \A p \in Daemons : Taken(n)[p] = IF p = n THEN Tail(q) ELSE inbox[p]
      /\ \A p \in Daemons : Unmark(n)[p] = IF p = n /\ d.from = n
                                           THEN retransmit[p] \ {d.msg} ELSE retransmit[p]
  BY <1>1 DEF Taken, Unmark, TypeOK, CpgTypeOK
<1>5. \A p \in Daemons : /\ inbox'[p] = IF p = n THEN Tail(q) ELSE inbox[p]
                         /\ retransmit'[p] = IF p = n /\ d.from = n
                                             THEN retransmit[p] \ {d.msg} ELSE retransmit[p]
  BY <1>3, <1>4, SendsNothing
<1>6. \A p \in Daemons : peer_yellow'[p] = IF p # n \/ d.from = n THEN peer_yellow[p]
                                           ELSE d.msg = "YELLOW"
  BY <1>3 DEF TypeOK
<1>7. q = inbox[n] /\ d = Head(q)
  OBVIOUS
<1> HIDE DEF q, d
<1>8. /\ SaidMarked(retransmit'[n], Tail(q), n, said[n])
      /\ Returns(retransmit'[n], Tail(q), n, said[n]) =>
           Returns(retransmit[n], q, n, said[n])
  <2>1. SaidMarked(retransmit[n], q, n, said[n])
    BY <1>7 DEF PeerInv
  <2>2. retransmit'[n] = IF Head(q).from = n THEN retransmit[n] \ {Head(q).msg} ELSE retransmit[n]
    BY <1>5, <1>7
  <2> QED BY <1>1, <2>1, <2>2, TailMarked
<1>9. \A r \in Daemons :
        /\ SaidMarked(retransmit'[r], inbox'[r], r, said'[r])
        /\ Returns(retransmit'[r], inbox'[r], r, said'[r]) =>
             Returns(retransmit[r], inbox[r], r, said[r])
  BY <1>3, <1>5, <1>7, <1>8 DEF PeerInv
<1>10. ASSUME NEW r \in Daemons, r # n, Believed(q, r, said[r], peer_yellow[n])
       PROVE  Believed(Tail(q), r, said[r], peer_yellow'[n])
  <2>1. LastFrom(Tail(q), r, said[r])
    BY <1>1, <1>10, TailLast DEF Believed
  <2>2. ASSUME NoneFrom(Tail(q), r) PROVE peer_yellow'[n] = (said[r] = "YELLOW")
    <3>1. CASE d.from = n
      <4>1. NoneFrom(q, r)
        BY <1>1, <1>7, <1>10, <2>2, <3>1, TailLast
      <4> QED BY <1>6, <1>10, <3>1, <4>1 DEF Believed
    <3>2. CASE d.from # n
      <4>1. d.from = r
        BY <1>2, <1>10, <3>2 DEF Pair
      <4>2. d.msg = said[r]
        BY <1>1, <1>7, <1>10, <2>2, <4>1, TailLast DEF Believed
      <4> QED BY <1>6, <3>2, <4>2
    <3> QED BY <3>1, <3>2
  <2> QED BY <2>1, <2>2 DEF Believed
<1>11. ASSUME NEW r \in Daemons, NEW p \in Daemons, r # p,
              Returns(retransmit'[r], inbox'[r], r, said'[r])
       PROVE  Believed(inbox'[p], r, said'[r], peer_yellow'[p])
  <2>1. Believed(inbox[p], r, said[r], peer_yellow[p]) /\ said'[r] = said[r]
    BY <1>3, <1>9, <1>11 DEF PeerInv
  <2>2. CASE p = n
    BY <1>5, <1>7, <1>10, <1>11, <2>1, <2>2
  <2>3. CASE p # n
    BY <1>5, <1>6, <2>1, <2>3
  <2> QED BY <2>2, <2>3
<1>12. /\ members' = Daemons
       /\ \A p \in Daemons : \A i \in 1 .. Len(inbox'[p]) : inbox'[p][i].from \in Daemons
  BY <1>2, <1>3, <1>5 DEF PeerInv
<1> QED BY <1>9, <1>11, <1>12
        DEF PeerInv, LastFrom, SaidMarked, Returns, Believed, NoneFrom

\* The peer is not misled, whatever corosync delays and loses and however often
\* colod_cpg_retransmit sends: each daemon of a pair believes of the other's
\* interface what netlink said of it last, once the other's yellow coroutine is
\* back at rest and its messages have arrived, whatever was taken back by
\* yellow_send_revert_message on the way, and whichever of the two monitor an
\* interface.  The one thing that can mislead it is the order in which cpg.c sends
\* by number what waits together, so the premise is that a daemon's YELLOW and
\* UNYELLOW never do.
THEOREM PeerNotMisled ==
    ASSUME Pair
    PROVE  Spec /\ []OneAtATime => []PeerAgrees
<1>1. Init => PeerInv
  <2> SUFFICES ASSUME Init PROVE PeerInv
    OBVIOUS
  <2>1. \A p \in Daemons : /\ inbox[p] = << >> /\ retransmit[p] = {}
                           /\ said[p] = "none" /\ peer_yellow[p] = FALSE
    BY DEF Init, CpgInit
  <2>2. members = Daemons
    BY DEF Init, CpgInit
  <2>3. \A n : LastFrom(<< >>, n, "none") /\ SaidMarked({}, << >>, n, "none")
    BY DEF LastFrom, SaidMarked
  <2>4. \A n : Believed(<< >>, n, "none", FALSE)
    BY <2>3 DEF Believed
  <2>5. \A p \in Daemons : \A i \in 1 .. Len(inbox[p]) : inbox[p][i].from \in Daemons
    BY <2>1
  <2> QED BY <2>1, <2>2, <2>3, <2>4, <2>5 DEF PeerInv
<1>2. IInv /\ PeerInv /\ OneAtATime' /\ [Next]_vars => PeerInv'
  <2> SUFFICES ASSUME IInv, PeerInv, OneAtATime', [Next]_vars PROVE PeerInv'
    OBVIOUS
  <2>0. TypeOK
    BY DEF IInv
  <2>1. CASE UNCHANGED vars
    BY <2>1 DEF vars, yellowVars, cpgVars, PeerInv, LastFrom, SaidMarked, Returns,
                Believed, NoneFrom
  <2>2. ASSUME NEW n \in Daemons,
               \/ Timeout(n) \/ yellow_shutdown(n)
               \/ \E e \in LinkEvent : yellow_netlink_event_cb(n, e)
        PROVE  PeerInv'
    <3>1. co[n] \in CoState
      BY <2>0 DEF TypeOK
    <3>2. \A t : [co[n] EXCEPT !.timers = @ \ {t}] \in CoState
      BY <3>1 DEF CoState
    <3> QED BY <2>0, <2>2, <3>1, <3>2, EnterPeer
            DEF Timeout, yellow_shutdown, yellow_netlink_event_cb
  <2>3. ASSUME NEW n \in Daemons, Deliver(n) \/ Retransmit(n)
        PROVE  PeerInv'
    BY <2>0, <2>3, DeliverPeer, RetransmitPeer
  <2> QED BY <2>1, <2>2, <2>3 DEF Next
<1>3. IInv /\ PeerInv => PeerAgrees
  <2> SUFFICES ASSUME IInv, PeerInv, NEW n \in Daemons, NEW p \in Daemons,
                      n # p, co[n].pc = "wait", retransmit[n] = {}, NoneFrom(inbox[p], n)
               PROVE  peer_yellow[p] = (iface[n] = "YELLOW")
    BY DEF PeerAgrees, NoneFrom
  <2>1. peer_yellow[p] = (said[n] = "YELLOW")
    BY DEF PeerInv, Returns, Believed
  <2>2. (said[n] = "YELLOW") = (iface[n] = "YELLOW")
    BY DEF IInv, CoInv, Agreed
  <2> QED BY <2>1, <2>2
<1> QED BY <1>1, <1>2, <1>3, InductiveInvariant, PTL DEF Spec
=============================================================================
