------------------------ MODULE ResourceAgentProofs ------------------------
(***************************************************************************)
(* What qemu_colo_monitor reports is the role that Pacemaker has assigned. *)
(* RoleReported is not inductive: it speaks of instances that no call      *)
(* concerns, and has to be kept through the calls.  NodeInv says what is   *)
(* known of an instance at any time, also while it is promoted or stopped; *)
(* TodoInv says which calls can follow each other, so that no instance     *)
(* that Pacemaker believes to be master is started as a slave.             *)
(*                                                                         *)
(* GuestHasRecentData is far from inductive: who would get the guest next  *)
(* depends on the scores, and these on what was read, planned and mirrored *)
(* many steps before.  GuestInv, in the second half, collects that; each   *)
(* action has a lemma, for the node x it concerns and the other one, y.    *)
(***************************************************************************)
EXTENDS ResourceAgent, FiniteSetTheorems, TLAPS

HeadIs(op, n) == todo # <<>> /\ Head(todo).op = op /\ Head(todo).on = n

\* A slave reports itself as one until its promotion is all but over.
NodeInv(n) ==
    /\ n \notin up \/ role[n] = "stopped" => colod[n].run = "no"
    /\ role[n] = "master" /\ Answers(n) =>
          colod[n].status.primary /\ ~colod[n].pretend_secondary
    /\ role[n] = "slave" /\ Answers(n) =>
          colod[n].pretend_secondary \/ HeadIs("promoted", n)
    /\ HeadIs("promoted", n) =>
          colod[n].status.primary /\ ~colod[n].pretend_secondary
    /\ HeadIs("score", n) => colod[n].run = "no"

\* A call of the transition s, with the nodes u up and the roles r.
CallOK(c, u, r) ==
    /\ c.op # "post-stop" => c.on \in u
    /\ c.op = "start" => r[c.on] # "master"

TodoOK(s, u, r) ==
    /\ \A i \in 1 .. Len(s) : CallOK(s[i], u, r)
    /\ \A i \in 2 .. Len(s) : s[i].op \notin {"promoted", "score"}
    /\ \A i, j \in 1 .. Len(s) :
          i < j /\ s[i].op \in {"promote", "promoted"} => s[j].op # "start"

TodoInv == TodoOK(todo, up, role)

IInv == TypeOK /\ TodoInv /\ \A n \in Node : NodeInv(n)

-----------------------------------------------------------------------------
(* Nodes, calls and sequences of calls. *)

LEMMA OtherNode ==
    ASSUME NEW n \in Node
    PROVE  Other(n) \in Node /\ Other(n) # n /\ \A m \in Node : m = n \/ m = Other(n)
  <1> DEFINE rest == Node \ {n}
  <1>1. IsFiniteSet(Node) /\ Cardinality(Node) = 2
    BY AgentAssumption, Zenon
  <1>2. IsFiniteSet(rest) /\ Cardinality(rest) = 1
    BY <1>1, FS_RemoveElement
  <1>3. PICK x : rest = {x}
    BY <1>2, FS_Singleton
  <1> QED
    BY <1>3 DEF Other

LEMMA NewCall ==
    ASSUME NEW op \in Op, NEW n \in Node
    PROVE  A(op, n) \in Call /\ A(op, n).op = op /\ A(op, n).on = n
  BY DEF A, Call, Quiet, Status

LEMMA RestOfCall ==
    ASSUME NEW c \in Call, NEW op \in Op
    PROVE  LET d == [c EXCEPT !.op = op] IN d \in Call /\ d.op = op /\ d.on = c.on
  BY DEF Call

LEMMA TodoTail ==
    ASSUME NEW s \in Seq(Call), s # <<>>, NEW u, NEW r, TodoOK(s, u, r)
    PROVE  /\ Tail(s) \in Seq(Call) /\ <<>> \o Tail(s) = Tail(s)
           /\ TodoOK(Tail(s), u, r)
           /\ Tail(s) # <<>> => Head(Tail(s)).op \notin {"promoted", "score"}
  <1>1. /\ Tail(s) \in Seq(Call) /\ Len(Tail(s)) = Len(s) - 1 /\ Len(s) \in Nat /\ Len(s) > 0
        /\ <<>> \o Tail(s) = Tail(s)
    OBVIOUS
  <1>2. \A i \in 1 .. Len(s) - 1 : Tail(s)[i] = s[i + 1]
    OBVIOUS
  <1>3. TodoOK(Tail(s), u, r)
    <2>1. \A i \in 1 .. Len(s) - 1 : CallOK(Tail(s)[i], u, r)
      BY <1>1, <1>2 DEF TodoOK
    <2>2. \A i \in 2 .. Len(s) - 1 : Tail(s)[i].op \notin {"promoted", "score"}
      BY <1>1, <1>2 DEF TodoOK
    <2>3. \A i, j \in 1 .. Len(s) - 1 :
             i < j /\ Tail(s)[i].op \in {"promote", "promoted"} => Tail(s)[j].op # "start"
      BY <1>1, <1>2 DEF TodoOK
    <2> QED
      BY <1>1, <2>1, <2>2, <2>3 DEF TodoOK
  <1>4. ASSUME Tail(s) # <<>> PROVE Head(Tail(s)).op \notin {"promoted", "score"}
    <2>1. Len(s) >= 2 /\ Head(Tail(s)) = s[2]
      BY <1>1, <1>2, <1>4
    <2> QED
      BY <1>1, <2>1 DEF TodoOK
  <1> QED
    BY <1>1, <1>3, <1>4

LEMMA TodoReplaced ==
    ASSUME NEW s \in Seq(Call), s # <<>>, NEW u, NEW r, TodoOK(s, u, r),
           NEW c \in Call, CallOK(c, u, r),
           c.op \in {"promote", "promoted"} => Head(s).op \in {"promote", "promoted"}
    PROVE  LET t == <<c>> \o Tail(s) IN
           t \in Seq(Call) /\ t # <<>> /\ Head(t) = c /\ TodoOK(t, u, r)
  <1> DEFINE t == <<c>> \o Tail(s)
  <1>1. /\ t \in Seq(Call) /\ Len(t) = Len(s) /\ Len(s) \in Nat /\ Len(s) > 0
        /\ t[1] = c /\ t # <<>> /\ Head(t) = c /\ Head(s) = s[1]
    OBVIOUS
  <1>2. \A i \in 2 .. Len(s) : t[i] = s[i]
    OBVIOUS
  <1> HIDE DEF t
  <1>3. \A i \in 1 .. Len(s) : CallOK(t[i], u, r)
    BY <1>1, <1>2 DEF TodoOK
  <1>4. \A i \in 2 .. Len(s) : t[i].op \notin {"promoted", "score"}
    BY <1>1, <1>2 DEF TodoOK
  <1>5. \A i, j \in 1 .. Len(s) :
           i < j /\ t[i].op \in {"promote", "promoted"} => t[j].op # "start"
    BY <1>1, <1>2 DEF TodoOK
  <1>6. TodoOK(t, u, r)
    BY <1>1, <1>3, <1>4, <1>5 DEF TodoOK
  <1> QED
    BY <1>1, <1>6 DEF t

LEMMA TodoRoles ==
    ASSUME NEW s \in Seq(Call), NEW u, NEW r, NEW q, TodoOK(s, u, r),
           \A n \in Node : q[n] = "master" => r[n] = "master"
    PROVE  TodoOK(s, u, q)
  <1>0. \A i \in 1 .. Len(s) : s[i] \in Call
    OBVIOUS
  <1>1. \A i \in 1 .. Len(s) : s[i].on \in Node
    BY <1>0 DEF Call
  <1>2. \A i \in 1 .. Len(s) : CallOK(s[i], u, q)
    BY <1>1 DEF TodoOK, CallOK
  <1> QED
    BY <1>2 DEF TodoOK

-----------------------------------------------------------------------------
(* What most steps of colod, of qemu and of the agent do to an instance:   *)
(* its `pretend_secondary' stays, and a primary stays one.                 *)

Keeps(c, d) ==
    /\ d \in Colod
    /\ c.run = "no" => d.run = "no"
    /\ d.run = "yes" => c.run = "yes"
    /\ d.pretend_secondary = c.pretend_secondary
    /\ c.status.primary => d.status.primary

Kept == \A n \in Node : Keeps(colod[n], colod'[n])

LEMMA KeepsItself ==
    ASSUME NEW c \in Colod
    PROVE  Keeps(c, c)
  BY DEF Keeps

LEMMA KeepsResync ==
    ASSUME NEW c \in Colod, NEW r \in {"none", "runs", "ready", "error"},
           NEW m \in {"none", "active", "colo", "failover"}
    PROVE  /\ Keeps(c, [c EXCEPT !.resync = r])
           /\ Keeps(c, [c EXCEPT !.resync = r, !.migration = m])
  BY DEF Keeps, Colod

LEMMA KeepsPeer ==
    ASSUME NEW c \in Colod
    PROVE  /\ Keeps(c, del_peer(c))
           /\ Keeps(c, [c EXCEPT !.peer = TRUE, !.status.peer_failed = FALSE])
  BY DEF Keeps, Colod, Status, del_peer

LEMMA KeepsMigration ==
    ASSUME NEW c \in Colod, NEW g \in BOOLEAN
    PROVE  /\ Keeps(c, [c EXCEPT !.migration = "colo"])
           /\ Keeps(c, [c EXCEPT !.migration = "colo", !.guest = g])
           /\ Keeps(c, [c EXCEPT !.migration = "none", !.status.replication = TRUE])
           /\ Keeps(c, [c EXCEPT !.status.primary = TRUE, !.status.replication = FALSE,
                                 !.migration = "none", !.peer = FALSE])
  BY DEF Keeps, Colod, Status

LEMMA KeepsFailed ==
    ASSUME NEW c \in Colod
    PROVE  /\ Keeps(c, FailedOf(c))
           /\ Keeps(c, [FailedOf(c) EXCEPT !.status.peer_failed = TRUE])
           /\ c.run = "yes" => Keeps(c, [c EXCEPT !.run = "qemu"])
  BY DEF Keeps, Colod, Status, FailedOf

LEMMA KeepsNoticed ==
    ASSUME NEW c \in Colod
    PROVE  Keeps(c, Noticed(c))
  <1>1. Keeps(c, [c EXCEPT !.status.peer_failed = TRUE, !.migration = "failover"])
    BY DEF Keeps, Colod, Status
  <1>2. Keeps(c, [c EXCEPT !.status.peer_failed = TRUE])
    BY DEF Keeps, Colod, Status
  <1>3. Keeps(c, [c EXCEPT !.status.failed = TRUE])
    BY DEF Keeps, Colod, Status
  <1> QED
    BY <1>1, <1>2, <1>3, KeepsItself, Zenon DEF Noticed

LEMMA KeepsGuest ==
    ASSUME NEW c \in Colod, NEW d, Keeps(c, d), NEW g \in BOOLEAN
    PROVE  Keeps(c, [d EXCEPT !.guest = g])
  BY DEF Keeps, Colod

LEMMA BecomeKeeps ==
    ASSUME colod \in [Node -> Colod], NEW n \in Node, NEW c,
           Keeps(colod[n], c), Become(n, c)
    PROVE  colod' \in [Node -> Colod] /\ Kept
  <1>1. \A m \in Node : Keeps(colod[m], colod'[m])
    BY KeepsItself DEF Become
  <1> QED
    BY <1>1 DEF Become, Kept, Keeps

LEMMA LeavesKeeps ==
    ASSUME colod \in [Node -> Colod], NEW n \in Node, NEW c,
           Keeps(colod[n], c), Leaves(n, c)
    PROVE  colod' \in [Node -> Colod] /\ Kept
  <1>1. \A m \in Node : Keeps(colod[m], colod'[m])
    BY KeepsNoticed DEF Leaves
  <1>2. \A m \in Node : colod'[m] \in Colod
    BY <1>1 DEF Keeps
  <1> QED
    BY <1>1, <1>2 DEF Leaves, Kept

LEMMA SameKeeps ==
    ASSUME colod \in [Node -> Colod], colod' = colod
    PROVE  Kept
  BY KeepsItself DEF Kept

LEMMA NodeKept ==
    ASSUME NEW n \in Node, NodeInv(n), Keeps(colod[n], colod'[n]), role'[n] = role[n],
           n \in up' <=> n \in up,
           HeadIs("promoted", n)' <=> HeadIs("promoted", n),
           HeadIs("score", n)' => HeadIs("score", n)
    PROVE  NodeInv(n)'
  BY DEF NodeInv, Keeps, Answers

LEMMA QuietStep ==
    ASSUME IInv, TypeOK', Kept, role' = role, up' = up, todo' = todo
    PROVE  IInv'
  <1>1. TodoInv'
    BY DEF IInv, TodoInv
  <1>2. ASSUME NEW n \in Node PROVE NodeInv(n)'
    <2>1. HeadIs("promoted", n)' <=> HeadIs("promoted", n)
      BY DEF HeadIs
    <2>2. HeadIs("score", n)' => HeadIs("score", n)
      BY DEF HeadIs
    <2> QED
      BY <2>1, <2>2, NodeKept DEF IInv, Kept
  <1> QED
    BY <1>1, <1>2 DEF IInv

LEMMA CallDone ==
    ASSUME IInv, TypeOK', Kept, role' = role, up' = up,
           todo # <<>>, Head(todo).op # "promoted", todo' = Tail(todo)
    PROVE  IInv'
  <1>1. todo \in Seq(Call) /\ TodoOK(todo, up, role)
    BY DEF IInv, TypeOK, TodoInv
  <1>2. TodoInv' /\ (todo' # <<>> => Head(todo').op \notin {"promoted", "score"})
    BY <1>1, TodoTail DEF TodoInv
  <1>3. ASSUME NEW n \in Node PROVE NodeInv(n)'
    <2>1. ~HeadIs("promoted", n)' /\ ~HeadIs("promoted", n) /\ ~HeadIs("score", n)'
      BY <1>2 DEF HeadIs
    <2> QED
      BY <2>1, NodeKept DEF IInv, Kept
  <1> QED
    BY <1>2, <1>3 DEF IInv

LEMMA CallGoesOn ==
    ASSUME IInv, TypeOK', Kept, role' = role, up' = up,
           todo # <<>>, Head(todo).op # "promoted",
           NEW c \in Call, c.op \notin {"promote", "promoted", "score", "start"}, c.on \in up,
           todo' = <<c>> \o Tail(todo)
    PROVE  IInv'
  <1>1. todo \in Seq(Call) /\ TodoOK(todo, up, role) /\ CallOK(c, up, role)
    BY DEF IInv, TypeOK, TodoInv, CallOK
  <1>2. TodoInv' /\ Head(todo') = c
    BY <1>1, TodoReplaced DEF TodoInv
  <1>3. ASSUME NEW n \in Node PROVE NodeInv(n)'
    <2>1. ~HeadIs("promoted", n)' /\ ~HeadIs("promoted", n) /\ ~HeadIs("score", n)'
      BY <1>2 DEF HeadIs
    <2> QED
      BY <2>1, NodeKept DEF IInv, Kept
  <1> QED
    BY <1>2, <1>3 DEF IInv

-----------------------------------------------------------------------------
(* The calls of the agent.  The head of todo is a call to a node. *)

LEMMA HeadCall ==
    ASSUME IInv, todo # <<>>
    PROVE  /\ todo \in Seq(Call) /\ TodoOK(todo, up, role)
           /\ Head(todo) \in Call /\ Head(todo).on \in Node /\ Head(todo).all \in BOOLEAN
           /\ Head(todo).op # "post-stop" => Head(todo).on \in up
           /\ Head(todo).op = "start" => role[Head(todo).on] # "master"
           /\ Tail(todo) \in Seq(Call)
  <1>1. todo \in Seq(Call) /\ TodoOK(todo, up, role)
    BY DEF IInv, TypeOK, TodoInv
  <1>2. Head(todo) \in Call /\ Head(todo) = todo[1] /\ 1 \in 1 .. Len(todo)
        /\ Tail(todo) \in Seq(Call)
    BY <1>1
  <1>3. CallOK(Head(todo), up, role)
    BY <1>1, <1>2 DEF TodoOK
  <1> QED
    BY <1>1, <1>2, <1>3 DEF Call, CallOK

LEMMA StartStep == IInv /\ qemu_colo_start => IInv'
  <1> SUFFICES ASSUME IInv, qemu_colo_start PROVE IInv'
    OBVIOUS
  <1> DEFINE n == Head(todo).on
  <1>1. /\ todo # <<>> /\ Head(todo).op = "start" /\ todo' = Tail(todo)
        /\ Become(n, IF colod[n].run = "no" THEN Secondary ELSE colod[n])
        /\ role' = [role EXCEPT ![n] = "slave"]
        /\ UNCHANGED <<score, current, up, bad, standby, standbys, faults>>
    BY DEF qemu_colo_start, Calling, Done, data
  <1>2. /\ todo \in Seq(Call) /\ TodoOK(todo, up, role) /\ Tail(todo) \in Seq(Call)
        /\ n \in Node /\ n \in up /\ role[n] # "master"
    BY <1>1, HeadCall
  <1>3. TypeOK
    BY DEF IInv
  <1> HIDE DEF n
  <1>4. colod' \in [Node -> Colod] /\ \A m \in Node : m # n => colod'[m] = colod[m]
    <2>1. Secondary \in Colod
      BY DEF Secondary, Off, Quiet, Colod, Status
    <2> QED
      BY <1>1, <1>2, <1>3, <2>1 DEF TypeOK, Become
  <1>5. TypeOK'
    BY <1>1, <1>2, <1>3, <1>4 DEF TypeOK
  <1>6. \A m \in Node : role'[m] = IF m = n THEN "slave" ELSE role[m]
    BY <1>1, <1>3 DEF TypeOK
  <1>7. /\ TodoOK(Tail(todo), up, role)
        /\ Tail(todo) # <<>> => Head(Tail(todo)).op \notin {"promoted", "score"}
    BY <1>1, <1>2, TodoTail
  <1>8. TodoInv'
    <2>1. \A m \in Node : role'[m] = "master" => role[m] = "master"
      BY <1>6
    <2>2. TodoOK(Tail(todo), up, role) /\ Tail(todo) \in Seq(Call)
      BY <1>2, <1>7
    <2>3. TodoOK(Tail(todo), up, role')
      BY <2>1, <2>2, TodoRoles
    <2> QED
      BY <1>1, <2>3 DEF TodoInv
  <1>9. ASSUME NEW m \in Node PROVE NodeInv(m)'
    <2>1. ~HeadIs("promoted", m)' /\ ~HeadIs("promoted", m) /\ ~HeadIs("score", m)'
      BY <1>1, <1>7 DEF HeadIs
    <2>2. NodeInv(m)
      BY DEF IInv
    <2>3. CASE m # n
      <3>1. Keeps(colod[m], colod'[m])
        BY <1>3, <1>4, <2>3, KeepsItself DEF TypeOK
      <3> QED
        BY <1>1, <1>6, <2>1, <2>2, <2>3, <3>1, NodeKept
    <2>4. CASE m = n /\ colod[n].run = "no"
      <3>1. colod'[m] = Secondary
        BY <1>1, <1>2, <1>3, <2>4 DEF TypeOK, Become
      <3>2. Secondary.pretend_secondary
        BY DEF Secondary, Off
      <3> QED
        BY <1>1, <1>2, <1>6, <2>1, <2>4, <3>1, <3>2 DEF NodeInv
    <2>5. CASE m = n /\ colod[n].run # "no"
      <3>1. colod'[m] = colod[m]
        BY <1>1, <1>2, <1>3, <2>5 DEF TypeOK, Become
      <3>2. role[m] = "slave"
        BY <1>2, <1>3, <2>2, <2>5 DEF TypeOK, NodeInv
      <3> QED
        BY <1>1, <1>2, <1>6, <2>1, <2>2, <2>5, <3>1, <3>2 DEF NodeInv, Answers
    <2> QED
      BY <2>3, <2>4, <2>5
  <1> QED
    BY <1>5, <1>8, <1>9 DEF IInv

LEMMA StopStatusStep == IInv /\ StopStatus => IInv'
  <1> SUFFICES ASSUME IInv, StopStatus PROVE IInv'
    OBVIOUS
  <1> DEFINE n == Head(todo).on
             c == [Head(todo) EXCEPT !.op = "kill", !.known = Answers(n),
                                     !.status = colod[n].status]
  <1>1. /\ todo # <<>> /\ Head(todo).op = "stop" /\ todo' = <<c>> \o Tail(todo)
        /\ UNCHANGED <<colod, score, current, up, role, bad, standby, standbys, faults>>
    BY DEF StopStatus, Calling, Then, data, pacemaker
  <1>2. TypeOK /\ Head(todo) \in Call /\ n \in Node /\ n \in up /\ Tail(todo) \in Seq(Call)
    BY <1>1, HeadCall DEF IInv
  <1>3. colod[n].status \in Status /\ Answers(n) \in BOOLEAN
    BY <1>2 DEF TypeOK, Colod, Answers
  <1>4. c \in Call /\ c.op = "kill" /\ c.on = n
    BY <1>2, <1>3 DEF Call, Op
  <1> HIDE DEF c, n
  <1>5. TypeOK'
    BY <1>1, <1>2, <1>4 DEF TypeOK
  <1>6. Kept
    BY <1>1, <1>2, SameKeeps DEF TypeOK
  <1> QED
    BY <1>1, <1>2, <1>4, <1>5, <1>6, CallGoesOn

LEMMA StopKillStep == IInv /\ StopKill => IInv'
  <1> SUFFICES ASSUME IInv, StopKill PROVE IInv'
    OBVIOUS
  <1> DEFINE n == Head(todo).on
             o == Other(n)
             c == [Head(todo) EXCEPT !.op = "score"]
  <1>1. /\ todo # <<>> /\ Head(todo).op = "kill" /\ todo' = <<c>> \o Tail(todo)
        /\ UNCHANGED <<score, current, up, role, bad, standby, standbys, faults>>
    BY DEF StopKill, Calling, Then, data, pacemaker
  <1>2. /\ TypeOK /\ todo \in Seq(Call) /\ TodoOK(todo, up, role)
        /\ Head(todo) \in Call /\ n \in Node /\ n \in up /\ Tail(todo) \in Seq(Call)
    BY <1>1, HeadCall DEF IInv
  <1>3. c \in Call /\ c.op = "score" /\ c.on = n
    BY <1>2 DEF Call, Op
  <1>4. o \in Node /\ o # n /\ \A m \in Node : m = n \/ m = o
    BY <1>2, OtherNode
  <1>5. PICK g \in BOOLEAN :
          colod' = [colod EXCEPT ![n] = Off, ![o] = [Noticed(colod[o]) EXCEPT !.guest = g]]
    <2> DEFINE off == Head(todo).all /\ Head(todo).known /\ ~Head(todo).status.failed
               h == Noticed(colod[o]).guest /\ ~(off /\ Joined(n) /\ Joined(o))
    <2>1. h \in BOOLEAN
      OBVIOUS
    <2>2. colod' = [colod EXCEPT ![n] = Off, ![o] = [Noticed(colod[o]) EXCEPT !.guest = h]]
      BY Zenon DEF StopKill
    <2> QED
      BY <2>1, <2>2
  <1> HIDE DEF c, n, o
  <1>6. Off \in Colod /\ Off.run = "no"
    BY DEF Off, Quiet, Colod, Status
  <1>7. Keeps(colod[o], [Noticed(colod[o]) EXCEPT !.guest = g])
    BY <1>2, <1>4, KeepsNoticed, KeepsGuest DEF TypeOK
  <1>8. /\ colod' \in [Node -> Colod] /\ colod'[n] = Off
        /\ Keeps(colod[o], colod'[o])
    BY <1>2, <1>4, <1>5, <1>6, <1>7 DEF TypeOK, Keeps
  <1>9. TypeOK'
    BY <1>1, <1>2, <1>3, <1>8 DEF TypeOK
  <1>10. CallOK(c, up, role)
    BY <1>2, <1>3 DEF CallOK
  <1>11. TodoInv' /\ Head(todo') = c
    BY <1>1, <1>2, <1>3, <1>10, TodoReplaced DEF TodoInv
  <1>12. ASSUME NEW m \in Node PROVE NodeInv(m)'
    <2>1. ~HeadIs("promoted", m)' /\ ~HeadIs("promoted", m)
      BY <1>1, <1>3, <1>11 DEF HeadIs
    <2>2. CASE m = n
      BY <1>6, <1>8, <2>1, <2>2 DEF NodeInv, Answers
    <2>3. CASE m = o
      <3>1. ~HeadIs("score", m)'
        BY <1>3, <1>4, <1>11, <2>3 DEF HeadIs
      <3> QED
        BY <1>1, <1>8, <2>1, <2>3, <3>1, NodeKept DEF IInv
    <2> QED
      BY <1>4, <2>2, <2>3
  <1> QED
    BY <1>9, <1>11, <1>12 DEF IInv

LEMMA ScoreType ==
    ASSUME NEW s \in Status, NEW b \in BOOLEAN, NEW old \in {0, 10, 11, 100, 101}
    PROVE  calculate_master_score(s, b, old) \in {0, 10, 11, 100, 101}
  BY DEF calculate_master_score

LEMMA StopScoreStep == IInv /\ StopScore => IInv'
  <1> SUFFICES ASSUME IInv, StopScore PROVE IInv'
    OBVIOUS
  <1> DEFINE h == Head(todo)
             n == h.on
             calls == IF h.again THEN <<A("start", n)>> ELSE <<>>
  <1>1. /\ todo # <<>> /\ h.op = "score" /\ todo' = calls \o Tail(todo)
        /\ score' = IF h.known
                    THEN [score EXCEPT ![n] = calculate_master_score(h.status, h.all, @)]
                    ELSE score
        /\ role' = [role EXCEPT ![n] = "stopped"] /\ bad' = bad \ {n}
        /\ UNCHANGED <<colod, current, up, standby, standbys, faults>>
    BY DEF StopScore, Calling, Then
  <1>2. /\ TypeOK /\ todo \in Seq(Call) /\ TodoOK(todo, up, role)
        /\ h \in Call /\ n \in Node /\ n \in up /\ Tail(todo) \in Seq(Call)
    BY <1>1, HeadCall DEF IInv
  <1>3. h.status \in Status /\ h.all \in BOOLEAN
    BY <1>2 DEF Call
  <1> HIDE DEF n, h
  <1>4. score' \in [Node -> {0, 10, 11, 100, 101}]
    <2>1. score[n] \in {0, 10, 11, 100, 101} /\ score \in [Node -> {0, 10, 11, 100, 101}]
      BY <1>2 DEF TypeOK
    <2>2. calculate_master_score(h.status, h.all, score[n]) \in {0, 10, 11, 100, 101}
      BY <1>3, <2>1, ScoreType
    <2> QED
      BY <1>1, <1>2, <2>1, <2>2
  <1>5. \A m \in Node : role'[m] = IF m = n THEN "stopped" ELSE role[m]
    BY <1>1, <1>2 DEF TypeOK
  <1>6. TodoOK(todo, up, role')
    <2>1. \A m \in Node : role'[m] = "master" => role[m] = "master"
      BY <1>5
    <2> QED
      BY <1>2, <2>1, TodoRoles
  <1>7. /\ todo' \in Seq(Call) /\ TodoOK(todo', up, role')
        /\ todo' # <<>> => Head(todo').op \notin {"promoted", "score"}
    <2>1. CASE h.again
      <3>1. /\ A("start", n) \in Call /\ A("start", n).op = "start"
            /\ CallOK(A("start", n), up, role')
        BY <1>2, <1>5, NewCall DEF Op, CallOK
      <3>2. todo' = <<A("start", n)>> \o Tail(todo)
        BY <1>1, <2>1
      <3> QED
        BY <1>1, <1>2, <1>6, <3>1, <3>2, TodoReplaced
    <2>2. CASE ~h.again
      <3>1. todo' = <<>> \o Tail(todo)
        BY <1>1, <2>2
      <3> QED
        BY <1>1, <1>2, <1>6, <3>1, TodoTail
    <2> QED
      BY <2>1, <2>2
  <1>8. TypeOK'
    BY <1>1, <1>2, <1>4, <1>7 DEF TypeOK
  <1>9. ASSUME NEW m \in Node PROVE NodeInv(m)'
    <2>1. ~HeadIs("promoted", m)' /\ ~HeadIs("promoted", m) /\ ~HeadIs("score", m)'
      BY <1>1, <1>7 DEF HeadIs, h
    <2>2. CASE m # n
      <3>1. Keeps(colod[m], colod'[m])
        BY <1>1, <1>2, KeepsItself DEF TypeOK
      <3> QED
        BY <1>1, <1>5, <2>1, <2>2, <3>1, NodeKept DEF IInv
    <2>3. CASE m = n
      <3>1. HeadIs("score", n)
        BY <1>1 DEF HeadIs, h, n
      <3>2. colod'[n].run = "no"
        BY <1>1, <1>2, <3>1 DEF IInv, NodeInv
      <3> QED
        BY <2>1, <2>3, <3>2 DEF NodeInv, Answers
    <2> QED
      BY <2>2, <2>3
  <1>10. TodoInv'
    BY <1>1, <1>7 DEF TodoInv
  <1> QED
    BY <1>8, <1>9, <1>10 DEF IInv

LEMMA ResyncStep == IInv /\ qmp_start_resync => IInv'
  <1> SUFFICES ASSUME IInv, qmp_start_resync PROVE IInv'
    OBVIOUS
  <1> DEFINE n == Head(todo).on
             c == [Head(todo) EXCEPT !.op = "set-peer"]
  <1>1. /\ todo # <<>> /\ Head(todo).op = "resync" /\ todo' = <<c>> \o Tail(todo)
        /\ \/ Become(n, [colod[n] EXCEPT !.resync = "runs"])
              /\ current' = current \ {Other(n)} /\ bad' = bad
           \/ colod' = colod /\ current' = current
              /\ bad' = bad \cup (Active \cap {Other(n)})
        /\ UNCHANGED <<score, up, role, standby, standbys, faults>>
    BY DEF qmp_start_resync, Calling, Then
  <1>2. TypeOK /\ Head(todo) \in Call /\ n \in Node /\ n \in up /\ Tail(todo) \in Seq(Call)
    BY <1>1, HeadCall DEF IInv
  <1>3. c \in Call /\ c.op = "set-peer" /\ c.on = n
    BY <1>2, RestOfCall DEF Op
  <1> HIDE DEF c, n
  <1>4. colod' \in [Node -> Colod] /\ Kept
    <2>1. colod \in [Node -> Colod] /\ Keeps(colod[n], [colod[n] EXCEPT !.resync = "runs"])
      BY <1>2, KeepsResync DEF TypeOK
    <2>2. CASE Become(n, [colod[n] EXCEPT !.resync = "runs"])
      BY <1>2, <2>1, <2>2, BecomeKeeps
    <2>3. CASE colod' = colod
      BY <2>1, <2>3, SameKeeps
    <2> QED
      BY <1>1, <2>2, <2>3
  <1>5. current' \subseteq Node /\ bad' \subseteq Node
    BY <1>1, <1>2 DEF TypeOK, Active
  <1>6. TypeOK'
    BY <1>1, <1>2, <1>3, <1>4, <1>5 DEF TypeOK
  <1> QED
    BY <1>1, <1>2, <1>3, <1>4, <1>6, CallGoesOn

LEMMA SetPeerStep == IInv /\ SetPeer => IInv'
  <1> SUFFICES ASSUME IInv, SetPeer PROVE IInv'
    OBVIOUS
  <1> DEFINE n == Head(todo).on
             c == [colod[n] EXCEPT !.peer = TRUE, !.status.peer_failed = FALSE]
  <1>1. /\ todo # <<>> /\ Head(todo).op = "set-peer" /\ todo' = Tail(todo)
        /\ Become(n, c) /\ score' = [score EXCEPT ![Other(n)] = 0]
        /\ UNCHANGED <<current, up, role, bad, standby, standbys, faults>>
    BY DEF SetPeer, Calling, Done, pacemaker
  <1>2. TypeOK /\ n \in Node /\ Tail(todo) \in Seq(Call)
    BY <1>1, HeadCall DEF IInv
  <1>3. Keeps(colod[n], c)
    <2>1. colod[n] \in Colod
      BY <1>2 DEF TypeOK
    <2> QED
      BY <2>1, KeepsPeer
  <1> HIDE DEF c, n
  <1>4. colod' \in [Node -> Colod] /\ Kept
    BY <1>1, <1>2, <1>3, BecomeKeeps DEF TypeOK
  <1>5. TypeOK'
    BY <1>1, <1>2, <1>4 DEF TypeOK
  <1> QED
    BY <1>1, <1>4, <1>5, CallDone

\* A primary gets a new peer, or nothing follows its call.
LEMMA NewPeerCalls ==
    ASSUME NEW n \in Node
    PROVE  NewPeer(n) = <<>> \/ NewPeer(n) = <<A("resync", n)>>
  BY DEF NewPeer

LEMMA PostStartStep == IInv /\ NotifyPostStart => IInv'
  <1> SUFFICES ASSUME IInv, NotifyPostStart PROVE IInv'
    OBVIOUS
  <1> DEFINE n == Head(todo).on
             c == A("resync", n)
  <1>1. /\ todo # <<>> /\ Head(todo).op = "post-start"
        /\ \/ todo' = NewPeer(n) \o Tail(todo)
           \/ todo' = <<>> \o Tail(todo)
        /\ UNCHANGED <<colod, score, current, up, role, bad, standby, standbys, faults>>
    BY DEF NotifyPostStart, Calling, Then, data, pacemaker
  <1>2. TypeOK /\ n \in Node /\ n \in up /\ Tail(todo) \in Seq(Call)
    BY <1>1, HeadCall DEF IInv
  <1>3. c \in Call /\ c.op = "resync" /\ c.on = n
    BY <1>2, NewCall DEF Op
  <1>4. \/ todo' = <<c>> \o Tail(todo)
        \/ todo' = <<>> \o Tail(todo)
    BY <1>1, <1>2, NewPeerCalls
  <1> HIDE DEF c, n
  <1>5. Kept
    BY <1>1, <1>2, SameKeeps DEF TypeOK
  <1>6. CASE todo' = <<c>> \o Tail(todo)
    <2>1. TypeOK'
      BY <1>1, <1>2, <1>3, <1>6 DEF TypeOK
    <2> QED
      BY <1>1, <1>2, <1>3, <1>5, <1>6, <2>1, CallGoesOn
  <1>7. CASE todo' = <<>> \o Tail(todo)
    <2>1. todo' = Tail(todo)
      BY <1>2, <1>7
    <2>2. TypeOK'
      BY <1>1, <1>2, <2>1 DEF TypeOK
    <2> QED
      BY <1>1, <1>5, <2>1, <2>2, CallDone
  <1> QED
    BY <1>4, <1>6, <1>7

LEMMA PreStopStep == IInv /\ NotifyPreStop => IInv'
  <1> SUFFICES ASSUME IInv, NotifyPreStop PROVE IInv'
    OBVIOUS
  <1> DEFINE n == Head(todo).on
  <1>1. /\ todo # <<>> /\ Head(todo).op = "pre-stop" /\ todo' = Tail(todo)
        /\ Become(n, del_peer(colod[n])) \/ Become(n, colod[n])
        /\ UNCHANGED <<score, current, up, role, bad, standby, standbys, faults>>
    BY DEF NotifyPreStop, Calling, Done, data, pacemaker
  <1>2. TypeOK /\ n \in Node /\ Tail(todo) \in Seq(Call)
    BY <1>1, HeadCall DEF IInv
  <1>3. Keeps(colod[n], del_peer(colod[n])) /\ Keeps(colod[n], colod[n])
    <2>1. colod[n] \in Colod
      BY <1>2 DEF TypeOK
    <2> QED
      BY <2>1, KeepsPeer, KeepsItself
  <1> HIDE DEF n
  <1>4. colod' \in [Node -> Colod] /\ Kept
    BY <1>1, <1>2, <1>3, BecomeKeeps DEF TypeOK
  <1>5. TypeOK'
    BY <1>1, <1>2, <1>4 DEF TypeOK
  <1> QED
    BY <1>1, <1>4, <1>5, CallDone

LEMMA PostStopStep == IInv /\ NotifyPostStop => IInv'
  <1> SUFFICES ASSUME IInv, NotifyPostStop PROVE IInv'
    OBVIOUS
  <1> DEFINE n == Head(todo).on
  <1>1. /\ todo # <<>> /\ Head(todo).op = "post-stop" /\ todo' = Tail(todo)
        /\ Become(n, del_peer(colod[n])) \/ Become(n, colod[n]) \/ colod' = colod
        /\ score' = [score EXCEPT ![Other(n)] = 0] \/ score' = score
        /\ UNCHANGED <<current, up, role, bad, standby, standbys, faults>>
    BY DEF NotifyPostStop, Calling, Done, pacemaker
  <1>2. TypeOK /\ n \in Node /\ Tail(todo) \in Seq(Call)
    BY <1>1, HeadCall DEF IInv
  <1>3. Keeps(colod[n], del_peer(colod[n])) /\ Keeps(colod[n], colod[n])
    <2>1. colod[n] \in Colod
      BY <1>2 DEF TypeOK
    <2> QED
      BY <2>1, KeepsPeer, KeepsItself
  <1> HIDE DEF n
  <1>4. colod' \in [Node -> Colod] /\ Kept
    BY <1>1, <1>2, <1>3, BecomeKeeps, SameKeeps DEF TypeOK
  <1>5. TypeOK'
    BY <1>1, <1>2, <1>4 DEF TypeOK
  <1> QED
    BY <1>1, <1>4, <1>5, CallDone

\* Both ways to a primary: the rest of the call is to set the score.
LEMMA Promotion ==
    ASSUME IInv, todo # <<>>, Head(todo).op = "promote",
           NEW n, n = Head(todo).on, Answers(n),
           colod' \in [Node -> Colod], colod'[n].status.primary, ~colod'[n].pretend_secondary,
           \A m \in Node : m # n => Keeps(colod[m], colod'[m]),
           todo' = <<A("promoted", n)>> \o Tail(todo),
           UNCHANGED <<score, current, up, role, bad, standby, standbys, faults>>
    PROVE  IInv'
  <1>1. /\ TypeOK /\ todo \in Seq(Call) /\ TodoOK(todo, up, role)
        /\ n \in Node /\ n \in up /\ Tail(todo) \in Seq(Call)
    BY HeadCall DEF IInv
  <1> DEFINE c == A("promoted", n)
  <1>2. c \in Call /\ c.op = "promoted" /\ c.on = n
    BY <1>1, NewCall DEF Op
  <1> HIDE DEF c
  <1>3. CallOK(c, up, role)
    BY <1>1, <1>2 DEF CallOK
  <1>4. todo' = <<c>> \o Tail(todo)
    BY DEF c
  <1>5. todo' \in Seq(Call) /\ todo' # <<>> /\ Head(todo') = c /\ TodoOK(todo', up, role)
    BY <1>1, <1>2, <1>3, <1>4, TodoReplaced
  <1>6. TypeOK' /\ TodoInv'
    BY <1>1, <1>5 DEF TypeOK, TodoInv
  <1>7. ASSUME NEW m \in Node PROVE NodeInv(m)'
    <2>1. ~HeadIs("promoted", m) /\ ~HeadIs("score", m)'
      BY <1>2, <1>5 DEF HeadIs
    <2>2. CASE m # n
      <3>1. ~HeadIs("promoted", m)'
        BY <1>2, <1>5, <2>2 DEF HeadIs
      <3> QED
        BY <2>1, <2>2, <3>1, NodeKept DEF IInv
    <2>3. CASE m = n
      <3>1. HeadIs("promoted", n)'
        BY <1>2, <1>5 DEF HeadIs
      <3>2. role[n] # "stopped"
        BY <1>1 DEF IInv, NodeInv, Answers
      <3> QED
        BY <1>1, <2>1, <2>3, <3>1, <3>2 DEF NodeInv
    <2> QED
      BY <2>2, <2>3
  <1> QED
    BY <1>6, <1>7 DEF IInv

LEMMA PromoteColdStep == IInv /\ PromoteCold => IInv'
  <1> SUFFICES ASSUME IInv, PromoteCold PROVE IInv'
    OBVIOUS
  <1> DEFINE n == Head(todo).on
  <1>1. /\ todo # <<>> /\ Head(todo).op = "promote" /\ Answers(n) /\ Leaves(n, Primary)
        /\ todo' = <<A("promoted", n)>> \o Tail(todo)
        /\ UNCHANGED <<score, current, up, role, bad, standby, standbys, faults>>
    BY DEF PromoteCold, Calling, Then, Sound, data, pacemaker
  <1>2. colod \in [Node -> Colod] /\ n \in Node
    BY <1>1, HeadCall DEF IInv, TypeOK
  <1>3. Primary \in Colod /\ Primary.status.primary /\ ~Primary.pretend_secondary
    BY DEF Primary, Off, Quiet, Colod, Status
  <1>4. \A m \in Node : m # n => Keeps(colod[m], colod'[m])
    BY <1>1, <1>2, KeepsNoticed DEF Leaves
  <1>5. colod'[n] = Primary
    BY <1>1, <1>2 DEF Leaves
  <1>6. \A m \in Node : colod'[m] \in Colod
    BY <1>3, <1>4, <1>5 DEF Keeps
  <1>7. colod' \in [Node -> Colod]
    BY <1>1, <1>6 DEF Leaves
  <1> QED
    BY <1>1, <1>3, <1>4, <1>5, <1>7, Promotion

LEMMA PromoteWarmStep == IInv /\ PromoteWarm => IInv'
  <1> SUFFICES ASSUME IInv, PromoteWarm PROVE IInv'
    OBVIOUS
  <1> DEFINE n == Head(todo).on
             c == [colod[n] EXCEPT !.pretend_secondary = FALSE]
  <1>1. /\ todo # <<>> /\ Head(todo).op = "promote" /\ Answers(n) /\ colod[n].status.primary
        /\ Become(n, c)
        /\ todo' = <<A("promoted", n)>> \o Tail(todo)
        /\ UNCHANGED <<score, current, up, role, bad, standby, standbys, faults>>
    BY DEF PromoteWarm, Calling, Then, Sound, data, pacemaker
  <1>2. colod \in [Node -> Colod] /\ n \in Node
    BY <1>1, HeadCall DEF IInv, TypeOK
  <1>3. c \in Colod /\ c.status.primary /\ ~c.pretend_secondary
    <2>1. colod[n] \in Colod /\ colod[n].status.primary
      BY <1>1, <1>2
    <2> QED
      BY <2>1 DEF Colod
  <1>4. \A m \in Node : m # n => Keeps(colod[m], colod'[m])
    BY <1>1, <1>2, KeepsItself DEF Become
  <1> HIDE DEF c
  <1>5. colod'[n] = c /\ colod' \in [Node -> Colod]
    BY <1>1, <1>2, <1>3 DEF Become
  <1> QED
    BY <1>1, <1>3, <1>4, <1>5, Promotion

LEMMA PromotedStep == IInv /\ Promoted => IInv'
  <1> SUFFICES ASSUME IInv, Promoted PROVE IInv'
    OBVIOUS
  <1> DEFINE n == Head(todo).on
             c == A("resync", n)
  <1>1. /\ todo # <<>> /\ Head(todo).op = "promoted"
        /\ score' = [score EXCEPT ![n] = 101] /\ role' = [role EXCEPT ![n] = "master"]
        /\ \/ todo' = NewPeer(n) \o Tail(todo)
           \/ todo' = <<>> \o Tail(todo)
        /\ UNCHANGED <<colod, current, up, bad, standby, standbys, faults>>
    BY DEF Promoted, Calling, Then
  <1>2. /\ TypeOK /\ todo \in Seq(Call) /\ TodoOK(todo, up, role)
        /\ n \in Node /\ n \in up /\ Tail(todo) \in Seq(Call)
    BY <1>1, HeadCall DEF IInv
  <1>3. c \in Call /\ c.op = "resync" /\ c.on = n
    BY <1>2, NewCall DEF Op
  <1>4. \/ todo' = <<c>> \o Tail(todo)
        \/ todo' = Tail(todo)
    <2>1. <<>> \o Tail(todo) = Tail(todo)
      BY <1>2
    <2> QED
      BY <1>1, <1>2, <2>1, NewPeerCalls
  <1>5. HeadIs("promoted", n)
    BY <1>1 DEF HeadIs
  <1> HIDE DEF c, n
  <1>6. TodoOK(todo, up, role')
    <2>1. Len(todo) \in Nat /\ Len(todo) > 0 /\ Head(todo) = todo[1]
      BY <1>1, <1>2
    <2>2. \A i \in 1 .. Len(todo) : todo[i].op # "start"
      BY <1>1, <1>2, <2>1 DEF TodoOK
    <2>3. \A i \in 1 .. Len(todo) : CallOK(todo[i], up, role')
      BY <1>2, <2>2 DEF TodoOK, CallOK
    <2> QED
      BY <1>2, <2>3 DEF TodoOK
  <1>7. /\ todo' \in Seq(Call) /\ TodoOK(todo', up, role')
        /\ todo' # <<>> => Head(todo').op \notin {"promoted", "score"}
    <2>1. CASE todo' = <<c>> \o Tail(todo)
      <3>1. CallOK(c, up, role')
        BY <1>2, <1>3 DEF CallOK
      <3> QED
        BY <1>1, <1>2, <1>3, <1>6, <2>1, <3>1, TodoReplaced
    <2>2. CASE todo' = Tail(todo)
      BY <1>1, <1>2, <1>6, <2>2, TodoTail
    <2> QED
      BY <1>4, <2>1, <2>2
  <1>8. TypeOK' /\ TodoInv'
    BY <1>1, <1>2, <1>7 DEF TypeOK, TodoInv
  <1>9. \A m \in Node : role'[m] = IF m = n THEN "master" ELSE role[m]
    BY <1>1, <1>2 DEF TypeOK
  <1>10. ASSUME NEW m \in Node PROVE NodeInv(m)'
    <2>1. ~HeadIs("promoted", m)' /\ ~HeadIs("score", m)'
      BY <1>7 DEF HeadIs
    <2>2. CASE m # n
      <3>1. ~HeadIs("promoted", m)
        BY <2>2 DEF HeadIs, n
      <3>2. Keeps(colod[m], colod'[m])
        BY <1>1, <1>2, KeepsItself DEF TypeOK
      <3> QED
        BY <1>1, <1>9, <2>1, <2>2, <3>1, <3>2, NodeKept DEF IInv
    <2>3. CASE m = n
      <3>1. colod'[n].status.primary /\ ~colod'[n].pretend_secondary
        BY <1>1, <1>2, <1>5 DEF IInv, NodeInv
      <3> QED
        BY <1>1, <1>2, <1>9, <2>1, <2>3, <3>1 DEF NodeInv
    <2> QED
      BY <2>2, <2>3
  <1> QED
    BY <1>8, <1>10 DEF IInv

LEMMA PromoteFailsStep == IInv /\ PromoteFails => IInv'
  <1> SUFFICES ASSUME IInv, PromoteFails PROVE IInv'
    OBVIOUS
  <1>1. /\ todo # <<>> /\ Head(todo).op = "promote" /\ todo' = Tail(todo)
        /\ bad' = bad \cup {Head(todo).on}
        /\ UNCHANGED <<colod, score, current, up, role, standby, standbys, faults>>
    BY DEF PromoteFails, Calling, Done, data
  <1>2. TypeOK /\ Head(todo).on \in Node /\ Tail(todo) \in Seq(Call)
    BY <1>1, HeadCall DEF IInv
  <1>3. TypeOK' /\ Kept
    BY <1>1, <1>2, SameKeeps DEF TypeOK
  <1> QED
    BY <1>1, <1>3, CallDone

LEMMA AgentCallStep == IInv /\ AgentCall => IInv'
  BY StartStep, StopStatusStep, StopKillStep, StopScoreStep, ResyncStep, SetPeerStep,
     PostStartStep, PreStopStep, PostStopStep, PromoteColdStep, PromoteWarmStep,
     PromotedStep, PromoteFailsStep DEF AgentCall

-----------------------------------------------------------------------------
(* The monitor, colod, qemu and the faults that leave the node up. *)

LEMMA MonitorStep ==
    ASSUME NEW n \in Node
    PROVE  IInv /\ Monitor(n) => IInv'
  <1> SUFFICES ASSUME IInv, Monitor(n) PROVE IInv'
    OBVIOUS
  <1>1. TypeOK /\ colod \in [Node -> Colod] /\ colod[n] \in Colod
    BY DEF IInv, TypeOK
  <1>2. CASE MonitorFails(n)
    <2>1. TypeOK' /\ Kept
      BY <1>1, <1>2, SameKeeps DEF MonitorFails, TypeOK, data
    <2> QED
      BY <1>2, <2>1, QuietStep DEF MonitorFails
  <1>3. CASE MonitorPeerLost(n)
    <2>1. Become(n, del_peer(colod[n])) /\ Keeps(colod[n], del_peer(colod[n]))
      BY <1>1, <1>3, KeepsPeer DEF MonitorPeerLost
    <2>2. colod' \in [Node -> Colod] /\ Kept
      BY <1>1, <2>1, BecomeKeeps
    <2>3. TypeOK'
      BY <1>1, <1>3, <2>2 DEF MonitorPeerLost, TypeOK, data, Active
    <2> QED
      BY <1>3, <2>2, <2>3, QuietStep DEF MonitorPeerLost
  <1>4. CASE MonitorResynced(n)
    <2> DEFINE m == IF colod[Other(n)].run = "no" THEN "failover" ELSE "active"
               c == [colod[n] EXCEPT !.resync = "none", !.migration = m]
    <2>1. Keeps(colod[n], c)
      BY <1>1, KeepsResync
    <2>2. Become(n, c)
      BY <1>4 DEF MonitorResynced
    <2> HIDE DEF c
    <2>3. colod' \in [Node -> Colod] /\ Kept
      BY <1>1, <2>1, <2>2, BecomeKeeps
    <2>4. TypeOK'
      BY <1>1, <1>4, <2>3 DEF MonitorResynced, TypeOK, data, pacemaker
    <2> QED
      BY <1>4, <2>3, <2>4, QuietStep DEF MonitorResynced, pacemaker
  <1>5. CASE MonitorSecondary(n)
    <2>1. TypeOK' /\ Kept
      BY <1>1, <1>5, SameKeeps DEF MonitorSecondary, TypeOK, pacemaker
    <2> QED
      BY <1>5, <2>1, QuietStep DEF MonitorSecondary, pacemaker
  <1> QED
    BY <1>2, <1>3, <1>4, <1>5 DEF Monitor

LEMMA ColodStepStep ==
    ASSUME NEW n \in Node
    PROVE  IInv /\ (ColodStep(n) \/ Write(n)) => IInv'
  <1> SUFFICES ASSUME IInv, ColodStep(n) \/ Write(n) PROVE IInv'
    OBVIOUS
  <1>1. TypeOK /\ colod \in [Node -> Colod] /\ colod[n] \in Colod
    BY DEF IInv, TypeOK
  <1>2. Other(n) \in Node /\ Other(n) # n
    BY OtherNode
  <1>3. Qemu /\ current' \subseteq Node
    BY <1>1, <1>2 DEF ColodStep, Write, Mirror, Migrated, ColoRunning, Failover, TypeOK
  <1>4. colod' \in [Node -> Colod] /\ Kept
    <2>1. CASE Mirror(n)
      <3> DEFINE c == [colod[n] EXCEPT !.resync =
                         IF colod[Other(n)].run # "no" THEN "ready" ELSE "error"]
      <3>1. Keeps(colod[n], c)
        BY <1>1, KeepsResync
      <3>2. Become(n, c)
        BY <2>1 DEF Mirror
      <3> HIDE DEF c
      <3> QED
        BY <1>1, <3>1, <3>2, BecomeKeeps
    <2>2. CASE Migrated(n)
      <3> DEFINE c == [colod[n] EXCEPT !.migration = "colo"]
                 d == [colod[Other(n)] EXCEPT !.migration = "colo", !.guest = colod[n].guest]
      <3>1. colod[Other(n)] \in Colod /\ colod[n].guest \in BOOLEAN
        BY <1>1, <1>2 DEF Colod
      <3>2. Keeps(colod[n], c) /\ Keeps(colod[Other(n)], d)
        BY <1>1, <3>1, KeepsMigration
      <3>3. colod' = [colod EXCEPT ![n] = c, ![Other(n)] = d]
        BY <1>1, <1>2, <2>2 DEF Migrated
      <3> HIDE DEF c, d
      <3>4. \A m \in Node : Keeps(colod[m], colod'[m])
        BY <1>1, <1>2, <3>2, <3>3, KeepsItself
      <3> QED
        BY <1>1, <3>2, <3>3, <3>4 DEF Kept, Keeps
    <2>3. CASE ColoRunning(n)
      <3> DEFINE c == [colod[n] EXCEPT !.migration = "none", !.status.replication = TRUE]
      <3>1. Keeps(colod[n], c)
        BY <1>1, KeepsMigration
      <3>2. Become(n, c)
        BY <2>3 DEF ColoRunning
      <3> HIDE DEF c
      <3> QED
        BY <1>1, <3>1, <3>2, BecomeKeeps
    <2>4. CASE Failover(n)
      <3> DEFINE c == [colod[n] EXCEPT !.status.primary = TRUE, !.status.replication = FALSE,
                                       !.migration = "none", !.peer = FALSE]
      <3>1. Keeps(colod[n], c)
        BY <1>1, KeepsMigration
      <3>2. Become(n, c)
        BY <2>4 DEF Failover
      <3> HIDE DEF c
      <3> QED
        BY <1>1, <3>1, <3>2, BecomeKeeps
    <2>5. CASE Write(n)
      BY <1>1, <2>5, SameKeeps DEF Write
    <2> QED
      BY <2>1, <2>2, <2>3, <2>4, <2>5 DEF ColodStep
  <1>5. TypeOK'
    BY <1>1, <1>3, <1>4 DEF Qemu, TypeOK, pacemaker
  <1> QED
    BY <1>3, <1>4, <1>5, QuietStep DEF Qemu, pacemaker

LEMMA FaultStep ==
    ASSUME NEW n \in Node
    PROVE  IInv /\ (Fail(n) \/ LinkBreaks(n) \/ ColodDies(n)) => IInv'
  <1> SUFFICES ASSUME IInv, Fail(n) \/ LinkBreaks(n) \/ ColodDies(n) PROVE IInv'
    OBVIOUS
  <1>1. TypeOK /\ colod \in [Node -> Colod] /\ colod[n] \in Colod
    BY DEF IInv, TypeOK
  <1>2. /\ UNCHANGED <<score, current, up, role, bad, standby, standbys, todo>>
        /\ faults' = faults + 1
    BY DEF Fail, LinkBreaks, ColodDies, Fault, data, pacemaker
  <1>3. colod' \in [Node -> Colod] /\ Kept
    <2>1. CASE Leaves(n, FailedOf(colod[n]))
      BY <1>1, <2>1, KeepsFailed, LeavesKeeps
    <2>2. CASE ColodDies(n)
      <3>1. Leaves(n, [colod[n] EXCEPT !.run = "qemu"]) /\ colod[n].run = "yes"
        BY <2>2 DEF ColodDies, Answers
      <3>2. Keeps(colod[n], [colod[n] EXCEPT !.run = "qemu"])
        BY <1>1, <3>1, KeepsFailed
      <3> QED
        BY <1>1, <3>1, <3>2, LeavesKeeps
    <2> QED
      BY <2>1, <2>2 DEF Fail, LinkBreaks
  <1>4. TypeOK'
    BY <1>1, <1>2, <1>3 DEF TypeOK
  <1> QED
    BY <1>2, <1>3, <1>4, QuietStep

LEMMA BothFailStep == IInv /\ BothFail => IInv'
  <1> SUFFICES ASSUME IInv, BothFail PROVE IInv'
    OBVIOUS
  <1>1. TypeOK /\ colod \in [Node -> Colod]
    BY DEF IInv, TypeOK
  <1>2. /\ UNCHANGED <<score, current, up, role, bad, standby, standbys, todo>>
        /\ faults' = faults + 1
        /\ colod' = [n \in Node |-> [FailedOf(colod[n]) EXCEPT !.status.peer_failed = TRUE]]
    BY DEF BothFail, Fault, data, pacemaker
  <1>3. \A n \in Node : Keeps(colod[n], colod'[n])
    BY <1>1, <1>2, KeepsFailed
  <1>4. \A n \in Node : colod'[n] \in Colod
    BY <1>3 DEF Keeps
  <1>5. colod' \in [Node -> Colod] /\ Kept
    BY <1>2, <1>3, <1>4 DEF Kept
  <1>6. TypeOK'
    BY <1>1, <1>2, <1>5 DEF TypeOK
  <1> QED
    BY <1>2, <1>5, <1>6, QuietStep

LEMMA StandbyStep ==
    ASSUME NEW ns \in SUBSET Node
    PROVE  IInv /\ (Standby(ns) \/ Online) => IInv'
  <1> SUFFICES ASSUME IInv, Standby(ns) \/ Online PROVE IInv'
    OBVIOUS
  <1>1. /\ UNCHANGED <<colod, score, current, up, role, bad, todo, faults>>
        /\ standby' \subseteq Node /\ (standbys' = standbys + 1 \/ standbys' = standbys)
    BY DEF Standby, Online, data
  <1>2. TypeOK' /\ Kept
    BY <1>1, SameKeeps DEF IInv, TypeOK
  <1> QED
    BY <1>1, <1>2, QuietStep

-----------------------------------------------------------------------------
(* Nodes that crash, are fenced and come back. *)

LEMMA CrashStep ==
    ASSUME NEW n \in Node
    PROVE  IInv /\ Crash(n) => IInv'
  <1> SUFFICES ASSUME IInv, Crash(n) PROVE IInv'
    OBVIOUS
  <1>1. /\ UNCHANGED <<score, current, role, bad, standby, standbys>>
        /\ faults' = faults + 1 /\ up' = up \ {n} /\ Leaves(n, Off)
        /\ todo' = IF todo = <<>> \/ Head(todo).on = n THEN <<>> ELSE <<Head(todo)>>
    BY DEF Crash, Fault, data
  <1>2. TypeOK /\ colod \in [Node -> Colod] /\ todo \in Seq(Call)
    BY DEF IInv, TypeOK
  <1>3. Off \in Colod /\ Off.run = "no"
    BY DEF Off, Quiet, Colod, Status
  <1>4. /\ colod'[n] = Off
        /\ \A m \in Node : m # n => Keeps(colod[m], colod'[m])
    BY <1>1, <1>2, KeepsNoticed DEF Leaves
  <1>5. colod' \in [Node -> Colod]
    <2>1. \A m \in Node : colod'[m] \in Colod
      BY <1>3, <1>4 DEF Keeps
    <2> QED
      BY <1>1, <2>1 DEF Leaves
  <1>6. todo' \in Seq(Call) /\ TodoInv'
    <2>1. CASE todo = <<>> \/ Head(todo).on = n
      BY <1>1, <2>1 DEF TodoInv, TodoOK
    <2>2. CASE todo # <<>> /\ Head(todo).on # n
      <3> DEFINE c == Head(todo)
      <3>1. todo' = <<c>>
        BY <1>1, <2>2
      <3>2. /\ c \in Call /\ (c.op # "post-stop" => c.on \in up)
            /\ (c.op = "start" => role[c.on] # "master")
        BY <2>2, HeadCall
      <3> HIDE DEF c
      <3>3. CallOK(c, up', role')
        BY <1>1, <2>2, <3>2 DEF CallOK, c
      <3>4. todo' \in Seq(Call) /\ Len(todo') = 1 /\ todo'[1] = c
        BY <3>1, <3>2
      <3> QED
        BY <3>3, <3>4 DEF TodoInv, TodoOK
    <2> QED
      BY <2>1, <2>2
  <1>7. TypeOK'
    BY <1>1, <1>2, <1>5, <1>6 DEF TypeOK
  <1>8. ASSUME NEW m \in Node PROVE NodeInv(m)'
    <2>1. CASE m = n
      <3>1. ~HeadIs("promoted", n)'
        BY <1>1 DEF HeadIs
      <3> QED
        BY <1>3, <1>4, <2>1, <3>1 DEF NodeInv, Answers
    <2>2. CASE m # n
      <3>1. /\ HeadIs("promoted", m)' <=> HeadIs("promoted", m)
            /\ HeadIs("score", m)' => HeadIs("score", m)
        BY <1>1, <2>2 DEF HeadIs
      <3> QED
        BY <1>1, <1>4, <2>2, <3>1, NodeKept DEF IInv
    <2> QED
      BY <2>1, <2>2
  <1> QED
    BY <1>6, <1>7, <1>8 DEF IInv

LEMMA FenceStep ==
    ASSUME NEW n \in Node
    PROVE  IInv /\ Fence(n) => IInv'
  <1> SUFFICES ASSUME IInv, Fence(n) PROVE IInv'
    OBVIOUS
  <1> DEFINE c == A("post-stop", Other(n))
  <1>1. /\ todo = <<>> /\ n \notin up /\ role' = [role EXCEPT ![n] = "stopped"]
        /\ bad' = bad \ {n} /\ (todo' = <<c>> \/ todo' = <<>>)
        /\ UNCHANGED <<colod, score, current, up, standby, standbys, faults>>
    BY DEF Fence, data
  <1>2. TypeOK
    BY DEF IInv
  <1>3. c \in Call /\ c.op = "post-stop"
    BY OtherNode, NewCall DEF Op
  <1> HIDE DEF c
  <1>4. todo' \in Seq(Call) /\ (todo' # <<>> => Head(todo').op = "post-stop")
    <2>1. CASE todo' = <<c>>
      BY <1>3, <2>1
    <2>2. CASE todo' = <<>>
      BY <2>2
    <2> QED
      BY <1>1, <2>1, <2>2
  <1>5. TypeOK'
    BY <1>1, <1>2, <1>4 DEF TypeOK
  <1>6. TodoInv'
    <2>1. CASE todo' = <<>>
      BY <2>1 DEF TodoInv, TodoOK
    <2>2. CASE todo' = <<c>>
      <3>1. CallOK(c, up', role')
        BY <1>3 DEF CallOK
      <3>2. Len(todo') = 1 /\ todo'[1] = c
        BY <2>2
      <3> QED
        BY <3>1, <3>2 DEF TodoInv, TodoOK
    <2> QED
      BY <1>1, <2>1, <2>2
  <1>7. ASSUME NEW m \in Node PROVE NodeInv(m)'
    <2>1. ~HeadIs("promoted", m)' /\ ~HeadIs("promoted", m) /\ ~HeadIs("score", m)'
      BY <1>1, <1>4 DEF HeadIs
    <2>2. CASE m = n
      <3>1. colod'[n].run = "no"
        BY <1>1 DEF IInv, NodeInv
      <3> QED
        BY <2>1, <2>2, <3>1 DEF NodeInv, Answers
    <2>3. CASE m # n
      <3>1. Keeps(colod[m], colod'[m]) /\ role'[m] = role[m]
        BY <1>1, <1>2, <2>3, KeepsItself DEF TypeOK
      <3> QED
        BY <1>1, <2>1, <3>1, NodeKept DEF IInv
    <2> QED
      BY <2>2, <2>3
  <1> QED
    BY <1>5, <1>6, <1>7 DEF IInv

LEMMA BootStep ==
    ASSUME NEW n \in Node
    PROVE  IInv /\ Boot(n) => IInv'
  <1> SUFFICES ASSUME IInv, Boot(n) PROVE IInv'
    OBVIOUS
  <1>1. /\ role[n] = "stopped" /\ up' = up \cup {n}
        /\ UNCHANGED <<colod, score, current, role, bad, standby, standbys, todo, faults>>
    BY DEF Boot, Active, data
  <1>2. TypeOK' /\ TypeOK
    BY <1>1 DEF IInv, TypeOK
  <1>3. TodoInv'
    <2>1. \A i \in 1 .. Len(todo) : CallOK(todo[i], up', role)
      BY <1>1 DEF IInv, TodoInv, TodoOK, CallOK
    <2> QED
      BY <1>1, <2>1 DEF IInv, TodoInv, TodoOK
  <1>4. ASSUME NEW m \in Node PROVE NodeInv(m)'
    <2>1. /\ HeadIs("promoted", m)' <=> HeadIs("promoted", m)
          /\ HeadIs("score", m)' => HeadIs("score", m)
      BY <1>1 DEF HeadIs
    <2>2. NodeInv(m)
      BY DEF IInv
    <2> QED
      BY <1>1, <2>1, <2>2 DEF NodeInv, Answers
  <1> QED
    BY <1>2, <1>3, <1>4 DEF IInv

-----------------------------------------------------------------------------
(* The transitions that Pacemaker computes. *)

LEMMA OrderType ==
    ASSUME NEW ns \in SUBSET Node, NEW s \in Orders(ns)
    PROVE  s \in Seq(ns) /\ DOMAIN s = 1 .. Len(s) /\ \A i \in DOMAIN s : s[i] \in ns
  <1>1. IsFiniteSet(Node)
    BY AgentAssumption, Zenon
  <1>2. Cardinality(ns) \in Nat
    BY <1>1, FS_Subset, FS_CardinalityType
  <1>3. s \in [1 .. Cardinality(ns) -> ns]
    BY DEF Orders
  <1> QED
    BY <1>2, <1>3

LEMMA Transition ==
    ASSUME IInv, todo = <<>>, todo' \in Seq(Call), TodoOK(todo', up, role),
           \A i \in 1 .. Len(todo') : todo'[i].op \notin {"promoted", "score"},
           UNCHANGED <<colod, score, current, up, role, bad, standby, standbys, faults>>
    PROVE  IInv'
  <1>1. todo' # <<>> => Head(todo').op \notin {"promoted", "score"}
    OBVIOUS
  <1>2. TypeOK' /\ TodoInv' /\ Kept
    BY SameKeeps DEF IInv, TypeOK, TodoInv
  <1>3. ASSUME NEW m \in Node PROVE NodeInv(m)'
    <2>1. ~HeadIs("promoted", m)' /\ ~HeadIs("promoted", m) /\ ~HeadIs("score", m)'
      BY <1>1 DEF HeadIs
    <2> QED
      BY <1>2, <2>1, NodeKept DEF IInv, Kept
  <1> QED
    BY <1>2, <1>3 DEF IInv

LEMMA TwoParts ==
    ASSUME NEW S, NEW a \in Seq(S), NEW b \in Seq(S), NEW e, e = a \o b
    PROVE  /\ e \in Seq(S) /\ Len(a) \in Nat /\ Len(b) \in Nat
           /\ Len(e) = Len(a) + Len(b)
           /\ \A i \in 1 .. Len(a) : e[i] = a[i]
           /\ \A i \in 1 .. Len(b) : e[Len(a) + i] = b[i]
  OBVIOUS

LEMMA ThreeParts ==
    ASSUME NEW S, NEW a \in Seq(S), NEW b \in Seq(S), NEW c \in Seq(S),
           NEW e, e = a \o b \o c
    PROVE  /\ e \in Seq(S) /\ Len(a) \in Nat /\ Len(b) \in Nat /\ Len(c) \in Nat
           /\ Len(e) = Len(a) + Len(b) + Len(c)
           /\ \A i \in 1 .. Len(a) : e[i] = a[i]
           /\ \A i \in 1 .. Len(b) : e[Len(a) + i] = b[i]
           /\ \A i \in 1 .. Len(c) : e[Len(a) + Len(b) + i] = c[i]
  <1>1. PICK d : d = a \o b
    OBVIOUS
  <1>2. /\ d \in Seq(S) /\ Len(a) \in Nat /\ Len(b) \in Nat
        /\ Len(d) = Len(a) + Len(b)
        /\ \A i \in 1 .. Len(a) : d[i] = a[i]
        /\ \A i \in 1 .. Len(b) : d[Len(a) + i] = b[i]
    BY <1>1, TwoParts
  <1>3. e = d \o c
    BY <1>1
  <1>4. /\ e \in Seq(S) /\ Len(c) \in Nat
        /\ Len(e) = Len(d) + Len(c)
        /\ \A i \in 1 .. Len(d) : e[i] = d[i]
        /\ \A i \in 1 .. Len(c) : e[Len(d) + i] = c[i]
    <2>1. d \in Seq(S)
      BY <1>2
    <2> QED
      BY <1>3, <2>1, TwoParts
  <1>5. \A i \in 1 .. Len(a) : i \in 1 .. Len(d)
    BY <1>2
  <1>6. \A i \in 1 .. Len(b) : Len(a) + i \in 1 .. Len(d)
    BY <1>2
  <1>7. /\ \A i \in 1 .. Len(a) : e[i] = a[i]
        /\ \A i \in 1 .. Len(b) : e[Len(a) + i] = b[i]
    BY <1>2, <1>4, <1>5, <1>6
  <1> QED
    BY <1>2, <1>4, <1>7

LEMMA StopPlan ==
    ASSUME IInv, Stop
    PROVE  /\ todo = <<>> /\ Active \subseteq up /\ todo' \in Seq(Call)
           /\ \A i \in 1 .. Len(todo') :
                 /\ todo'[i].op \in {"stop", "pre-stop"} /\ todo'[i].on \in Active
                 /\ todo'[i].op = "stop" => todo'[i].on \in (bad \cup standby) \cap Active
                 /\ todo'[i].all <=> Active \subseteq bad \cup standby
           /\ \A n \in (bad \cup standby) \cap Active :
                 \E i \in 1 .. Len(todo') : todo'[i].op = "stop" /\ todo'[i].on = n
  <1> DEFINE ns == (bad \cup standby) \cap Active
             all == ns = Active
             calls(op, again, s) ==
                [i \in DOMAIN s |-> [A(op, s[i]) EXCEPT !.all = all, !.again = again]]
             Masters == {n \in ns : role[n] = "master"}
             Told == {n \in Active : Other(n) \in ns}
             Stopping == {c \in Call : /\ c.op \in {"stop", "pre-stop"} /\ c.on \in Active
                                       /\ c.op = "stop" => c.on \in ns
                                       /\ c.all <=> all}
  <1>1. /\ todo = <<>> /\ Active \subseteq up /\ Active \subseteq Node
    BY DEF Stop, Idle, Active
  <1>2. PICK demote \in Orders(Masters), tell \in Orders(Told), stop \in Orders(ns) :
          todo' = calls("stop", TRUE, demote) \o calls("pre-stop", FALSE, tell)
                  \o calls("stop", FALSE, stop)
    BY Zenon DEF Stop
  <1>3. /\ Masters \subseteq Active /\ Told \subseteq Active /\ ns \subseteq Active
        /\ Masters \subseteq ns /\ all \in BOOLEAN
        /\ all <=> Active \subseteq bad \cup standby
    BY <1>1
  <1> HIDE DEF Masters, Told, ns, all
  <1> DEFINE Lists(q, op, o) ==
                /\ q \in Seq(Stopping) /\ Len(q) = Len(o) /\ DOMAIN o = 1 .. Len(o)
                /\ \A i \in DOMAIN o : q[i].op = op /\ q[i].on = o[i]
  <1>4. ASSUME NEW op \in {"stop", "pre-stop"}, NEW again \in BOOLEAN,
               NEW ms \in SUBSET Active, NEW o \in Orders(ms), op = "stop" => ms \subseteq ns,
               NEW q, q = calls(op, again, o)
        PROVE  Lists(q, op, o)
    <2>1. DOMAIN o = 1 .. Len(o) /\ o \in Seq(ms) /\ \A i \in DOMAIN o : o[i] \in ms
      BY <1>1, OrderType
    <2> DEFINE c(i) == [A(op, o[i]) EXCEPT !.all = all, !.again = again]
    <2>2. ASSUME NEW i \in DOMAIN o
          PROVE  c(i) \in Stopping /\ c(i).op = op /\ c(i).on = o[i]
      <3>1. o[i] \in Node /\ o[i] \in Active /\ (op = "stop" => o[i] \in ns) /\ op \in Op
        BY <1>1, <1>4, <2>1 DEF Op
      <3>2. A(op, o[i]) \in Call /\ A(op, o[i]).op = op /\ A(op, o[i]).on = o[i]
        BY <3>1, NewCall
      <3> QED
        BY <1>3, <3>1, <3>2 DEF Call
    <2>3. q = [i \in DOMAIN o |-> c(i)]
      BY <1>4
    <2> HIDE DEF Stopping, c, calls
    <2> QED
      BY <2>1, <2>2, <2>3
  <1>5. PICK d, t, s : /\ d = calls("stop", TRUE, demote)
                       /\ t = calls("pre-stop", FALSE, tell)
                       /\ s = calls("stop", FALSE, stop)
    OBVIOUS
  <1> HIDE DEF calls, Stopping, Lists
  <1>6. Lists(d, "stop", demote) /\ Lists(t, "pre-stop", tell) /\ Lists(s, "stop", stop)
    <2>1. Lists(d, "stop", demote)
      BY <1>3, <1>4, <1>5
    <2>2. Lists(t, "pre-stop", tell)
      BY <1>3, <1>4, <1>5
    <2>3. Lists(s, "stop", stop)
      BY <1>3, <1>4, <1>5
    <2> QED
      BY <2>1, <2>2, <2>3
  <1>7. todo' = d \o t \o s
    BY <1>2, <1>5
  <1>8. /\ todo' \in Seq(Stopping) /\ Len(todo') = Len(d) + Len(t) + Len(s)
        /\ Len(d) \in Nat /\ Len(t) \in Nat /\ Len(s) \in Nat
        /\ \A i \in 1 .. Len(s) : todo'[Len(d) + Len(t) + i] = s[i]
    <2>1. d \in Seq(Stopping) /\ t \in Seq(Stopping) /\ s \in Seq(Stopping)
      BY <1>6 DEF Lists
    <2> QED
      BY <1>7, <2>1, ThreeParts
  <1>9. todo' \in Seq(Call) /\ \A i \in 1 .. Len(todo') : todo'[i] \in Stopping
    BY <1>8 DEF Stopping
  <1>10. ASSUME NEW n \in ns
        PROVE  \E i \in 1 .. Len(todo') : todo'[i].op = "stop" /\ todo'[i].on = n
    <2>1. PICK i \in DOMAIN stop : stop[i] = n
      BY <1>2, <1>10 DEF Orders
    <2>2. /\ Len(s) = Len(stop) /\ DOMAIN stop = 1 .. Len(stop)
          /\ s[i].op = "stop" /\ s[i].on = n
      BY <1>6, <2>1 DEF Lists
    <2>3. i \in 1 .. Len(s) /\ Len(d) + Len(t) + i \in 1 .. Len(todo')
      BY <1>8, <2>2
    <2>4. todo'[Len(d) + Len(t) + i] = s[i]
      BY <1>8, <2>3
    <2> QED
      BY <2>2, <2>3, <2>4
  <1> QED
    BY <1>1, <1>3, <1>9, <1>10 DEF Stopping, ns

\* Nothing comes twice in an order.
LEMMA OrderDistinct ==
    ASSUME NEW ns \in SUBSET Node, NEW s \in Orders(ns),
           NEW i \in DOMAIN s, NEW j \in DOMAIN s, i < j
    PROVE  s[i] # s[j]
  <1>1. IsFiniteSet(Node) /\ Cardinality(Node) = 2
    BY AgentAssumption, Zenon
  <1>2. Cardinality(ns) \in Nat /\ Cardinality(ns) =< 2 /\ (Cardinality(ns) = 2 => ns = Node)
    BY <1>1, FS_Subset, FS_CardinalityType
  <1>3. /\ s \in [1 .. Cardinality(ns) -> ns]
        /\ \A n \in ns : \E k \in DOMAIN s : s[k] = n
    BY DEF Orders
  <1>4. i = 1 /\ j = 2 /\ Cardinality(ns) = 2 /\ DOMAIN s = {1, 2}
    BY <1>2, <1>3
  <1>5. PICK m \in Node : m # s[1]
    BY OtherNode, AgentAssumption
  <1>6. PICK k \in {1, 2} : s[k] = m
    BY <1>2, <1>3, <1>4, <1>5
  <1> QED
    BY <1>4, <1>5, <1>6

LEMMA StartPlan ==
    ASSUME IInv, Start
    PROVE  /\ todo = <<>> /\ Active \subseteq up /\ (bad \cup standby) \cap Active = {}
           /\ todo' \in Seq(Call)
           /\ \A i \in 1 .. Len(todo') :
                 /\ todo'[i].op \in {"start", "post-start", "promote"}
                 /\ todo'[i].op = "start" => todo'[i].on \in up \ (standby \cup Active)
                 /\ todo'[i].op = "post-start" =>
                       todo'[i].on \in Active /\ Other(todo'[i].on) \notin Active
                 /\ todo'[i].op = "promote" =>
                       /\ todo'[i].on \in Active \cup (up \ standby) /\ score[todo'[i].on] # 0
                       /\ \A n \in Node : role[n] # "master"
           /\ \A n \in up \ (standby \cup Active) :
                 \E i \in 1 .. Len(todo') : todo'[i].op = "start" /\ todo'[i].on = n
           /\ \A i, j \in 1 .. Len(todo') : i < j =>
                 /\ todo'[i].op # "promote"
                 /\ todo'[j].op = "start" => todo'[i].on # todo'[j].on
  <1> DEFINE ns == up \ (standby \cup Active)
             running == Active \cup ns
             best == {n \in running : score[n] > 0 /\ \A m \in running : score[m] =< score[n]}
             calls(op, s) == [i \in DOMAIN s |-> A(op, s[i])]
             Told == {n \in Active : Other(n) \in ns}
             Promotable == IF best = {} \/ \E n \in Node : role[n] = "master" THEN {<<>>}
                           ELSE {<<n>> : n \in best}
             Starting(op, ms) == {c \in Call : c.op = op /\ c.on \in ms}
             Lists(q, op, o, ms) ==
                /\ q \in Seq(Starting(op, ms)) /\ Len(q) = Len(o) /\ DOMAIN o = 1 .. Len(o)
                /\ \A i \in DOMAIN o : q[i].op = op /\ q[i].on = o[i]
  <1>1. /\ todo = <<>> /\ Active \subseteq up /\ Active \subseteq Node /\ up \subseteq Node
        /\ (bad \cup standby) \cap Active = {}
    BY DEF Start, Idle, Active, IInv, TypeOK
  <1>2. PICK start \in Orders(ns), tell \in Orders(Told), promote \in Promotable :
          todo' = calls("start", start) \o calls("post-start", tell) \o calls("promote", promote)
    BY Zenon DEF Start
  <1>3. /\ ns \subseteq Node /\ Told \subseteq Node /\ Told \subseteq Active
        /\ best \subseteq Active \cup (up \ standby) /\ best \subseteq Node
        /\ \A n \in best : score[n] # 0
        /\ \A n \in Told : Other(n) \notin Active
    <2>1. \A n \in best : score[n] > 0 /\ n \in Node /\ score[n] \in Nat
      BY <1>1 DEF IInv, TypeOK
    <2>2. \A n \in best : score[n] # 0
      BY <2>1
    <2> QED
      BY <1>1, <2>2
  <1>4. ASSUME NEW op \in {"start", "post-start"}, NEW ms \in SUBSET Node,
               NEW o \in Orders(ms), NEW q, q = calls(op, o)
        PROVE  Lists(q, op, o, ms)
    <2>1. DOMAIN o = 1 .. Len(o) /\ o \in Seq(ms) /\ \A i \in DOMAIN o : o[i] \in ms
      BY OrderType
    <2>2. ASSUME NEW i \in DOMAIN o
          PROVE  /\ A(op, o[i]) \in Starting(op, ms)
                 /\ A(op, o[i]).op = op /\ A(op, o[i]).on = o[i]
      <3>1. o[i] \in ms /\ o[i] \in Node /\ op \in Op
        BY <2>1 DEF Op
      <3> QED
        BY <3>1, NewCall
    <2> HIDE DEF Starting
    <2> QED
      BY <1>4, <2>1, <2>2
  <1>5. PICK a, b, p : /\ a = calls("start", start)
                       /\ b = calls("post-start", tell)
                       /\ p = calls("promote", promote)
    OBVIOUS
  <1>6. /\ p \in Seq(Starting("promote", best)) /\ Len(p) =< 1
        /\ Len(p) > 0 => \A n \in Node : role[n] # "master"
    <2>1. CASE promote = <<>>
      <3>1. p = <<>>
        BY <1>5, <2>1
      <3> QED
        BY <3>1
    <2>2. CASE /\ \E n \in best : promote = <<n>>
               /\ \A n \in Node : role[n] # "master"
      <3>1. PICK n \in best : promote = <<n>>
        BY <2>2
      <3>2. n \in Node
        BY <1>3
      <3>3. A("promote", n) \in Call /\ A("promote", n).op = "promote" /\ A("promote", n).on = n
        BY <3>2, NewCall DEF Op
      <3>4. p = <<A("promote", n)>>
        BY <1>5, <3>1
      <3>5. A("promote", n) \in Starting("promote", best)
        BY <3>1, <3>3
      <3> HIDE DEF Starting
      <3> QED
        BY <2>2, <3>4, <3>5
    <2> QED
      BY <1>2, <2>1, <2>2
  <1> HIDE DEF ns, best, calls, Told, Promotable, Lists
  <1>7. Lists(a, "start", start, ns) /\ Lists(b, "post-start", tell, Told)
    <2>1. Lists(a, "start", start, ns)
      BY <1>2, <1>3, <1>4, <1>5
    <2>2. Lists(b, "post-start", tell, Told)
      BY <1>2, <1>3, <1>4, <1>5
    <2> QED
      BY <2>1, <2>2
  <1>8. todo' = a \o b \o p
    BY <1>2, <1>5
  <1>9. /\ a \in Seq(Starting("start", ns)) /\ b \in Seq(Starting("post-start", Told))
        /\ Len(a) = Len(start) /\ DOMAIN start = 1 .. Len(start)
        /\ \A i \in DOMAIN start : a[i].op = "start" /\ a[i].on = start[i]
    BY <1>7 DEF Lists
  <1>10. a \in Seq(Call) /\ b \in Seq(Call) /\ p \in Seq(Call)
    BY <1>6, <1>9
  <1>11. /\ todo' \in Seq(Call) /\ Len(todo') = Len(a) + Len(b) + Len(p)
         /\ Len(a) \in Nat /\ Len(b) \in Nat /\ Len(p) \in Nat
         /\ \A i \in 1 .. Len(a) : todo'[i] = a[i]
         /\ \A i \in 1 .. Len(b) : todo'[Len(a) + i] = b[i]
         /\ \A i \in 1 .. Len(p) : todo'[Len(a) + Len(b) + i] = p[i]
    BY <1>8, <1>10, ThreeParts
  <1>12. /\ \A i \in 1 .. Len(a) : a[i] \in Starting("start", ns)
         /\ \A i \in 1 .. Len(b) : b[i] \in Starting("post-start", Told)
         /\ \A i \in 1 .. Len(p) : p[i] \in Starting("promote", best)
    BY <1>6, <1>9
  <1>13. ASSUME NEW i \in 1 .. Len(todo')
         PROVE  \/ i \in 1 .. Len(a) /\ todo'[i].op = "start" /\ todo'[i].on \in ns
                \/ i > Len(a) /\ todo'[i].op = "post-start" /\ todo'[i].on \in Told
                \/ /\ i = Len(todo') /\ i > Len(a)
                   /\ todo'[i].op = "promote" /\ todo'[i].on \in best
                   /\ \A n \in Node : role[n] # "master"
    <2> DEFINE la == Len(a)
               lb == Len(b)
               lp == Len(p)
    <2>0. la \in Nat /\ lb \in Nat /\ lp \in Nat /\ i \in Nat
      BY <1>11
    <2>1. CASE i \in 1 .. Len(a)
      BY <1>11, <1>12, <2>1
    <2>2. CASE i - Len(a) \in 1 .. Len(b)
      <3>1. PICK k \in 1 .. Len(b) : i = Len(a) + k
        <4>1. i - la \in 1 .. lb
          BY <2>2
        <4> HIDE DEF la, lb, lp
        <4>2. \E k \in 1 .. lb : i = la + k
          BY <2>0, <4>1
        <4> QED
          BY <4>2 DEF la, lb
      <3>2. i > Len(a)
        BY <1>11, <3>1
      <3> QED
        BY <1>11, <1>12, <3>1, <3>2
    <2>3. CASE i - (Len(a) + Len(b)) \in 1 .. Len(p)
      <3>1. PICK k \in 1 .. Len(p) : i = Len(a) + Len(b) + k
        <4>1. i - (la + lb) \in 1 .. lp
          BY <2>3
        <4> HIDE DEF la, lb, lp
        <4>2. \E k \in 1 .. lp : i = la + lb + k
          BY <2>0, <4>1
        <4> QED
          BY <4>2 DEF la, lb, lp
      <3>2. i = Len(todo') /\ i > Len(a) /\ Len(p) > 0
        BY <1>6, <1>11, <3>1
      <3> QED
        BY <1>6, <1>11, <1>12, <3>1, <3>2
    <2> QED
      BY <1>11, <2>1, <2>2, <2>3
  <1>14. ASSUME NEW n \in ns
         PROVE  \E i \in 1 .. Len(todo') : todo'[i].op = "start" /\ todo'[i].on = n
    <2>1. PICK i \in DOMAIN start : start[i] = n
      BY <1>2, <1>14 DEF Orders
    <2>2. i \in 1 .. Len(a) /\ i \in 1 .. Len(todo')
      BY <1>9, <1>11
    <2> QED
      BY <1>9, <1>11, <2>1, <2>2
  <1>15. ASSUME NEW i \in 1 .. Len(todo'), NEW j \in 1 .. Len(todo'), i < j
         PROVE  /\ todo'[i].op # "promote"
                /\ todo'[j].op = "start" => todo'[i].on # todo'[j].on
    <2>1. todo'[i].op # "promote"
      <3>1. i # Len(todo')
        BY <1>11, <1>15
      <3> QED
        BY <1>13, <3>1
    <2>2. ASSUME todo'[j].op = "start" PROVE todo'[i].on # todo'[j].on
      <3>1. j \in 1 .. Len(a)
        BY <1>13, <2>2
      <3>2. i \in DOMAIN start /\ j \in DOMAIN start /\ i \in 1 .. Len(a)
        BY <1>9, <1>11, <1>15, <3>1
      <3>3. start[i] # start[j]
        BY <1>2, <1>3, <1>15, <3>2, OrderDistinct
      <3> QED
        BY <1>9, <1>11, <3>1, <3>2, <3>3
    <2> QED
      BY <2>1, <2>2
  <1>16. \A i \in 1 .. Len(todo') :
            /\ todo'[i].op \in {"start", "post-start", "promote"}
            /\ todo'[i].op = "start" => todo'[i].on \in ns
            /\ todo'[i].op = "post-start" =>
                  todo'[i].on \in Active /\ Other(todo'[i].on) \notin Active
            /\ todo'[i].op = "promote" =>
                  /\ todo'[i].on \in Active \cup (up \ standby) /\ score[todo'[i].on] # 0
                  /\ \A n \in Node : role[n] # "master"
    BY <1>3, <1>13
  <1> QED
    BY <1>1, <1>11, <1>14, <1>15, <1>16 DEF ns

LEMMA StopStep == IInv /\ Stop => IInv'
  <1> SUFFICES ASSUME IInv, Stop PROVE IInv'
    OBVIOUS
  <1>1. /\ todo = <<>> /\ Active \subseteq up /\ todo' \in Seq(Call)
        /\ \A i \in 1 .. Len(todo') : /\ todo'[i].op \in {"stop", "pre-stop"}
                                      /\ todo'[i].on \in Active
    BY StopPlan
  <1>2. TodoOK(todo', up, role)
    <2>1. Len(todo') \in Nat
      BY <1>1
    <2> QED
      BY <1>1, <2>1 DEF TodoOK, CallOK
  <1>3. UNCHANGED <<colod, score, current, up, role, bad, standby, standbys, faults>>
    BY DEF Stop, data, pacemaker
  <1> QED
    BY <1>1, <1>2, <1>3, Transition

LEMMA StartsStep == IInv /\ Start => IInv'
  <1> SUFFICES ASSUME IInv, Start PROVE IInv'
    OBVIOUS
  <1>1. /\ todo = <<>> /\ Active \subseteq up /\ todo' \in Seq(Call)
        /\ \A i \in 1 .. Len(todo') :
              /\ todo'[i].op \in {"start", "post-start", "promote"}
              /\ todo'[i].op = "start" => todo'[i].on \in up \ (standby \cup Active)
              /\ todo'[i].op = "post-start" => todo'[i].on \in Active
              /\ todo'[i].op = "promote" => todo'[i].on \in Active \cup (up \ standby)
        /\ \A i, j \in 1 .. Len(todo') : i < j => todo'[i].op # "promote"
    BY StartPlan
  <1>2. up \subseteq Node
    BY DEF IInv, TypeOK
  <1>3. \A i \in 1 .. Len(todo') : /\ CallOK(todo'[i], up, role)
                                   /\ todo'[i].op \notin {"promoted", "score"}
    BY <1>1, <1>2 DEF CallOK, Active
  <1>4. TodoOK(todo', up, role)
    <2>1. Len(todo') \in Nat
      BY <1>1
    <2> QED
      BY <1>1, <1>3, <2>1 DEF TodoOK
  <1>5. UNCHANGED <<colod, score, current, up, role, bad, standby, standbys, faults>>
    BY DEF Start, data, pacemaker
  <1> QED
    BY <1>1, <1>3, <1>4, <1>5, Transition

-----------------------------------------------------------------------------

LEMMA InitInv == Init => IInv
  <1> SUFFICES ASSUME Init PROVE IInv
    OBVIOUS
  <1>1. Off \in Colod /\ Off.run = "no"
    BY DEF Off, Quiet, Colod, Status
  <1>2. First \in Node
    BY AgentAssumption
  <1>3. TypeOK
    BY <1>1, <1>2 DEF Init, TypeOK
  <1>4. TodoInv
    BY DEF Init, TodoInv, TodoOK
  <1>5. ASSUME NEW n \in Node PROVE NodeInv(n)
    <2>1. colod[n] = Off /\ todo = <<>>
      BY DEF Init
    <2> QED
      BY <1>1, <2>1 DEF NodeInv, HeadIs, Answers
  <1> QED
    BY <1>3, <1>4, <1>5 DEF IInv

LEMMA NextInv == IInv /\ [Next]_vars => IInv'
  <1> SUFFICES ASSUME IInv, [Next]_vars PROVE IInv'
    OBVIOUS
  <1>1. CASE AgentCall
    BY <1>1, AgentCallStep
  <1>2. CASE Decide
    BY <1>2, StopStep, StartsStep, FenceStep DEF Decide
  <1>3. CASE BothFail
    BY <1>3, BothFailStep
  <1>4. CASE Online
    BY <1>4, StandbyStep
  <1>5. CASE \E ns \in SUBSET Node : Standby(ns)
    BY <1>5, StandbyStep
  <1>6. ASSUME NEW n \in Node,
               \/ Monitor(n) \/ ColodStep(n) \/ Write(n) \/ Boot(n)
               \/ Crash(n) \/ Fail(n) \/ LinkBreaks(n) \/ ColodDies(n)
        PROVE  IInv'
    BY <1>6, MonitorStep, ColodStepStep, BootStep, CrashStep, FaultStep
  <1>7. CASE UNCHANGED vars
    <2>1. TypeOK' /\ Kept
      BY <1>7, SameKeeps DEF vars, data, pacemaker, IInv, TypeOK
    <2> QED
      BY <1>7, <2>1, QuietStep DEF vars, data, pacemaker
  <1> QED
    BY <1>1, <1>2, <1>3, <1>4, <1>5, <1>6, <1>7 DEF Next

\* The type invariant holds for every pair of nodes, every kind of fault and
\* every bound.
THEOREM AgentTypeCorrect == Spec => []TypeOK
  <1>1. IInv => TypeOK
    BY DEF IInv
  <1> QED
    BY InitInv, NextInv, <1>1, PTL DEF Spec

\* What qemu_colo_monitor reports of an instance that answers is the role
\* Pacemaker has given to it, for every choice of the constants: also when a crash
\* ends a transition half way, and when the secondary took over long before its
\* promote.
THEOREM RolesReported == Spec => []RoleReported
  <1>1. IInv => RoleReported
    <2> SUFFICES ASSUME IInv, NEW n \in Node, Monitored(n), Sound(n)
                 PROVE  (role[n] = "master") =
                           (colod[n].status.primary /\ ~colod[n].pretend_secondary)
      BY DEF RoleReported
    <2>1. NodeInv(n) /\ role[n] \in {"slave", "master"} /\ Answers(n)
      BY DEF IInv, TypeOK, Monitored, Active, Sound
    <2>2. ~HeadIs("promoted", n)
      BY DEF Monitored, HeadIs
    <2> QED
      BY <2>1, <2>2 DEF NodeInv
  <1> QED
    BY InitInv, NextInv, <1>1, PTL DEF Spec
-----------------------------------------------------------------------------
(***************************************************************************)
(* GuestHasRecentData.  What can be said of the data depends on the other  *)
(* node, on what the agent is about to do and on what it has read before,  *)
(* so the invariant speaks of a node n, of its peer m and of the calls.    *)
(***************************************************************************)

\* The call that is under way, and those which are planned to follow it.
Busy == todo # <<>>
Hd == Head(todo)
At(op, n) == Busy /\ Hd.op = op /\ Hd.on = n

Behind(s, op, n, all) ==
    \E i \in 2 .. Len(s) : s[i].op = op /\ s[i].on = n /\ s[i].all \in all
Later(op, n) == Behind(todo, op, n, BOOLEAN)
LaterAll(n) == Behind(todo, "stop", n, {TRUE})
LaterOne(n) == Behind(todo, "stop", n, {FALSE})
Planned(op, n) == At(op, n) \/ Later(op, n)

\* The calls that can be planned, those that start instances and those that stop
\* them.
Rear == {"start", "stop", "pre-stop", "post-start", "promote"}
StartOps == {"promote", "post-start", "promoted", "resync", "set-peer"}
StopOps == {"stop", "kill", "score"}

\* A promote is the last call, an instance is started before any other call to
\* it, and no transition both starts and stops.
Form(s) ==
    /\ \A i \in 2 .. Len(s) : s[i].op \in Rear
    /\ \A i, j \in 1 .. Len(s) : i < j =>
          /\ s[i].op \notin {"promote", "promoted"}
          /\ s[j].op = "start" => s[i].on # s[j].on
          /\ s[i].op \in StartOps => s[j].op \notin StopOps
          /\ s[i].op \in StopOps => s[j].op \notin StartOps

\* colod on n has the guest; it and its peer run it together; it takes part in
\* that or runs it alone.
Owns(n) == Sound(n) /\ colod[n].guest
Linked(n) ==
    /\ Sound(n)
    /\ colod[n].migration = "colo" \/ (colod[n].status.replication /\ colod[n].migration = "none")
Engaged(n) == Sound(n) /\ (InUse(n) \/ colod[n].migration # "none")

Halting(n) == Planned("stop", n) \/ At("kill", n) \/ At("score", n)
Spared(n) == n \notin standby /\ ~Halting(n)
Leads(n) == role[n] = "master" \/ At("promoted", n)
Scored(n) == score[n] # 0

\* The data of qemu: what a secondary, a primary and a pair can be.
Shape(n) ==
    LET c == colod[n] IN
    /\ ~c.status.primary =>
          /\ c.resync = "none" /\ c.migration # "active"
          /\ c.migration = "failover" => c.status.replication
    /\ c.status.replication => c.migration \in {"none", "failover"}
    /\ c.status.replication \/ c.migration # "none" => c.resync = "none"
    /\ c.run = "qemu" => ~c.status.primary
    /\ c.guest => InUse(n) \/ c.migration # "none"
    /\ Sound(n) /\ ~InUse(n) => ~c.status.peer_failed

\* The guest runs on one node, or on both together.
Pair(n, m) ==
    /\ Engaged(n) /\ Engaged(m) => Linked(n)
    /\ Linked(n) =>
          /\ Linked(m) /\ (colod[n].status.primary <=> ~colod[m].status.primary)
          /\ ~colod[n].status.peer_failed /\ colod[n].guest

\* Who has the guest, or would get it if nobody has it, has the data.
Recent(n, m) ==
    /\ Owns(n) => n \in current
    /\ ~Owns(m) /\ Scored(n) => n \in current
    /\ Sound(n) /\ InUse(n) /\ ~colod[n].guest => n \in standby /\ n \in current
    /\ Planned("promote", n) => n \in current /\ (Owns(m) => Owns(n))

\* n is going to lose its score, or is gone.
Falls(n) ==
    \/ n \notin up
    \/ /\ ~LaterAll(n)
       /\ At("stop", n) \/ At("kill", n) \/ At("score", n) => ~Hd.all
       /\ IF At("kill", n) \/ At("score", n)
          THEN Hd.known /\ Hd.status.replication /\ ~Hd.status.peer_failed
          ELSE Answers(n) /\ colod[n].status.replication /\ ~colod[n].status.peer_failed

\* A node without the guest keeps its score only while the other one is master
\* or becomes it, or until the stop that is planned takes the score away.
Scores(n, m) ==
    /\ Owns(m) /\ ~Owns(n) /\ Scored(n) =>
          /\ Spared(m)
          /\ \/ Leads(m) \/ At("post-stop", m)
             \/ (role[n] = "master" \/ At("score", n)) /\ Falls(n)
    /\ Sound(n) /\ ~colod[n].status.primary /\ colod[n].migration = "colo" =>
          (~Scored(n) \/ Leads(m)) /\ ~Planned("promote", n)

\* n has failed, and a stop will leave it a score.
Lost(n) ==
    /\ Answers(n) /\ colod[n].status.failed /\ InUse(n)
    /\ colod[n].status.peer_failed \/ ~colod[n].status.replication

Failures(n, m) ==
    /\ Lost(n) /\ ~Owns(m) => n \in current
    /\ Lost(n) /\ Owns(m) => Spared(m) /\ Leads(m)
    /\ Answers(n) /\ colod[n].status.failed /\ colod[n].status.replication
          /\ ~colod[n].status.peer_failed => Owns(m) /\ Spared(m)

\* calculate_master_score gives a score for this status.
Gets(s, all) ==
    /\ s.primary \/ s.replication
    /\ IF all THEN ~(s.replication /\ s.failed)
       ELSE s.peer_failed \/ (s.primary /\ ~s.replication)
ToScore(n) == (At("kill", n) \/ At("score", n)) /\ Hd.known /\ Gets(Hd.status, Hd.all)

\* What was read at the beginning of a stop is still true when it is used.
Statuses(n, m) ==
    /\ ToScore(n) /\ ~Owns(m) => n \in current
    /\ ToScore(n) /\ Owns(m) /\ ~Owns(n) => Spared(m) /\ role[m] = "master"
    /\ At("kill", n) /\ Sound(n) /\ (Linked(n) \/ ~InUse(n)) =>
          /\ Hd.known /\ ~Hd.status.failed /\ ~Hd.status.peer_failed
          /\ Hd.status.replication \/ ~Hd.status.primary
    /\ At("kill", n) /\ Linked(n) => Hd.status.replication \/ role[m] = "master" \/ ~Scored(n)

StopsAll(n) == LaterAll(n) \/ ((At("stop", n) \/ At("kill", n)) /\ Hd.all)
StopsOne(n) == LaterOne(n) \/ ((At("stop", n) \/ At("kill", n)) /\ ~Hd.all)
Resyncs(n) ==
    /\ Sound(n) /\ colod[n].status.primary
    /\ colod[n].resync # "none" \/ colod[n].migration = "active"
\* A call to n that is part of the start of an instance or follows one.
Begun(n) ==
    \/ Planned("promote", n) \/ Planned("post-start", n)
    \/ At("promoted", n) \/ At("resync", n) \/ At("set-peer", n)

\* Both nodes of a pair are stopped only by the administrator.
Stops(n, m) ==
    /\ Linked(n) /\ StopsAll(n) => n \in standby /\ m \in standby
    /\ Linked(n) /\ StopsOne(n) => m \notin bad /\ Spared(m)
    /\ Linked(n) /\ n \in standby => colod[n].status.replication
    /\ Linked(n) /\ colod[n].status.primary /\ Planned("stop", n) => colod[n].status.replication
    /\ Linked(n) /\ (n \in standby \/ m \in standby) => n \notin bad
    /\ Resyncs(n) => Spared(n) /\ m \notin standby /\ ~StopsAll(m)
    /\ n \in standby /\ (Begun(n) \/ Begun(m)) => role[n] = "stopped" /\ ~Planned("start", n)

\* The calls fit the roles.
Calls(n, m) ==
    /\ Planned("start", n) => role[n] = "stopped"
    /\ Planned("promote", n) =>
          /\ role[n] # "master" /\ role[m] # "master"
          /\ role[n] # "stopped" \/ Planned("start", n)
    /\ At("promoted", n) => role[m] # "master"
    /\ At("post-stop", n) => role[m] = "stopped"
    /\ At("resync", n) \/ At("set-peer", n) \/ At("promoted", n) =>
          Owns(n) /\ colod[n].status.primary
    /\ role[n] = "master" => role[m] # "master"

\* Pacemaker gives up no instance that has the guest.
Bad(n) ==
    /\ n \in bad => role[n] # "stopped"
    /\ Sound(n) /\ (colod[n].status.primary \/ colod[n].migration = "failover") => n \notin bad
    /\ Planned("promote", n) /\ Sound(n) /\ ~InUse(n) => n \notin bad

\* Until something happens to it, the pair starts up as it was installed.
Young == faults + standbys = 0
Begins(n, m) ==
    Young =>
      /\ n \in up /\ n \notin bad /\ n \notin standby
      /\ role[n] # "stopped" => Answers(n)
      /\ ~colod[n].status.failed /\ ~colod[n].status.peer_failed
      /\ colod[n].migration # "failover" /\ colod[n].resync # "error"
      /\ colod[n].resync # "none" => role[m] # "stopped"
      /\ Scored(n) => n = First \/ Linked(n)
      /\ colod[n].status.primary => n = First /\ Leads(n)
      /\ Planned("promote", n) => n = First
      /\ ~Halting(n) /\ ~Planned("post-start", n)
      /\ At("resync", n) \/ At("set-peer", n) \/ At("promoted", n) =>
            /\ colod[n].migration = "none" /\ ~colod[n].status.replication
            /\ ~At("set-peer", n) => colod[n].resync = "none"
      /\ role[n] = "stopped" => Planned("start", n) \/ (~Busy /\ role[m] = "stopped")

PairInv(n, m) ==
    /\ Shape(n) /\ Pair(n, m) /\ Recent(n, m) /\ Scores(n, m) /\ Failures(n, m)
    /\ Statuses(n, m) /\ Stops(n, m) /\ Calls(n, m) /\ Bad(n) /\ Begins(n, m)

GuestInv == Form(todo) /\ \A n \in Node : PairInv(n, Other(n))

-----------------------------------------------------------------------------
(* The calls of todo. *)

LEMMA BehindTail ==
    ASSUME NEW s \in Seq(Call), s # <<>>, NEW op, NEW n, NEW all
    PROVE  Behind(s, op, n, all) <=>
              \/ /\ Tail(s) # <<>> /\ Head(Tail(s)).op = op /\ Head(Tail(s)).on = n
                 /\ Head(Tail(s)).all \in all
              \/ Behind(Tail(s), op, n, all)
  <1> DEFINE t == Tail(s)
  <1>1. /\ t \in Seq(Call) /\ Len(t) = Len(s) - 1 /\ Len(s) \in Nat /\ Len(s) > 0
        /\ \A i \in 1 .. Len(s) - 1 : t[i] = s[i + 1]
    OBVIOUS
  <1> HIDE DEF t
  <1>2. (t # <<>> <=> Len(s) > 1) /\ (t # <<>> => Head(t) = s[2])
    <2>1. t # <<>> <=> Len(t) > 0
      BY <1>1
    <2>2. ASSUME t # <<>> PROVE Head(t) = t[1]
      BY <1>1, <2>2
    <2>3. ASSUME t # <<>> PROVE t[1] = s[2]
      BY <1>1, <2>1, <2>3
    <2> QED
      BY <1>1, <2>1, <2>2, <2>3
  <1>3. ASSUME Behind(s, op, n, all)
        PROVE  \/ t # <<>> /\ Head(t).op = op /\ Head(t).on = n /\ Head(t).all \in all
               \/ Behind(t, op, n, all)
    <2>1. PICK i \in 2 .. Len(s) : s[i].op = op /\ s[i].on = n /\ s[i].all \in all
      BY <1>3 DEF Behind
    <2>2. CASE i = 2
      BY <1>1, <1>2, <2>1, <2>2
    <2>3. CASE i # 2
      <3>1. i - 1 \in 2 .. Len(t) /\ t[i - 1] = s[i]
        BY <1>1, <2>1, <2>3
      <3> QED
        BY <2>1, <3>1 DEF Behind
    <2> QED
      BY <2>2, <2>3
  <1>4. ASSUME t # <<>>, Head(t).op = op, Head(t).on = n, Head(t).all \in all
        PROVE  Behind(s, op, n, all)
    <2>1. 2 \in 2 .. Len(s) /\ Head(t) = s[2]
      BY <1>1, <1>2, <1>4
    <2> QED
      BY <1>4, <2>1 DEF Behind
  <1>5. ASSUME Behind(t, op, n, all) PROVE Behind(s, op, n, all)
    <2>1. PICK i \in 2 .. Len(t) : t[i].op = op /\ t[i].on = n /\ t[i].all \in all
      BY <1>5 DEF Behind
    <2>2. i + 1 \in 2 .. Len(s) /\ s[i + 1] = t[i]
      BY <1>1, <2>1
    <2> QED
      BY <2>1, <2>2 DEF Behind
  <1> QED
    BY <1>3, <1>4, <1>5 DEF t

LEMMA BehindReplaced ==
    ASSUME NEW s \in Seq(Call), s # <<>>, NEW c \in Call, NEW op, NEW n, NEW all
    PROVE  Behind(<<c>> \o Tail(s), op, n, all) <=> Behind(s, op, n, all)
  <1> DEFINE t == <<c>> \o Tail(s)
  <1>1. Len(t) = Len(s) /\ \A i \in 2 .. Len(s) : t[i] = s[i]
    OBVIOUS
  <1> HIDE DEF t
  <1>2. Behind(t, op, n, all) <=> Behind(s, op, n, all)
    BY <1>1 DEF Behind
  <1> QED
    BY <1>2 DEF t

LEMMA FormTail ==
    ASSUME NEW s \in Seq(Call), s # <<>>, Form(s)
    PROVE  Form(Tail(s))
  <1> DEFINE t == Tail(s)
  <1>1. /\ t \in Seq(Call) /\ Len(t) = Len(s) - 1 /\ Len(s) \in Nat /\ Len(s) > 0
        /\ \A i \in 1 .. Len(s) - 1 : t[i] = s[i + 1]
    OBVIOUS
  <1> HIDE DEF t
  <1>2. ASSUME NEW i \in 1 .. Len(t)
        PROVE  i + 1 \in 2 .. Len(s) /\ i + 1 \in 1 .. Len(s) /\ t[i] = s[i + 1]
    BY <1>1
  <1>3. \A i \in 2 .. Len(t) : t[i].op \in Rear
    <2> TAKE i \in 2 .. Len(t)
    <2>1. i \in 1 .. Len(t)
      BY <1>1
    <2> QED
      BY <1>2, <2>1 DEF Form
  <1>4. ASSUME NEW i \in 1 .. Len(t), NEW j \in 1 .. Len(t), i < j
        PROVE  /\ t[i].op \notin {"promote", "promoted"}
               /\ t[j].op = "start" => t[i].on # t[j].on
               /\ t[i].op \in StartOps => t[j].op \notin StopOps
               /\ t[i].op \in StopOps => t[j].op \notin StartOps
    <2>1. i + 1 < j + 1
      BY <1>1, <1>4
    <2> QED
      BY <1>2, <2>1 DEF Form
  <1>5. Form(t)
    BY <1>3, <1>4 DEF Form
  <1> QED
    BY <1>5 DEF t

LEMMA FormReplaced ==
    ASSUME NEW s \in Seq(Call), s # <<>>, Form(s), NEW c \in Call, c.on = Head(s).on,
           c.op \in {"promote", "promoted"} => Head(s).op \in {"promote", "promoted"},
           c.op \in StartOps => Head(s).op \in StartOps,
           c.op \in StopOps => Head(s).op \in StopOps
    PROVE  Form(<<c>> \o Tail(s))
  <1> DEFINE t == <<c>> \o Tail(s)
  <1>1. /\ Len(t) = Len(s) /\ Len(s) \in Nat /\ Len(s) > 0
        /\ t[1] = c /\ Head(s) = s[1]
        /\ \A i \in 2 .. Len(s) : t[i] = s[i]
    OBVIOUS
  <1> HIDE DEF t
  <1>2. ASSUME NEW i \in 1 .. Len(s), NEW j \in 1 .. Len(s), i < j
        PROVE  /\ t[i].op \notin {"promote", "promoted"}
               /\ t[j].op = "start" => t[i].on # t[j].on
               /\ t[i].op \in StartOps => t[j].op \notin StopOps
               /\ t[i].op \in StopOps => t[j].op \notin StartOps
    <2>1. /\ s[i].op \notin {"promote", "promoted"}
          /\ s[j].op = "start" => s[i].on # s[j].on
          /\ s[i].op \in StartOps => s[j].op \notin StopOps
          /\ s[i].op \in StopOps => s[j].op \notin StartOps
      BY <1>2 DEF Form
    <2>2. t[j] = s[j] /\ (i = 1 \/ t[i] = s[i])
      BY <1>1, <1>2
    <2> QED
      BY <1>1, <2>1, <2>2
  <1>3. Form(t)
    BY <1>1, <1>2 DEF Form
  <1> QED
    BY <1>3 DEF t

LEMMA FormShort ==
    ASSUME NEW s \in Seq(Call), Len(s) =< 1
    PROVE  Form(s) /\ \A op, n, all : ~Behind(s, op, n, all)
  BY DEF Form, Behind

LEMMA FormBehind ==
    ASSUME NEW s \in Seq(Call), Form(s), NEW op, NEW n, Behind(s, op, n, BOOLEAN)
    PROVE  /\ s # <<>> /\ op \in Rear /\ Head(s).op \notin {"promote", "promoted"}
           /\ op = "start" => Head(s).on # n
           /\ Head(s).op \in StartOps => op \notin StopOps
           /\ Head(s).op \in StopOps => op \notin StartOps
  <1>1. PICK i \in 2 .. Len(s) : s[i].op = op /\ s[i].on = n
    BY DEF Behind
  <1>2. 1 \in 1 .. Len(s) /\ i \in 1 .. Len(s) /\ 1 < i /\ s # <<>> /\ Head(s) = s[1]
    BY <1>1
  <1> QED
    BY <1>1, <1>2 DEF Form

LEMMA BehindStop ==
    ASSUME NEW s \in Seq(Call), NEW n
    PROVE  Behind(s, "stop", n, BOOLEAN) <=>
              Behind(s, "stop", n, {TRUE}) \/ Behind(s, "stop", n, {FALSE})
  <1>1. \A i \in 2 .. Len(s) : s[i] \in Call
    OBVIOUS
  <1>2. \A i \in 2 .. Len(s) : s[i].all \in BOOLEAN
    BY <1>1 DEF Call
  <1> QED
    BY <1>2 DEF Behind

\* What follows of Form for the call that is under way.
Orderly ==
    /\ \A op, n : Later(op, n) =>
          /\ Busy /\ op \in Rear /\ Hd.op \notin {"promote", "promoted"}
          /\ op = "start" => Hd.on # n
          /\ Hd.op \in StartOps => op \notin StopOps
          /\ Hd.op \in StopOps => op \notin StartOps
    /\ \A n : Later("stop", n) <=> LaterAll(n) \/ LaterOne(n)

\* What a step does to todo: it leaves all but the first call, or ends that call.
RestKept ==
    /\ \A op, n : Later(op, n)' <=> Later(op, n)
    /\ \A n : (LaterAll(n)' <=> LaterAll(n)) /\ (LaterOne(n)' <=> LaterOne(n))
HeadGone ==
    /\ \A op, n : Later(op, n) <=> At(op, n)' \/ Later(op, n)'
    /\ \A n : LaterAll(n) <=> (At("stop", n)' /\ Hd'.all) \/ LaterAll(n)'
    /\ \A n : LaterOne(n) <=> (At("stop", n)' /\ ~Hd'.all) \/ LaterOne(n)'

LEMMA TodoOrderly ==
    ASSUME todo \in Seq(Call), Form(todo)
    PROVE  Orderly
  BY FormBehind, BehindStop DEF Orderly, Later, LaterAll, LaterOne, Busy, Hd

LEMMA TodoOrderlyNext ==
    ASSUME todo' \in Seq(Call), Form(todo')
    PROVE  Orderly'
  BY FormBehind, BehindStop DEF Orderly, Later, LaterAll, LaterOne, Busy, Hd

LEMMA TodoKept ==
    ASSUME todo \in Seq(Call), Form(todo), todo' = todo
    PROVE  Form(todo') /\ Orderly /\ Orderly' /\ (Busy' <=> Busy) /\ Hd' = Hd /\ RestKept
  <1>1. Form(todo') /\ Orderly /\ Orderly'
    BY TodoOrderly, TodoOrderlyNext
  <1> QED
    BY <1>1 DEF Busy, Hd, RestKept, Later, LaterAll, LaterOne

LEMMA HeadReplaced ==
    ASSUME todo \in Seq(Call), Form(todo), Busy, NEW c \in Call, c.on = Hd.on,
           todo' = <<c>> \o Tail(todo),
           c.op \in {"promote", "promoted"} => Hd.op \in {"promote", "promoted"},
           c.op \in StartOps => Hd.op \in StartOps,
           c.op \in StopOps => Hd.op \in StopOps
    PROVE  Form(todo') /\ Orderly /\ Orderly' /\ Busy' /\ Hd' = c /\ RestKept
  <1>1. todo # <<>> /\ Hd = Head(todo)
    BY DEF Busy, Hd
  <1>2. Form(todo')
    BY <1>1, FormReplaced
  <1>3. todo' \in Seq(Call) /\ todo' # <<>> /\ Head(todo') = c
    BY <1>1
  <1>4. Orderly /\ Orderly'
    BY <1>2, <1>3, TodoOrderly, TodoOrderlyNext
  <1>5. \A op, n, all : Behind(todo', op, n, all) <=> Behind(todo, op, n, all)
    BY <1>1, BehindReplaced
  <1> QED
    BY <1>2, <1>3, <1>4, <1>5 DEF Busy, Hd, RestKept, Later, LaterAll, LaterOne

LEMMA HeadDone ==
    ASSUME todo \in Seq(Call), Form(todo), Busy, todo' = Tail(todo)
    PROVE  Form(todo') /\ Orderly /\ Orderly' /\ HeadGone
  <1>1. todo # <<>> /\ todo' \in Seq(Call)
    BY DEF Busy
  <1>2. Form(todo')
    BY <1>1, FormTail
  <1>3. Orderly /\ Orderly'
    BY <1>1, <1>2, TodoOrderly, TodoOrderlyNext
  <1>4. todo' # <<>> => Head(todo') \in Call /\ Head(todo').all \in BOOLEAN
    <2>1. todo' # <<>> => Head(todo') \in Call
      BY <1>1
    <2> QED
      BY <2>1 DEF Call
  <1>5. \A op, n, all : Behind(todo, op, n, all) <=>
           \/ /\ todo' # <<>> /\ Head(todo').op = op /\ Head(todo').on = n
              /\ Head(todo').all \in all
           \/ Behind(todo', op, n, all)
    BY <1>1, BehindTail
  <1>6. HeadGone
    BY <1>4, <1>5 DEF HeadGone, At, Busy, Hd, Later, LaterAll, LaterOne
  <1> QED
    BY <1>2, <1>3, <1>6

-----------------------------------------------------------------------------
(* What is known of the two nodes before a step, and to be shown after it. *)

Known(x, y) ==
    /\ x # y /\ Other(x) = y /\ Other(y) = x
    /\ IInv /\ NodeInv(x) /\ NodeInv(y)
    /\ Form(todo) /\ PairInv(x, y) /\ PairInv(y, x)
KnownNext(x, y) == Form(todo') /\ PairInv(x, y)' /\ PairInv(y, x)'

LEMMA HeadAt == \A op, n : HeadIs(op, n) <=> At(op, n)
  BY DEF HeadIs, At, Busy, Hd

\* d is what becomes of c when the other node is gone.
Notices(c, d) ==
    /\ d.run = c.run /\ d.resync = c.resync /\ (d.guest <=> c.guest)
    /\ d.status.primary <=> c.status.primary
    /\ d.status.replication <=> c.status.replication
    /\ d.status.failed <=> \/ c.status.failed
                           \/ /\ c.run = "yes" /\ ~c.status.primary
                              /\ ~c.status.replication /\ c.migration = "colo"
    /\ d.status.peer_failed <=> \/ c.status.peer_failed
                                \/ /\ c.run = "yes"
                                   /\ c.status.primary \/ c.status.replication
    /\ d.migration =
          IF /\ c.run = "yes"
             /\ c.status.replication \/ (c.status.primary /\ c.migration # "none")
          THEN "failover" ELSE c.migration
Blank(c) ==
    /\ ~c.status.primary /\ ~c.status.replication /\ ~c.status.failed
    /\ ~c.status.peer_failed /\ c.migration = "none" /\ c.resync = "none" /\ ~c.guest

LEMMA NoticedFields ==
    ASSUME NEW c \in Colod
    PROVE  Notices(c, Noticed(c))
  <1>1. CASE c.run # "yes"
    BY <1>1 DEF Noticed, Notices
  <1>2. CASE c.run = "yes" /\ (c.status.replication \/ (c.status.primary /\ c.migration # "none"))
    BY <1>2 DEF Noticed, Notices, Colod, Status
  <1>3. CASE c.run = "yes" /\ ~c.status.replication /\ c.status.primary /\ c.migration = "none"
    BY <1>3 DEF Noticed, Notices, Colod, Status
  <1>4. CASE c.run = "yes" /\ ~c.status.replication /\ ~c.status.primary /\ c.migration = "colo"
    BY <1>4 DEF Noticed, Notices, Colod, Status
  <1>5. CASE c.run = "yes" /\ ~c.status.replication /\ ~c.status.primary /\ c.migration # "colo"
    BY <1>5 DEF Noticed, Notices, Colod, Status
  <1> QED
    BY <1>1, <1>2, <1>3, <1>4, <1>5

LEMMA BecomeFields ==
    ASSUME NEW x \in Node, NEW y \in Node, x # y, TypeOK, NEW c, Become(x, c)
    PROVE  colod'[x] = c /\ colod'[y] = colod[y]
  BY DEF Become, TypeOK

LEMMA LeavesFields ==
    ASSUME NEW x \in Node, NEW y \in Node, x # y, TypeOK, NEW c, Leaves(x, c)
    PROVE  colod'[x] = c /\ Notices(colod[y], colod'[y])
  BY NoticedFields DEF Leaves, TypeOK

LEMMA OffFields ==
    /\ Off.run = "no" /\ Blank(Off)
    /\ Secondary.run = "yes" /\ Blank(Secondary)
  BY DEF Off, Secondary, Quiet, Blank

\* A pair that has settled, and what a fault does to a transition.
Calm(x, y) ==
    /\ ~Busy /\ x \notin bad /\ y \notin bad /\ x \notin standby /\ y \notin standby
    /\ Sound(x) /\ colod[x].status.replication /\ Scored(x)
    /\ Sound(y) /\ colod[y].status.replication /\ Scored(y)
    /\ role[x] = "master" \/ role[y] = "master"

LEMMA SettledFacts ==
    ASSUME NEW x \in Node, NEW y \in Node, Known(x, y), Settled
    PROVE  Calm(x, y)
  <1>1. PICK n \in Node : role[n] = "master" /\ score[n] = 101 /\ score[Other(n)] = 100
    BY DEF Settled
  <1>2. n = x \/ n = y
    BY OtherNode DEF Known
  <1> QED
    BY <1>1, <1>2 DEF Settled, Calm, Known, Busy, Scored

\* What is not assumed to happen: that the colod of a master dies; that the first
\* fault is a failure of one qemu or of the link before the pair has settled; and
\* that it comes while the pair stops or restarts after a standby.
TimelyFaults ==
    /\ "colod master" \notin Faults
    /\ "fail" \notin AnyTime /\ "link" \notin AnyTime
    /\ DuringStandby = {}

LEMMA FaultFacts ==
    ASSUME NEW x \in Node, NEW y \in Node, Known(x, y), NEW kind, Fault(kind),
           standbys' = standbys, TimelyFaults
    PROVE  ~Young' /\ (Calm(x, y) \/ (Young /\ kind \in AnyTime))
  <1>1. faults \in Nat /\ standbys \in Nat
    BY DEF Known, IInv, TypeOK
  <1>2. DuringStandby = {}
    BY DEF TimelyFaults
  <1> QED
    BY <1>1, <1>2, SettledFacts DEF Fault, Young

\* Of what was planned, only the call to n is left.
OnlyCall(n) ==
    /\ Busy' <=> Busy /\ Hd.on = n
    /\ Busy' => Hd' = Hd
    /\ \A op, m : ~Later(op, m)'
    /\ \A m : ~LaterAll(m)' /\ ~LaterOne(m)'

LEMMA TodoShort ==
    ASSUME NEW x \in Node, NEW y \in Node, Known(x, y),
           todo' = IF todo = <<>> \/ Head(todo).on = x THEN <<>> ELSE <<Head(todo)>>
    PROVE  Form(todo') /\ Orderly /\ Orderly' /\ OnlyCall(y)
  <1>1. todo \in Seq(Call) /\ Form(todo)
    BY DEF Known, IInv, TypeOK
  <1>2. todo # <<>> => Head(todo) \in Call /\ Head(todo).on \in Node
    BY HeadCall DEF Known
  <1>3. todo' \in Seq(Call) /\ Len(todo') =< 1
    BY <1>2
  <1>4. /\ todo' # <<>> <=> todo # <<>> /\ Head(todo).on # x
        /\ todo' # <<>> => Head(todo') = Head(todo)
    BY <1>2
  <1>5. todo # <<>> => (Head(todo).on # x <=> Head(todo).on = y)
    BY <1>2, OtherNode DEF Known
  <1>6. Form(todo') /\ \A op, n, all : ~Behind(todo', op, n, all)
    BY <1>3, FormShort
  <1> QED
    BY <1>1, <1>3, <1>4, <1>5, <1>6, TodoOrderly, TodoOrderlyNext
       DEF OnlyCall, Busy, Hd, Later, LaterAll, LaterOne

\* d is what becomes of c when both fail.
Fails(c, d) ==
    /\ d.run = c.run /\ d.migration = c.migration /\ d.resync = c.resync
    /\ ~d.guest /\ d.status.failed /\ d.status.peer_failed
    /\ d.status.primary <=> c.status.primary
    /\ d.status.replication <=> c.status.replication

LEMMA FailsFields ==
    ASSUME NEW c \in Colod
    PROVE  Fails(c, [FailedOf(c) EXCEPT !.status.peer_failed = TRUE])
  <1> DEFINE e == FailedOf(c)
  <1>1. /\ e.run = c.run /\ e.migration = c.migration /\ e.resync = c.resync
        /\ ~e.guest /\ e.status.failed /\ e.status.primary = c.status.primary
        /\ e.status.replication = c.status.replication
        /\ e \in Colod
    BY DEF FailedOf, Colod, Status
  <1> HIDE DEF e
  <1>2. Fails(c, [e EXCEPT !.status.peer_failed = TRUE])
    BY <1>1 DEF Fails, Colod, Status
  <1> QED
    BY <1>2 DEF e

-----------------------------------------------------------------------------
(* The transitions that Pacemaker plans. *)

\* The calls of a sequence, in terms of the first and of the others.
LEMMA PlannedIn ==
    ASSUME NEW s \in Seq(Call), NEW op, NEW n, NEW all
    PROVE  (\E i \in 1 .. Len(s) : s[i].op = op /\ s[i].on = n /\ s[i].all \in all) <=>
              \/ s # <<>> /\ Head(s).op = op /\ Head(s).on = n /\ Head(s).all \in all
              \/ Behind(s, op, n, all)
  <1>1. /\ Len(s) \in Nat /\ (s # <<>> <=> Len(s) > 0)
        /\ s # <<>> => Head(s) = s[1]
    OBVIOUS
  <1>2. \A i \in 1 .. Len(s) : i = 1 \/ i \in 2 .. Len(s)
    BY <1>1
  <1>3. /\ \A i \in 2 .. Len(s) : i \in 1 .. Len(s) /\ s # <<>>
        /\ \A i \in 1 .. Len(s) : s # <<>>
        /\ s # <<>> => 1 \in 1 .. Len(s)
    BY <1>1
  <1> QED
    BY <1>1, <1>2, <1>3 DEF Behind

LEMMA PlannedNext ==
    ASSUME todo' \in Seq(Call), NEW n
    PROVE  /\ \A op : At(op, n)' \/ Later(op, n)' <=>
                 \E i \in 1 .. Len(todo') : todo'[i].op = op /\ todo'[i].on = n
           /\ LaterAll(n)' \/ (At("stop", n)' /\ Hd'.all) <=>
                 \E i \in 1 .. Len(todo') :
                    todo'[i].op = "stop" /\ todo'[i].on = n /\ todo'[i].all
           /\ LaterOne(n)' \/ (At("stop", n)' /\ ~Hd'.all) <=>
                 \E i \in 1 .. Len(todo') :
                    todo'[i].op = "stop" /\ todo'[i].on = n /\ ~todo'[i].all
  <1>1. \A op, all : (\E i \in 1 .. Len(todo') : /\ todo'[i].op = op /\ todo'[i].on = n
                                                 /\ todo'[i].all \in all) <=>
           \/ /\ todo' # <<>> /\ Head(todo').op = op /\ Head(todo').on = n
              /\ Head(todo').all \in all
           \/ Behind(todo', op, n, all)
    BY PlannedIn
  <1>2. /\ \A i \in 1 .. Len(todo') : todo'[i].all \in BOOLEAN
        /\ todo' # <<>> => Head(todo').all \in BOOLEAN
    <2>1. /\ \A i \in 1 .. Len(todo') : todo'[i] \in Call
          /\ todo' # <<>> => Head(todo') \in Call
      OBVIOUS
    <2> QED
      BY <2>1 DEF Call
  <1>3. \A op : At(op, n)' \/ Later(op, n)' <=>
           \E i \in 1 .. Len(todo') : todo'[i].op = op /\ todo'[i].on = n
    <2> TAKE op
    <2>1. (\E i \in 1 .. Len(todo') : /\ todo'[i].op = op /\ todo'[i].on = n
                                      /\ todo'[i].all \in BOOLEAN) <=>
             \/ /\ todo' # <<>> /\ Head(todo').op = op /\ Head(todo').on = n
                /\ Head(todo').all \in BOOLEAN
             \/ Behind(todo', op, n, BOOLEAN)
      BY <1>1
    <2> QED
      BY <1>2, <2>1 DEF At, Busy, Hd, Later
  <1>4. LaterAll(n)' \/ (At("stop", n)' /\ Hd'.all) <=>
           \E i \in 1 .. Len(todo') : todo'[i].op = "stop" /\ todo'[i].on = n /\ todo'[i].all
    <2>1. (\E i \in 1 .. Len(todo') : /\ todo'[i].op = "stop" /\ todo'[i].on = n
                                      /\ todo'[i].all \in {TRUE}) <=>
             \/ /\ todo' # <<>> /\ Head(todo').op = "stop" /\ Head(todo').on = n
                /\ Head(todo').all \in {TRUE}
             \/ Behind(todo', "stop", n, {TRUE})
      BY <1>1
    <2> QED
      BY <1>2, <2>1 DEF At, Busy, Hd, LaterAll
  <1>5. LaterOne(n)' \/ (At("stop", n)' /\ ~Hd'.all) <=>
           \E i \in 1 .. Len(todo') : todo'[i].op = "stop" /\ todo'[i].on = n /\ ~todo'[i].all
    <2>1. (\E i \in 1 .. Len(todo') : /\ todo'[i].op = "stop" /\ todo'[i].on = n
                                      /\ todo'[i].all \in {FALSE}) <=>
             \/ /\ todo' # <<>> /\ Head(todo').op = "stop" /\ Head(todo').on = n
                /\ Head(todo').all \in {FALSE}
             \/ Behind(todo', "stop", n, {FALSE})
      BY <1>1
    <2> QED
      BY <1>2, <2>1 DEF At, Busy, Hd, LaterOne
  <1> QED
    BY <1>3, <1>4, <1>5

-----------------------------------------------------------------------------
(* Each action keeps what is known of the two nodes. *)

LEMMA StartGuest ==
    ASSUME NEW x \in Node, NEW y \in Node, Known(x, y),
           qemu_colo_start, Hd.on = x
    PROVE  KnownNext(x, y)
  <1>1. /\ TypeOK /\ todo \in Seq(Call) /\ Form(todo)
        /\ x # y /\ colod[x] \in Colod /\ colod[y] \in Colod
        /\ role[x] \in {"stopped", "slave", "master"} /\ role[y] \in {"stopped", "slave", "master"}
    BY DEF Known, IInv, TypeOK
  <1>2. At("start", x) /\ role[x] \in {"stopped", "slave"}
    BY <1>1, HeadCall DEF qemu_colo_start, Calling, At, Busy, Hd, Known, TypeOK
  <1>3. Form(todo') /\ Orderly /\ Orderly' /\ HeadGone
    BY <1>1, <1>2, HeadDone DEF qemu_colo_start, Done, At
  <1>4. /\ colod'[y] = colod[y]
        /\ colod[x].run # "no" => colod'[x] = colod[x]
        /\ colod[x].run = "no" => colod'[x].run = "yes" /\ Blank(colod'[x])
    BY <1>1, <1>2, BecomeFields, OffFields DEF qemu_colo_start, At, Hd
  <1>5. role'[x] = "slave" /\ role'[y] = role[y]
    BY <1>1 DEF qemu_colo_start, TypeOK, Hd
  <1>6. UNCHANGED <<score, current, up, bad, standby>> /\ (Young' <=> Young)
    BY DEF qemu_colo_start, data, Young
  <1>7. Shape(x)' /\ Shape(y)'
    BY <1>2, <1>3, <1>4, <1>5, <1>6
       DEF Known, PairInv, Shape, Sound, Answers, InUse, Blank
  <1>8. Pair(x, y)' /\ Pair(y, x)'
    BY <1>2, <1>3, <1>4, <1>5, <1>6
       DEF Known, PairInv, Pair, Linked, Engaged, Sound, Answers, InUse, Blank
  <1>9. Recent(x, y)' /\ Recent(y, x)'
    BY <1>2, <1>3, <1>4, <1>5, <1>6
       DEF Known, PairInv, Recent, HeadGone, Orderly, Rear, StartOps, StopOps, At,
           Planned, Owns, Scored, Sound, Answers, InUse, Blank
  <1>10. Scores(x, y)' /\ Scores(y, x)'
    BY <1>2, <1>3, <1>4, <1>5, <1>6
       DEF Known, PairInv, Scores, HeadGone, Orderly, Rear, StartOps, StopOps, At,
           Planned, Owns, Halting, Spared, Leads, Scored, Falls, Sound, Answers, Blank
  <1>11. Failures(x, y)' /\ Failures(y, x)'
    BY <1>2, <1>3, <1>4, <1>5, <1>6, HeadAt
       DEF Known, PairInv, NodeInv, Failures, Calls, HeadGone, Orderly, Rear, StartOps,
           StopOps, At, Planned, Owns, Halting, Spared, Leads, Lost, Sound, Answers,
           InUse, Blank
  <1>12. Statuses(x, y)' /\ Statuses(y, x)'
    BY <1>2, <1>3, <1>4, <1>5, <1>6
       DEF Known, PairInv, Statuses, HeadGone, Orderly, Rear, StartOps, StopOps, At,
           Planned, Owns, Linked, Halting, Spared, Scored, Gets, ToScore, Sound,
           Answers, InUse, Blank
  <1>13. Stops(x, y)' /\ Stops(y, x)'
    BY <1>2, <1>3, <1>4, <1>5, <1>6
       DEF Known, PairInv, Stops, HeadGone, Orderly, Rear, StartOps, StopOps, At,
           Planned, Linked, Halting, Spared, StopsAll, StopsOne, Resyncs, Begun, Sound,
           Answers, Blank
  <1>14. Calls(x, y)' /\ Calls(y, x)'
    BY <1>2, <1>3, <1>4, <1>5, <1>6
       DEF Known, PairInv, Calls, HeadGone, Orderly, Rear, StartOps, StopOps, At,
           Planned, Owns, Sound, Answers, Blank
  <1>15. Bad(x)' /\ Bad(y)'
    BY <1>2, <1>3, <1>4, <1>5, <1>6
       DEF Known, PairInv, Calls, Bad, HeadGone, Orderly, Rear, StartOps, StopOps, At,
           Planned, Owns, Sound, Answers, InUse, Blank
  <1>16. Begins(x, y)' /\ Begins(y, x)'
    BY <1>2, <1>3, <1>4, <1>5, <1>6, HeadAt
       DEF Known, PairInv, NodeInv, Begins, HeadGone, Orderly, Rear, StartOps, StopOps,
           At, Planned, Linked, Halting, Leads, Scored, Sound, Answers, Blank
  <1> QED
    BY <1>3, <1>7, <1>8, <1>9, <1>10, <1>11, <1>12, <1>13, <1>14, <1>15, <1>16
       DEF KnownNext, PairInv

LEMMA StopStatusGuest ==
    ASSUME NEW x \in Node, NEW y \in Node, Known(x, y),
           StopStatus, Hd.on = x
    PROVE  KnownNext(x, y)
  <1>1. /\ TypeOK /\ todo \in Seq(Call) /\ Form(todo)
        /\ x # y /\ colod[x] \in Colod /\ colod[y] \in Colod
        /\ role[x] \in {"stopped", "slave", "master"} /\ role[y] \in {"stopped", "slave", "master"}
    BY DEF Known, IInv, TypeOK
  <1>2. /\ At("stop", x)
        /\ todo' = <<[Hd EXCEPT !.op = "kill", !.known = Answers(x), !.status = colod[x].status]>>
                   \o Tail(todo)
    BY DEF StopStatus, Calling, Then, At, Busy, Hd
  <1>3. Hd \in Call /\ Answers(x) \in BOOLEAN /\ colod[x].status \in Status
    BY <1>1, <1>2 DEF At, Busy, Hd, Answers, Colod
  <1>4. /\ Form(todo') /\ Orderly /\ Orderly' /\ RestKept
        /\ At("kill", x)' /\ Hd'.status = colod[x].status
        /\ (Hd'.all <=> Hd.all) /\ (Hd'.known <=> Answers(x))
    <2> DEFINE c == [Hd EXCEPT !.op = "kill", !.known = Answers(x), !.status = colod[x].status]
    <2>1. /\ c \in Call /\ c.op = "kill" /\ c.on = x /\ c.all = Hd.all
          /\ c.known = Answers(x) /\ c.status = colod[x].status
      BY <1>2, <1>3 DEF Call, Op, At
    <2> HIDE DEF c
    <2>2. Form(todo') /\ Orderly /\ Orderly' /\ Busy' /\ Hd' = c /\ RestKept
      BY <1>1, <1>2, <2>1, HeadReplaced DEF At, StartOps, StopOps, c
    <2> QED
      BY <2>1, <2>2 DEF At
  <1>5. /\ UNCHANGED <<colod, score, current, up, role, bad, standby>>
        /\ (Young' <=> Young)
    BY DEF StopStatus, data, pacemaker, Young
  <1>6. Shape(x)' /\ Shape(y)'
    BY <1>2, <1>4, <1>5
       DEF Known, PairInv, Shape, Sound, Answers, InUse
  <1>7. Pair(x, y)' /\ Pair(y, x)'
    BY <1>2, <1>4, <1>5
       DEF Known, PairInv, Pair, Linked, Engaged, Sound, Answers, InUse
  <1>8. Recent(x, y)' /\ Recent(y, x)'
    BY <1>2, <1>4, <1>5
       DEF Known, PairInv, Recent, RestKept, At, Planned, Owns, Scored, Sound, Answers,
           InUse
  <1>9. Scores(x, y)' /\ Scores(y, x)'
    BY <1>2, <1>4, <1>5
       DEF Known, PairInv, Scores, RestKept, At, Planned, Owns, Halting, Spared, Leads,
           Scored, Falls, Sound, Answers
  <1>10. Failures(x, y)' /\ Failures(y, x)'
    BY <1>2, <1>4, <1>5
       DEF Known, PairInv, Failures, RestKept, At, Planned, Owns, Halting, Spared,
           Leads, Lost, Sound, Answers, InUse
  <1>11. Statuses(x, y)' /\ Statuses(y, x)'
    BY <1>2, <1>4, <1>5
       DEF Known, PairInv, Shape, Pair, Recent, Scores, Failures, Statuses, Stops,
           RestKept, At, Planned, Owns, Linked, Engaged, Halting, Spared, Leads, Scored,
           Falls, Lost, Gets, ToScore, StopsAll, StopsOne, Resyncs, Begun, Sound,
           Answers, InUse
  <1>12. Stops(x, y)' /\ Stops(y, x)'
    BY <1>2, <1>4, <1>5
       DEF Known, PairInv, Stops, RestKept, At, Planned, Linked, Halting, Spared,
           StopsAll, StopsOne, Resyncs, Begun, Sound, Answers
  <1>13. Calls(x, y)' /\ Calls(y, x)'
    BY <1>2, <1>4, <1>5
       DEF Known, PairInv, Calls, RestKept, At, Planned, Owns, Sound, Answers
  <1>14. Bad(x)' /\ Bad(y)'
    BY <1>2, <1>4, <1>5
       DEF Known, PairInv, Bad, RestKept, At, Planned, Sound, Answers, InUse
  <1>15. Begins(x, y)' /\ Begins(y, x)'
    BY <1>2, <1>4, <1>5
       DEF Known, PairInv, Begins, RestKept, At, Planned, Linked, Halting, Leads,
           Scored, Sound, Answers
  <1> QED
    BY <1>4, <1>6, <1>7, <1>8, <1>9, <1>10, <1>11, <1>12, <1>13, <1>14, <1>15
       DEF KnownNext, PairInv

LEMMA StopKillGuest ==
    ASSUME NEW x \in Node, NEW y \in Node, Known(x, y),
           StopKill, Hd.on = x
    PROVE  KnownNext(x, y)
  <1>1. /\ TypeOK /\ todo \in Seq(Call) /\ Form(todo)
        /\ x # y /\ colod[x] \in Colod /\ colod[y] \in Colod
        /\ role[x] \in {"stopped", "slave", "master"} /\ role[y] \in {"stopped", "slave", "master"}
    BY DEF Known, IInv, TypeOK
  <1>2. At("kill", x)
    BY DEF StopKill, Calling, At, Busy, Hd
  <1>3. Hd \in Call /\ Hd.on = x
    BY <1>1, <1>2 DEF At, Busy, Hd
  <1>4. /\ Form(todo') /\ Orderly /\ Orderly' /\ RestKept
        /\ At("score", x)' /\ Hd'.status = Hd.status
        /\ (Hd'.all <=> Hd.all) /\ (Hd'.known <=> Hd.known)
    <2> DEFINE c == [Hd EXCEPT !.op = "score"]
    <2>1. /\ c \in Call /\ c.op = "score" /\ c.on = x /\ c.all = Hd.all
          /\ c.known = Hd.known /\ c.status = Hd.status
      BY <1>3 DEF Call, Op
    <2>2. todo' = <<c>> \o Tail(todo)
      BY DEF StopKill, Then, Hd
    <2> HIDE DEF c
    <2>3. Form(todo') /\ Orderly /\ Orderly' /\ Busy' /\ Hd' = c /\ RestKept
      BY <1>1, <1>2, <1>3, <2>1, <2>2, HeadReplaced DEF At, StartOps, StopOps
    <2> QED
      BY <2>1, <2>3 DEF At
  <1>5. PICK g \in BOOLEAN :
          /\ colod' = [colod EXCEPT ![x] = Off, ![y] = [Noticed(colod[y]) EXCEPT !.guest = g]]
          /\ g <=> /\ Noticed(colod[y]).guest
                   /\ ~(Hd.all /\ Hd.known /\ ~Hd.status.failed /\ Joined(x) /\ Joined(y))
    <2> DEFINE off == Hd.all /\ Hd.known /\ ~Hd.status.failed
               h == Noticed(colod[y]).guest /\ ~(off /\ Joined(x) /\ Joined(y))
    <2>1. h \in BOOLEAN
      OBVIOUS
    <2>2. colod' = [colod EXCEPT ![x] = Off, ![y] = [Noticed(colod[y]) EXCEPT !.guest = h]]
      BY Zenon DEF StopKill, Hd, Known
    <2> QED
      BY <2>1, <2>2
  <1>6. PICK d \in Colod :
          /\ Notices(colod[y], d)
          /\ colod'[y].run = d.run /\ colod'[y].status = d.status
          /\ colod'[y].migration = d.migration /\ colod'[y].resync = d.resync
          /\ colod'[y].guest <=>
                /\ d.guest
                /\ ~(Hd.all /\ Hd.known /\ ~Hd.status.failed /\ Joined(x) /\ Joined(y))
    <2>1. Noticed(colod[y]) \in Colod /\ Notices(colod[y], Noticed(colod[y]))
      BY <1>1, KeepsNoticed, NoticedFields DEF Keeps
    <2>2. colod'[y] = [Noticed(colod[y]) EXCEPT !.guest = g]
      BY <1>1, <1>5 DEF TypeOK
    <2>3. \A d \in Colod : LET e == [d EXCEPT !.guest = g] IN
             /\ e.run = d.run /\ e.status = d.status /\ e.migration = d.migration
             /\ e.resync = d.resync /\ e.guest = g
      BY DEF Colod
    <2> QED
      BY <1>5, <2>1, <2>2, <2>3
  <1>7. colod'[x].run = "no" /\ Blank(colod'[x])
    <2>1. colod'[x] = Off
      BY <1>1, <1>5 DEF TypeOK
    <2> QED
      BY <2>1, OffFields
  <1>8. UNCHANGED <<score, current, up, role, bad, standby>> /\ (Young' <=> Young)
    BY DEF StopKill, data, pacemaker, Young
  <1>9. Shape(x)' /\ Shape(y)'
    BY <1>2, <1>4, <1>6, <1>7, <1>8
       DEF Known, PairInv, Shape, Sound, Answers, InUse, Notices, Blank, Joined
  <1>10. Pair(x, y)' /\ Pair(y, x)'
    BY <1>2, <1>4, <1>6, <1>7, <1>8
       DEF Known, PairInv, Pair, Linked, Engaged, Sound, Answers, InUse, Notices, Blank,
           Joined
  <1>11. Recent(x, y)' /\ Recent(y, x)'
    BY <1>2, <1>4, <1>6, <1>7, <1>8
       DEF Known, PairInv, Pair, Recent, Scores, Stops, RestKept, Orderly, Rear,
           StartOps, StopOps, At, Planned, Owns, Linked, Engaged, Halting, Spared,
           Leads, Scored, Falls, StopsAll, StopsOne, Resyncs, Begun, Sound, Answers,
           InUse, Notices, Blank, Joined
  <1>12. Scores(x, y)' /\ Scores(y, x)'
    BY <1>2, <1>4, <1>6, <1>7, <1>8
       DEF Known, PairInv, Shape, Pair, Scores, Statuses, Stops, RestKept, At, Planned,
           Owns, Linked, Engaged, Halting, Spared, Leads, Scored, Falls, Gets, ToScore,
           StopsAll, StopsOne, Resyncs, Begun, Sound, Answers, InUse, Notices, Blank,
           Joined
  <1>13. Failures(x, y)' /\ Failures(y, x)'
    BY <1>2, <1>4, <1>6, <1>7, <1>8
       DEF Known, PairInv, Failures, RestKept, At, Planned, Owns, Halting, Spared,
           Leads, Lost, Sound, Answers, InUse, Notices, Blank, Joined
  <1>14. Statuses(x, y)' /\ Statuses(y, x)'
    BY <1>2, <1>4, <1>6, <1>7, <1>8
       DEF Known, PairInv, Shape, Pair, Recent, Statuses, RestKept, At, Planned, Owns,
           Linked, Engaged, Halting, Spared, Scored, Gets, ToScore, Sound, Answers,
           InUse, Notices, Blank, Joined
  <1>15. Stops(x, y)' /\ Stops(y, x)'
    BY <1>2, <1>4, <1>6, <1>7, <1>8
       DEF Known, PairInv, Stops, RestKept, At, Planned, Linked, Halting, Spared,
           StopsAll, StopsOne, Resyncs, Begun, Sound, Answers, Notices, Blank, Joined
  <1>16. Calls(x, y)' /\ Calls(y, x)'
    BY <1>2, <1>4, <1>6, <1>7, <1>8
       DEF Known, PairInv, Calls, RestKept, At, Planned, Owns, Sound, Answers, Notices,
           Blank, Joined
  <1>17. Bad(x)' /\ Bad(y)'
    BY <1>2, <1>4, <1>6, <1>7, <1>8
       DEF Known, PairInv, Shape, Pair, Stops, Bad, RestKept, At, Planned, Linked,
           Engaged, Halting, Spared, StopsAll, StopsOne, Resyncs, Begun, Sound, Answers,
           InUse, Notices, Blank, Joined
  <1>18. Begins(x, y)' /\ Begins(y, x)'
    BY <1>2, <1>4, <1>6, <1>7, <1>8
       DEF Known, PairInv, Begins, RestKept, At, Planned, Linked, Halting, Leads,
           Scored, Sound, Answers, Notices, Blank, Joined
  <1> QED
    BY <1>4, <1>9, <1>10, <1>11, <1>12, <1>13, <1>14, <1>15, <1>16, <1>17, <1>18
       DEF KnownNext, PairInv

LEMMA StopScoreGuest ==
    ASSUME NEW x \in Node, NEW y \in Node, Known(x, y),
           StopScore, Hd.on = x
    PROVE  KnownNext(x, y)
  <1>1. /\ TypeOK /\ todo \in Seq(Call) /\ Form(todo)
        /\ x # y /\ colod[x] \in Colod /\ colod[y] \in Colod
        /\ role[x] \in {"stopped", "slave", "master"} /\ role[y] \in {"stopped", "slave", "master"}
    BY DEF Known, IInv, TypeOK
  <1>2. At("score", x) /\ x \in up
    BY <1>1, HeadCall DEF StopScore, Calling, At, Busy, Hd, Known
  <1>3. Hd \in Call /\ Hd.on = x
    BY <1>1, <1>2 DEF At, Busy, Hd
  <1>4. /\ Form(todo') /\ Orderly /\ Orderly'
        /\ HeadGone \/ (RestKept /\ At("start", x)')
    <2>1. CASE Hd.again
      <3>1. A("start", x) \in Call /\ A("start", x).op = "start" /\ A("start", x).on = x
        BY NewCall DEF Op
      <3>2. todo' = <<A("start", x)>> \o Tail(todo)
        BY <1>3, <2>1 DEF StopScore, Then, Hd
      <3>3. Form(todo') /\ Orderly /\ Orderly' /\ Busy' /\ Hd' = A("start", x) /\ RestKept
        BY <1>1, <1>2, <1>3, <3>1, <3>2, HeadReplaced DEF At, StartOps, StopOps
      <3> QED
        BY <3>1, <3>3 DEF At
    <2>2. CASE ~Hd.again
      <3>1. todo' = Tail(todo)
        BY <1>1, <1>2, <2>2 DEF StopScore, Then, At, Busy, Hd
      <3> QED
        BY <1>1, <1>2, <3>1, HeadDone DEF At
    <2> QED
      BY <2>1, <2>2
  <1>5. /\ score'[y] = score[y]
        /\ ~Hd.known \/ ~(Hd.status.primary \/ Hd.status.replication) => score'[x] = score[x]
        /\ Hd.known /\ (Hd.status.primary \/ Hd.status.replication) =>
              (score'[x] # 0 <=> Gets(Hd.status, Hd.all))
    <2>1. score'[x] = IF Hd.known THEN calculate_master_score(Hd.status, Hd.all, score[x])
                      ELSE score[x]
      BY <1>1, <1>3 DEF StopScore, TypeOK, Hd
    <2>2. score'[y] = score[y]
      BY <1>1, <1>3 DEF StopScore, TypeOK, Hd
    <2> QED
      BY <2>1, <2>2 DEF calculate_master_score, Gets
  <1>6. /\ role'[x] = "stopped" /\ role'[y] = role[y]
        /\ x \notin bad' /\ (y \in bad' <=> y \in bad)
    BY <1>1 DEF StopScore, TypeOK, Hd
  <1>7. UNCHANGED <<colod, current, up, standby>> /\ (Young' <=> Young)
    BY DEF StopScore, Young
  <1>8. Shape(x)' /\ Shape(y)'
    BY <1>2, <1>4, <1>5, <1>6, <1>7
       DEF Known, PairInv, Shape, Sound, Answers, InUse
  <1>9. Pair(x, y)' /\ Pair(y, x)'
    BY <1>2, <1>4, <1>5, <1>6, <1>7
       DEF Known, PairInv, Pair, Linked, Engaged, Sound, Answers, InUse
  <1>10. Recent(x, y)' /\ Recent(y, x)'
    BY <1>2, <1>4, <1>5, <1>6, <1>7
       DEF Known, PairInv, Recent, Statuses, HeadGone, RestKept, Orderly, Rear,
           StartOps, StopOps, At, Planned, Owns, Linked, Halting, Spared, Scored, Gets,
           ToScore, Sound, Answers, InUse
  <1>11. Scores(x, y)' /\ Scores(y, x)'
    BY <1>2, <1>4, <1>5, <1>6, <1>7, HeadAt
       DEF Known, PairInv, NodeInv, Pair, Scores, Statuses, HeadGone, RestKept, Orderly,
           Rear, StartOps, StopOps, At, Planned, Owns, Linked, Engaged, Halting, Spared,
           Leads, Scored, Falls, Gets, ToScore, Sound, Answers, InUse
  <1>12. Failures(x, y)' /\ Failures(y, x)'
    BY <1>2, <1>4, <1>5, <1>6, <1>7, HeadAt
       DEF Known, PairInv, NodeInv, Failures, HeadGone, RestKept, Orderly, Rear,
           StartOps, StopOps, At, Planned, Owns, Halting, Spared, Leads, Lost, Sound,
           Answers, InUse
  <1>13. Statuses(x, y)' /\ Statuses(y, x)'
    BY <1>2, <1>4, <1>5, <1>6, <1>7
       DEF Known, PairInv, Statuses, HeadGone, RestKept, Orderly, Rear, StartOps,
           StopOps, At, Planned, Owns, Linked, Halting, Spared, Scored, Gets, ToScore,
           Sound, Answers, InUse
  <1>14. Stops(x, y)' /\ Stops(y, x)'
    BY <1>2, <1>4, <1>5, <1>6, <1>7
       DEF Known, PairInv, Stops, HeadGone, RestKept, Orderly, Rear, StartOps, StopOps,
           At, Planned, Linked, Halting, Spared, StopsAll, StopsOne, Resyncs, Begun,
           Sound, Answers
  <1>15. Calls(x, y)' /\ Calls(y, x)'
    BY <1>2, <1>4, <1>5, <1>6, <1>7
       DEF Known, PairInv, Calls, HeadGone, RestKept, Orderly, Rear, StartOps, StopOps,
           At, Planned, Owns, Sound, Answers
  <1>16. Bad(x)' /\ Bad(y)'
    BY <1>2, <1>4, <1>5, <1>6, <1>7
       DEF Known, PairInv, Bad, HeadGone, RestKept, Orderly, Rear, StartOps, StopOps,
           At, Planned, Sound, Answers, InUse
  <1>17. Begins(x, y)' /\ Begins(y, x)'
    BY <1>2, <1>4, <1>5, <1>6, <1>7
       DEF Known, PairInv, Begins, HeadGone, RestKept, Orderly, Rear, StartOps, StopOps,
           At, Planned, Linked, Halting, Leads, Scored, Sound, Answers
  <1> QED
    BY <1>4, <1>8, <1>9, <1>10, <1>11, <1>12, <1>13, <1>14, <1>15, <1>16, <1>17
       DEF KnownNext, PairInv

LEMMA ResyncGuest ==
    ASSUME NEW x \in Node, NEW y \in Node, Known(x, y),
           qmp_start_resync, Hd.on = x, colod[y].run # "no", ~HasNbd(x)
    PROVE  KnownNext(x, y)
  <1>1. /\ TypeOK /\ todo \in Seq(Call) /\ Form(todo)
        /\ x # y /\ colod[x] \in Colod /\ colod[y] \in Colod
        /\ role[x] \in {"stopped", "slave", "master"} /\ role[y] \in {"stopped", "slave", "master"}
    BY DEF Known, IInv, TypeOK
  <1>2. At("resync", x)
    BY DEF qmp_start_resync, Calling, At, Busy, Hd
  <1>3. Hd \in Call /\ Hd.on = x
    BY <1>1, <1>2 DEF At, Busy, Hd
  <1>4. /\ Form(todo') /\ Orderly /\ Orderly' /\ RestKept
        /\ At("set-peer", x)'
    <2> DEFINE c == [Hd EXCEPT !.op = "set-peer"]
    <2>1. c \in Call /\ c.op = "set-peer" /\ c.on = x
      BY <1>3 DEF Call, Op
    <2>2. todo' = <<c>> \o Tail(todo)
      BY DEF qmp_start_resync, Then, Hd
    <2> HIDE DEF c
    <2>3. Form(todo') /\ Orderly /\ Orderly' /\ Busy' /\ Hd' = c /\ RestKept
      BY <1>1, <1>2, <1>3, <2>1, <2>2, HeadReplaced DEF At, StartOps, StopOps
    <2> QED
      BY <2>1, <2>3 DEF At
  <1>5. /\ ~HasNbd(x) /\ colod[y].run # "no" /\ colod'[y] = colod[y]
        /\ colod'[x].run = colod[x].run /\ colod'[x].status = colod[x].status
        /\ colod'[x].migration = colod[x].migration /\ colod'[x].guest = colod[x].guest
        /\ colod'[x].resync = "runs"
    <2>1. Become(x, [colod[x] EXCEPT !.resync = "runs"])
      BY DEF qmp_start_resync, Hd, Known
    <2>2. colod'[y] = colod[y] /\ colod'[x] = [colod[x] EXCEPT !.resync = "runs"]
      BY <1>1, <2>1, BecomeFields
    <2> QED
      BY <1>1, <2>2 DEF Colod
  <1>6. (x \in current' <=> x \in current) /\ y \notin current'
    BY <1>1 DEF qmp_start_resync, Hd, Known
  <1>7. UNCHANGED <<score, up, role, bad, standby>> /\ (Young' <=> Young)
    BY DEF qmp_start_resync, Hd, Known, Young
  <1>8. Shape(x)' /\ Shape(y)'
    BY <1>2, <1>4, <1>5, <1>6, <1>7
       DEF Known, PairInv, Shape, Calls, RestKept, At, Planned, Owns, Sound, Answers,
           InUse, HasNbd
  <1>9. Pair(x, y)' /\ Pair(y, x)'
    BY <1>2, <1>4, <1>5, <1>6, <1>7
       DEF Known, PairInv, Pair, Linked, Engaged, Sound, Answers, InUse, HasNbd
  <1>10. Recent(x, y)' /\ Recent(y, x)'
    BY <1>2, <1>4, <1>5, <1>6, <1>7
       DEF Known, PairInv, Shape, Pair, Recent, Calls, RestKept, At, Planned, Owns,
           Linked, Engaged, Scored, Sound, Answers, InUse, HasNbd
  <1>11. Scores(x, y)' /\ Scores(y, x)'
    BY <1>2, <1>4, <1>5, <1>6, <1>7
       DEF Known, PairInv, Scores, RestKept, At, Planned, Owns, Halting, Spared, Leads,
           Scored, Falls, Sound, Answers, HasNbd
  <1>12. Failures(x, y)' /\ Failures(y, x)'
    BY <1>2, <1>4, <1>5, <1>6, <1>7
       DEF Known, PairInv, Failures, Calls, RestKept, At, Planned, Owns, Halting,
           Spared, Leads, Lost, Sound, Answers, InUse, HasNbd
  <1>13. Statuses(x, y)' /\ Statuses(y, x)'
    BY <1>2, <1>4, <1>5, <1>6, <1>7
       DEF Known, PairInv, Statuses, RestKept, At, Planned, Owns, Linked, Halting,
           Spared, Scored, Gets, ToScore, Sound, Answers, InUse, HasNbd
  <1>14. Stops(x, y)' /\ Stops(y, x)'
    BY <1>2, <1>4, <1>5, <1>6, <1>7, HeadAt
       DEF Known, PairInv, NodeInv, Stops, RestKept, Orderly, Rear, StartOps, StopOps,
           At, Planned, Linked, Halting, Spared, StopsAll, StopsOne, Resyncs, Begun,
           Sound, Answers, HasNbd
  <1>15. Calls(x, y)' /\ Calls(y, x)'
    BY <1>2, <1>4, <1>5, <1>6, <1>7
       DEF Known, PairInv, Calls, RestKept, At, Planned, Owns, Sound, Answers, HasNbd
  <1>16. Bad(x)' /\ Bad(y)'
    BY <1>2, <1>4, <1>5, <1>6, <1>7
       DEF Known, PairInv, Bad, RestKept, At, Planned, Sound, Answers, InUse, HasNbd
  <1>17. Begins(x, y)' /\ Begins(y, x)'
    BY <1>2, <1>4, <1>5, <1>6, <1>7, HeadAt
       DEF Known, PairInv, NodeInv, Begins, RestKept, At, Planned, Linked, Halting,
           Leads, Scored, Sound, Answers, HasNbd
  <1> QED
    BY <1>4, <1>8, <1>9, <1>10, <1>11, <1>12, <1>13, <1>14, <1>15, <1>16, <1>17
       DEF KnownNext, PairInv

LEMMA ResyncFailsGuest ==
    ASSUME NEW x \in Node, NEW y \in Node, Known(x, y),
           qmp_start_resync, Hd.on = x, colod[y].run = "no" \/ HasNbd(x)
    PROVE  KnownNext(x, y)
  <1>1. /\ TypeOK /\ todo \in Seq(Call) /\ Form(todo)
        /\ x # y /\ colod[x] \in Colod /\ colod[y] \in Colod
        /\ role[x] \in {"stopped", "slave", "master"} /\ role[y] \in {"stopped", "slave", "master"}
    BY DEF Known, IInv, TypeOK
  <1>2. At("resync", x)
    BY DEF qmp_start_resync, Calling, At, Busy, Hd
  <1>3. Hd \in Call /\ Hd.on = x
    BY <1>1, <1>2 DEF At, Busy, Hd
  <1>4. /\ Form(todo') /\ Orderly /\ Orderly' /\ RestKept
        /\ At("set-peer", x)'
    <2> DEFINE c == [Hd EXCEPT !.op = "set-peer"]
    <2>1. c \in Call /\ c.op = "set-peer" /\ c.on = x
      BY <1>3 DEF Call, Op
    <2>2. todo' = <<c>> \o Tail(todo)
      BY DEF qmp_start_resync, Then, Hd
    <2> HIDE DEF c
    <2>3. Form(todo') /\ Orderly /\ Orderly' /\ Busy' /\ Hd' = c /\ RestKept
      BY <1>1, <1>2, <1>3, <2>1, <2>2, HeadReplaced DEF At, StartOps, StopOps
    <2> QED
      BY <2>1, <2>3 DEF At
  <1>5. /\ colod[y].run = "no" \/ HasNbd(x)
        /\ x \in bad' <=> x \in bad
        /\ y \in bad' <=> y \in bad \/ role[y] # "stopped"
    BY <1>1 DEF qmp_start_resync, Hd, Known, Active
  <1>6. UNCHANGED <<colod, current>>
    BY DEF qmp_start_resync, Hd, Known
  <1>7. UNCHANGED <<score, up, role, standby>> /\ (Young' <=> Young)
    BY DEF qmp_start_resync, Young
  <1>8. Shape(x)' /\ Shape(y)'
    BY <1>2, <1>4, <1>5, <1>6, <1>7
       DEF Known, PairInv, Shape, Sound, Answers, InUse, HasNbd
  <1>9. Pair(x, y)' /\ Pair(y, x)'
    BY <1>2, <1>4, <1>5, <1>6, <1>7
       DEF Known, PairInv, Pair, Linked, Engaged, Sound, Answers, InUse, HasNbd
  <1>10. Recent(x, y)' /\ Recent(y, x)'
    BY <1>2, <1>4, <1>5, <1>6, <1>7
       DEF Known, PairInv, Recent, RestKept, At, Planned, Owns, Scored, Sound, Answers,
           InUse, HasNbd
  <1>11. Scores(x, y)' /\ Scores(y, x)'
    BY <1>2, <1>4, <1>5, <1>6, <1>7
       DEF Known, PairInv, Scores, RestKept, At, Planned, Owns, Halting, Spared, Leads,
           Scored, Falls, Sound, Answers, HasNbd
  <1>12. Failures(x, y)' /\ Failures(y, x)'
    BY <1>2, <1>4, <1>5, <1>6, <1>7
       DEF Known, PairInv, Failures, RestKept, At, Planned, Owns, Halting, Spared,
           Leads, Lost, Sound, Answers, InUse, HasNbd
  <1>13. Statuses(x, y)' /\ Statuses(y, x)'
    BY <1>2, <1>4, <1>5, <1>6, <1>7
       DEF Known, PairInv, Statuses, RestKept, At, Planned, Owns, Linked, Halting,
           Spared, Scored, Gets, ToScore, Sound, Answers, InUse, HasNbd
  <1>14. Stops(x, y)' /\ Stops(y, x)'
    BY <1>2, <1>4, <1>5, <1>6, <1>7, HeadAt
       DEF Known, PairInv, NodeInv, Stops, Calls, RestKept, Orderly, Rear, StartOps,
           StopOps, At, Planned, Owns, Linked, Halting, Spared, StopsAll, StopsOne,
           Resyncs, Begun, Sound, Answers, HasNbd
  <1>15. Calls(x, y)' /\ Calls(y, x)'
    BY <1>2, <1>4, <1>5, <1>6, <1>7
       DEF Known, PairInv, Calls, RestKept, At, Planned, Owns, Sound, Answers, HasNbd
  <1>16. Bad(x)' /\ Bad(y)'
    BY <1>2, <1>4, <1>5, <1>6, <1>7
       DEF Known, PairInv, Shape, Pair, Recent, Scores, Calls, Bad, RestKept, At,
           Planned, Owns, Linked, Engaged, Halting, Spared, Leads, Scored, Falls, Sound,
           Answers, InUse, HasNbd
  <1>17. Begins(x, y)' /\ Begins(y, x)'
    BY <1>2, <1>4, <1>5, <1>6, <1>7
       DEF Known, PairInv, Begins, RestKept, At, Planned, Linked, Halting, Leads,
           Scored, Sound, Answers, HasNbd
  <1> QED
    BY <1>4, <1>8, <1>9, <1>10, <1>11, <1>12, <1>13, <1>14, <1>15, <1>16, <1>17
       DEF KnownNext, PairInv

LEMMA SetPeerGuest ==
    ASSUME NEW x \in Node, NEW y \in Node, Known(x, y),
           SetPeer, Hd.on = x
    PROVE  KnownNext(x, y)
  <1>1. /\ TypeOK /\ todo \in Seq(Call) /\ Form(todo)
        /\ x # y /\ colod[x] \in Colod /\ colod[y] \in Colod
        /\ role[x] \in {"stopped", "slave", "master"} /\ role[y] \in {"stopped", "slave", "master"}
    BY DEF Known, IInv, TypeOK
  <1>2. At("set-peer", x)
    BY DEF SetPeer, Calling, At, Busy, Hd
  <1>3. Form(todo') /\ Orderly /\ Orderly' /\ HeadGone
    BY <1>1, <1>2, HeadDone DEF SetPeer, Done, At
  <1>4. /\ colod'[y] = colod[y]
        /\ colod'[x].run = colod[x].run /\ colod'[x].migration = colod[x].migration
        /\ colod'[x].resync = colod[x].resync /\ colod'[x].guest = colod[x].guest
        /\ colod'[x].status.primary = colod[x].status.primary
        /\ colod'[x].status.replication = colod[x].status.replication
        /\ colod'[x].status.failed = colod[x].status.failed
        /\ ~colod'[x].status.peer_failed
    <2>1. Become(x, [colod[x] EXCEPT !.peer = TRUE, !.status.peer_failed = FALSE])
      BY DEF SetPeer, Hd
    <2>2. /\ colod'[x] = [colod[x] EXCEPT !.peer = TRUE, !.status.peer_failed = FALSE]
          /\ colod'[y] = colod[y]
      BY <1>1, <2>1, BecomeFields
    <2> QED
      BY <1>1, <2>2 DEF Colod, Status
  <1>5. score'[x] = score[x] /\ score'[y] = 0
    BY <1>1 DEF SetPeer, Hd, TypeOK, Known
  <1>6. UNCHANGED <<current, up, role, bad, standby>> /\ (Young' <=> Young)
    BY DEF SetPeer, pacemaker, Young
  <1>7. Shape(x)' /\ Shape(y)'
    BY <1>2, <1>3, <1>4, <1>5, <1>6
       DEF Known, PairInv, Shape, Sound, Answers, InUse
  <1>8. Pair(x, y)' /\ Pair(y, x)'
    BY <1>2, <1>3, <1>4, <1>5, <1>6
       DEF Known, PairInv, Pair, Linked, Engaged, Sound, Answers, InUse
  <1>9. Recent(x, y)' /\ Recent(y, x)'
    BY <1>2, <1>3, <1>4, <1>5, <1>6
       DEF Known, PairInv, Recent, HeadGone, Orderly, Rear, StartOps, StopOps, At,
           Planned, Owns, Scored, Sound, Answers, InUse
  <1>10. Scores(x, y)' /\ Scores(y, x)'
    BY <1>2, <1>3, <1>4, <1>5, <1>6
       DEF Known, PairInv, Scores, Calls, HeadGone, Orderly, Rear, StartOps, StopOps,
           At, Planned, Owns, Halting, Spared, Leads, Scored, Falls, Sound, Answers
  <1>11. Failures(x, y)' /\ Failures(y, x)'
    BY <1>2, <1>3, <1>4, <1>5, <1>6
       DEF Known, PairInv, Failures, Calls, HeadGone, Orderly, Rear, StartOps, StopOps,
           At, Planned, Owns, Halting, Spared, Leads, Lost, Sound, Answers, InUse
  <1>12. Statuses(x, y)' /\ Statuses(y, x)'
    BY <1>2, <1>3, <1>4, <1>5, <1>6
       DEF Known, PairInv, Statuses, HeadGone, Orderly, Rear, StartOps, StopOps, At,
           Planned, Owns, Linked, Halting, Spared, Scored, Gets, ToScore, Sound,
           Answers, InUse
  <1>13. Stops(x, y)' /\ Stops(y, x)'
    BY <1>2, <1>3, <1>4, <1>5, <1>6
       DEF Known, PairInv, Stops, HeadGone, Orderly, Rear, StartOps, StopOps, At,
           Planned, Linked, Halting, Spared, StopsAll, StopsOne, Resyncs, Begun, Sound,
           Answers
  <1>14. Calls(x, y)' /\ Calls(y, x)'
    BY <1>2, <1>3, <1>4, <1>5, <1>6
       DEF Known, PairInv, Calls, HeadGone, Orderly, Rear, StartOps, StopOps, At,
           Planned, Owns, Sound, Answers
  <1>15. Bad(x)' /\ Bad(y)'
    BY <1>2, <1>3, <1>4, <1>5, <1>6
       DEF Known, PairInv, Bad, HeadGone, Orderly, Rear, StartOps, StopOps, At, Planned,
           Sound, Answers, InUse
  <1>16. Begins(x, y)' /\ Begins(y, x)'
    BY <1>2, <1>3, <1>4, <1>5, <1>6
       DEF Known, PairInv, Begins, HeadGone, Orderly, Rear, StartOps, StopOps, At,
           Planned, Linked, Halting, Leads, Scored, Sound, Answers
  <1> QED
    BY <1>3, <1>7, <1>8, <1>9, <1>10, <1>11, <1>12, <1>13, <1>14, <1>15, <1>16
       DEF KnownNext, PairInv

LEMMA PostStartGuest ==
    ASSUME NEW x \in Node, NEW y \in Node, Known(x, y),
           NotifyPostStart, Hd.on = x
    PROVE  KnownNext(x, y)
  <1>1. /\ TypeOK /\ todo \in Seq(Call) /\ Form(todo)
        /\ x # y /\ colod[x] \in Colod /\ colod[y] \in Colod
        /\ role[x] \in {"stopped", "slave", "master"} /\ role[y] \in {"stopped", "slave", "master"}
    BY DEF Known, IInv, TypeOK
  <1>2. At("post-start", x)
    BY DEF NotifyPostStart, Calling, At, Busy, Hd
  <1>3. Hd \in Call /\ Hd.on = x
    BY <1>1, <1>2 DEF At, Busy, Hd
  <1>4. /\ Form(todo') /\ Orderly /\ Orderly'
        /\ HeadGone \/ (RestKept /\ At("resync", x)' /\ Sound(x) /\ colod[x].status.primary)
    <2>1. CASE Sound(x) /\ colod[x].status.primary /\ ~colod[x].peer
      <3>1. A("resync", x) \in Call /\ A("resync", x).op = "resync" /\ A("resync", x).on = x
        BY NewCall DEF Op
      <3>2. todo' = <<A("resync", x)>> \o Tail(todo)
        BY <1>3, <2>1 DEF NotifyPostStart, Then, NewPeer, Hd
      <3>3. Form(todo') /\ Orderly /\ Orderly' /\ Busy' /\ Hd' = A("resync", x) /\ RestKept
        BY <1>1, <1>2, <1>3, <3>1, <3>2, HeadReplaced DEF At, StartOps, StopOps
      <3> QED
        BY <2>1, <3>1, <3>3 DEF At
    <2>2. CASE ~(Sound(x) /\ colod[x].status.primary /\ ~colod[x].peer)
      <3>1. todo' = <<>> \o Tail(todo)
        BY <1>3, <2>2 DEF NotifyPostStart, Then, NewPeer, Hd
      <3>2. todo' = Tail(todo)
        BY <1>1, <1>2, <3>1 DEF At, Busy
      <3> QED
        BY <1>1, <1>2, <3>2, HeadDone DEF At
    <2> QED
      BY <2>1, <2>2
  <1>5. UNCHANGED <<colod, score, current, up, role, bad, standby>> /\ (Young' <=> Young)
    BY DEF NotifyPostStart, data, pacemaker, Young
  <1>6. Shape(x)' /\ Shape(y)'
    BY <1>2, <1>4, <1>5
       DEF Known, PairInv, Shape, Sound, Answers, InUse
  <1>7. Pair(x, y)' /\ Pair(y, x)'
    BY <1>2, <1>4, <1>5
       DEF Known, PairInv, Pair, Linked, Engaged, Sound, Answers, InUse
  <1>8. Recent(x, y)' /\ Recent(y, x)'
    BY <1>2, <1>4, <1>5
       DEF Known, PairInv, Recent, HeadGone, RestKept, Orderly, Rear, StartOps, StopOps,
           At, Planned, Owns, Scored, Sound, Answers, InUse
  <1>9. Scores(x, y)' /\ Scores(y, x)'
    BY <1>2, <1>4, <1>5
       DEF Known, PairInv, Scores, HeadGone, RestKept, Orderly, Rear, StartOps, StopOps,
           At, Planned, Owns, Halting, Spared, Leads, Scored, Falls, Sound, Answers
  <1>10. Failures(x, y)' /\ Failures(y, x)'
    BY <1>2, <1>4, <1>5
       DEF Known, PairInv, Failures, HeadGone, RestKept, Orderly, Rear, StartOps,
           StopOps, At, Planned, Owns, Halting, Spared, Leads, Lost, Sound, Answers,
           InUse
  <1>11. Statuses(x, y)' /\ Statuses(y, x)'
    BY <1>2, <1>4, <1>5
       DEF Known, PairInv, Statuses, HeadGone, RestKept, Orderly, Rear, StartOps,
           StopOps, At, Planned, Owns, Linked, Halting, Spared, Scored, Gets, ToScore,
           Sound, Answers, InUse
  <1>12. Stops(x, y)' /\ Stops(y, x)'
    BY <1>2, <1>4, <1>5
       DEF Known, PairInv, Stops, HeadGone, RestKept, Orderly, Rear, StartOps, StopOps,
           At, Planned, Linked, Halting, Spared, StopsAll, StopsOne, Resyncs, Begun,
           Sound, Answers
  <1>13. Calls(x, y)' /\ Calls(y, x)'
    BY <1>2, <1>4, <1>5, HeadAt
       DEF Known, PairInv, NodeInv, Recent, Stops, Calls, HeadGone, RestKept, Orderly,
           Rear, StartOps, StopOps, At, Planned, Owns, Linked, Halting, Spared, Scored,
           StopsAll, StopsOne, Resyncs, Begun, Sound, Answers, InUse
  <1>14. Bad(x)' /\ Bad(y)'
    BY <1>2, <1>4, <1>5
       DEF Known, PairInv, Bad, HeadGone, RestKept, Orderly, Rear, StartOps, StopOps,
           At, Planned, Sound, Answers, InUse
  <1>15. Begins(x, y)' /\ Begins(y, x)'
    BY <1>2, <1>4, <1>5
       DEF Known, PairInv, Begins, HeadGone, RestKept, Orderly, Rear, StartOps, StopOps,
           At, Planned, Linked, Halting, Leads, Scored, Sound, Answers
  <1> QED
    BY <1>4, <1>6, <1>7, <1>8, <1>9, <1>10, <1>11, <1>12, <1>13, <1>14, <1>15
       DEF KnownNext, PairInv

LEMMA PreStopGuest ==
    ASSUME NEW x \in Node, NEW y \in Node, Known(x, y),
           NotifyPreStop, Hd.on = x
    PROVE  KnownNext(x, y)
  <1>1. /\ TypeOK /\ todo \in Seq(Call) /\ Form(todo)
        /\ x # y /\ colod[x] \in Colod /\ colod[y] \in Colod
        /\ role[x] \in {"stopped", "slave", "master"} /\ role[y] \in {"stopped", "slave", "master"}
    BY DEF Known, IInv, TypeOK
  <1>2. At("pre-stop", x)
    BY DEF NotifyPreStop, Calling, At, Busy, Hd
  <1>3. Form(todo') /\ Orderly /\ Orderly' /\ HeadGone
    BY <1>1, <1>2, HeadDone DEF NotifyPreStop, Done, At
  <1>4. /\ colod'[y] = colod[y]
        /\ colod'[x].run = colod[x].run /\ colod'[x].status = colod[x].status
        /\ colod'[x].migration = colod[x].migration /\ colod'[x].guest = colod[x].guest
        /\ colod'[x].resync = colod[x].resync \/ colod'[x].resync = "none"
    <2>1. \E c \in {colod[x], del_peer(colod[x])} : Become(x, c)
      BY DEF NotifyPreStop, Hd
    <2>2. colod'[y] = colod[y] /\ colod'[x] \in {colod[x], del_peer(colod[x])}
      BY <1>1, <2>1, BecomeFields
    <2> QED
      BY <1>1, <2>2 DEF Colod, del_peer
  <1>5. UNCHANGED <<score, current, up, role, bad, standby>> /\ (Young' <=> Young)
    BY DEF NotifyPreStop, data, pacemaker, Young
  <1>6. Shape(x)' /\ Shape(y)'
    BY <1>2, <1>3, <1>4, <1>5
       DEF Known, PairInv, Shape, Sound, Answers, InUse
  <1>7. Pair(x, y)' /\ Pair(y, x)'
    BY <1>2, <1>3, <1>4, <1>5
       DEF Known, PairInv, Pair, Linked, Engaged, Sound, Answers, InUse
  <1>8. Recent(x, y)' /\ Recent(y, x)'
    BY <1>2, <1>3, <1>4, <1>5
       DEF Known, PairInv, Recent, HeadGone, Orderly, Rear, StartOps, StopOps, At,
           Planned, Owns, Scored, Sound, Answers, InUse
  <1>9. Scores(x, y)' /\ Scores(y, x)'
    BY <1>2, <1>3, <1>4, <1>5
       DEF Known, PairInv, Scores, HeadGone, Orderly, Rear, StartOps, StopOps, At,
           Planned, Owns, Halting, Spared, Leads, Scored, Falls, Sound, Answers
  <1>10. Failures(x, y)' /\ Failures(y, x)'
    BY <1>2, <1>3, <1>4, <1>5
       DEF Known, PairInv, Failures, HeadGone, Orderly, Rear, StartOps, StopOps, At,
           Planned, Owns, Halting, Spared, Leads, Lost, Sound, Answers, InUse
  <1>11. Statuses(x, y)' /\ Statuses(y, x)'
    BY <1>2, <1>3, <1>4, <1>5
       DEF Known, PairInv, Statuses, HeadGone, Orderly, Rear, StartOps, StopOps, At,
           Planned, Owns, Linked, Halting, Spared, Scored, Gets, ToScore, Sound,
           Answers, InUse
  <1>12. Stops(x, y)' /\ Stops(y, x)'
    BY <1>2, <1>3, <1>4, <1>5
       DEF Known, PairInv, Stops, HeadGone, Orderly, Rear, StartOps, StopOps, At,
           Planned, Linked, Halting, Spared, StopsAll, StopsOne, Resyncs, Begun, Sound,
           Answers
  <1>13. Calls(x, y)' /\ Calls(y, x)'
    BY <1>2, <1>3, <1>4, <1>5
       DEF Known, PairInv, Calls, HeadGone, Orderly, Rear, StartOps, StopOps, At,
           Planned, Owns, Sound, Answers
  <1>14. Bad(x)' /\ Bad(y)'
    BY <1>2, <1>3, <1>4, <1>5
       DEF Known, PairInv, Bad, HeadGone, Orderly, Rear, StartOps, StopOps, At, Planned,
           Sound, Answers, InUse
  <1>15. Begins(x, y)' /\ Begins(y, x)'
    BY <1>2, <1>3, <1>4, <1>5
       DEF Known, PairInv, Begins, HeadGone, Orderly, Rear, StartOps, StopOps, At,
           Planned, Linked, Halting, Leads, Scored, Sound, Answers
  <1> QED
    BY <1>3, <1>6, <1>7, <1>8, <1>9, <1>10, <1>11, <1>12, <1>13, <1>14, <1>15
       DEF KnownNext, PairInv

LEMMA PostStopGuest ==
    ASSUME NEW x \in Node, NEW y \in Node, Known(x, y),
           NotifyPostStop, Hd.on = x
    PROVE  KnownNext(x, y)
  <1>1. /\ TypeOK /\ todo \in Seq(Call) /\ Form(todo)
        /\ x # y /\ colod[x] \in Colod /\ colod[y] \in Colod
        /\ role[x] \in {"stopped", "slave", "master"} /\ role[y] \in {"stopped", "slave", "master"}
    BY DEF Known, IInv, TypeOK
  <1>2. At("post-stop", x)
    BY DEF NotifyPostStop, Calling, At, Busy, Hd
  <1>3. Form(todo') /\ Orderly /\ Orderly' /\ HeadGone
    BY <1>1, <1>2, HeadDone DEF NotifyPostStop, Done, At
  <1>4. /\ colod'[y] = colod[y]
        /\ colod'[x].run = colod[x].run /\ colod'[x].status = colod[x].status
        /\ colod'[x].migration = colod[x].migration /\ colod'[x].guest = colod[x].guest
        /\ colod'[x].resync = colod[x].resync \/ colod'[x].resync = "none"
    <2>1. colod' = colod \/ \E c \in {colod[x], del_peer(colod[x])} : Become(x, c)
      BY DEF NotifyPostStop, Hd
    <2>2. colod'[y] = colod[y] /\ colod'[x] \in {colod[x], del_peer(colod[x])}
      BY <1>1, <2>1, BecomeFields
    <2> QED
      BY <1>1, <2>2 DEF Colod, del_peer
  <1>5. /\ score'[x] = score[x]
        /\ Sound(x) /\ InUse(x) => score'[y] = 0
        /\ ~(Sound(x) /\ InUse(x)) => score'[y] = score[y]
    BY <1>1 DEF NotifyPostStop, Hd, TypeOK, Known
  <1>6. colod[x].migration \in {"none", "active", "colo", "failover"}
    BY <1>1 DEF Colod
  <1>7. UNCHANGED <<current, up, role, bad, standby>> /\ (Young' <=> Young)
    BY DEF NotifyPostStop, pacemaker, Young
  <1>8. Shape(x)' /\ Shape(y)'
    BY <1>2, <1>3, <1>4, <1>5, <1>6, <1>7
       DEF Known, PairInv, Shape, Sound, Answers, InUse
  <1>9. Pair(x, y)' /\ Pair(y, x)'
    BY <1>2, <1>3, <1>4, <1>5, <1>6, <1>7
       DEF Known, PairInv, Pair, Linked, Engaged, Sound, Answers, InUse
  <1>10. Recent(x, y)' /\ Recent(y, x)'
    BY <1>2, <1>3, <1>4, <1>5, <1>6, <1>7
       DEF Known, PairInv, Recent, HeadGone, Orderly, Rear, StartOps, StopOps, At,
           Planned, Owns, Scored, Sound, Answers, InUse
  <1>11. Scores(x, y)' /\ Scores(y, x)'
    BY <1>2, <1>3, <1>4, <1>5, <1>6, <1>7, HeadAt
       DEF Known, PairInv, NodeInv, Shape, Pair, Scores, Calls, HeadGone, Orderly, Rear,
           StartOps, StopOps, At, Planned, Owns, Linked, Engaged, Halting, Spared,
           Leads, Scored, Falls, Sound, Answers, InUse
  <1>12. Failures(x, y)' /\ Failures(y, x)'
    BY <1>2, <1>3, <1>4, <1>5, <1>6, <1>7, HeadAt
       DEF Known, PairInv, NodeInv, Failures, Calls, HeadGone, Orderly, Rear, StartOps,
           StopOps, At, Planned, Owns, Halting, Spared, Leads, Lost, Sound, Answers,
           InUse
  <1>13. Statuses(x, y)' /\ Statuses(y, x)'
    BY <1>2, <1>3, <1>4, <1>5, <1>6, <1>7
       DEF Known, PairInv, Statuses, HeadGone, Orderly, Rear, StartOps, StopOps, At,
           Planned, Owns, Linked, Halting, Spared, Scored, Gets, ToScore, Sound,
           Answers, InUse
  <1>14. Stops(x, y)' /\ Stops(y, x)'
    BY <1>2, <1>3, <1>4, <1>5, <1>6, <1>7
       DEF Known, PairInv, Stops, HeadGone, Orderly, Rear, StartOps, StopOps, At,
           Planned, Linked, Halting, Spared, StopsAll, StopsOne, Resyncs, Begun, Sound,
           Answers
  <1>15. Calls(x, y)' /\ Calls(y, x)'
    BY <1>2, <1>3, <1>4, <1>5, <1>6, <1>7
       DEF Known, PairInv, Calls, HeadGone, Orderly, Rear, StartOps, StopOps, At,
           Planned, Owns, Sound, Answers
  <1>16. Bad(x)' /\ Bad(y)'
    BY <1>2, <1>3, <1>4, <1>5, <1>6, <1>7
       DEF Known, PairInv, Bad, HeadGone, Orderly, Rear, StartOps, StopOps, At, Planned,
           Sound, Answers, InUse
  <1>17. Begins(x, y)' /\ Begins(y, x)'
    BY <1>2, <1>3, <1>4, <1>5, <1>6, <1>7
       DEF Known, PairInv, Begins, HeadGone, Orderly, Rear, StartOps, StopOps, At,
           Planned, Linked, Halting, Leads, Scored, Sound, Answers
  <1> QED
    BY <1>3, <1>8, <1>9, <1>10, <1>11, <1>12, <1>13, <1>14, <1>15, <1>16, <1>17
       DEF KnownNext, PairInv

LEMMA PromoteColdGuest ==
    ASSUME NEW x \in Node, NEW y \in Node, Known(x, y),
           PromoteCold, Hd.on = x
    PROVE  KnownNext(x, y)
  <1>1. /\ TypeOK /\ todo \in Seq(Call) /\ Form(todo)
        /\ x # y /\ colod[x] \in Colod /\ colod[y] \in Colod
        /\ role[x] \in {"stopped", "slave", "master"} /\ role[y] \in {"stopped", "slave", "master"}
    BY DEF Known, IInv, TypeOK
  <1>2. At("promote", x) /\ x \in up /\ Sound(x) /\ ~InUse(x)
    BY <1>1, HeadCall DEF PromoteCold, Calling, At, Busy, Hd, Known
  <1>3. Hd \in Call /\ Hd.on = x
    BY <1>1, <1>2 DEF At, Busy, Hd
  <1>4. Form(todo') /\ Orderly /\ Orderly' /\ RestKept /\ At("promoted", x)'
    <2>1. A("promoted", x) \in Call /\ A("promoted", x).op = "promoted" /\ A("promoted", x).on = x
      BY NewCall DEF Op
    <2>2. todo' = <<A("promoted", x)>> \o Tail(todo)
      BY DEF PromoteCold, Then, Hd
    <2>3. /\ Form(todo') /\ Orderly /\ Orderly' /\ RestKept
          /\ Busy' /\ Hd' = A("promoted", x)
      BY <1>1, <1>2, <1>3, <2>1, <2>2, HeadReplaced DEF At, StartOps, StopOps
    <2> QED
      BY <2>1, <2>3 DEF At
  <1>5. /\ Notices(colod[y], colod'[y])
        /\ colod'[x].run = "yes" /\ colod'[x].migration = "none"
        /\ colod'[x].resync = "none" /\ colod'[x].guest
        /\ colod'[x].status.primary /\ ~colod'[x].status.replication
        /\ ~colod'[x].status.failed /\ ~colod'[x].status.peer_failed
    <2>1. Leaves(x, Primary)
      BY DEF PromoteCold, Hd
    <2>2. colod'[x] = Primary /\ Notices(colod[y], colod'[y])
      BY <1>1, <2>1, LeavesFields
    <2> QED
      BY <2>2 DEF Primary, Off, Quiet
  <1>6. /\ colod[x].migration \in {"none", "active", "colo", "failover"}
        /\ colod[y].migration \in {"none", "active", "colo", "failover"}
    BY <1>1 DEF Colod
  <1>7. UNCHANGED <<score, current, up, role, bad, standby>> /\ (Young' <=> Young)
    BY DEF PromoteCold, data, pacemaker, Young
  <1>8. Shape(x)' /\ Shape(y)'
    BY <1>2, <1>4, <1>5, <1>6, <1>7
       DEF Known, PairInv, Shape, Sound, Answers, InUse, Notices
  <1>9. Pair(x, y)' /\ Pair(y, x)'
    BY <1>2, <1>4, <1>5, <1>6, <1>7, HeadAt
       DEF Known, PairInv, NodeInv, Shape, Pair, Recent, Scores, Stops, RestKept, At,
           Planned, Owns, Linked, Engaged, Halting, Spared, Leads, Scored, Falls,
           StopsAll, StopsOne, Resyncs, Begun, Sound, Answers, InUse, Notices
  <1>10. Recent(x, y)' /\ Recent(y, x)'
    BY <1>2, <1>4, <1>5, <1>6, <1>7
       DEF Known, PairInv, Recent, RestKept, Orderly, Rear, StartOps, StopOps, At,
           Planned, Owns, Scored, Sound, Answers, InUse, Notices
  <1>11. Scores(x, y)' /\ Scores(y, x)'
    BY <1>2, <1>4, <1>5, <1>6, <1>7, HeadAt
       DEF Known, PairInv, NodeInv, Scores, Stops, RestKept, Orderly, Rear, StartOps,
           StopOps, At, Planned, Owns, Linked, Halting, Spared, Leads, Scored, Falls,
           StopsAll, StopsOne, Resyncs, Begun, Sound, Answers, Notices
  <1>12. Failures(x, y)' /\ Failures(y, x)'
    BY <1>2, <1>4, <1>5, <1>6, <1>7, HeadAt
       DEF Known, PairInv, NodeInv, Failures, Stops, RestKept, Orderly, Rear, StartOps,
           StopOps, At, Planned, Owns, Linked, Halting, Spared, Leads, Lost, StopsAll,
           StopsOne, Resyncs, Begun, Sound, Answers, InUse, Notices
  <1>13. Statuses(x, y)' /\ Statuses(y, x)'
    BY <1>2, <1>4, <1>5, <1>6, <1>7
       DEF Known, PairInv, Statuses, RestKept, At, Planned, Owns, Linked, Halting,
           Spared, Scored, Gets, ToScore, Sound, Answers, InUse, Notices
  <1>14. Stops(x, y)' /\ Stops(y, x)'
    BY <1>2, <1>4, <1>5, <1>6, <1>7
       DEF Known, PairInv, Stops, RestKept, At, Planned, Linked, Halting, Spared,
           StopsAll, StopsOne, Resyncs, Begun, Sound, Answers, Notices
  <1>15. Calls(x, y)' /\ Calls(y, x)'
    BY <1>2, <1>4, <1>5, <1>6, <1>7
       DEF Known, PairInv, Calls, RestKept, At, Planned, Owns, Sound, Answers, Notices
  <1>16. Bad(x)' /\ Bad(y)'
    BY <1>2, <1>4, <1>5, <1>6, <1>7
       DEF Known, PairInv, Shape, Pair, Bad, RestKept, At, Planned, Linked, Engaged,
           Sound, Answers, InUse, Notices
  <1>17. Begins(x, y)' /\ Begins(y, x)'
    BY <1>2, <1>4, <1>5, <1>6, <1>7
       DEF Known, PairInv, Shape, Pair, Begins, RestKept, At, Planned, Linked, Engaged,
           Halting, Leads, Scored, Sound, Answers, InUse, Notices
  <1> QED
    BY <1>4, <1>8, <1>9, <1>10, <1>11, <1>12, <1>13, <1>14, <1>15, <1>16, <1>17
       DEF KnownNext, PairInv

LEMMA PromoteWarmGuest ==
    ASSUME NEW x \in Node, NEW y \in Node, Known(x, y),
           PromoteWarm, Hd.on = x
    PROVE  KnownNext(x, y)
  <1>1. /\ TypeOK /\ todo \in Seq(Call) /\ Form(todo)
        /\ x # y /\ colod[x] \in Colod /\ colod[y] \in Colod
        /\ role[x] \in {"stopped", "slave", "master"} /\ role[y] \in {"stopped", "slave", "master"}
    BY DEF Known, IInv, TypeOK
  <1>2. At("promote", x) /\ x \in up /\ Sound(x) /\ colod[x].status.primary
    BY <1>1, HeadCall DEF PromoteWarm, Calling, At, Busy, Hd, Known
  <1>3. Hd \in Call /\ Hd.on = x
    BY <1>1, <1>2 DEF At, Busy, Hd
  <1>4. Form(todo') /\ Orderly /\ Orderly' /\ RestKept /\ At("promoted", x)'
    <2>1. A("promoted", x) \in Call /\ A("promoted", x).op = "promoted" /\ A("promoted", x).on = x
      BY NewCall DEF Op
    <2>2. todo' = <<A("promoted", x)>> \o Tail(todo)
      BY DEF PromoteWarm, Then, Hd
    <2>3. /\ Form(todo') /\ Orderly /\ Orderly' /\ RestKept
          /\ Busy' /\ Hd' = A("promoted", x)
      BY <1>1, <1>2, <1>3, <2>1, <2>2, HeadReplaced DEF At, StartOps, StopOps
    <2> QED
      BY <2>1, <2>3 DEF At
  <1>5. /\ colod'[y] = colod[y]
        /\ colod'[x].run = colod[x].run /\ colod'[x].status = colod[x].status
        /\ colod'[x].migration = colod[x].migration /\ colod'[x].guest = colod[x].guest
        /\ colod'[x].resync = colod[x].resync
    <2>1. Become(x, [colod[x] EXCEPT !.pretend_secondary = FALSE])
      BY DEF PromoteWarm, Hd
    <2>2. colod'[y] = colod[y] /\ colod'[x] = [colod[x] EXCEPT !.pretend_secondary = FALSE]
      BY <1>1, <2>1, BecomeFields
    <2> QED
      BY <1>1, <2>2 DEF Colod
  <1>6. UNCHANGED <<score, current, up, role, bad, standby>> /\ (Young' <=> Young)
    BY DEF PromoteWarm, data, pacemaker, Young
  <1>7. Shape(x)' /\ Shape(y)'
    BY <1>2, <1>4, <1>5, <1>6
       DEF Known, PairInv, Shape, Sound, Answers, InUse
  <1>8. Pair(x, y)' /\ Pair(y, x)'
    BY <1>2, <1>4, <1>5, <1>6
       DEF Known, PairInv, Pair, Linked, Engaged, Sound, Answers, InUse
  <1>9. Recent(x, y)' /\ Recent(y, x)'
    BY <1>2, <1>4, <1>5, <1>6
       DEF Known, PairInv, Recent, RestKept, At, Planned, Owns, Scored, Sound, Answers,
           InUse
  <1>10. Scores(x, y)' /\ Scores(y, x)'
    BY <1>2, <1>4, <1>5, <1>6, HeadAt
       DEF Known, PairInv, NodeInv, Recent, Scores, Stops, RestKept, Orderly, Rear,
           StartOps, StopOps, At, Planned, Owns, Linked, Halting, Spared, Leads, Scored,
           Falls, StopsAll, StopsOne, Resyncs, Begun, Sound, Answers, InUse
  <1>11. Failures(x, y)' /\ Failures(y, x)'
    BY <1>2, <1>4, <1>5, <1>6, HeadAt
       DEF Known, PairInv, NodeInv, Recent, Failures, Stops, RestKept, Orderly, Rear,
           StartOps, StopOps, At, Planned, Owns, Linked, Halting, Spared, Leads, Scored,
           Lost, StopsAll, StopsOne, Resyncs, Begun, Sound, Answers, InUse
  <1>12. Statuses(x, y)' /\ Statuses(y, x)'
    BY <1>2, <1>4, <1>5, <1>6
       DEF Known, PairInv, Statuses, RestKept, At, Planned, Owns, Linked, Halting,
           Spared, Scored, Gets, ToScore, Sound, Answers, InUse
  <1>13. Stops(x, y)' /\ Stops(y, x)'
    BY <1>2, <1>4, <1>5, <1>6
       DEF Known, PairInv, Stops, RestKept, At, Planned, Linked, Halting, Spared,
           StopsAll, StopsOne, Resyncs, Begun, Sound, Answers
  <1>14. Calls(x, y)' /\ Calls(y, x)'
    BY <1>2, <1>4, <1>5, <1>6
       DEF Known, PairInv, Recent, Stops, Calls, RestKept, At, Planned, Owns, Linked,
           Halting, Spared, Scored, StopsAll, StopsOne, Resyncs, Begun, Sound, Answers,
           InUse
  <1>15. Bad(x)' /\ Bad(y)'
    BY <1>2, <1>4, <1>5, <1>6
       DEF Known, PairInv, Bad, RestKept, At, Planned, Sound, Answers, InUse
  <1>16. Begins(x, y)' /\ Begins(y, x)'
    BY <1>2, <1>4, <1>5, <1>6
       DEF Known, PairInv, Calls, Begins, RestKept, At, Planned, Owns, Linked, Halting,
           Leads, Scored, Sound, Answers
  <1> QED
    BY <1>4, <1>7, <1>8, <1>9, <1>10, <1>11, <1>12, <1>13, <1>14, <1>15, <1>16
       DEF KnownNext, PairInv

LEMMA PromotedGuest ==
    ASSUME NEW x \in Node, NEW y \in Node, Known(x, y),
           Promoted, Hd.on = x
    PROVE  KnownNext(x, y)
  <1>1. /\ TypeOK /\ todo \in Seq(Call) /\ Form(todo)
        /\ x # y /\ colod[x] \in Colod /\ colod[y] \in Colod
        /\ role[x] \in {"stopped", "slave", "master"} /\ role[y] \in {"stopped", "slave", "master"}
    BY DEF Known, IInv, TypeOK
  <1>2. At("promoted", x) /\ x \in up
    BY <1>1, HeadCall DEF Promoted, Calling, At, Busy, Hd, Known
  <1>3. Hd \in Call /\ Hd.on = x
    BY <1>1, <1>2 DEF At, Busy, Hd
  <1>4. /\ Form(todo') /\ Orderly /\ Orderly'
        /\ HeadGone \/ (RestKept /\ At("resync", x)' /\ role[y] = "slave")
    <2>1. CASE role[y] = "slave" /\ ~colod[x].peer
      <3>1. A("resync", x) \in Call /\ A("resync", x).op = "resync" /\ A("resync", x).on = x
        BY NewCall DEF Op
      <3>2. todo' = <<A("resync", x)>> \o Tail(todo)
        BY <1>3, <2>1 DEF Promoted, Then, NewPeer, Hd, Known
      <3>3. Form(todo') /\ Orderly /\ Orderly' /\ Busy' /\ Hd' = A("resync", x) /\ RestKept
        BY <1>1, <1>2, <1>3, <3>1, <3>2, HeadReplaced DEF At, StartOps, StopOps
      <3> QED
        BY <2>1, <3>1, <3>3 DEF At
    <2>2. CASE ~(role[y] = "slave" /\ ~colod[x].peer)
      <3>1. todo' = <<>> \o Tail(todo)
        BY <1>3, <2>2 DEF Promoted, Then, NewPeer, Hd, Known
      <3>2. todo' = Tail(todo)
        BY <1>1, <1>2, <3>1 DEF At, Busy
      <3> QED
        BY <1>1, <1>2, <3>2, HeadDone DEF At
    <2> QED
      BY <2>1, <2>2
  <1>5. score'[x] # 0 /\ score'[y] = score[y]
    <2>1. score' = [score EXCEPT ![x] = 101]
      BY <1>3 DEF Promoted, Hd
    <2> QED
      BY <1>1, <2>1 DEF TypeOK
  <1>6. role'[x] = "master" /\ role'[y] = role[y]
    BY <1>1, <1>3 DEF Promoted, Hd, TypeOK
  <1>7. UNCHANGED <<colod, current, up, bad, standby>> /\ (Young' <=> Young)
    BY DEF Promoted, Young
  <1>8. Shape(x)' /\ Shape(y)'
    BY <1>2, <1>4, <1>5, <1>6, <1>7
       DEF Known, PairInv, Shape, Sound, Answers, InUse
  <1>9. Pair(x, y)' /\ Pair(y, x)'
    BY <1>2, <1>4, <1>5, <1>6, <1>7
       DEF Known, PairInv, Pair, Linked, Engaged, Sound, Answers, InUse
  <1>10. Recent(x, y)' /\ Recent(y, x)'
    BY <1>2, <1>4, <1>5, <1>6, <1>7
       DEF Known, PairInv, Recent, Calls, HeadGone, RestKept, Orderly, Rear, StartOps,
           StopOps, At, Planned, Owns, Scored, Sound, Answers, InUse
  <1>11. Scores(x, y)' /\ Scores(y, x)'
    BY <1>2, <1>4, <1>5, <1>6, <1>7, HeadAt
       DEF Known, PairInv, NodeInv, Scores, Stops, Calls, HeadGone, RestKept, Orderly,
           Rear, StartOps, StopOps, At, Planned, Owns, Linked, Halting, Spared, Leads,
           Scored, Falls, StopsAll, StopsOne, Resyncs, Begun, Sound, Answers
  <1>12. Failures(x, y)' /\ Failures(y, x)'
    BY <1>2, <1>4, <1>5, <1>6, <1>7
       DEF Known, PairInv, Failures, HeadGone, RestKept, Orderly, Rear, StartOps,
           StopOps, At, Planned, Owns, Halting, Spared, Leads, Lost, Sound, Answers,
           InUse
  <1>13. Statuses(x, y)' /\ Statuses(y, x)'
    BY <1>2, <1>4, <1>5, <1>6, <1>7
       DEF Known, PairInv, Statuses, HeadGone, RestKept, Orderly, Rear, StartOps,
           StopOps, At, Planned, Owns, Linked, Halting, Spared, Scored, Gets, ToScore,
           Sound, Answers, InUse
  <1>14. Stops(x, y)' /\ Stops(y, x)'
    BY <1>2, <1>4, <1>5, <1>6, <1>7, HeadAt
       DEF Known, PairInv, NodeInv, Stops, Calls, HeadGone, RestKept, Orderly, Rear,
           StartOps, StopOps, At, Planned, Owns, Linked, Halting, Spared, StopsAll,
           StopsOne, Resyncs, Begun, Sound, Answers
  <1>15. Calls(x, y)' /\ Calls(y, x)'
    BY <1>2, <1>4, <1>5, <1>6, <1>7
       DEF Known, PairInv, Calls, HeadGone, RestKept, Orderly, Rear, StartOps, StopOps,
           At, Planned, Owns, Sound, Answers
  <1>16. Bad(x)' /\ Bad(y)'
    BY <1>2, <1>4, <1>5, <1>6, <1>7
       DEF Known, PairInv, Bad, HeadGone, RestKept, Orderly, Rear, StartOps, StopOps,
           At, Planned, Sound, Answers, InUse
  <1>17. Begins(x, y)' /\ Begins(y, x)'
    BY <1>2, <1>4, <1>5, <1>6, <1>7, HeadAt
       DEF Known, PairInv, NodeInv, Begins, HeadGone, RestKept, Orderly, Rear, StartOps,
           StopOps, At, Planned, Linked, Halting, Leads, Scored, Sound, Answers
  <1> QED
    BY <1>4, <1>8, <1>9, <1>10, <1>11, <1>12, <1>13, <1>14, <1>15, <1>16, <1>17
       DEF KnownNext, PairInv

LEMMA PromoteFailsGuest ==
    ASSUME NEW x \in Node, NEW y \in Node, Known(x, y),
           PromoteFails, Hd.on = x
    PROVE  KnownNext(x, y)
  <1>1. /\ TypeOK /\ todo \in Seq(Call) /\ Form(todo)
        /\ x # y /\ colod[x] \in Colod /\ colod[y] \in Colod
        /\ role[x] \in {"stopped", "slave", "master"} /\ role[y] \in {"stopped", "slave", "master"}
    BY DEF Known, IInv, TypeOK
  <1>2. At("promote", x) /\ x \in up
    BY <1>1, HeadCall DEF PromoteFails, Calling, At, Busy, Hd, Known
  <1>3. Form(todo') /\ Orderly /\ Orderly' /\ HeadGone
    BY <1>1, <1>2, HeadDone DEF PromoteFails, Done, At
  <1>4. \/ ~Sound(x)
        \/ InUse(x) /\ ~colod[x].status.primary /\ colod[x].migration # "failover"
    BY DEF PromoteFails, Hd
  <1>5. x \in bad' /\ (y \in bad' <=> y \in bad)
    BY <1>1 DEF PromoteFails, Hd
  <1>6. UNCHANGED <<colod, score, current, up, role, standby>> /\ (Young' <=> Young)
    BY DEF PromoteFails, data, Young
  <1>7. Shape(x)' /\ Shape(y)'
    BY <1>2, <1>3, <1>4, <1>5, <1>6
       DEF Known, PairInv, Shape, Sound, Answers, InUse
  <1>8. Pair(x, y)' /\ Pair(y, x)'
    BY <1>2, <1>3, <1>4, <1>5, <1>6
       DEF Known, PairInv, Pair, Linked, Engaged, Sound, Answers, InUse
  <1>9. Recent(x, y)' /\ Recent(y, x)'
    BY <1>2, <1>3, <1>4, <1>5, <1>6
       DEF Known, PairInv, Recent, HeadGone, Orderly, Rear, StartOps, StopOps, At,
           Planned, Owns, Scored, Sound, Answers, InUse
  <1>10. Scores(x, y)' /\ Scores(y, x)'
    BY <1>2, <1>3, <1>4, <1>5, <1>6
       DEF Known, PairInv, Shape, Pair, Recent, Scores, HeadGone, Orderly, Rear,
           StartOps, StopOps, At, Planned, Owns, Linked, Engaged, Halting, Spared,
           Leads, Scored, Falls, Sound, Answers, InUse
  <1>11. Failures(x, y)' /\ Failures(y, x)'
    BY <1>2, <1>3, <1>4, <1>5, <1>6
       DEF Known, PairInv, Failures, HeadGone, Orderly, Rear, StartOps, StopOps, At,
           Planned, Owns, Halting, Spared, Leads, Lost, Sound, Answers, InUse
  <1>12. Statuses(x, y)' /\ Statuses(y, x)'
    BY <1>2, <1>3, <1>4, <1>5, <1>6
       DEF Known, PairInv, Statuses, HeadGone, Orderly, Rear, StartOps, StopOps, At,
           Planned, Owns, Linked, Halting, Spared, Scored, Gets, ToScore, Sound,
           Answers, InUse
  <1>13. Stops(x, y)' /\ Stops(y, x)'
    BY <1>2, <1>3, <1>4, <1>5, <1>6, HeadAt
       DEF Known, PairInv, NodeInv, Pair, Stops, HeadGone, Orderly, Rear, StartOps,
           StopOps, At, Planned, Linked, Engaged, Halting, Spared, StopsAll, StopsOne,
           Resyncs, Begun, Sound, Answers, InUse
  <1>14. Calls(x, y)' /\ Calls(y, x)'
    BY <1>2, <1>3, <1>4, <1>5, <1>6
       DEF Known, PairInv, Calls, HeadGone, Orderly, Rear, StartOps, StopOps, At,
           Planned, Owns, Sound, Answers
  <1>15. Bad(x)' /\ Bad(y)'
    BY <1>2, <1>3, <1>4, <1>5, <1>6
       DEF Known, PairInv, Calls, Bad, HeadGone, Orderly, Rear, StartOps, StopOps, At,
           Planned, Owns, Sound, Answers, InUse
  <1>16. Begins(x, y)' /\ Begins(y, x)'
    BY <1>2, <1>3, <1>4, <1>5, <1>6
       DEF Known, PairInv, Shape, Pair, Begins, HeadGone, Orderly, Rear, StartOps,
           StopOps, At, Planned, Linked, Engaged, Halting, Leads, Scored, Sound,
           Answers, InUse
  <1> QED
    BY <1>3, <1>7, <1>8, <1>9, <1>10, <1>11, <1>12, <1>13, <1>14, <1>15, <1>16
       DEF KnownNext, PairInv

LEMMA MonitorFailsGuest ==
    ASSUME NEW x \in Node, NEW y \in Node, Known(x, y),
           MonitorFails(x)
    PROVE  KnownNext(x, y)
  <1>1. /\ TypeOK /\ todo \in Seq(Call) /\ Form(todo)
        /\ x # y /\ colod[x] \in Colod /\ colod[y] \in Colod
        /\ role[x] \in {"stopped", "slave", "master"} /\ role[y] \in {"stopped", "slave", "master"}
    BY DEF Known, IInv, TypeOK
  <1>2. Form(todo') /\ Orderly /\ Orderly' /\ (Busy' <=> Busy) /\ Hd' = Hd /\ RestKept
    <2>1. todo' = todo
      BY DEF MonitorFails
    <2> QED
      BY <1>1, <2>1, TodoKept
  <1>3. /\ x \in up /\ role[x] # "stopped" /\ (Busy => Hd.on # x)
        /\ ~Sound(x)
    BY <1>1 DEF MonitorFails, Monitored, Active, Busy, Hd, Known
  <1>4. x \in bad' /\ (y \in bad' <=> y \in bad)
    BY <1>1 DEF MonitorFails
  <1>5. UNCHANGED <<colod, score, current, up, role, standby>> /\ (Young' <=> Young)
    BY DEF MonitorFails, data, Young
  <1>6. Shape(x)' /\ Shape(y)'
    BY <1>2, <1>3, <1>4, <1>5
       DEF Known, PairInv, Shape, Sound, Answers, InUse
  <1>7. Pair(x, y)' /\ Pair(y, x)'
    BY <1>2, <1>3, <1>4, <1>5
       DEF Known, PairInv, Pair, Linked, Engaged, Sound, Answers, InUse
  <1>8. Recent(x, y)' /\ Recent(y, x)'
    BY <1>2, <1>3, <1>4, <1>5
       DEF Known, PairInv, Recent, RestKept, At, Planned, Owns, Scored, Sound, Answers,
           InUse
  <1>9. Scores(x, y)' /\ Scores(y, x)'
    BY <1>2, <1>3, <1>4, <1>5
       DEF Known, PairInv, Scores, RestKept, At, Planned, Owns, Halting, Spared, Leads,
           Scored, Falls, Sound, Answers
  <1>10. Failures(x, y)' /\ Failures(y, x)'
    BY <1>2, <1>3, <1>4, <1>5
       DEF Known, PairInv, Failures, RestKept, At, Planned, Owns, Halting, Spared,
           Leads, Lost, Sound, Answers, InUse
  <1>11. Statuses(x, y)' /\ Statuses(y, x)'
    BY <1>2, <1>3, <1>4, <1>5
       DEF Known, PairInv, Statuses, RestKept, At, Planned, Owns, Linked, Halting,
           Spared, Scored, Gets, ToScore, Sound, Answers, InUse
  <1>12. Stops(x, y)' /\ Stops(y, x)'
    BY <1>2, <1>3, <1>4, <1>5
       DEF Known, PairInv, Pair, Stops, RestKept, At, Planned, Linked, Engaged, Halting,
           Spared, StopsAll, StopsOne, Resyncs, Begun, Sound, Answers, InUse
  <1>13. Calls(x, y)' /\ Calls(y, x)'
    BY <1>2, <1>3, <1>4, <1>5
       DEF Known, PairInv, Calls, RestKept, At, Planned, Owns, Sound, Answers
  <1>14. Bad(x)' /\ Bad(y)'
    BY <1>2, <1>3, <1>4, <1>5
       DEF Known, PairInv, Bad, RestKept, At, Planned, Sound, Answers, InUse
  <1>15. Begins(x, y)' /\ Begins(y, x)'
    BY <1>2, <1>3, <1>4, <1>5
       DEF Known, PairInv, Begins, RestKept, At, Planned, Linked, Halting, Leads,
           Scored, Sound, Answers
  <1> QED
    BY <1>2, <1>6, <1>7, <1>8, <1>9, <1>10, <1>11, <1>12, <1>13, <1>14, <1>15
       DEF KnownNext, PairInv

LEMMA MonitorPeerLostGuest ==
    ASSUME NEW x \in Node, NEW y \in Node, Known(x, y),
           MonitorPeerLost(x)
    PROVE  KnownNext(x, y)
  <1>1. /\ TypeOK /\ todo \in Seq(Call) /\ Form(todo)
        /\ x # y /\ colod[x] \in Colod /\ colod[y] \in Colod
        /\ role[x] \in {"stopped", "slave", "master"} /\ role[y] \in {"stopped", "slave", "master"}
    BY DEF Known, IInv, TypeOK
  <1>2. Form(todo') /\ Orderly /\ Orderly' /\ (Busy' <=> Busy) /\ Hd' = Hd /\ RestKept
    <2>1. todo' = todo
      BY DEF MonitorPeerLost
    <2> QED
      BY <1>1, <2>1, TodoKept
  <1>3. /\ x \in up /\ role[x] # "stopped" /\ (Busy => Hd.on # x)
        /\ Sound(x) /\ colod[x].status.primary /\ colod[x].resync # "none"
        /\ colod[x].resync = "error" \/ colod[x].status.peer_failed
    BY <1>1 DEF MonitorPeerLost, Monitored, Active, Busy, Hd, Known
  <1>4. /\ colod'[y] = colod[y]
        /\ colod'[x].run = colod[x].run /\ colod'[x].status = colod[x].status
        /\ colod'[x].migration = colod[x].migration /\ colod'[x].guest = colod[x].guest
        /\ colod'[x].resync = "none"
    <2>1. Become(x, [colod[x] EXCEPT !.peer = FALSE, !.resync = "none"])
      BY DEF MonitorPeerLost, del_peer
    <2>2. /\ colod'[y] = colod[y]
          /\ colod'[x] = [colod[x] EXCEPT !.peer = FALSE, !.resync = "none"]
      BY <1>1, <2>1, BecomeFields
    <2> QED
      BY <1>1, <2>2 DEF Colod, Status
  <1>5. /\ x \in bad' <=> x \in bad
        /\ y \in bad' <=> y \in bad \/ role[y] # "stopped"
    BY <1>1 DEF MonitorPeerLost, Active, Known
  <1>6. UNCHANGED <<score, current, up, role, standby>> /\ (Young' <=> Young)
    BY DEF MonitorPeerLost, data, Young
  <1>7. Shape(x)' /\ Shape(y)'
    BY <1>2, <1>3, <1>4, <1>5, <1>6
       DEF Known, PairInv, Shape, Sound, Answers, InUse
  <1>8. Pair(x, y)' /\ Pair(y, x)'
    BY <1>2, <1>3, <1>4, <1>5, <1>6
       DEF Known, PairInv, Pair, Linked, Engaged, Sound, Answers, InUse
  <1>9. Recent(x, y)' /\ Recent(y, x)'
    BY <1>2, <1>3, <1>4, <1>5, <1>6
       DEF Known, PairInv, Recent, RestKept, At, Planned, Owns, Scored, Sound, Answers,
           InUse
  <1>10. Scores(x, y)' /\ Scores(y, x)'
    BY <1>2, <1>3, <1>4, <1>5, <1>6
       DEF Known, PairInv, Scores, RestKept, At, Planned, Owns, Halting, Spared, Leads,
           Scored, Falls, Sound, Answers
  <1>11. Failures(x, y)' /\ Failures(y, x)'
    BY <1>2, <1>3, <1>4, <1>5, <1>6
       DEF Known, PairInv, Failures, RestKept, At, Planned, Owns, Halting, Spared,
           Leads, Lost, Sound, Answers, InUse
  <1>12. Statuses(x, y)' /\ Statuses(y, x)'
    BY <1>2, <1>3, <1>4, <1>5, <1>6
       DEF Known, PairInv, Statuses, RestKept, At, Planned, Owns, Linked, Halting,
           Spared, Scored, Gets, ToScore, Sound, Answers, InUse
  <1>13. Stops(x, y)' /\ Stops(y, x)'
    BY <1>2, <1>3, <1>4, <1>5, <1>6
       DEF Known, PairInv, Shape, Pair, Stops, RestKept, At, Planned, Linked, Engaged,
           Halting, Spared, StopsAll, StopsOne, Resyncs, Begun, Sound, Answers, InUse
  <1>14. Calls(x, y)' /\ Calls(y, x)'
    BY <1>2, <1>3, <1>4, <1>5, <1>6
       DEF Known, PairInv, Calls, RestKept, At, Planned, Owns, Sound, Answers
  <1>15. Bad(x)' /\ Bad(y)'
    BY <1>2, <1>3, <1>4, <1>5, <1>6
       DEF Known, PairInv, Shape, Pair, Recent, Stops, Bad, RestKept, At, Planned, Owns,
           Linked, Engaged, Halting, Spared, Scored, StopsAll, StopsOne, Resyncs, Begun,
           Sound, Answers, InUse
  <1>16. Begins(x, y)' /\ Begins(y, x)'
    BY <1>2, <1>3, <1>4, <1>5, <1>6
       DEF Known, PairInv, Begins, RestKept, At, Planned, Linked, Halting, Leads,
           Scored, Sound, Answers
  <1> QED
    BY <1>2, <1>7, <1>8, <1>9, <1>10, <1>11, <1>12, <1>13, <1>14, <1>15, <1>16
       DEF KnownNext, PairInv

LEMMA MonitorResyncedGuest ==
    ASSUME NEW x \in Node, NEW y \in Node, Known(x, y),
           MonitorResynced(x)
    PROVE  KnownNext(x, y)
  <1>1. /\ TypeOK /\ todo \in Seq(Call) /\ Form(todo)
        /\ x # y /\ colod[x] \in Colod /\ colod[y] \in Colod
        /\ role[x] \in {"stopped", "slave", "master"} /\ role[y] \in {"stopped", "slave", "master"}
    BY DEF Known, IInv, TypeOK
  <1>2. Form(todo') /\ Orderly /\ Orderly' /\ (Busy' <=> Busy) /\ Hd' = Hd /\ RestKept
    <2>1. todo' = todo
      BY DEF MonitorResynced
    <2> QED
      BY <1>1, <2>1, TodoKept
  <1>3. /\ x \in up /\ role[x] # "stopped" /\ (Busy => Hd.on # x)
        /\ Sound(x) /\ colod[x].status.primary /\ colod[x].resync = "ready"
        /\ ~colod[x].status.peer_failed
    BY <1>1 DEF MonitorResynced, Monitored, Active, Busy, Hd, Known
  <1>4. PICK to \in {"failover", "active"} :
          /\ to = IF colod[y].run = "no" THEN "failover" ELSE "active"
          /\ Become(x, [colod[x] EXCEPT !.resync = "none", !.migration = to])
    BY DEF MonitorResynced, Known
  <1>5. /\ colod'[y] = colod[y]
        /\ colod'[x].run = colod[x].run /\ colod'[x].status = colod[x].status
        /\ colod'[x].guest = colod[x].guest /\ colod'[x].resync = "none"
        /\ colod[y].run = "no" => colod'[x].migration = "failover"
        /\ colod[y].run # "no" => colod'[x].migration = "active"
    <2>1. colod'[y] = colod[y] /\ colod'[x] = [colod[x] EXCEPT !.resync = "none", !.migration = to]
      BY <1>1, <1>4, BecomeFields
    <2> QED
      BY <1>1, <1>4, <2>1 DEF Colod
  <1>6. UNCHANGED <<score, current, up, role, bad, standby>> /\ (Young' <=> Young)
    BY DEF MonitorResynced, data, pacemaker, Young
  <1>7. Shape(x)' /\ Shape(y)'
    BY <1>2, <1>3, <1>5, <1>6
       DEF Known, PairInv, Shape, Sound, Answers, InUse
  <1>8. Pair(x, y)' /\ Pair(y, x)'
    BY <1>2, <1>3, <1>5, <1>6
       DEF Known, PairInv, Shape, Pair, Linked, Engaged, Sound, Answers, InUse
  <1>9. Recent(x, y)' /\ Recent(y, x)'
    BY <1>2, <1>3, <1>5, <1>6
       DEF Known, PairInv, Recent, RestKept, At, Planned, Owns, Scored, Sound, Answers,
           InUse
  <1>10. Scores(x, y)' /\ Scores(y, x)'
    BY <1>2, <1>3, <1>5, <1>6
       DEF Known, PairInv, Scores, RestKept, At, Planned, Owns, Halting, Spared, Leads,
           Scored, Falls, Sound, Answers
  <1>11. Failures(x, y)' /\ Failures(y, x)'
    BY <1>2, <1>3, <1>5, <1>6
       DEF Known, PairInv, Failures, RestKept, At, Planned, Owns, Halting, Spared,
           Leads, Lost, Sound, Answers, InUse
  <1>12. Statuses(x, y)' /\ Statuses(y, x)'
    BY <1>2, <1>3, <1>5, <1>6
       DEF Known, PairInv, Statuses, RestKept, At, Planned, Owns, Linked, Halting,
           Spared, Scored, Gets, ToScore, Sound, Answers, InUse
  <1>13. Stops(x, y)' /\ Stops(y, x)'
    BY <1>2, <1>3, <1>5, <1>6
       DEF Known, PairInv, Stops, RestKept, At, Planned, Linked, Halting, Spared,
           StopsAll, StopsOne, Resyncs, Begun, Sound, Answers
  <1>14. Calls(x, y)' /\ Calls(y, x)'
    BY <1>2, <1>3, <1>5, <1>6
       DEF Known, PairInv, Calls, RestKept, At, Planned, Owns, Sound, Answers
  <1>15. Bad(x)' /\ Bad(y)'
    BY <1>2, <1>3, <1>5, <1>6
       DEF Known, PairInv, Bad, RestKept, At, Planned, Sound, Answers, InUse
  <1>16. Begins(x, y)' /\ Begins(y, x)'
    BY <1>2, <1>3, <1>5, <1>6
       DEF Known, PairInv, Begins, RestKept, At, Planned, Linked, Halting, Leads,
           Scored, Sound, Answers
  <1> QED
    BY <1>2, <1>7, <1>8, <1>9, <1>10, <1>11, <1>12, <1>13, <1>14, <1>15, <1>16
       DEF KnownNext, PairInv

LEMMA MonitorSecondaryGuest ==
    ASSUME NEW x \in Node, NEW y \in Node, Known(x, y),
           MonitorSecondary(x)
    PROVE  KnownNext(x, y)
  <1>1. /\ TypeOK /\ todo \in Seq(Call) /\ Form(todo)
        /\ x # y /\ colod[x] \in Colod /\ colod[y] \in Colod
        /\ role[x] \in {"stopped", "slave", "master"} /\ role[y] \in {"stopped", "slave", "master"}
    BY DEF Known, IInv, TypeOK
  <1>2. Form(todo') /\ Orderly /\ Orderly' /\ (Busy' <=> Busy) /\ Hd' = Hd /\ RestKept
    <2>1. todo' = todo
      BY DEF MonitorSecondary
    <2> QED
      BY <1>1, <2>1, TodoKept
  <1>3. /\ x \in up /\ role[x] # "stopped" /\ (Busy => Hd.on # x)
        /\ Sound(x) /\ ~colod[x].status.primary /\ colod[x].status.replication
    BY <1>1 DEF MonitorSecondary, Monitored, Active, Busy, Hd, Known
  <1>4. score'[x] # 0 /\ score'[y] = score[y]
    BY <1>1 DEF MonitorSecondary, TypeOK
  <1>5. UNCHANGED <<colod, current, up, role, bad, standby>> /\ (Young' <=> Young)
    BY DEF MonitorSecondary, pacemaker, Young
  <1>6. Shape(x)' /\ Shape(y)'
    BY <1>2, <1>3, <1>4, <1>5
       DEF Known, PairInv, Shape, Sound, Answers, InUse
  <1>7. Pair(x, y)' /\ Pair(y, x)'
    BY <1>2, <1>3, <1>4, <1>5
       DEF Known, PairInv, Pair, Linked, Engaged, Sound, Answers, InUse
  <1>8. Recent(x, y)' /\ Recent(y, x)'
    BY <1>2, <1>3, <1>4, <1>5
       DEF Known, PairInv, Recent, RestKept, At, Planned, Owns, Scored, Sound, Answers,
           InUse
  <1>9. Scores(x, y)' /\ Scores(y, x)'
    BY <1>2, <1>3, <1>4, <1>5
       DEF Known, PairInv, Shape, Pair, Scores, RestKept, At, Planned, Owns, Linked,
           Engaged, Halting, Spared, Leads, Scored, Falls, Sound, Answers, InUse
  <1>10. Failures(x, y)' /\ Failures(y, x)'
    BY <1>2, <1>3, <1>4, <1>5
       DEF Known, PairInv, Failures, RestKept, At, Planned, Owns, Halting, Spared,
           Leads, Lost, Sound, Answers, InUse
  <1>11. Statuses(x, y)' /\ Statuses(y, x)'
    BY <1>2, <1>3, <1>4, <1>5
       DEF Known, PairInv, Statuses, RestKept, At, Planned, Owns, Linked, Halting,
           Spared, Scored, Gets, ToScore, Sound, Answers, InUse
  <1>12. Stops(x, y)' /\ Stops(y, x)'
    BY <1>2, <1>3, <1>4, <1>5
       DEF Known, PairInv, Stops, RestKept, At, Planned, Linked, Halting, Spared,
           StopsAll, StopsOne, Resyncs, Begun, Sound, Answers
  <1>13. Calls(x, y)' /\ Calls(y, x)'
    BY <1>2, <1>3, <1>4, <1>5
       DEF Known, PairInv, Calls, RestKept, At, Planned, Owns, Sound, Answers
  <1>14. Bad(x)' /\ Bad(y)'
    BY <1>2, <1>3, <1>4, <1>5
       DEF Known, PairInv, Bad, RestKept, At, Planned, Sound, Answers, InUse
  <1>15. Begins(x, y)' /\ Begins(y, x)'
    BY <1>2, <1>3, <1>4, <1>5
       DEF Known, PairInv, Shape, Begins, RestKept, At, Planned, Linked, Halting, Leads,
           Scored, Sound, Answers, InUse
  <1> QED
    BY <1>2, <1>6, <1>7, <1>8, <1>9, <1>10, <1>11, <1>12, <1>13, <1>14, <1>15
       DEF KnownNext, PairInv

LEMMA MirrorGuest ==
    ASSUME NEW x \in Node, NEW y \in Node, Known(x, y),
           Mirror(x)
    PROVE  KnownNext(x, y)
  <1>1. /\ TypeOK /\ todo \in Seq(Call) /\ Form(todo)
        /\ x # y /\ colod[x] \in Colod /\ colod[y] \in Colod
        /\ role[x] \in {"stopped", "slave", "master"} /\ role[y] \in {"stopped", "slave", "master"}
    BY DEF Known, IInv, TypeOK
  <1>2. Form(todo') /\ Orderly /\ Orderly' /\ (Busy' <=> Busy) /\ Hd' = Hd /\ RestKept
    <2>1. todo' = todo
      BY DEF Mirror, Qemu
    <2> QED
      BY <1>1, <2>1, TodoKept
  <1>3. PICK to \in {"ready", "error"} :
          /\ Become(x, [colod[x] EXCEPT !.resync = to])
          /\ to = "error" => colod[y].run = "no"
    BY DEF Mirror, Known
  <1>4. /\ colod'[y] = colod[y]
        /\ colod'[x].run = colod[x].run /\ colod'[x].status = colod[x].status
        /\ colod'[x].migration = colod[x].migration /\ colod'[x].guest = colod[x].guest
        /\ colod'[x].resync # "none" /\ (colod'[x].resync = "error" => colod[y].run = "no")
    <2>1. colod'[y] = colod[y] /\ colod'[x] = [colod[x] EXCEPT !.resync = to]
      BY <1>1, <1>3, BecomeFields
    <2> QED
      BY <1>1, <1>3, <2>1 DEF Colod
  <1>5. Answers(x) /\ colod[x].resync # "none"
    BY DEF Mirror
  <1>6. UNCHANGED <<score, current, up, role, bad, standby>> /\ (Young' <=> Young)
    BY DEF Mirror, Qemu, pacemaker, Young
  <1>7. Shape(x)' /\ Shape(y)'
    BY <1>2, <1>4, <1>5, <1>6
       DEF Known, PairInv, Shape, Sound, Answers, InUse
  <1>8. Pair(x, y)' /\ Pair(y, x)'
    BY <1>2, <1>4, <1>5, <1>6
       DEF Known, PairInv, Pair, Linked, Engaged, Sound, Answers, InUse
  <1>9. Recent(x, y)' /\ Recent(y, x)'
    BY <1>2, <1>4, <1>5, <1>6
       DEF Known, PairInv, Recent, RestKept, At, Planned, Owns, Scored, Sound, Answers,
           InUse
  <1>10. Scores(x, y)' /\ Scores(y, x)'
    BY <1>2, <1>4, <1>5, <1>6
       DEF Known, PairInv, Scores, RestKept, At, Planned, Owns, Halting, Spared, Leads,
           Scored, Falls, Sound, Answers
  <1>11. Failures(x, y)' /\ Failures(y, x)'
    BY <1>2, <1>4, <1>5, <1>6
       DEF Known, PairInv, Failures, RestKept, At, Planned, Owns, Halting, Spared,
           Leads, Lost, Sound, Answers, InUse
  <1>12. Statuses(x, y)' /\ Statuses(y, x)'
    BY <1>2, <1>4, <1>5, <1>6
       DEF Known, PairInv, Statuses, RestKept, At, Planned, Owns, Linked, Halting,
           Spared, Scored, Gets, ToScore, Sound, Answers, InUse
  <1>13. Stops(x, y)' /\ Stops(y, x)'
    BY <1>2, <1>4, <1>5, <1>6
       DEF Known, PairInv, Stops, RestKept, At, Planned, Linked, Halting, Spared,
           StopsAll, StopsOne, Resyncs, Begun, Sound, Answers
  <1>14. Calls(x, y)' /\ Calls(y, x)'
    BY <1>2, <1>4, <1>5, <1>6
       DEF Known, PairInv, Calls, RestKept, At, Planned, Owns, Sound, Answers
  <1>15. Bad(x)' /\ Bad(y)'
    BY <1>2, <1>4, <1>5, <1>6
       DEF Known, PairInv, Bad, RestKept, At, Planned, Sound, Answers, InUse
  <1>16. Begins(x, y)' /\ Begins(y, x)'
    BY <1>2, <1>4, <1>5, <1>6
       DEF Known, PairInv, Begins, RestKept, At, Planned, Linked, Halting, Leads,
           Scored, Sound, Answers
  <1> QED
    BY <1>2, <1>7, <1>8, <1>9, <1>10, <1>11, <1>12, <1>13, <1>14, <1>15, <1>16
       DEF KnownNext, PairInv

LEMMA MigratedGuest ==
    ASSUME NEW x \in Node, NEW y \in Node, Known(x, y),
           Migrated(x)
    PROVE  KnownNext(x, y)
  <1>1. /\ TypeOK /\ todo \in Seq(Call) /\ Form(todo)
        /\ x # y /\ colod[x] \in Colod /\ colod[y] \in Colod
        /\ role[x] \in {"stopped", "slave", "master"} /\ role[y] \in {"stopped", "slave", "master"}
    BY DEF Known, IInv, TypeOK
  <1>2. Form(todo') /\ Orderly /\ Orderly' /\ (Busy' <=> Busy) /\ Hd' = Hd /\ RestKept
    <2>1. todo' = todo
      BY DEF Migrated, Qemu
    <2> QED
      BY <1>1, <2>1, TodoKept
  <1>3. /\ Sound(x) /\ colod[x].migration = "active" /\ ~colod[x].status.peer_failed
        /\ Sound(y) /\ ~colod[y].status.primary /\ ~colod[y].status.replication
        /\ colod[y].migration \in {"none", "active", "colo", "failover"}
    BY <1>1 DEF Migrated, InUse, Known, Colod
  <1>4. /\ colod'[x].run = colod[x].run /\ colod'[x].status = colod[x].status
        /\ colod'[x].resync = colod[x].resync /\ colod'[x].guest = colod[x].guest
        /\ colod'[x].migration = "colo" /\ colod'[y].migration = "colo"
        /\ colod'[y].run = colod[y].run /\ colod'[y].status = colod[y].status
        /\ colod'[y].resync = colod[y].resync /\ (colod'[y].guest <=> colod[x].guest)
    <2>1. colod' = [colod EXCEPT ![x].migration = "colo", ![y].migration = "colo",
                                 ![y].guest = colod[x].guest]
      BY DEF Migrated, Known
    <2>2. /\ colod'[x] = [colod[x] EXCEPT !.migration = "colo"]
          /\ colod'[y] = [colod[y] EXCEPT !.migration = "colo", !.guest = colod[x].guest]
      BY <1>1, <2>1 DEF TypeOK
    <2> QED
      BY <1>1, <2>2 DEF Colod
  <1>5. (x \in current' <=> x \in current) /\ (y \in current' <=> x \in current)
    BY <1>1 DEF Migrated, Known
  <1>6. UNCHANGED <<score, up, role, bad, standby>> /\ (Young' <=> Young)
    BY DEF Migrated, Qemu, pacemaker, Young
  <1>7. Shape(x)' /\ Shape(y)'
    BY <1>2, <1>3, <1>4, <1>5, <1>6
       DEF Known, PairInv, Shape, Sound, Answers, InUse
  <1>8. Pair(x, y)' /\ Pair(y, x)'
    BY <1>2, <1>3, <1>4, <1>5, <1>6
       DEF Known, PairInv, Shape, Pair, Recent, Stops, RestKept, At, Planned, Owns,
           Linked, Engaged, Halting, Spared, Scored, StopsAll, StopsOne, Resyncs, Begun,
           Sound, Answers, InUse
  <1>9. Recent(x, y)' /\ Recent(y, x)'
    BY <1>2, <1>3, <1>4, <1>5, <1>6
       DEF Known, PairInv, Shape, Recent, RestKept, At, Planned, Owns, Scored, Sound,
           Answers, InUse
  <1>10. Scores(x, y)' /\ Scores(y, x)'
    BY <1>2, <1>3, <1>4, <1>5, <1>6, HeadAt
       DEF Known, PairInv, NodeInv, Shape, Recent, Scores, Stops, Calls, RestKept, At,
           Planned, Owns, Linked, Halting, Spared, Leads, Scored, Falls, StopsAll,
           StopsOne, Resyncs, Begun, Sound, Answers, InUse
  <1>11. Failures(x, y)' /\ Failures(y, x)'
    BY <1>2, <1>3, <1>4, <1>5, <1>6
       DEF Known, PairInv, Failures, RestKept, At, Planned, Owns, Halting, Spared,
           Leads, Lost, Sound, Answers, InUse
  <1>12. Statuses(x, y)' /\ Statuses(y, x)'
    BY <1>2, <1>3, <1>4, <1>5, <1>6, HeadAt
       DEF Known, PairInv, NodeInv, Shape, Recent, Scores, Statuses, Stops, RestKept,
           At, Planned, Owns, Linked, Halting, Spared, Leads, Scored, Falls, Gets,
           ToScore, StopsAll, StopsOne, Resyncs, Begun, Sound, Answers, InUse
  <1>13. Stops(x, y)' /\ Stops(y, x)'
    BY <1>2, <1>3, <1>4, <1>5, <1>6
       DEF Known, PairInv, Shape, Stops, Bad, RestKept, Orderly, Rear, StartOps,
           StopOps, At, Planned, Linked, Halting, Spared, StopsAll, StopsOne, Resyncs,
           Begun, Sound, Answers, InUse
  <1>14. Calls(x, y)' /\ Calls(y, x)'
    BY <1>2, <1>3, <1>4, <1>5, <1>6
       DEF Known, PairInv, Calls, RestKept, At, Planned, Owns, Sound, Answers
  <1>15. Bad(x)' /\ Bad(y)'
    BY <1>2, <1>3, <1>4, <1>5, <1>6
       DEF Known, PairInv, Bad, RestKept, At, Planned, Sound, Answers, InUse
  <1>16. Begins(x, y)' /\ Begins(y, x)'
    BY <1>2, <1>3, <1>4, <1>5, <1>6
       DEF Known, PairInv, Calls, Begins, RestKept, At, Planned, Owns, Linked, Halting,
           Leads, Scored, Sound, Answers
  <1> QED
    BY <1>2, <1>7, <1>8, <1>9, <1>10, <1>11, <1>12, <1>13, <1>14, <1>15, <1>16
       DEF KnownNext, PairInv

LEMMA ColoRunningGuest ==
    ASSUME NEW x \in Node, NEW y \in Node, Known(x, y),
           ColoRunning(x)
    PROVE  KnownNext(x, y)
  <1>1. /\ TypeOK /\ todo \in Seq(Call) /\ Form(todo)
        /\ x # y /\ colod[x] \in Colod /\ colod[y] \in Colod
        /\ role[x] \in {"stopped", "slave", "master"} /\ role[y] \in {"stopped", "slave", "master"}
    BY DEF Known, IInv, TypeOK
  <1>2. Form(todo') /\ Orderly /\ Orderly' /\ (Busy' <=> Busy) /\ Hd' = Hd /\ RestKept
    <2>1. todo' = todo
      BY DEF ColoRunning, Qemu
    <2> QED
      BY <1>1, <2>1, TodoKept
  <1>3. Sound(x) /\ colod[x].migration = "colo"
    BY DEF ColoRunning
  <1>4. /\ colod'[y] = colod[y]
        /\ colod'[x].run = colod[x].run /\ colod'[x].resync = colod[x].resync
        /\ colod'[x].guest = colod[x].guest /\ colod'[x].migration = "none"
        /\ colod'[x].status.replication
        /\ colod'[x].status.primary = colod[x].status.primary
        /\ colod'[x].status.failed = colod[x].status.failed
        /\ colod'[x].status.peer_failed = colod[x].status.peer_failed
    <2>1. Become(x, [colod[x] EXCEPT !.migration = "none", !.status.replication = TRUE])
      BY DEF ColoRunning
    <2>2. /\ colod'[y] = colod[y]
          /\ colod'[x] = [colod[x] EXCEPT !.migration = "none", !.status.replication = TRUE]
      BY <1>1, <2>1, BecomeFields
    <2> QED
      BY <1>1, <2>2 DEF Colod, Status
  <1>5. UNCHANGED <<score, current, up, role, bad, standby>> /\ (Young' <=> Young)
    BY DEF ColoRunning, Qemu, pacemaker, Young
  <1>6. Shape(x)' /\ Shape(y)'
    BY <1>2, <1>3, <1>4, <1>5
       DEF Known, PairInv, Shape, Sound, Answers, InUse
  <1>7. Pair(x, y)' /\ Pair(y, x)'
    BY <1>2, <1>3, <1>4, <1>5
       DEF Known, PairInv, Pair, Linked, Engaged, Sound, Answers, InUse
  <1>8. Recent(x, y)' /\ Recent(y, x)'
    BY <1>2, <1>3, <1>4, <1>5
       DEF Known, PairInv, Pair, Recent, RestKept, At, Planned, Owns, Linked, Engaged,
           Scored, Sound, Answers, InUse
  <1>9. Scores(x, y)' /\ Scores(y, x)'
    BY <1>2, <1>3, <1>4, <1>5
       DEF Known, PairInv, Scores, RestKept, At, Planned, Owns, Halting, Spared, Leads,
           Scored, Falls, Sound, Answers
  <1>10. Failures(x, y)' /\ Failures(y, x)'
    BY <1>2, <1>3, <1>4, <1>5
       DEF Known, PairInv, Pair, Failures, RestKept, At, Planned, Owns, Linked, Engaged,
           Halting, Spared, Leads, Lost, Sound, Answers, InUse
  <1>11. Statuses(x, y)' /\ Statuses(y, x)'
    BY <1>2, <1>3, <1>4, <1>5
       DEF Known, PairInv, Statuses, RestKept, At, Planned, Owns, Linked, Halting,
           Spared, Scored, Gets, ToScore, Sound, Answers, InUse
  <1>12. Stops(x, y)' /\ Stops(y, x)'
    BY <1>2, <1>3, <1>4, <1>5
       DEF Known, PairInv, Stops, RestKept, At, Planned, Linked, Halting, Spared,
           StopsAll, StopsOne, Resyncs, Begun, Sound, Answers
  <1>13. Calls(x, y)' /\ Calls(y, x)'
    BY <1>2, <1>3, <1>4, <1>5
       DEF Known, PairInv, Calls, RestKept, At, Planned, Owns, Sound, Answers
  <1>14. Bad(x)' /\ Bad(y)'
    BY <1>2, <1>3, <1>4, <1>5
       DEF Known, PairInv, Bad, RestKept, At, Planned, Sound, Answers, InUse
  <1>15. Begins(x, y)' /\ Begins(y, x)'
    BY <1>2, <1>3, <1>4, <1>5
       DEF Known, PairInv, Begins, RestKept, At, Planned, Linked, Halting, Leads,
           Scored, Sound, Answers
  <1> QED
    BY <1>2, <1>6, <1>7, <1>8, <1>9, <1>10, <1>11, <1>12, <1>13, <1>14, <1>15
       DEF KnownNext, PairInv

LEMMA FailoverGuest ==
    ASSUME NEW x \in Node, NEW y \in Node, Known(x, y),
           Failover(x)
    PROVE  KnownNext(x, y)
  <1>1. /\ TypeOK /\ todo \in Seq(Call) /\ Form(todo)
        /\ x # y /\ colod[x] \in Colod /\ colod[y] \in Colod
        /\ role[x] \in {"stopped", "slave", "master"} /\ role[y] \in {"stopped", "slave", "master"}
    BY DEF Known, IInv, TypeOK
  <1>2. Form(todo') /\ Orderly /\ Orderly' /\ (Busy' <=> Busy) /\ Hd' = Hd /\ RestKept
    <2>1. todo' = todo
      BY DEF Failover, Qemu
    <2> QED
      BY <1>1, <2>1, TodoKept
  <1>3. Sound(x) /\ colod[x].migration = "failover"
    BY DEF Failover
  <1>4. /\ colod'[y] = colod[y]
        /\ colod'[x].run = colod[x].run /\ colod'[x].resync = colod[x].resync
        /\ colod'[x].guest = colod[x].guest /\ colod'[x].migration = "none"
        /\ colod'[x].status.primary /\ ~colod'[x].status.replication
        /\ colod'[x].status.failed = colod[x].status.failed
        /\ colod'[x].status.peer_failed = colod[x].status.peer_failed
    <2> DEFINE c == [colod[x] EXCEPT !.status.primary = TRUE, !.status.replication = FALSE,
                                     !.migration = "none", !.peer = FALSE]
    <2>1. Become(x, c)
      BY DEF Failover
    <2>2. colod'[y] = colod[y] /\ colod'[x] = c
      BY <1>1, <2>1, BecomeFields
    <2>3. /\ c.run = colod[x].run /\ c.resync = colod[x].resync
          /\ c.guest = colod[x].guest /\ c.migration = "none"
          /\ c.status = [colod[x].status EXCEPT !.primary = TRUE, !.replication = FALSE]
          /\ colod[x].status \in Status
      BY <1>1 DEF Colod
    <2> HIDE DEF c
    <2>4. /\ c.status.primary /\ ~c.status.replication
          /\ c.status.failed = colod[x].status.failed
          /\ c.status.peer_failed = colod[x].status.peer_failed
      BY <2>3 DEF Status
    <2> QED
      BY <2>2, <2>3, <2>4
  <1>5. UNCHANGED <<score, current, up, role, bad, standby>> /\ (Young' <=> Young)
    BY DEF Failover, Qemu, pacemaker, Young
  <1>6. Shape(x)' /\ Shape(y)'
    BY <1>2, <1>3, <1>4, <1>5
       DEF Known, PairInv, Shape, Sound, Answers, InUse
  <1>7. Pair(x, y)' /\ Pair(y, x)'
    BY <1>2, <1>3, <1>4, <1>5
       DEF Known, PairInv, Pair, Linked, Engaged, Sound, Answers, InUse
  <1>8. Recent(x, y)' /\ Recent(y, x)'
    BY <1>2, <1>3, <1>4, <1>5
       DEF Known, PairInv, Shape, Recent, RestKept, At, Planned, Owns, Scored, Sound,
           Answers, InUse
  <1>9. Scores(x, y)' /\ Scores(y, x)'
    BY <1>2, <1>3, <1>4, <1>5
       DEF Known, PairInv, Shape, Pair, Scores, RestKept, At, Planned, Owns, Linked,
           Engaged, Halting, Spared, Leads, Scored, Falls, Sound, Answers, InUse
  <1>10. Failures(x, y)' /\ Failures(y, x)'
    BY <1>2, <1>3, <1>4, <1>5
       DEF Known, PairInv, Failures, RestKept, At, Planned, Owns, Halting, Spared,
           Leads, Lost, Sound, Answers, InUse
  <1>11. Statuses(x, y)' /\ Statuses(y, x)'
    BY <1>2, <1>3, <1>4, <1>5
       DEF Known, PairInv, Statuses, RestKept, At, Planned, Owns, Linked, Halting,
           Spared, Scored, Gets, ToScore, Sound, Answers, InUse
  <1>12. Stops(x, y)' /\ Stops(y, x)'
    BY <1>2, <1>3, <1>4, <1>5
       DEF Known, PairInv, Shape, Stops, RestKept, At, Planned, Linked, Halting, Spared,
           StopsAll, StopsOne, Resyncs, Begun, Sound, Answers, InUse
  <1>13. Calls(x, y)' /\ Calls(y, x)'
    BY <1>2, <1>3, <1>4, <1>5
       DEF Known, PairInv, Calls, RestKept, At, Planned, Owns, Sound, Answers
  <1>14. Bad(x)' /\ Bad(y)'
    BY <1>2, <1>3, <1>4, <1>5
       DEF Known, PairInv, Bad, RestKept, At, Planned, Sound, Answers, InUse
  <1>15. Begins(x, y)' /\ Begins(y, x)'
    BY <1>2, <1>3, <1>4, <1>5
       DEF Known, PairInv, Begins, RestKept, At, Planned, Linked, Halting, Leads,
           Scored, Sound, Answers
  <1> QED
    BY <1>2, <1>6, <1>7, <1>8, <1>9, <1>10, <1>11, <1>12, <1>13, <1>14, <1>15
       DEF KnownNext, PairInv

LEMMA WriteGuest ==
    ASSUME NEW x \in Node, NEW y \in Node, Known(x, y),
           Write(x)
    PROVE  KnownNext(x, y)
  <1>1. /\ TypeOK /\ todo \in Seq(Call) /\ Form(todo)
        /\ x # y /\ colod[x] \in Colod /\ colod[y] \in Colod
        /\ role[x] \in {"stopped", "slave", "master"} /\ role[y] \in {"stopped", "slave", "master"}
    BY DEF Known, IInv, TypeOK
  <1>2. Form(todo') /\ Orderly /\ Orderly' /\ (Busy' <=> Busy) /\ Hd' = Hd /\ RestKept
    <2>1. todo' = todo
      BY DEF Write, Qemu
    <2> QED
      BY <1>1, <2>1, TodoKept
  <1>3. /\ colod[x].run # "no" /\ colod[x].status.primary /\ ~colod[x].status.replication
        /\ ~colod[x].status.failed /\ colod[x].migration = "none" /\ colod[x].guest
    BY DEF Write, HasGuest
  <1>4. colod[x].run \in {"no", "yes", "qemu"}
    BY <1>1 DEF Colod
  <1>5. x \in current' /\ y \notin current'
    BY <1>1 DEF Write
  <1>6. UNCHANGED <<colod, score, up, role, bad, standby>> /\ (Young' <=> Young)
    BY DEF Write, Qemu, pacemaker, Young
  <1>7. Shape(x)' /\ Shape(y)'
    BY <1>2, <1>3, <1>4, <1>5, <1>6
       DEF Known, PairInv, Shape, Sound, Answers, InUse
  <1>8. Pair(x, y)' /\ Pair(y, x)'
    BY <1>2, <1>3, <1>4, <1>5, <1>6
       DEF Known, PairInv, Pair, Linked, Engaged, Sound, Answers, InUse
  <1>9. Recent(x, y)' /\ Recent(y, x)'
    BY <1>2, <1>3, <1>4, <1>5, <1>6
       DEF Known, PairInv, Shape, Pair, Recent, RestKept, At, Planned, Owns, Linked,
           Engaged, Scored, Sound, Answers, InUse
  <1>10. Scores(x, y)' /\ Scores(y, x)'
    BY <1>2, <1>3, <1>4, <1>5, <1>6
       DEF Known, PairInv, Scores, RestKept, At, Planned, Owns, Halting, Spared, Leads,
           Scored, Falls, Sound, Answers
  <1>11. Failures(x, y)' /\ Failures(y, x)'
    BY <1>2, <1>3, <1>4, <1>5, <1>6
       DEF Known, PairInv, Shape, Failures, RestKept, At, Planned, Owns, Halting,
           Spared, Leads, Lost, Sound, Answers, InUse
  <1>12. Statuses(x, y)' /\ Statuses(y, x)'
    BY <1>2, <1>3, <1>4, <1>5, <1>6
       DEF Known, PairInv, Shape, Statuses, RestKept, At, Planned, Owns, Linked,
           Halting, Spared, Scored, Gets, ToScore, Sound, Answers, InUse
  <1>13. Stops(x, y)' /\ Stops(y, x)'
    BY <1>2, <1>3, <1>4, <1>5, <1>6
       DEF Known, PairInv, Stops, RestKept, At, Planned, Linked, Halting, Spared,
           StopsAll, StopsOne, Resyncs, Begun, Sound, Answers
  <1>14. Calls(x, y)' /\ Calls(y, x)'
    BY <1>2, <1>3, <1>4, <1>5, <1>6
       DEF Known, PairInv, Calls, RestKept, At, Planned, Owns, Sound, Answers
  <1>15. Bad(x)' /\ Bad(y)'
    BY <1>2, <1>3, <1>4, <1>5, <1>6
       DEF Known, PairInv, Bad, RestKept, At, Planned, Sound, Answers, InUse
  <1>16. Begins(x, y)' /\ Begins(y, x)'
    BY <1>2, <1>3, <1>4, <1>5, <1>6
       DEF Known, PairInv, Begins, RestKept, At, Planned, Linked, Halting, Leads,
           Scored, Sound, Answers
  <1> QED
    BY <1>2, <1>7, <1>8, <1>9, <1>10, <1>11, <1>12, <1>13, <1>14, <1>15, <1>16
       DEF KnownNext, PairInv

LEMMA CrashGuest ==
    ASSUME NEW x \in Node, NEW y \in Node, Known(x, y),
           TimelyFaults, Crash(x)
    PROVE  KnownNext(x, y)
  <1>1. /\ TypeOK /\ todo \in Seq(Call) /\ Form(todo)
        /\ x # y /\ colod[x] \in Colod /\ colod[y] \in Colod
        /\ role[x] \in {"stopped", "slave", "master"} /\ role[y] \in {"stopped", "slave", "master"}
    BY DEF Known, IInv, TypeOK
  <1>2. Form(todo') /\ Orderly /\ Orderly' /\ OnlyCall(y)
    BY TodoShort DEF Crash
  <1>3. /\ ~Young' /\ (Calm(x, y) \/ Young)
        /\ colod[x].migration \in {"none", "active", "colo", "failover"}
        /\ colod[y].migration \in {"none", "active", "colo", "failover"}
    <2>1. Fault(CrashKind(x)) /\ standbys' = standbys
      BY DEF Crash, pacemaker
    <2> QED
      BY <1>1, <2>1, FaultFacts DEF Colod
  <1>4. colod'[x].run = "no" /\ Blank(colod'[x]) /\ Notices(colod[y], colod'[y])
    <2>1. Leaves(x, Off)
      BY DEF Crash
    <2>2. colod'[x] = Off /\ Notices(colod[y], colod'[y])
      BY <1>1, <2>1, LeavesFields
    <2> QED
      BY <2>2, OffFields
  <1>5. x \notin up' /\ (y \in up' <=> y \in up)
    BY <1>1 DEF Crash
  <1>6. UNCHANGED <<score, current, role, bad, standby>>
    BY DEF Crash, data
  <1>7. Shape(x)' /\ Shape(y)'
    BY <1>2, <1>3, <1>4, <1>5, <1>6
       DEF Known, PairInv, Shape, Sound, Answers, InUse, Calm, Notices, Blank
  <1>8. Pair(x, y)' /\ Pair(y, x)'
    BY <1>2, <1>3, <1>4, <1>5, <1>6
       DEF Known, PairInv, Pair, Linked, Engaged, Sound, Answers, InUse, Calm, Notices,
           Blank
  <1>9. Recent(x, y)' /\ Recent(y, x)'
    BY <1>2, <1>3, <1>4, <1>5, <1>6
       DEF Known, PairInv, Shape, Pair, Recent, Begins, OnlyCall, Orderly, Rear,
           StartOps, StopOps, At, Planned, Owns, Linked, Engaged, Halting, Leads,
           Scored, Sound, Answers, InUse, Calm, Notices, Blank
  <1>10. Scores(x, y)' /\ Scores(y, x)'
    BY <1>2, <1>3, <1>4, <1>5, <1>6
       DEF Known, PairInv, Shape, Pair, Scores, Begins, OnlyCall, Orderly, Rear,
           StartOps, StopOps, At, Planned, Owns, Linked, Engaged, Halting, Spared,
           Leads, Scored, Falls, Sound, Answers, InUse, Calm, Notices, Blank
  <1>11. Failures(x, y)' /\ Failures(y, x)'
    BY <1>2, <1>3, <1>4, <1>5, <1>6
       DEF Known, PairInv, Shape, Pair, Failures, Begins, OnlyCall, Orderly, Rear,
           StartOps, StopOps, At, Planned, Owns, Linked, Engaged, Halting, Spared,
           Leads, Scored, Lost, Sound, Answers, InUse, Calm, Notices, Blank
  <1>12. Statuses(x, y)' /\ Statuses(y, x)'
    BY <1>2, <1>3, <1>4, <1>5, <1>6
       DEF Known, PairInv, Shape, Pair, Statuses, Begins, OnlyCall, Orderly, Rear,
           StartOps, StopOps, At, Planned, Owns, Linked, Engaged, Halting, Spared,
           Leads, Scored, Gets, ToScore, Sound, Answers, InUse, Calm, Notices, Blank
  <1>13. Stops(x, y)' /\ Stops(y, x)'
    BY <1>2, <1>3, <1>4, <1>5, <1>6
       DEF Known, PairInv, Shape, Pair, Stops, Begins, OnlyCall, Orderly, Rear,
           StartOps, StopOps, At, Planned, Linked, Engaged, Halting, Spared, Leads,
           Scored, StopsAll, StopsOne, Resyncs, Begun, Sound, Answers, InUse, Calm,
           Notices, Blank
  <1>14. Calls(x, y)' /\ Calls(y, x)'
    BY <1>2, <1>3, <1>4, <1>5, <1>6
       DEF Known, PairInv, Calls, OnlyCall, Orderly, Rear, StartOps, StopOps, At,
           Planned, Owns, Sound, Answers, Calm, Notices, Blank
  <1>15. Bad(x)' /\ Bad(y)'
    BY <1>2, <1>3, <1>4, <1>5, <1>6
       DEF Known, PairInv, Bad, Begins, OnlyCall, Orderly, Rear, StartOps, StopOps, At,
           Planned, Linked, Halting, Leads, Scored, Sound, Answers, InUse, Calm,
           Notices, Blank
  <1>16. Begins(x, y)' /\ Begins(y, x)'
    BY <1>2, <1>3, <1>4, <1>5, <1>6
       DEF Known, PairInv, Begins, OnlyCall, Orderly, Rear, StartOps, StopOps, At,
           Planned, Linked, Halting, Leads, Scored, Sound, Answers, Calm, Notices, Blank
  <1> QED
    BY <1>2, <1>7, <1>8, <1>9, <1>10, <1>11, <1>12, <1>13, <1>14, <1>15, <1>16
       DEF KnownNext, PairInv

LEMMA FailGuest ==
    ASSUME NEW x \in Node, NEW y \in Node, Known(x, y),
           TimelyFaults, Fail(x)
    PROVE  KnownNext(x, y)
  <1>1. /\ TypeOK /\ todo \in Seq(Call) /\ Form(todo)
        /\ x # y /\ colod[x] \in Colod /\ colod[y] \in Colod
        /\ role[x] \in {"stopped", "slave", "master"} /\ role[y] \in {"stopped", "slave", "master"}
    BY DEF Known, IInv, TypeOK
  <1>2. Form(todo') /\ Orderly /\ Orderly' /\ (Busy' <=> Busy) /\ Hd' = Hd /\ RestKept
    <2>1. todo' = todo
      BY DEF Fail
    <2> QED
      BY <1>1, <2>1, TodoKept
  <1>3. /\ ~Young' /\ Calm(x, y)
        /\ colod[x].migration \in {"none", "active", "colo", "failover"}
        /\ colod[y].migration \in {"none", "active", "colo", "failover"}
    <2>1. Fault("fail") /\ standbys' = standbys
      BY DEF Fail, pacemaker
    <2>2. "fail" \notin AnyTime
      BY DEF TimelyFaults
    <2> QED
      BY <1>1, <2>1, <2>2, FaultFacts DEF Colod
  <1>4. /\ colod'[x].run = colod[x].run /\ colod'[x].migration = colod[x].migration
        /\ colod'[x].resync = colod[x].resync /\ ~colod'[x].guest
        /\ colod'[x].status.failed
        /\ colod'[x].status.primary = colod[x].status.primary
        /\ colod'[x].status.replication = colod[x].status.replication
        /\ colod'[x].status.peer_failed = colod[x].status.peer_failed
        /\ Notices(colod[y], colod'[y])
    <2>1. Leaves(x, FailedOf(colod[x]))
      BY DEF Fail
    <2>2. colod'[x] = FailedOf(colod[x]) /\ Notices(colod[y], colod'[y])
      BY <1>1, <2>1, LeavesFields
    <2> QED
      BY <1>1, <2>2 DEF FailedOf, Colod, Status
  <1>5. UNCHANGED <<score, current, up, role, bad, standby>>
    BY DEF Fail, data, pacemaker
  <1>6. Shape(x)' /\ Shape(y)'
    BY <1>2, <1>3, <1>4, <1>5
       DEF Known, PairInv, Shape, Sound, Answers, InUse, Calm, Notices
  <1>7. Pair(x, y)' /\ Pair(y, x)'
    BY <1>2, <1>3, <1>4, <1>5
       DEF Known, PairInv, Pair, Linked, Engaged, Sound, Answers, InUse, Calm, Notices
  <1>8. Recent(x, y)' /\ Recent(y, x)'
    BY <1>2, <1>3, <1>4, <1>5
       DEF Known, PairInv, Shape, Pair, Recent, RestKept, Orderly, Rear, StartOps,
           StopOps, At, Planned, Owns, Linked, Engaged, Scored, Sound, Answers, InUse,
           Calm, Notices
  <1>9. Scores(x, y)' /\ Scores(y, x)'
    BY <1>2, <1>3, <1>4, <1>5
       DEF Known, PairInv, Shape, Pair, Scores, RestKept, Orderly, Rear, StartOps,
           StopOps, At, Planned, Owns, Linked, Engaged, Halting, Spared, Leads, Scored,
           Falls, Sound, Answers, InUse, Calm, Notices
  <1>10. Failures(x, y)' /\ Failures(y, x)'
    BY <1>2, <1>3, <1>4, <1>5
       DEF Known, PairInv, Shape, Pair, Failures, RestKept, Orderly, Rear, StartOps,
           StopOps, At, Planned, Owns, Linked, Engaged, Halting, Spared, Leads, Lost,
           Sound, Answers, InUse, Calm, Notices
  <1>11. Statuses(x, y)' /\ Statuses(y, x)'
    BY <1>2, <1>3, <1>4, <1>5
       DEF Known, PairInv, Shape, Pair, Statuses, RestKept, Orderly, Rear, StartOps,
           StopOps, At, Planned, Owns, Linked, Engaged, Halting, Spared, Scored, Gets,
           ToScore, Sound, Answers, InUse, Calm, Notices
  <1>12. Stops(x, y)' /\ Stops(y, x)'
    BY <1>2, <1>3, <1>4, <1>5
       DEF Known, PairInv, Shape, Pair, Stops, RestKept, Orderly, Rear, StartOps,
           StopOps, At, Planned, Linked, Engaged, Halting, Spared, StopsAll, StopsOne,
           Resyncs, Begun, Sound, Answers, InUse, Calm, Notices
  <1>13. Calls(x, y)' /\ Calls(y, x)'
    BY <1>2, <1>3, <1>4, <1>5
       DEF Known, PairInv, Calls, RestKept, At, Planned, Owns, Sound, Answers, Calm,
           Notices
  <1>14. Bad(x)' /\ Bad(y)'
    BY <1>2, <1>3, <1>4, <1>5
       DEF Known, PairInv, Bad, RestKept, At, Planned, Sound, Answers, InUse, Calm,
           Notices
  <1>15. Begins(x, y)' /\ Begins(y, x)'
    BY <1>2, <1>3, <1>4, <1>5
       DEF Known, PairInv, Begins, RestKept, At, Planned, Linked, Halting, Leads,
           Scored, Sound, Answers, Calm, Notices
  <1> QED
    BY <1>2, <1>6, <1>7, <1>8, <1>9, <1>10, <1>11, <1>12, <1>13, <1>14, <1>15
       DEF KnownNext, PairInv

LEMMA LinkBreaksGuest ==
    ASSUME NEW x \in Node, NEW y \in Node, Known(x, y),
           TimelyFaults, LinkBreaks(x)
    PROVE  KnownNext(x, y)
  <1>1. /\ TypeOK /\ todo \in Seq(Call) /\ Form(todo)
        /\ x # y /\ colod[x] \in Colod /\ colod[y] \in Colod
        /\ role[x] \in {"stopped", "slave", "master"} /\ role[y] \in {"stopped", "slave", "master"}
    BY DEF Known, IInv, TypeOK
  <1>2. Form(todo') /\ Orderly /\ Orderly' /\ (Busy' <=> Busy) /\ Hd' = Hd /\ RestKept
    <2>1. todo' = todo
      BY DEF LinkBreaks
    <2> QED
      BY <1>1, <2>1, TodoKept
  <1>3. /\ ~Young' /\ Calm(x, y)
        /\ colod[x].migration \in {"none", "active", "colo", "failover"}
        /\ colod[y].migration \in {"none", "active", "colo", "failover"}
    <2>1. Fault("link") /\ standbys' = standbys
      BY DEF LinkBreaks, pacemaker
    <2>2. "link" \notin AnyTime
      BY DEF TimelyFaults
    <2> QED
      BY <1>1, <2>1, <2>2, FaultFacts DEF Colod
  <1>4. /\ colod'[x].run = colod[x].run /\ colod'[x].migration = colod[x].migration
        /\ colod'[x].resync = colod[x].resync /\ ~colod'[x].guest
        /\ colod'[x].status.failed
        /\ colod'[x].status.primary = colod[x].status.primary
        /\ colod'[x].status.replication = colod[x].status.replication
        /\ colod'[x].status.peer_failed = colod[x].status.peer_failed
        /\ Notices(colod[y], colod'[y])
    <2>1. Leaves(x, FailedOf(colod[x]))
      BY DEF LinkBreaks
    <2>2. colod'[x] = FailedOf(colod[x]) /\ Notices(colod[y], colod'[y])
      BY <1>1, <2>1, LeavesFields
    <2> QED
      BY <1>1, <2>2 DEF FailedOf, Colod, Status
  <1>5. UNCHANGED <<score, current, up, role, bad, standby>>
    BY DEF LinkBreaks, data, pacemaker
  <1>6. Shape(x)' /\ Shape(y)'
    BY <1>2, <1>3, <1>4, <1>5
       DEF Known, PairInv, Shape, Sound, Answers, InUse, Calm, Notices
  <1>7. Pair(x, y)' /\ Pair(y, x)'
    BY <1>2, <1>3, <1>4, <1>5
       DEF Known, PairInv, Pair, Linked, Engaged, Sound, Answers, InUse, Calm, Notices
  <1>8. Recent(x, y)' /\ Recent(y, x)'
    BY <1>2, <1>3, <1>4, <1>5
       DEF Known, PairInv, Shape, Pair, Recent, RestKept, Orderly, Rear, StartOps,
           StopOps, At, Planned, Owns, Linked, Engaged, Scored, Sound, Answers, InUse,
           Calm, Notices
  <1>9. Scores(x, y)' /\ Scores(y, x)'
    BY <1>2, <1>3, <1>4, <1>5
       DEF Known, PairInv, Shape, Pair, Scores, RestKept, Orderly, Rear, StartOps,
           StopOps, At, Planned, Owns, Linked, Engaged, Halting, Spared, Leads, Scored,
           Falls, Sound, Answers, InUse, Calm, Notices
  <1>10. Failures(x, y)' /\ Failures(y, x)'
    BY <1>2, <1>3, <1>4, <1>5
       DEF Known, PairInv, Shape, Pair, Failures, RestKept, Orderly, Rear, StartOps,
           StopOps, At, Planned, Owns, Linked, Engaged, Halting, Spared, Leads, Lost,
           Sound, Answers, InUse, Calm, Notices
  <1>11. Statuses(x, y)' /\ Statuses(y, x)'
    BY <1>2, <1>3, <1>4, <1>5
       DEF Known, PairInv, Shape, Pair, Statuses, RestKept, Orderly, Rear, StartOps,
           StopOps, At, Planned, Owns, Linked, Engaged, Halting, Spared, Scored, Gets,
           ToScore, Sound, Answers, InUse, Calm, Notices
  <1>12. Stops(x, y)' /\ Stops(y, x)'
    BY <1>2, <1>3, <1>4, <1>5
       DEF Known, PairInv, Shape, Pair, Stops, RestKept, Orderly, Rear, StartOps,
           StopOps, At, Planned, Linked, Engaged, Halting, Spared, StopsAll, StopsOne,
           Resyncs, Begun, Sound, Answers, InUse, Calm, Notices
  <1>13. Calls(x, y)' /\ Calls(y, x)'
    BY <1>2, <1>3, <1>4, <1>5
       DEF Known, PairInv, Calls, RestKept, At, Planned, Owns, Sound, Answers, Calm,
           Notices
  <1>14. Bad(x)' /\ Bad(y)'
    BY <1>2, <1>3, <1>4, <1>5
       DEF Known, PairInv, Bad, RestKept, At, Planned, Sound, Answers, InUse, Calm,
           Notices
  <1>15. Begins(x, y)' /\ Begins(y, x)'
    BY <1>2, <1>3, <1>4, <1>5
       DEF Known, PairInv, Begins, RestKept, At, Planned, Linked, Halting, Leads,
           Scored, Sound, Answers, Calm, Notices
  <1> QED
    BY <1>2, <1>6, <1>7, <1>8, <1>9, <1>10, <1>11, <1>12, <1>13, <1>14, <1>15
       DEF KnownNext, PairInv

LEMMA BothFailGuest ==
    ASSUME NEW x \in Node, NEW y \in Node, Known(x, y),
           TimelyFaults, BothFail
    PROVE  KnownNext(x, y)
  <1>1. /\ TypeOK /\ todo \in Seq(Call) /\ Form(todo)
        /\ x # y /\ colod[x] \in Colod /\ colod[y] \in Colod
        /\ role[x] \in {"stopped", "slave", "master"} /\ role[y] \in {"stopped", "slave", "master"}
    BY DEF Known, IInv, TypeOK
  <1>2. Form(todo') /\ Orderly /\ Orderly' /\ (Busy' <=> Busy) /\ Hd' = Hd /\ RestKept
    <2>1. todo' = todo
      BY DEF BothFail
    <2> QED
      BY <1>1, <2>1, TodoKept
  <1>3. /\ ~Young' /\ (Calm(x, y) \/ Young)
        /\ colod[x].migration \in {"none", "active", "colo", "failover"}
        /\ colod[y].migration \in {"none", "active", "colo", "failover"}
    <2>1. Fault("both") /\ standbys' = standbys
      BY DEF BothFail, pacemaker
    <2> QED
      BY <1>1, <2>1, FaultFacts DEF Colod
  <1>4. Joined(x) /\ Joined(y)
    BY DEF BothFail
  <1>5. \A n \in {x, y} : Fails(colod[n], colod'[n])
    <2>1. \A n \in {x, y} :
            colod'[n] = [FailedOf(colod[n]) EXCEPT !.status.peer_failed = TRUE]
      BY DEF BothFail
    <2> QED
      BY <1>1, <2>1, FailsFields
  <1>6. UNCHANGED <<score, current, up, role, bad, standby>>
    BY DEF BothFail, data, pacemaker
  <1>7. Shape(x)' /\ Shape(y)'
    BY <1>2, <1>3, <1>4, <1>5, <1>6
       DEF Known, PairInv, Shape, Sound, Answers, InUse, Calm, Joined, Fails
  <1>8. Pair(x, y)' /\ Pair(y, x)'
    BY <1>2, <1>3, <1>4, <1>5, <1>6
       DEF Known, PairInv, Pair, Linked, Engaged, Sound, Answers, InUse, Calm, Joined,
           Fails
  <1>9. Recent(x, y)' /\ Recent(y, x)'
    BY <1>2, <1>3, <1>4, <1>5, <1>6
       DEF Known, PairInv, Shape, Pair, Recent, RestKept, Orderly, Rear, StartOps,
           StopOps, At, Planned, Owns, Linked, Engaged, Scored, Sound, Answers, InUse,
           Calm, Joined, Fails
  <1>10. Scores(x, y)' /\ Scores(y, x)'
    BY <1>2, <1>3, <1>4, <1>5, <1>6
       DEF Known, PairInv, Shape, Pair, Scores, RestKept, Orderly, Rear, StartOps,
           StopOps, At, Planned, Owns, Linked, Engaged, Halting, Spared, Leads, Scored,
           Falls, Sound, Answers, InUse, Calm, Joined, Fails
  <1>11. Failures(x, y)' /\ Failures(y, x)'
    BY <1>2, <1>3, <1>4, <1>5, <1>6
       DEF Known, PairInv, Shape, Pair, Recent, Failures, RestKept, Orderly, Rear,
           StartOps, StopOps, At, Planned, Owns, Linked, Engaged, Halting, Spared,
           Leads, Scored, Lost, Sound, Answers, InUse, Calm, Joined, Fails
  <1>12. Statuses(x, y)' /\ Statuses(y, x)'
    BY <1>2, <1>3, <1>4, <1>5, <1>6
       DEF Known, PairInv, Shape, Pair, Recent, Statuses, RestKept, Orderly, Rear,
           StartOps, StopOps, At, Planned, Owns, Linked, Engaged, Halting, Spared,
           Scored, Gets, ToScore, Sound, Answers, InUse, Calm, Joined, Fails
  <1>13. Stops(x, y)' /\ Stops(y, x)'
    BY <1>2, <1>3, <1>4, <1>5, <1>6
       DEF Known, PairInv, Shape, Pair, Stops, RestKept, Orderly, Rear, StartOps,
           StopOps, At, Planned, Linked, Engaged, Halting, Spared, StopsAll, StopsOne,
           Resyncs, Begun, Sound, Answers, InUse, Calm, Joined, Fails
  <1>14. Calls(x, y)' /\ Calls(y, x)'
    BY <1>2, <1>3, <1>4, <1>5, <1>6
       DEF Known, PairInv, Calls, Begins, RestKept, At, Planned, Owns, Linked, Halting,
           Leads, Scored, Sound, Answers, Calm, Joined, Fails
  <1>15. Bad(x)' /\ Bad(y)'
    BY <1>2, <1>3, <1>4, <1>5, <1>6
       DEF Known, PairInv, Bad, RestKept, At, Planned, Sound, Answers, InUse, Calm,
           Joined, Fails
  <1>16. Begins(x, y)' /\ Begins(y, x)'
    BY <1>2, <1>3, <1>4, <1>5, <1>6
       DEF Known, PairInv, Begins, RestKept, At, Planned, Linked, Halting, Leads,
           Scored, Sound, Answers, Calm, Joined, Fails
  <1> QED
    BY <1>2, <1>7, <1>8, <1>9, <1>10, <1>11, <1>12, <1>13, <1>14, <1>15, <1>16
       DEF KnownNext, PairInv

LEMMA ColodDiesGuest ==
    ASSUME NEW x \in Node, NEW y \in Node, Known(x, y),
           TimelyFaults, ColodDies(x)
    PROVE  KnownNext(x, y)
  <1>1. /\ TypeOK /\ todo \in Seq(Call) /\ Form(todo)
        /\ x # y /\ colod[x] \in Colod /\ colod[y] \in Colod
        /\ role[x] \in {"stopped", "slave", "master"} /\ role[y] \in {"stopped", "slave", "master"}
    BY DEF Known, IInv, TypeOK
  <1>2. Form(todo') /\ Orderly /\ Orderly' /\ (Busy' <=> Busy) /\ Hd' = Hd /\ RestKept
    <2>1. todo' = todo
      BY DEF ColodDies
    <2> QED
      BY <1>1, <2>1, TodoKept
  <1>3. Answers(x) /\ role[x] # "master" /\ (Busy => Hd.on # x)
    BY DEF ColodDies, Fault, Busy, Hd, TimelyFaults
  <1>4. /\ ~Young' /\ (Calm(x, y) \/ Young)
        /\ colod[x].migration \in {"none", "active", "colo", "failover"}
        /\ colod[y].migration \in {"none", "active", "colo", "failover"}
    <2>1. Fault("colod slave") /\ standbys' = standbys
      BY <1>3 DEF ColodDies, Fault, pacemaker
    <2> QED
      BY <1>1, <2>1, FaultFacts DEF Colod, TimelyFaults
  <1>5. /\ colod'[x].run = "qemu" /\ colod'[x].status = colod[x].status
        /\ colod'[x].migration = colod[x].migration /\ colod'[x].resync = colod[x].resync
        /\ colod'[x].guest = colod[x].guest
        /\ Notices(colod[y], colod'[y])
    <2>1. Leaves(x, [colod[x] EXCEPT !.run = "qemu"])
      BY DEF ColodDies
    <2>2. colod'[x] = [colod[x] EXCEPT !.run = "qemu"] /\ Notices(colod[y], colod'[y])
      BY <1>1, <2>1, LeavesFields
    <2> QED
      BY <1>1, <2>2 DEF Colod
  <1>6. UNCHANGED <<score, current, up, role, bad, standby>>
    BY DEF ColodDies, data, pacemaker
  <1>7. Shape(x)' /\ Shape(y)'
    <2>1. ~colod[x].status.primary
      BY <1>2, <1>3, <1>4, HeadAt
         DEF Known, PairInv, NodeInv, Shape, Pair, Begins, Leads, At, Linked, Engaged,
             Sound, Answers, InUse, Calm
    <2>2. Shape(x)'
      BY <1>5, <2>1 DEF Known, PairInv, Shape, Sound, Answers, InUse
    <2>3. Shape(y)'
      BY <1>5 DEF Known, PairInv, Shape, Sound, Answers, InUse, Notices
    <2> QED
      BY <2>2, <2>3
  <1>8. Pair(x, y)' /\ Pair(y, x)'
    BY <1>2, <1>3, <1>4, <1>5, <1>6
       DEF Known, PairInv, Pair, Linked, Engaged, Sound, Answers, InUse, Calm, Notices
  <1>9. Recent(x, y)' /\ Recent(y, x)'
    BY <1>2, <1>3, <1>4, <1>5, <1>6
       DEF Known, PairInv, Shape, Pair, Recent, Begins, RestKept, Orderly, Rear,
           StartOps, StopOps, At, Planned, Owns, Linked, Engaged, Halting, Leads,
           Scored, Sound, Answers, InUse, Calm, Notices
  <1>10. Scores(x, y)' /\ Scores(y, x)'
    BY <1>2, <1>3, <1>4, <1>5, <1>6
       DEF Known, PairInv, Shape, Pair, Scores, Begins, RestKept, Orderly, Rear,
           StartOps, StopOps, At, Planned, Owns, Linked, Engaged, Halting, Spared,
           Leads, Scored, Falls, Sound, Answers, InUse, Calm, Notices
  <1>11. Failures(x, y)' /\ Failures(y, x)'
    BY <1>2, <1>3, <1>4, <1>5, <1>6
       DEF Known, PairInv, Shape, Pair, Failures, Begins, RestKept, Orderly, Rear,
           StartOps, StopOps, At, Planned, Owns, Linked, Engaged, Halting, Spared,
           Leads, Scored, Lost, Sound, Answers, InUse, Calm, Notices
  <1>12. Statuses(x, y)' /\ Statuses(y, x)'
    BY <1>2, <1>3, <1>4, <1>5, <1>6
       DEF Known, PairInv, Shape, Pair, Statuses, Begins, RestKept, Orderly, Rear,
           StartOps, StopOps, At, Planned, Owns, Linked, Engaged, Halting, Spared,
           Leads, Scored, Gets, ToScore, Sound, Answers, InUse, Calm, Notices
  <1>13. Stops(x, y)' /\ Stops(y, x)'
    <2>1. ~Linked(x)' /\ ~Linked(y)'
      BY <1>3, <1>4, <1>5
         DEF Known, PairInv, Shape, Pair, Begins, Linked, Engaged, Sound, Answers, InUse,
             Calm, Notices
    <2> QED
      BY <1>2, <1>3, <1>4, <1>5, <1>6, <2>1
         DEF Known, PairInv, Stops, RestKept, Orderly, At, Planned, Halting, Spared,
             StopsAll, Resyncs, Begun, Sound, Answers, Calm, Notices
  <1>14. Calls(x, y)' /\ Calls(y, x)'
    BY <1>2, <1>3, <1>4, <1>5, <1>6
       DEF Known, PairInv, Calls, RestKept, At, Planned, Owns, Sound, Answers, Calm,
           Notices
  <1>15. Bad(x)' /\ Bad(y)'
    BY <1>2, <1>3, <1>4, <1>5, <1>6
       DEF Known, PairInv, Bad, Begins, RestKept, At, Planned, Linked, Halting, Leads,
           Scored, Sound, Answers, InUse, Calm, Notices
  <1>16. Begins(x, y)' /\ Begins(y, x)'
    BY <1>2, <1>3, <1>4, <1>5, <1>6
       DEF Known, PairInv, Begins, RestKept, At, Planned, Linked, Halting, Leads,
           Scored, Sound, Answers, Calm, Notices
  <1> QED
    BY <1>2, <1>7, <1>8, <1>9, <1>10, <1>11, <1>12, <1>13, <1>14, <1>15, <1>16
       DEF KnownNext, PairInv

LEMMA FenceGuest ==
    ASSUME NEW x \in Node, NEW y \in Node, Known(x, y),
           Fence(x)
    PROVE  KnownNext(x, y)
  <1>1. /\ TypeOK /\ todo \in Seq(Call) /\ Form(todo)
        /\ x # y /\ colod[x] \in Colod /\ colod[y] \in Colod
        /\ role[x] \in {"stopped", "slave", "master"} /\ role[y] \in {"stopped", "slave", "master"}
    BY DEF Known, IInv, TypeOK
  <1>2. ~Busy /\ Orderly /\ role[x] # "stopped" /\ x \notin up
    BY <1>1, TodoOrderly DEF Fence, Active, Busy
  <1>3. /\ Form(todo') /\ Orderly'
        /\ \A op, n : ~Later(op, n)'
        /\ \A n : ~LaterAll(n)' /\ ~LaterOne(n)'
        /\ Busy' <=> role[y] # "stopped"
        /\ Busy' => At("post-stop", y)'
    <2>1. /\ A("post-stop", y) \in Call
          /\ A("post-stop", y).op = "post-stop" /\ A("post-stop", y).on = y
      BY NewCall DEF Op
    <2>2. todo' = IF role[y] # "stopped" THEN <<A("post-stop", y)>> ELSE <<>>
      BY DEF Fence, Active, Known
    <2>3. /\ todo' \in Seq(Call) /\ Len(todo') =< 1
          /\ todo' # <<>> <=> role[y] # "stopped"
          /\ todo' # <<>> => Head(todo') = A("post-stop", y)
      BY <2>1, <2>2
    <2>4. Form(todo') /\ \A op, n, all : ~Behind(todo', op, n, all)
      BY <2>3, FormShort
    <2> QED
      BY <2>1, <2>3, <2>4, TodoOrderlyNext DEF At, Busy, Hd, Later, LaterAll, LaterOne
  <1>4. role'[x] = "stopped" /\ role'[y] = role[y]
    BY <1>1 DEF Fence, TypeOK
  <1>5. x \notin bad' /\ (y \in bad' <=> y \in bad)
    BY <1>1 DEF Fence
  <1>6. UNCHANGED <<colod, score, current, up, standby>> /\ (Young' <=> Young)
    BY DEF Fence, data, Young
  <1>7. Shape(x)' /\ Shape(y)'
    BY <1>2, <1>3, <1>4, <1>5, <1>6
       DEF Known, PairInv, Shape, Sound, Answers, InUse
  <1>8. Pair(x, y)' /\ Pair(y, x)'
    BY <1>2, <1>3, <1>4, <1>5, <1>6
       DEF Known, PairInv, Pair, Linked, Engaged, Sound, Answers, InUse
  <1>9. Recent(x, y)' /\ Recent(y, x)'
    BY <1>2, <1>3, <1>4, <1>5, <1>6
       DEF Known, PairInv, Recent, At, Planned, Owns, Scored, Sound, Answers, InUse
  <1>10. Scores(x, y)' /\ Scores(y, x)'
    BY <1>2, <1>3, <1>4, <1>5, <1>6, HeadAt
       DEF Known, PairInv, NodeInv, Pair, Scores, At, Planned, Owns, Linked, Engaged,
           Halting, Spared, Leads, Scored, Falls, Sound, Answers, InUse
  <1>11. Failures(x, y)' /\ Failures(y, x)'
    BY <1>2, <1>3, <1>4, <1>5, <1>6, HeadAt
       DEF Known, PairInv, NodeInv, Failures, At, Planned, Owns, Halting, Spared, Leads,
           Lost, Sound, Answers, InUse
  <1>12. Statuses(x, y)' /\ Statuses(y, x)'
    BY <1>2, <1>3, <1>4, <1>5, <1>6
       DEF Known, PairInv, Statuses, At, Planned, Owns, Linked, Halting, Spared, Scored,
           Gets, ToScore, Sound, Answers, InUse
  <1>13. Stops(x, y)' /\ Stops(y, x)'
    BY <1>2, <1>3, <1>4, <1>5, <1>6
       DEF Known, PairInv, Stops, At, Planned, Linked, Halting, Spared, StopsAll,
           StopsOne, Resyncs, Begun, Sound, Answers
  <1>14. Calls(x, y)' /\ Calls(y, x)'
    BY <1>2, <1>3, <1>4, <1>5, <1>6
       DEF Known, PairInv, Calls, At, Planned, Owns, Sound, Answers
  <1>15. Bad(x)' /\ Bad(y)'
    BY <1>2, <1>3, <1>4, <1>5, <1>6
       DEF Known, PairInv, Bad, At, Planned, Sound, Answers, InUse
  <1>16. Begins(x, y)' /\ Begins(y, x)'
    BY <1>2, <1>3, <1>4, <1>5, <1>6
       DEF Known, PairInv, Begins, At, Planned, Linked, Halting, Leads, Scored, Sound,
           Answers
  <1> QED
    BY <1>3, <1>7, <1>8, <1>9, <1>10, <1>11, <1>12, <1>13, <1>14, <1>15, <1>16
       DEF KnownNext, PairInv

LEMMA BootGuest ==
    ASSUME NEW x \in Node, NEW y \in Node, Known(x, y),
           Boot(x)
    PROVE  KnownNext(x, y)
  <1>1. /\ TypeOK /\ todo \in Seq(Call) /\ Form(todo)
        /\ x # y /\ colod[x] \in Colod /\ colod[y] \in Colod
        /\ role[x] \in {"stopped", "slave", "master"} /\ role[y] \in {"stopped", "slave", "master"}
    BY DEF Known, IInv, TypeOK
  <1>2. Form(todo') /\ Orderly /\ Orderly' /\ (Busy' <=> Busy) /\ Hd' = Hd /\ RestKept
    <2>1. todo' = todo
      BY DEF Boot
    <2> QED
      BY <1>1, <2>1, TodoKept
  <1>3. x \notin up /\ role[x] = "stopped" /\ ~At("score", x)
    BY HeadCall DEF Boot, Active, Known, At, Busy, Hd
  <1>4. x \in up' /\ (y \in up' <=> y \in up)
    BY <1>1 DEF Boot
  <1>5. UNCHANGED <<colod, score, current, role, bad, standby>> /\ (Young' <=> Young)
    BY DEF Boot, data, Young
  <1>6. Shape(x)' /\ Shape(y)'
    BY <1>2, <1>3, <1>4, <1>5
       DEF Known, PairInv, Shape, Sound, Answers, InUse
  <1>7. Pair(x, y)' /\ Pair(y, x)'
    BY <1>2, <1>3, <1>4, <1>5
       DEF Known, PairInv, Pair, Linked, Engaged, Sound, Answers, InUse
  <1>8. Recent(x, y)' /\ Recent(y, x)'
    BY <1>2, <1>3, <1>4, <1>5
       DEF Known, PairInv, Recent, RestKept, At, Planned, Owns, Scored, Sound, Answers,
           InUse
  <1>9. Scores(x, y)' /\ Scores(y, x)'
    BY <1>2, <1>3, <1>4, <1>5
       DEF Known, PairInv, Scores, RestKept, Orderly, Rear, StartOps, StopOps, At,
           Planned, Owns, Halting, Spared, Leads, Scored, Falls, Sound, Answers
  <1>10. Failures(x, y)' /\ Failures(y, x)'
    BY <1>2, <1>3, <1>4, <1>5
       DEF Known, PairInv, Failures, RestKept, At, Planned, Owns, Halting, Spared,
           Leads, Lost, Sound, Answers, InUse
  <1>11. Statuses(x, y)' /\ Statuses(y, x)'
    BY <1>2, <1>3, <1>4, <1>5
       DEF Known, PairInv, Statuses, RestKept, At, Planned, Owns, Linked, Halting,
           Spared, Scored, Gets, ToScore, Sound, Answers, InUse
  <1>12. Stops(x, y)' /\ Stops(y, x)'
    BY <1>2, <1>3, <1>4, <1>5
       DEF Known, PairInv, Stops, RestKept, At, Planned, Linked, Halting, Spared,
           StopsAll, StopsOne, Resyncs, Begun, Sound, Answers
  <1>13. Calls(x, y)' /\ Calls(y, x)'
    BY <1>2, <1>3, <1>4, <1>5
       DEF Known, PairInv, Calls, RestKept, At, Planned, Owns, Sound, Answers
  <1>14. Bad(x)' /\ Bad(y)'
    BY <1>2, <1>3, <1>4, <1>5
       DEF Known, PairInv, Bad, RestKept, At, Planned, Sound, Answers, InUse
  <1>15. Begins(x, y)' /\ Begins(y, x)'
    BY <1>2, <1>3, <1>4, <1>5
       DEF Known, PairInv, Begins, RestKept, At, Planned, Linked, Halting, Leads,
           Scored, Sound, Answers
  <1> QED
    BY <1>2, <1>6, <1>7, <1>8, <1>9, <1>10, <1>11, <1>12, <1>13, <1>14, <1>15
       DEF KnownNext, PairInv

LEMMA OnlineGuest ==
    ASSUME NEW x \in Node, NEW y \in Node, Known(x, y),
           Online
    PROVE  KnownNext(x, y)
  <1>1. /\ TypeOK /\ todo \in Seq(Call) /\ Form(todo)
        /\ x # y /\ colod[x] \in Colod /\ colod[y] \in Colod
        /\ role[x] \in {"stopped", "slave", "master"} /\ role[y] \in {"stopped", "slave", "master"}
    BY DEF Known, IInv, TypeOK
  <1>2. Form(todo') /\ Orderly /\ Orderly' /\ (Busy' <=> Busy) /\ Hd' = Hd /\ RestKept
    <2>1. todo' = todo
      BY DEF Online
    <2> QED
      BY <1>1, <2>1, TodoKept
  <1>3. /\ ~Busy
        /\ x \in standby => role[x] = "stopped"
        /\ y \in standby => role[y] = "stopped"
    BY DEF Online, Active, Busy
  <1>4. x \notin standby' /\ y \notin standby'
    BY DEF Online
  <1>5. UNCHANGED <<colod, score, current, up, role, bad>> /\ (Young' <=> Young)
    BY DEF Online, data, Young
  <1>6. Shape(x)' /\ Shape(y)'
    BY <1>2, <1>3, <1>4, <1>5
       DEF Known, PairInv, Shape, Sound, Answers, InUse
  <1>7. Pair(x, y)' /\ Pair(y, x)'
    BY <1>2, <1>3, <1>4, <1>5
       DEF Known, PairInv, Pair, Linked, Engaged, Sound, Answers, InUse
  <1>8. Recent(x, y)' /\ Recent(y, x)'
    BY <1>2, <1>3, <1>4, <1>5, HeadAt
       DEF Known, PairInv, NodeInv, Recent, RestKept, At, Planned, Owns, Scored, Sound,
           Answers, InUse
  <1>9. Scores(x, y)' /\ Scores(y, x)'
    BY <1>2, <1>3, <1>4, <1>5
       DEF Known, PairInv, Scores, RestKept, At, Planned, Owns, Halting, Spared, Leads,
           Scored, Falls, Sound, Answers
  <1>10. Failures(x, y)' /\ Failures(y, x)'
    BY <1>2, <1>3, <1>4, <1>5
       DEF Known, PairInv, Failures, RestKept, At, Planned, Owns, Halting, Spared,
           Leads, Lost, Sound, Answers, InUse
  <1>11. Statuses(x, y)' /\ Statuses(y, x)'
    BY <1>2, <1>3, <1>4, <1>5
       DEF Known, PairInv, Statuses, RestKept, At, Planned, Owns, Linked, Halting,
           Spared, Scored, Gets, ToScore, Sound, Answers, InUse
  <1>12. Stops(x, y)' /\ Stops(y, x)'
    BY <1>2, <1>3, <1>4, <1>5
       DEF Known, PairInv, Stops, RestKept, Orderly, Rear, StartOps, StopOps, At,
           Planned, Linked, Halting, Spared, StopsAll, StopsOne, Resyncs, Begun, Sound,
           Answers
  <1>13. Calls(x, y)' /\ Calls(y, x)'
    BY <1>2, <1>3, <1>4, <1>5
       DEF Known, PairInv, Calls, RestKept, At, Planned, Owns, Sound, Answers
  <1>14. Bad(x)' /\ Bad(y)'
    BY <1>2, <1>3, <1>4, <1>5
       DEF Known, PairInv, Bad, RestKept, At, Planned, Sound, Answers, InUse
  <1>15. Begins(x, y)' /\ Begins(y, x)'
    BY <1>2, <1>3, <1>4, <1>5
       DEF Known, PairInv, Begins, RestKept, At, Planned, Linked, Halting, Leads,
           Scored, Sound, Answers
  <1> QED
    BY <1>2, <1>6, <1>7, <1>8, <1>9, <1>10, <1>11, <1>12, <1>13, <1>14, <1>15
       DEF KnownNext, PairInv

LEMMA StandbyGuest ==
    ASSUME NEW x \in Node, NEW y \in Node, Known(x, y),
           NEW ns \in SUBSET Node, Standby(ns)
    PROVE  KnownNext(x, y)
  <1>1. /\ TypeOK /\ todo \in Seq(Call) /\ Form(todo)
        /\ x # y /\ colod[x] \in Colod /\ colod[y] \in Colod
        /\ role[x] \in {"stopped", "slave", "master"} /\ role[y] \in {"stopped", "slave", "master"}
    BY DEF Known, IInv, TypeOK
  <1>2. Form(todo') /\ Orderly /\ Orderly' /\ (Busy' <=> Busy) /\ Hd' = Hd /\ RestKept
    <2>1. todo' = todo
      BY DEF Standby
    <2> QED
      BY <1>1, <2>1, TodoKept
  <1>3. Calm(x, y) /\ ~Young'
    <2>1. Calm(x, y)
      BY SettledFacts DEF Standby
    <2>2. faults \in Nat /\ standbys \in Nat
      BY <1>1 DEF TypeOK
    <2> QED
      BY <2>1, <2>2 DEF Standby, Young
  <1>4. UNCHANGED <<colod, score, current, up, role, bad>>
    BY DEF Standby, data
  <1>5. Shape(x)' /\ Shape(y)'
    BY <1>2, <1>3, <1>4
       DEF Known, PairInv, Shape, Sound, Answers, InUse, Calm
  <1>6. Pair(x, y)' /\ Pair(y, x)'
    BY <1>2, <1>3, <1>4
       DEF Known, PairInv, Pair, Linked, Engaged, Sound, Answers, InUse, Calm
  <1>7. Recent(x, y)' /\ Recent(y, x)'
    BY <1>2, <1>3, <1>4
       DEF Known, PairInv, Shape, Pair, Recent, RestKept, Orderly, Rear, StartOps,
           StopOps, At, Planned, Owns, Linked, Engaged, Scored, Sound, Answers, InUse,
           Calm
  <1>8. Scores(x, y)' /\ Scores(y, x)'
    BY <1>2, <1>3, <1>4, HeadAt
       DEF Known, PairInv, NodeInv, Shape, Pair, Scores, RestKept, Orderly, Rear,
           StartOps, StopOps, At, Planned, Owns, Linked, Engaged, Halting, Spared,
           Leads, Scored, Falls, Sound, Answers, InUse, Calm
  <1>9. Failures(x, y)' /\ Failures(y, x)'
    BY <1>2, <1>3, <1>4
       DEF Known, PairInv, Shape, Pair, Failures, RestKept, Orderly, Rear, StartOps,
           StopOps, At, Planned, Owns, Linked, Engaged, Halting, Spared, Leads, Lost,
           Sound, Answers, InUse, Calm
  <1>10. Statuses(x, y)' /\ Statuses(y, x)'
    BY <1>2, <1>3, <1>4
       DEF Known, PairInv, Shape, Pair, Statuses, RestKept, Orderly, Rear, StartOps,
           StopOps, At, Planned, Owns, Linked, Engaged, Halting, Spared, Scored, Gets,
           ToScore, Sound, Answers, InUse, Calm
  <1>11. Stops(x, y)' /\ Stops(y, x)'
    BY <1>2, <1>3, <1>4
       DEF Known, PairInv, Shape, Pair, Stops, RestKept, Orderly, Rear, StartOps,
           StopOps, At, Planned, Linked, Engaged, Halting, Spared, StopsAll, StopsOne,
           Resyncs, Begun, Sound, Answers, InUse, Calm
  <1>12. Calls(x, y)' /\ Calls(y, x)'
    BY <1>2, <1>3, <1>4
       DEF Known, PairInv, Calls, RestKept, At, Planned, Owns, Sound, Answers, Calm
  <1>13. Bad(x)' /\ Bad(y)'
    BY <1>2, <1>3, <1>4
       DEF Known, PairInv, Bad, RestKept, At, Planned, Sound, Answers, InUse, Calm
  <1>14. Begins(x, y)' /\ Begins(y, x)'
    BY <1>2, <1>3, <1>4
       DEF Known, PairInv, Begins, RestKept, At, Planned, Linked, Halting, Leads,
           Scored, Sound, Answers, Calm
  <1> QED
    BY <1>2, <1>5, <1>6, <1>7, <1>8, <1>9, <1>10, <1>11, <1>12, <1>13, <1>14
       DEF KnownNext, PairInv

LEMMA StopPlanGuest ==
    ASSUME NEW x \in Node, NEW y \in Node, Known(x, y),
           Stop
    PROVE  KnownNext(x, y)
  <1>1. /\ TypeOK /\ todo \in Seq(Call) /\ Form(todo)
        /\ x # y /\ colod[x] \in Colod /\ colod[y] \in Colod
        /\ role[x] \in {"stopped", "slave", "master"} /\ role[y] \in {"stopped", "slave", "master"}
    BY DEF Known, IInv, TypeOK
  <1>2. /\ todo = <<>> /\ Active \subseteq up /\ todo' \in Seq(Call)
        /\ \A i \in 1 .. Len(todo') :
              /\ todo'[i].op \in {"stop", "pre-stop"}
              /\ todo'[i].op = "stop" => todo'[i].on \in (bad \cup standby) \cap Active
              /\ todo'[i].all <=> Active \subseteq bad \cup standby
        /\ \A n \in (bad \cup standby) \cap Active :
              \E i \in 1 .. Len(todo') : todo'[i].op = "stop" /\ todo'[i].on = n
    BY StopPlan DEF Known
  <1>3. ~Busy /\ Orderly
    BY <1>1, <1>2, TodoOrderly DEF Busy
  <1>4. Form(todo') /\ Orderly'
    <2>1. Form(todo')
      <3>1. \A i \in 2 .. Len(todo') : i \in 1 .. Len(todo')
        BY <1>2
      <3> QED
        BY <1>2, <3>1 DEF Form, Rear, StartOps
    <2> QED
      BY <1>2, <2>1, TodoOrderlyNext
  <1>5. /\ \A op, n : op \notin {"stop", "pre-stop"} => ~At(op, n)' /\ ~Later(op, n)'
        /\ \A n \in {x, y} : At("stop", n)' \/ Later("stop", n)' <=>
                                role[n] # "stopped" /\ (n \in bad \/ n \in standby)
        /\ \A n : LaterAll(n)' \/ (At("stop", n)' /\ Hd'.all) =>
              \A m \in {x, y} : role[m] # "stopped" => m \in bad \/ m \in standby
        /\ \A n : LaterOne(n)' \/ (At("stop", n)' /\ ~Hd'.all) =>
              \E m \in {x, y} : role[m] # "stopped" /\ m \notin bad /\ m \notin standby
    <2>1. \A n : /\ \A op : At(op, n)' \/ Later(op, n)' <=>
                      \E i \in 1 .. Len(todo') : todo'[i].op = op /\ todo'[i].on = n
                 /\ LaterAll(n)' \/ (At("stop", n)' /\ Hd'.all) <=>
                      \E i \in 1 .. Len(todo') :
                         todo'[i].op = "stop" /\ todo'[i].on = n /\ todo'[i].all
                 /\ LaterOne(n)' \/ (At("stop", n)' /\ ~Hd'.all) <=>
                      \E i \in 1 .. Len(todo') :
                         todo'[i].op = "stop" /\ todo'[i].on = n /\ ~todo'[i].all
      BY <1>2, PlannedNext
    <2>2. \A m \in Node : m = x \/ m = y
      BY OtherNode DEF Known
    <2>3. \A op, n : op \notin {"stop", "pre-stop"} => ~At(op, n)' /\ ~Later(op, n)'
      BY <1>2, <2>1
    <2>4. \A n \in {x, y} : At("stop", n)' \/ Later("stop", n)' <=>
                              role[n] # "stopped" /\ (n \in bad \/ n \in standby)
      <3>1. \A n \in {x, y} : n \in (bad \cup standby) \cap Active <=>
                                 role[n] # "stopped" /\ (n \in bad \/ n \in standby)
        BY DEF Active
      <3>2. \A n : (\E i \in 1 .. Len(todo') : todo'[i].op = "stop" /\ todo'[i].on = n) <=>
                     n \in (bad \cup standby) \cap Active
        BY <1>2
      <3>3. \A n : At("stop", n)' \/ Later("stop", n)' <=>
                     \E i \in 1 .. Len(todo') : todo'[i].op = "stop" /\ todo'[i].on = n
        BY <2>1
      <3> QED
        BY <3>1, <3>2, <3>3
    <2>5. \A n : LaterAll(n)' \/ (At("stop", n)' /\ Hd'.all) => Active \subseteq bad \cup standby
      BY <1>2, <2>1
    <2>6. \A n : LaterOne(n)' \/ (At("stop", n)' /\ ~Hd'.all) =>
                    ~(Active \subseteq bad \cup standby)
      BY <1>2, <2>1
    <2>7. Active \subseteq bad \cup standby <=>
            \A m \in {x, y} : role[m] # "stopped" => m \in bad \/ m \in standby
      BY <2>2 DEF Active
    <2> QED
      BY <2>3, <2>4, <2>5, <2>6, <2>7
  <1>6. /\ role[x] # "stopped" => x \in up
        /\ role[y] # "stopped" => y \in up
        /\ \E n \in {x, y} : role[n] # "stopped" /\ (n \in bad \/ n \in standby)
        /\ colod[x].migration \in {"none", "active", "colo", "failover"}
        /\ colod[y].migration \in {"none", "active", "colo", "failover"}
    <2>1. \E n \in {x, y} : n \in (bad \cup standby) \cap Active
      BY OtherNode DEF Stop, Active, Known
    <2> QED
      BY <1>1, <1>2, <2>1 DEF Active, Colod
  <1>7. UNCHANGED <<colod, score, current, up, role, bad, standby>> /\ (Young' <=> Young)
    BY DEF Stop, data, pacemaker, Young
  <1>8. Shape(x)' /\ Shape(y)'
    BY <1>3, <1>4, <1>5, <1>6, <1>7
       DEF Known, PairInv, Shape, Sound, Answers, InUse
  <1>9. Pair(x, y)' /\ Pair(y, x)'
    BY <1>3, <1>4, <1>5, <1>6, <1>7
       DEF Known, PairInv, Pair, Linked, Engaged, Sound, Answers, InUse
  <1>10. Recent(x, y)' /\ Recent(y, x)'
    BY <1>3, <1>4, <1>5, <1>6, <1>7
       DEF Known, PairInv, Recent, At, Planned, Owns, Scored, Sound, Answers, InUse
  <1>11. Scores(x, y)' /\ Scores(y, x)'
    BY <1>3, <1>4, <1>5, <1>6, <1>7, HeadAt
       DEF Known, PairInv, NodeInv, Shape, Pair, Scores, Bad, Orderly, Rear, StartOps,
           StopOps, At, Planned, Owns, Linked, Engaged, Halting, Spared, Leads, Scored,
           Falls, Sound, Answers, InUse
  <1>12. Failures(x, y)' /\ Failures(y, x)'
    BY <1>3, <1>4, <1>5, <1>6, <1>7, HeadAt
       DEF Known, PairInv, NodeInv, Shape, Pair, Failures, Bad, Orderly, Rear, StartOps,
           StopOps, At, Planned, Owns, Linked, Engaged, Halting, Spared, Leads, Lost,
           Sound, Answers, InUse
  <1>13. Statuses(x, y)' /\ Statuses(y, x)'
    BY <1>3, <1>4, <1>5, <1>6, <1>7
       DEF Known, PairInv, Statuses, At, Planned, Owns, Linked, Halting, Spared, Scored,
           Gets, ToScore, Sound, Answers, InUse
  <1>14. Stops(x, y)' /\ Stops(y, x)'
    BY <1>3, <1>4, <1>5, <1>6, <1>7, HeadAt
       DEF Known, PairInv, NodeInv, Shape, Pair, Stops, Bad, Orderly, Rear, StartOps,
           StopOps, At, Planned, Linked, Engaged, Halting, Spared, StopsAll, StopsOne,
           Resyncs, Begun, Sound, Answers, InUse
  <1>15. Calls(x, y)' /\ Calls(y, x)'
    BY <1>3, <1>4, <1>5, <1>6, <1>7
       DEF Known, PairInv, Calls, At, Planned, Owns, Sound, Answers
  <1>16. Bad(x)' /\ Bad(y)'
    BY <1>3, <1>4, <1>5, <1>6, <1>7
       DEF Known, PairInv, Bad, At, Planned, Sound, Answers, InUse
  <1>17. Begins(x, y)' /\ Begins(y, x)'
    BY <1>3, <1>4, <1>5, <1>6, <1>7, HeadAt
       DEF Known, PairInv, NodeInv, Shape, Pair, Begins, Orderly, Rear, StartOps,
           StopOps, At, Planned, Linked, Engaged, Halting, Leads, Scored, Sound,
           Answers, InUse
  <1> QED
    BY <1>4, <1>8, <1>9, <1>10, <1>11, <1>12, <1>13, <1>14, <1>15, <1>16, <1>17
       DEF KnownNext, PairInv

LEMMA StartPlanGuest ==
    ASSUME NEW x \in Node, NEW y \in Node, Known(x, y),
           Start
    PROVE  KnownNext(x, y)
  <1>1. /\ TypeOK /\ todo \in Seq(Call) /\ Form(todo)
        /\ x # y /\ colod[x] \in Colod /\ colod[y] \in Colod
        /\ role[x] \in {"stopped", "slave", "master"} /\ role[y] \in {"stopped", "slave", "master"}
    BY DEF Known, IInv, TypeOK
  <1>2. /\ todo = <<>> /\ Active \subseteq up /\ (bad \cup standby) \cap Active = {}
        /\ todo' \in Seq(Call)
        /\ \A i \in 1 .. Len(todo') :
              /\ todo'[i].op \in {"start", "post-start", "promote"}
              /\ todo'[i].op = "start" => todo'[i].on \in up \ (standby \cup Active)
              /\ todo'[i].op = "post-start" =>
                    todo'[i].on \in Active /\ Other(todo'[i].on) \notin Active
              /\ todo'[i].op = "promote" =>
                    /\ todo'[i].on \in Active \cup (up \ standby) /\ score[todo'[i].on] # 0
                    /\ \A n \in Node : role[n] # "master"
        /\ \A n \in up \ (standby \cup Active) :
              \E i \in 1 .. Len(todo') : todo'[i].op = "start" /\ todo'[i].on = n
        /\ \A i, j \in 1 .. Len(todo') : i < j =>
              /\ todo'[i].op # "promote"
              /\ todo'[j].op = "start" => todo'[i].on # todo'[j].on
    BY StartPlan DEF Known
  <1>3. ~Busy /\ Orderly
    BY <1>1, <1>2, TodoOrderly DEF Busy
  <1>4. Form(todo') /\ Orderly'
    <2>1. \A i \in 2 .. Len(todo') : i \in 1 .. Len(todo')
      BY <1>2
    <2>2. \A i \in 2 .. Len(todo') : todo'[i].op \in Rear
      BY <1>2, <2>1 DEF Rear
    <2>3. ASSUME NEW i \in 1 .. Len(todo'), NEW j \in 1 .. Len(todo'), i < j
          PROVE  /\ todo'[i].op \notin {"promote", "promoted"}
                 /\ todo'[j].op = "start" => todo'[i].on # todo'[j].on
                 /\ todo'[i].op \in StartOps => todo'[j].op \notin StopOps
                 /\ todo'[i].op \in StopOps => todo'[j].op \notin StartOps
      BY <1>2, <2>3 DEF StartOps, StopOps
    <2>4. Form(todo')
      BY <2>2, <2>3 DEF Form
    <2> QED
      BY <1>2, <2>4, TodoOrderlyNext
  <1>5. /\ \A op, n : op \notin {"start", "post-start", "promote"} =>
              ~At(op, n)' /\ ~Later(op, n)'
        /\ \A n \in {x, y} : At("start", n)' \/ Later("start", n)' <=>
                                role[n] = "stopped" /\ n \in up /\ n \notin standby
        /\ \A n \in {x, y} : At("post-start", n)' \/ Later("post-start", n)' =>
                                role[n] # "stopped" /\ (role[x] = "stopped" \/ role[y] = "stopped")
        /\ \A n \in {x, y} : At("promote", n)' \/ Later("promote", n)' =>
              /\ role[n] # "stopped" \/ (n \in up /\ n \notin standby)
              /\ Scored(n) /\ role[x] # "master" /\ role[y] # "master"
    <2>1. \A n, op : At(op, n)' \/ Later(op, n)' <=>
                      \E i \in 1 .. Len(todo') : todo'[i].op = op /\ todo'[i].on = n
      BY <1>2, PlannedNext
    <2>2. \A op, n : op \notin {"start", "post-start", "promote"} =>
             ~At(op, n)' /\ ~Later(op, n)'
      BY <1>2, <2>1
    <2>3. \A n \in {x, y} : At("start", n)' \/ Later("start", n)' <=>
                              role[n] = "stopped" /\ n \in up /\ n \notin standby
      BY <1>2, <2>1 DEF Active
    <2>4. \A n \in {x, y} : At("post-start", n)' \/ Later("post-start", n)' =>
                              role[n] # "stopped" /\ (role[x] = "stopped" \/ role[y] = "stopped")
      <3>1. \A n \in {x, y} : At("post-start", n)' \/ Later("post-start", n)' =>
                                n \in Active /\ Other(n) \notin Active
        BY <1>2, <2>1
      <3> QED
        BY <3>1 DEF Active, Known
    <2>5. \A n \in {x, y} : At("promote", n)' \/ Later("promote", n)' =>
             /\ role[n] # "stopped" \/ (n \in up /\ n \notin standby)
             /\ Scored(n) /\ role[x] # "master" /\ role[y] # "master"
      BY <1>2, <2>1 DEF Active, Scored
    <2> QED
      BY <2>2, <2>3, <2>4, <2>5
  <1>6. /\ role[x] # "stopped" => x \in up /\ x \notin bad /\ x \notin standby
        /\ role[y] # "stopped" => y \in up /\ y \notin bad /\ y \notin standby
        /\ colod[x].migration \in {"none", "active", "colo", "failover"}
        /\ colod[y].migration \in {"none", "active", "colo", "failover"}
    BY <1>1, <1>2 DEF Active, Colod
  <1>7. UNCHANGED <<colod, score, current, up, role, bad, standby>> /\ (Young' <=> Young)
    BY DEF Start, data, pacemaker, Young
  <1>8. Shape(x)' /\ Shape(y)'
    BY <1>3, <1>4, <1>5, <1>6, <1>7
       DEF Known, PairInv, Shape, Sound, Answers, InUse
  <1>9. Pair(x, y)' /\ Pair(y, x)'
    BY <1>3, <1>4, <1>5, <1>6, <1>7
       DEF Known, PairInv, Pair, Linked, Engaged, Sound, Answers, InUse
  <1>10. Recent(x, y)' /\ Recent(y, x)'
    BY <1>3, <1>4, <1>5, <1>6, <1>7, HeadAt
       DEF Known, PairInv, NodeInv, Recent, Scores, At, Planned, Owns, Halting, Spared,
           Leads, Scored, Falls, Sound, Answers, InUse
  <1>11. Scores(x, y)' /\ Scores(y, x)'
    BY <1>3, <1>4, <1>5, <1>6, <1>7, HeadAt
       DEF Known, PairInv, NodeInv, Shape, Pair, Scores, Orderly, Rear, StartOps,
           StopOps, At, Planned, Owns, Linked, Engaged, Halting, Spared, Leads, Scored,
           Falls, Sound, Answers, InUse
  <1>12. Failures(x, y)' /\ Failures(y, x)'
    BY <1>3, <1>4, <1>5, <1>6, <1>7, HeadAt
       DEF Known, PairInv, NodeInv, Shape, Pair, Failures, Orderly, Rear, StartOps,
           StopOps, At, Planned, Owns, Linked, Engaged, Halting, Spared, Leads, Lost,
           Sound, Answers, InUse
  <1>13. Statuses(x, y)' /\ Statuses(y, x)'
    BY <1>3, <1>4, <1>5, <1>6, <1>7
       DEF Known, PairInv, Statuses, At, Planned, Owns, Linked, Halting, Spared, Scored,
           Gets, ToScore, Sound, Answers, InUse
  <1>14. Stops(x, y)' /\ Stops(y, x)'
    BY <1>3, <1>4, <1>5, <1>6, <1>7, HeadAt
       DEF Known, PairInv, NodeInv, Shape, Pair, Stops, Orderly, Rear, StartOps,
           StopOps, At, Planned, Linked, Engaged, Halting, Spared, StopsAll, StopsOne,
           Resyncs, Begun, Sound, Answers, InUse
  <1>15. Calls(x, y)' /\ Calls(y, x)'
    BY <1>3, <1>4, <1>5, <1>6, <1>7
       DEF Known, PairInv, Calls, At, Planned, Owns, Sound, Answers
  <1>16. Bad(x)' /\ Bad(y)'
    BY <1>3, <1>4, <1>5, <1>6, <1>7
       DEF Known, PairInv, Bad, At, Planned, Sound, Answers, InUse
  <1>17. Begins(x, y)' /\ Begins(y, x)'
    BY <1>3, <1>4, <1>5, <1>6, <1>7, HeadAt
       DEF Known, PairInv, NodeInv, Shape, Pair, Begins, Orderly, Rear, StartOps,
           StopOps, At, Planned, Linked, Engaged, Halting, Leads, Scored, Sound,
           Answers, InUse
  <1> QED
    BY <1>4, <1>8, <1>9, <1>10, <1>11, <1>12, <1>13, <1>14, <1>15, <1>16, <1>17
       DEF KnownNext, PairInv

-----------------------------------------------------------------------------
(* All steps. *)

LEMMA GuestKnown ==
    ASSUME IInv, GuestInv, NEW x \in Node
    PROVE  Other(x) \in Node /\ Known(x, Other(x))
  <1>1. Other(x) \in Node /\ Other(x) # x /\ Other(Other(x)) = x
    BY OtherNode
  <1> QED
    BY <1>1 DEF Known, GuestInv, IInv

LEMMA KnownGuest ==
    ASSUME NEW x \in Node, KnownNext(x, Other(x))
    PROVE  GuestInv'
  <1>1. \A n \in Node : n = x \/ n = Other(x)
    BY OtherNode
  <1>2. Other(Other(x)) = x
    BY OtherNode
  <1>3. Form(todo') /\ PairInv(x, Other(x))' /\ PairInv(Other(x), x)'
    BY DEF KnownNext
  <1>4. ASSUME NEW n \in Node PROVE PairInv(n, Other(n))'
    BY <1>1, <1>2, <1>3
  <1> QED
    BY <1>3, <1>4 DEF GuestInv

LEMMA CallGuest ==
    ASSUME IInv, GuestInv, AgentCall
    PROVE  GuestInv'
  <1>1. todo # <<>>
    BY DEF AgentCall, qemu_colo_start, StopStatus, StopKill, StopScore, qmp_start_resync,
           SetPeer, NotifyPostStart, NotifyPreStop, NotifyPostStop, PromoteCold,
           PromoteWarm, Promoted, PromoteFails, Calling
  <1>2. PICK x \in Node : Hd.on = x
    BY <1>1, HeadCall DEF Hd
  <1>3. PICK y \in Node : y = Other(x) /\ Known(x, y)
    BY GuestKnown
  <1>4. CASE qmp_start_resync
    <2>1. CASE colod[y].run # "no" /\ ~HasNbd(x)
      BY <1>2, <1>3, <1>4, <2>1, ResyncGuest, KnownGuest
    <2>2. CASE colod[y].run = "no" \/ HasNbd(x)
      BY <1>2, <1>3, <1>4, <2>2, ResyncFailsGuest, KnownGuest
    <2> QED
      BY <2>1, <2>2
  <1>5. CASE qemu_colo_start \/ StopStatus \/ StopKill \/ StopScore
    BY <1>2, <1>3, <1>5, StartGuest, StopStatusGuest, StopKillGuest, StopScoreGuest, KnownGuest
  <1>6. CASE SetPeer \/ NotifyPostStart \/ NotifyPreStop \/ NotifyPostStop
    BY <1>2, <1>3, <1>6, SetPeerGuest, PostStartGuest, PreStopGuest, PostStopGuest, KnownGuest
  <1>7. CASE PromoteCold \/ PromoteWarm \/ Promoted \/ PromoteFails
    BY <1>2, <1>3, <1>7, PromoteColdGuest, PromoteWarmGuest, PromotedGuest, PromoteFailsGuest,
       KnownGuest
  <1> QED
    BY <1>4, <1>5, <1>6, <1>7 DEF AgentCall

LEMMA StepGuest ==
    ASSUME IInv, GuestInv, NEW x \in Node,
           TimelyFaults,
           \/ Monitor(x) \/ ColodStep(x) \/ Write(x) \/ Boot(x) \/ Fence(x)
           \/ Crash(x) \/ Fail(x) \/ LinkBreaks(x) \/ ColodDies(x)
    PROVE  GuestInv'
  <1>1. PICK y \in Node : y = Other(x) /\ Known(x, y)
    BY GuestKnown
  <1>2. CASE Monitor(x)
    BY <1>1, <1>2, MonitorFailsGuest, MonitorPeerLostGuest, MonitorResyncedGuest,
       MonitorSecondaryGuest, KnownGuest DEF Monitor
  <1>3. CASE ColodStep(x)
    BY <1>1, <1>3, MirrorGuest, MigratedGuest, ColoRunningGuest, FailoverGuest, KnownGuest
       DEF ColodStep
  <1>4. CASE Write(x) \/ Boot(x) \/ Fence(x)
    BY <1>1, <1>4, WriteGuest, BootGuest, FenceGuest, KnownGuest
  <1>5. CASE Crash(x) \/ ColodDies(x)
    BY <1>1, <1>5, CrashGuest, ColodDiesGuest, KnownGuest
  <1>6. CASE Fail(x) \/ LinkBreaks(x)
    BY <1>1, <1>6, FailGuest, LinkBreaksGuest, KnownGuest
  <1> QED
    BY <1>2, <1>3, <1>4, <1>5, <1>6

LEMMA PairGuest ==
    ASSUME IInv, GuestInv, TimelyFaults,
           BothFail \/ Online \/ Stop \/ Start \/ \E ns \in SUBSET Node : Standby(ns)
    PROVE  GuestInv'
  <1>1. PICK x \in Node : x = First
    BY AgentAssumption
  <1>2. PICK y \in Node : y = Other(x) /\ Known(x, y)
    BY GuestKnown
  <1>3. CASE \E ns \in SUBSET Node : Standby(ns)
    BY <1>2, <1>3, StandbyGuest, KnownGuest
  <1>4. CASE BothFail \/ Online \/ Stop \/ Start
    BY <1>2, <1>4, BothFailGuest, OnlineGuest, StopPlanGuest, StartPlanGuest, KnownGuest
  <1> QED
    BY <1>3, <1>4

LEMMA SameGuest ==
    ASSUME GuestInv, UNCHANGED vars
    PROVE  GuestInv'
  <1>1. /\ colod' = colod /\ score' = score /\ current' = current /\ up' = up /\ role' = role
        /\ bad' = bad /\ standby' = standby /\ todo' = todo
        /\ faults' = faults /\ standbys' = standbys
    BY DEF vars, data, pacemaker
  <1>2. /\ Form(todo)' <=> Form(todo)
        /\ Busy' <=> Busy
        /\ Hd' = Hd
        /\ \A op, n : Later(op, n)' <=> Later(op, n)
        /\ \A n : (LaterAll(n)' <=> LaterAll(n)) /\ (LaterOne(n)' <=> LaterOne(n))
        /\ Young' <=> Young
    BY <1>1 DEF Busy, Hd, Later, LaterAll, LaterOne, Young
  <1>3. \A op, n : (At(op, n)' <=> At(op, n)) /\ (Planned(op, n)' <=> Planned(op, n))
    BY <1>2 DEF At, Planned
  <1>4. \A n : /\ (Sound(n)' <=> Sound(n)) /\ (InUse(n)' <=> InUse(n))
               /\ (Answers(n)' <=> Answers(n)) /\ (Owns(n)' <=> Owns(n))
               /\ (Linked(n)' <=> Linked(n)) /\ (Engaged(n)' <=> Engaged(n))
    BY <1>1 DEF Sound, InUse, Answers, Owns, Linked, Engaged
  <1>5. \A n : /\ (Halting(n)' <=> Halting(n)) /\ (Spared(n)' <=> Spared(n))
               /\ (Leads(n)' <=> Leads(n)) /\ (Scored(n)' <=> Scored(n))
               /\ (StopsAll(n)' <=> StopsAll(n)) /\ (StopsOne(n)' <=> StopsOne(n))
    BY <1>1, <1>2, <1>3 DEF Halting, Spared, Leads, Scored, StopsAll, StopsOne
  <1>6. \A n : /\ (Falls(n)' <=> Falls(n)) /\ (Lost(n)' <=> Lost(n)) /\ (ToScore(n)' <=> ToScore(n))
               /\ (Resyncs(n)' <=> Resyncs(n)) /\ (Begun(n)' <=> Begun(n))
    BY <1>1, <1>2, <1>3, <1>4 DEF Falls, Lost, ToScore, Resyncs, Begun
  <1>7. ASSUME NEW n \in Node, NEW m \in Node, PairInv(n, m) PROVE PairInv(n, m)'
    <2>1. Shape(n)' /\ Pair(n, m)' /\ Bad(n)' /\ Calls(n, m)'
      BY <1>1, <1>3, <1>4, <1>7 DEF PairInv, Shape, Pair, Bad, Calls
    <2>2. Recent(n, m)' /\ Scores(n, m)' /\ Failures(n, m)'
      BY <1>1, <1>3, <1>4, <1>5, <1>6, <1>7 DEF PairInv, Recent, Scores, Failures
    <2>3. Statuses(n, m)' /\ Stops(n, m)'
      BY <1>1, <1>2, <1>3, <1>4, <1>5, <1>6, <1>7 DEF PairInv, Statuses, Stops
    <2>4. Begins(n, m)'
      BY <1>1, <1>2, <1>3, <1>4, <1>5, <1>7 DEF PairInv, Begins
    <2> QED
      BY <2>1, <2>2, <2>3, <2>4 DEF PairInv
  <1>8. \A n \in Node : Other(n) \in Node
    BY OtherNode
  <1> QED
    BY <1>2, <1>7, <1>8 DEF GuestInv

LEMMA NextGuest ==
    ASSUME IInv, GuestInv, [Next]_vars,
           TimelyFaults
    PROVE  GuestInv'
  BY CallGuest, StepGuest, PairGuest, SameGuest DEF Next, Decide

LEMMA InitGuest ==
    ASSUME Init
    PROVE  GuestInv
  <1>0. todo = <<>>
    BY DEF Init
  <1>1. todo \in Seq(Call) /\ Len(todo) =< 1
    BY <1>0
  <1>2. Form(todo) /\ \A op, n, all : ~Behind(todo, op, n, all)
    BY <1>1, FormShort
  <1>3. ASSUME NEW n \in Node, NEW m \in Node, m # n PROVE PairInv(n, m)
    <2>1. /\ ~Busy
          /\ \A op, k : ~Later(op, k)
          /\ \A k : ~LaterAll(k) /\ ~LaterOne(k)
      BY <1>0, <1>2 DEF Busy, Later, LaterAll, LaterOne
    <2>2. /\ colod[n].run = "no" /\ Blank(colod[n])
          /\ colod[m].run = "no" /\ Blank(colod[m])
          /\ role[n] = "stopped" /\ role[m] = "stopped"
          /\ n \notin bad /\ n \notin standby /\ m \notin standby /\ m \notin bad
          /\ n \in up /\ (n \in current <=> n = First)
          /\ (n # First => score[n] = 0)
      BY <1>3, OffFields DEF Init
    <2>3. /\ ~Answers(n) /\ ~Answers(m) /\ ~InUse(n) /\ ~InUse(m)
          /\ \A op, k : ~At(op, k)
          /\ Scored(n) => n = First
      BY <2>1, <2>2 DEF Answers, InUse, Blank, At, Scored
    <2>4. Shape(n) /\ Pair(n, m)
      BY <2>2, <2>3 DEF Shape, Pair, Linked, Engaged, Sound, Blank
    <2>5. Recent(n, m) /\ Scores(n, m) /\ Failures(n, m)
      BY <2>1, <2>2, <2>3 DEF Recent, Scores, Failures, Owns, Planned, Lost, Sound
    <2>6. Statuses(n, m) /\ Stops(n, m)
      BY <2>1, <2>2, <2>3
         DEF Statuses, Stops, ToScore, Linked, StopsAll, StopsOne, Resyncs, Begun, Planned, Sound
    <2>7. Calls(n, m) /\ Bad(n)
      BY <2>1, <2>2, <2>3 DEF Calls, Bad, Planned, Sound
    <2>8. Begins(n, m)
      BY <2>1, <2>2, <2>3 DEF Begins, Blank, Halting, Planned
    <2> QED
      BY <2>4, <2>5, <2>6, <2>7, <2>8 DEF PairInv
  <1> QED
    BY <1>2, <1>3, OtherNode DEF GuestInv

\* Whoever runs the guest alone has the most recent data, for every pair of nodes,
\* every number of faults and of standby requests: the scores of the agent keep
\* Pacemaker and an administrator from booting an old disk.  That is so if the
\* faults come when TimelyFaults allows them: in a pair that has settled, any but
\* the death of a master's colod; before it has settled for the first time, a
\* crash, a double failure or the death of a slave's colod; and none while it
\* stops or restarts after a standby, where a crash can make the scores wrong.
THEOREM MostRecentData ==
    ASSUME TimelyFaults
    PROVE  Spec => []GuestHasRecentData
  <1>1. Init => IInv /\ GuestInv
    BY InitInv, InitGuest
  <1>2. IInv /\ GuestInv /\ [Next]_vars => IInv' /\ GuestInv'
    BY NextInv, NextGuest
  <1>3. IInv /\ GuestInv => GuestHasRecentData
    <2> SUFFICES ASSUME IInv, GuestInv, NEW n \in Node, HasGuest(n) PROVE n \in current
      BY DEF GuestHasRecentData
    <2>1. colod[n].run \in {"no", "yes", "qemu"}
      BY DEF IInv, TypeOK, Colod
    <2>2. Shape(n) /\ Recent(n, Other(n))
      BY DEF GuestInv, PairInv
    <2> QED
      BY <2>1, <2>2 DEF Shape, Recent, HasGuest, Owns, Sound, Answers
  <1> QED
    BY <1>1, <1>2, <1>3, PTL DEF Spec
=============================================================================
