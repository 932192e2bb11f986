-------------------------- MODULE QmpChannelProofs --------------------------
(***************************************************************************)
(* The safety properties of QmpChannel, for every number of users and of   *)
(* events.  The inductive invariant says, besides the properties,          *)
(*   - CosOK: which calls a coroutine can be in, one inside of the other;  *)
(*   - LockOK: who holds a lock, by the calls he is in;                    *)
(*   - ReplyOK: while there is no error, at most one reply is due on each  *)
(*     channel, and it is due to a call of the holder of its lock;         *)
(*   - FlightOK: inflight counts the calls and the event coroutines.       *)
(***************************************************************************)
EXTENDS QmpChannel, FiniteSetTheorems, SequenceTheorems, TLAPS

\* The calls a coroutine can be in.
UserCall(f) == f.chan = "main" /\ f.cmd = "command"
YankCall(f) == f.chan = "yank" /\ f.cmd \in {"query-yank", "yank"} /\ ~f.yank
Handshake(p, f, cmd) == f.chan = p /\ f.cmd = cmd /\ ~f.yank /\ f.id = 0

\* r is a state of coroutine p.
CoOK(p, r) ==
    LET f == r.frames IN
    \/ f = << >> /\ r.pc = IF p \in Users THEN "idle" ELSE "ended"
    \/ /\ p \in Users /\ Len(f) = 1 /\ UserCall(f[1])
       /\ r.pc \in {"read", "self"} \/ (f[1].yank /\ r.pc \in {"lock", "write"})
    \/ p \in Users /\ Len(f) = 1 /\ YankCall(f[1]) /\ r.pc \in {"lock", "write", "read"}
    \/ /\ p \in Users /\ Len(f) = 2 /\ UserCall(f[1]) /\ f[1].yank /\ YankCall(f[2])
       /\ r.pc \in {"lock", "write", "read"}
    \/ p \in Channel /\ Len(f) = 1 /\ Handshake(p, f[1], "greeting") /\ r.pc \in {"read", "self"}
    \/ /\ p \in Channel /\ Len(f) = 2
       /\ Handshake(p, f[1], "greeting") /\ Handshake(p, f[2], "qmp_capabilities")
       /\ r.pc \in {"write", "read", "self"}

CosOK == ready \subseteq Waiters /\ \A p \in Coroutines : CoOK(p, co[p])

\* A coroutine in state r is between colod_lock_co and colod_unlock_co of c.
Has(r, c) ==
    \E i \in 1 .. Len(r.frames) :
        r.frames[i].chan = c /\ ~(r.pc = "lock" /\ i = Len(r.frames))

LockOK(c) ==
    /\ \A p \in Coroutines : lock[c].holder = p <=> Has(co[p], c)
    /\ lock[c].holder = "events" <=> event_co[c] = "read"
    /\ lock[c].holder = "none" <=> lock[c].count = 0

\* A coroutine in state r has sent a command on c, and not read the reply.
Awaits(r, c, id) ==
    \E i \in 1 .. Len(r.frames) :
        /\ r.frames[i].chan = c /\ r.frames[i].id = id
        /\ i = Len(r.frames) => r.pc \in {"read", "self"}
        /\ i # Len(r.frames) => r.frames[i].cmd # "greeting"

\* No reply is under way on c, or exactly the one to id is.
NoReply(c) == \A i \in 1 .. Len(wire[c]) : wire[c][i].type # "reply"
Clear(c) == pending[c] = << >> /\ NoReply(c)
Due(c, id) ==
    \/ pending[c] = <<id>> /\ NoReply(c)
    \/ /\ pending[c] = << >>
       /\ \E k \in 1 .. Len(wire[c]) :
             /\ wire[c][k].type = "reply" /\ wire[c][k].of = id
             /\ \A i \in 1 .. Len(wire[c]) : wire[c][i].type = "reply" => i = k

ReplyOK(c) ==
    \/ Clear(c) /\ \A p \in Coroutines, id \in Nat : ~Awaits(co[p], c, id)
    \/ \E p \in Coroutines, id \in Nat : Awaits(co[p], c, id) /\ Due(c, id)

\* The calls of all coroutines, by coroutine and depth.
CallsIn(f) == {x \in Coroutines \X {1, 2} : x[2] =< Len(f[x[1]].frames)}
Calls == CallsIn(co)
Readers == {c \in Channel : event_co[c] # "ended"}
FlightOK ==
    /\ IsFiniteSet(Calls)
    /\ state.inflight = Cardinality(Calls) + Cardinality(Readers)

EventsOK ==
    EventsInOrder /\ (phase = "run" => Len(notified) =< sent["main"])

IInv ==
    /\ TypeOK /\ CosOK
    /\ \A c \in Channel : LockOK(c)
    /\ ~state.error => \A c \in Channel : ReplyOK(c)
    /\ FlightOK
    /\ FreedIsUnused /\ YankNoticed /\ EventsOK

-----------------------------------------------------------------------------
CoState == [pc : {"idle", "lock", "write", "read", "self", "ended"}, frames : Seq(Frame)]

LEMMA Names ==
    /\ Channel \subseteq Coroutines /\ Users \subseteq Coroutines
    /\ "none" \notin Coroutines /\ "events" \notin Coroutines
    /\ \A p \in Users : p \notin Channel
  BY QmpAssumption DEF Channel, Coroutines

LEMMA CoTypes ==
    ASSUME TypeOK, NEW p \in Coroutines
    PROVE  /\ co \in [Coroutines -> CoState] /\ co[p] \in CoState
           /\ co[p].frames \in Seq(Frame) /\ Len(co[p].frames) \in Nat
  BY DEF TypeOK, CoState

LEMMA OneOrTwo ==
    ASSUME NEW S, NEW s \in Seq(S)
    PROVE  /\ Len(s) = 1 => s = <<s[1]>> /\ SubSeq(s, 1, Len(s) - 1) = << >>
           /\ Len(s) = 2 => s = <<s[1], s[2]>> /\ SubSeq(s, 1, Len(s) - 1) = <<s[1]>>
  <1>1. ASSUME Len(s) = 1 PROVE s = <<s[1]>> /\ SubSeq(s, 1, Len(s) - 1) = << >>
    BY <1>1
  <1>2. ASSUME Len(s) = 2 PROVE s = <<s[1], s[2]>> /\ SubSeq(s, 1, Len(s) - 1) = <<s[1]>>
    <2>1. s = <<s[1], s[2]>>
      BY <1>2
    <2>2. SubSeq(s, 1, 1) = <<s[1]>>
      <3> DEFINE t == SubSeq(s, 1, 1)
      <3>1. \A i \in 1 .. 1 : s[i] \in S
        BY <1>2
      <3>2. t \in Seq(S) /\ Len(t) = 1 /\ t[1] = s[1]
        BY <3>1, SubSeqProperties
      <3> HIDE DEF t
      <3>3. t = <<s[1]>>
        BY <3>2
      <3> QED
        BY <3>3 DEF t
    <2> QED
      BY <1>2, <2>1, <2>2
  <1> QED
    BY <1>1, <1>2

Extends(t, s, x) ==
    Len(t) = Len(s) + 1 /\ t[Len(s) + 1] = x /\ \A i \in 1 .. Len(s) : t[i] = s[i]

LEMMA AppendExtends ==
    ASSUME NEW S, NEW s \in Seq(S), NEW x \in S
    PROVE  Extends(Append(s, x), s, x) /\ Append(s, x) \in Seq(S)
  <1> DEFINE t == Append(s, x)
  <1>1. t \in Seq(S)
    BY AppendProperties
  <1>2. Len(t) = Len(s) + 1
    BY AppendProperties
  <1>3. t[Len(s) + 1] = x
    BY AppendProperties
  <1>4. \A i \in 1 .. Len(s) : t[i] = s[i]
    BY AppendProperties
  <1> HIDE DEF t
  <1>5. Extends(t, s, x)
    BY <1>2, <1>3, <1>4 DEF Extends
  <1> QED
    BY <1>1, <1>5 DEF t

LEMMA AppendSecond ==
    ASSUME NEW S, NEW s \in Seq(S), Len(s) = 1, NEW x \in S
    PROVE  Len(Append(s, x)) = 2 /\ Append(s, x)[1] = s[1] /\ Append(s, x)[2] = x
  <1>1. PICK t : t = Append(s, x)
    OBVIOUS
  <1>2. Extends(t, s, x)
    BY <1>1, AppendExtends, Zenon
  <1>3. Len(t) = 2 /\ t[1] = s[1] /\ t[2] = x
    BY <1>2 DEF Extends
  <1> QED
    BY <1>1, <1>3

LEMMA AppendToOne ==
    ASSUME NEW S, NEW a \in S, NEW b \in S
    PROVE  Append(<<a>>, b) = <<a, b>>
  <1>1. PICK s : s = <<a>>
    OBVIOUS
  <1>2. s \in Seq(S) /\ Len(s) = 1 /\ s[1] = a
    BY <1>1
  <1>3. PICK t : t = Append(s, b)
    OBVIOUS
  <1>4. Extends(t, s, b) /\ t \in Seq(S)
    BY <1>2, <1>3, AppendExtends, Zenon
  <1>5. Len(t) = 2 /\ t[1] = a /\ t[2] = b
    BY <1>2, <1>4 DEF Extends
  <1>6. t = <<a, b>>
    BY <1>4, <1>5
  <1> QED
    BY <1>1, <1>3, <1>6

\* What a coroutine inside of qmp.c has on its stack.
LEMMA Stack ==
    ASSUME TypeOK, NEW p \in Coroutines, CoOK(p, co[p]), co[p].pc \notin {"idle", "ended"}
    PROVE  LET f == co[p].frames IN
           /\ f \in Seq(Frame) /\ Len(f) \in {1, 2} /\ f[1] \in Frame /\ Top(p) \in Frame
           /\ Top(p) = f[Len(f)]
           /\ Len(f) = 1 => Outer(p) = << >> /\ f = <<f[1]>>
           /\ Len(f) = 2 => Outer(p) = <<f[1]>> /\ f[2] \in Frame /\ f = <<f[1], f[2]>>
  <1> DEFINE f == co[p].frames
  <1>1. f \in Seq(Frame) /\ Len(f) \in {1, 2}
    <2>1. f \in Seq(Frame)
      BY CoTypes
    <2>2. Len(f) \in {1, 2}
      BY DEF CoOK
    <2> QED
      BY <2>1, <2>2
  <1>2. \A i \in 1 .. Len(f) : f[i] \in Frame
    <2> HIDE DEF f
    <2> QED
      BY <1>1
  <1>3. Outer(p) = SubSeq(f, 1, Len(f) - 1) /\ Top(p) = f[Len(f)]
    BY DEF Outer, Top
  <1> HIDE DEF f
  <1>4. /\ Len(f) = 1 => Outer(p) = << >> /\ f = <<f[1]>>
        /\ Len(f) = 2 => Outer(p) = <<f[1]>> /\ f = <<f[1], f[2]>>
    BY <1>1, <1>3, OneOrTwo
  <1>5. /\ f \in Seq(Frame) /\ Len(f) \in {1, 2} /\ f[1] \in Frame /\ Top(p) \in Frame
        /\ Len(f) = 2 => f[2] \in Frame
    BY <1>1, <1>2, <1>3
  <1> QED
    BY <1>3, <1>4, <1>5 DEF f

-----------------------------------------------------------------------------
(* One coroutine moves, from co[p] to r. *)

Moves(p, r) == co' = [co EXCEPT ![p] = r]

LEMMA MoveCos ==
    ASSUME TypeOK, NEW p \in Coroutines, NEW r \in CoState, Moves(p, r)
    PROVE  /\ co' \in [Coroutines -> CoState] /\ co'[p] = r
           /\ \A q \in Coroutines : q # p => co'[q] = co[q]
  BY DEF Moves, TypeOK, CoState

LEMMA MoveOK ==
    ASSUME TypeOK, CosOK, NEW p \in Coroutines, NEW r \in CoState, Moves(p, r), CoOK(p, r),
           ready' \subseteq ready \cup Waiters, p \in ready' => r.pc = "lock"
    PROVE  CosOK'
  <1>1. \A q \in Coroutines : CoOK(q, co'[q])
    BY MoveCos DEF CosOK
  <1>2. ready' \subseteq Waiters'
    BY MoveCos DEF CosOK, Waiters
  <1>3. \A q \in Coroutines : CoOK(q, co[q])'
    BY <1>1 DEF CoOK
  <1> QED
    BY <1>2, <1>3 DEF CosOK

LEMMA MoveLock ==
    ASSUME TypeOK, NEW p \in Coroutines, NEW r \in CoState, Moves(p, r), event_co' = event_co,
           NEW c \in Channel, LockOK(c),
           \/ lock'[c] = lock[c] /\ (Has(r, c) <=> Has(co[p], c))
           \/ /\ lock[c].holder \in {"none", p} /\ lock'[c].holder = p
              /\ lock'[c].count # 0 /\ Has(r, c)
           \/ lock[c].holder = p /\ lock'[c] = NoHolder /\ ~Has(r, c)
    PROVE  LockOK(c)'
  <1>1. \A q \in Coroutines : Has(co[q], c)' <=> Has(co'[q], c)
    BY DEF Has
  <1>2. \A q \in Coroutines : q # p => (Has(co[q], c)' <=> Has(co[q], c))
    BY <1>1, MoveCos
  <1>3. Has(co[p], c)' <=> Has(r, c)
    BY <1>1, MoveCos
  <1>4. \A q \in Coroutines : lock'[c].holder = q <=> Has(co[q], c)'
    BY <1>2, <1>3, Names DEF LockOK, NoHolder
  <1> QED
    BY <1>4, Names DEF LockOK, NoHolder

LEMMA MoveReply ==
    ASSUME TypeOK, NEW p \in Coroutines, NEW r \in CoState, Moves(p, r),
           NEW c \in Channel, ReplyOK(c),
           \A id \in Nat : Awaits(r, c, id) <=> Awaits(co[p], c, id),
           Clear(c) => Clear(c)', \A id \in Nat : Due(c, id) => Due(c, id)'
    PROVE  ReplyOK(c)'
  <1>1. \A q \in Coroutines, id \in Nat : Awaits(co[q], c, id)' <=> Awaits(co'[q], c, id)
    BY DEF Awaits
  <1>2. \A q \in Coroutines, id \in Nat : Awaits(co[q], c, id)' <=> Awaits(co[q], c, id)
    BY <1>1, MoveCos
  <1> QED
    BY <1>2 DEF ReplyOK

\* Only the holder of the lock waits for a reply.
LEMMA AwaitsHas ==
    ASSUME NEW r, NEW c, NEW id, Awaits(r, c, id)
    PROVE  Has(r, c)
  BY DEF Awaits, Has

LEMMA AloneOnChannel ==
    ASSUME NEW c \in Channel, LockOK(c), NEW p \in Coroutines, Has(co[p], c),
           NEW q \in Coroutines, q # p, NEW id
    PROVE  ~Awaits(co[q], c, id)
  BY AwaitsHas DEF LockOK

\* The calls of one coroutine are counted apart from those of the others.
LEMMA CountCalls ==
    ASSUME NEW f \in [Coroutines -> CoState], NEW p \in Coroutines,
           NEW n \in {0, 1, 2}, Len(f[p].frames) = n
    PROVE  LET rest == {x \in CallsIn(f) : x[1] # p} IN
           /\ IsFiniteSet(CallsIn(f)) <=> IsFiniteSet(rest)
           /\ IsFiniteSet(rest) => Cardinality(CallsIn(f)) = Cardinality(rest) + n
                                   /\ Cardinality(rest) \in Nat
  <1> DEFINE rest == {x \in CallsIn(f) : x[1] # p}
             one == rest \cup {<<p, 1>>}
             two == one \cup {<<p, 2>>}
  <1>1. /\ n = 0 => CallsIn(f) = rest
        /\ n = 1 => CallsIn(f) = one
        /\ n = 2 => CallsIn(f) = two
    BY DEF CallsIn
  <1>2. IsFiniteSet(CallsIn(f)) => IsFiniteSet(rest)
    BY FS_Subset
  <1>3. <<p, 1>> \notin rest /\ <<p, 2>> \notin one
    OBVIOUS
  <1> HIDE DEF rest
  <1>4. ASSUME IsFiniteSet(rest)
        PROVE  /\ IsFiniteSet(CallsIn(f)) /\ Cardinality(CallsIn(f)) = Cardinality(rest) + n
               /\ Cardinality(rest) \in Nat
    <2>1. Cardinality(rest) \in Nat
      BY <1>4, FS_CardinalityType
    <2>2. IsFiniteSet(one) /\ Cardinality(one) = Cardinality(rest) + 1
      BY <1>3, <1>4, FS_AddElement
    <2> HIDE DEF one
    <2>3. IsFiniteSet(two) /\ Cardinality(two) = Cardinality(one) + 1
      BY <1>3, <2>2, FS_AddElement
    <2> HIDE DEF two
    <2> QED
      BY <1>1, <1>4, <2>1, <2>2, <2>3
  <1> QED
    BY <1>2, <1>4 DEF rest

LEMMA ReadersFinite == IsFiniteSet(Readers) /\ Cardinality(Readers) \in Nat
  <1>1. IsFiniteSet({"main"}) /\ IsFiniteSet({"main"} \cup {"yank"})
    BY FS_Singleton, FS_AddElement
  <1>2. IsFiniteSet(Channel) /\ Readers \subseteq Channel
    BY <1>1 DEF Channel, Readers
  <1> QED
    BY <1>2, FS_Subset, FS_CardinalityType

LEMMA MoveFlight ==
    ASSUME TypeOK, FlightOK, NEW p \in Coroutines, NEW r \in CoState, Moves(p, r),
           event_co' = event_co,
           NEW m \in {0, 1, 2}, Len(co[p].frames) = m,
           NEW n \in {0, 1, 2}, Len(r.frames) = n,
           state'.inflight = state.inflight + n - m
    PROVE  FlightOK' /\ state'.inflight \in Nat
  <1> DEFINE rest == {x \in CallsIn(co) : x[1] # p}
  <1>1. co \in [Coroutines -> CoState] /\ co' \in [Coroutines -> CoState] /\ co'[p] = r
    BY MoveCos, CoTypes
  <1>2. {x \in CallsIn(co') : x[1] # p} = rest
    BY MoveCos DEF CallsIn
  <1>3. /\ IsFiniteSet(CallsIn(co)) <=> IsFiniteSet(rest)
        /\ IsFiniteSet(rest) => Cardinality(CallsIn(co)) = Cardinality(rest) + m
                                /\ Cardinality(rest) \in Nat
    BY <1>1, CountCalls
  <1>4. /\ IsFiniteSet(CallsIn(co')) <=> IsFiniteSet(rest)
        /\ IsFiniteSet(rest) => Cardinality(CallsIn(co')) = Cardinality(rest) + n
    <2> HIDE DEF rest
    <2> QED
      BY <1>1, <1>2, CountCalls
  <1>5. Readers' = Readers /\ Calls' = CallsIn(co') /\ Calls = CallsIn(co)
    BY DEF Readers, Calls, CallsIn
  <1>6. Cardinality(Readers) \in Nat
    BY ReadersFinite
  <1> HIDE DEF rest
  <1> QED
    BY <1>3, <1>4, <1>5, <1>6 DEF FlightOK

\* Stacks of no, one and two calls: the locks that are held and the replies that
\* are waited for.
LEMMA StackOfNone ==
    ASSUME NEW r, r.frames = << >>
    PROVE  \A c : ~Has(r, c) /\ \A id : ~Awaits(r, c, id)
  BY DEF Has, Awaits

LEMMA StackOfOne ==
    ASSUME NEW r, Len(r.frames) = 1
    PROVE  \A c : /\ Has(r, c) <=> r.frames[1].chan = c /\ r.pc # "lock"
                  /\ \A id : Awaits(r, c, id) <=>
                        /\ r.frames[1].chan = c /\ r.frames[1].id = id
                        /\ r.pc \in {"read", "self"}
  BY DEF Has, Awaits

LEMMA StackOfTwo ==
    ASSUME NEW r, Len(r.frames) = 2
    PROVE  \A c : /\ Has(r, c) <=> r.frames[1].chan = c \/ (r.frames[2].chan = c /\ r.pc # "lock")
                  /\ \A id : Awaits(r, c, id) <=>
                        \/ /\ r.frames[1].chan = c /\ r.frames[1].id = id
                           /\ r.frames[1].cmd # "greeting"
                        \/ /\ r.frames[2].chan = c /\ r.frames[2].id = id
                           /\ r.pc \in {"read", "self"}
  BY DEF Has, Awaits

LEMMA HasOneOfTwo ==
    ASSUME NEW r, NEW c, Len(r.frames) = 2
    PROVE  Has(r, c) <=> r.frames[1].chan = c \/ (r.frames[2].chan = c /\ r.pc # "lock")
  BY StackOfTwo

LEMMA StackDepth ==
    ASSUME NEW p, NEW r, CoOK(p, r)
    PROVE  /\ Len(r.frames) \in {0, 1, 2}
           /\ r.frames = << >> <=> r.pc \in {"idle", "ended"}
           /\ Len(r.frames) = 0 => r.frames = << >>
  <1>1. CASE r.frames = << >>
    BY <1>1 DEF CoOK
  <1>2. CASE r.frames # << >>
    <2>1. Len(r.frames) \in {1, 2} /\ r.pc \notin {"idle", "ended"}
      BY <1>2 DEF CoOK
    <2> QED
      BY <1>2, <2>1
  <1> QED
    BY <1>1, <1>2

\* A command that has noticed that it was yanked.
Notices(p, r) ==
    p \in Users /\ r.frames # << >> /\ r.frames[1].cmd = "command" /\ ~r.frames[1].yank

LEMMA MoveYank ==
    ASSUME TypeOK, YankNoticed, NEW p \in Coroutines, NEW r \in CoState, Moves(p, r),
           state.error => state'.error,
           state'.did_yank = "command" =>
              \/ state'.error \/ Notices(p, r)
              \/ state.did_yank = "command" /\ (Notices(p, co[p]) => Notices(p, r))
    PROVE  YankNoticed'
  <1> SUFFICES ASSUME state'.did_yank = "command", ~state'.error
               PROVE  \E q \in Users : Notices(q, co'[q])
    BY DEF YankNoticed, Notices
  <1>1. CASE Notices(p, r)
    BY <1>1, MoveCos DEF Notices
  <1>2. CASE state.did_yank = "command" /\ (Notices(p, co[p]) => Notices(p, r))
    <2>1. PICK q \in Users : Notices(q, co[q])
      BY <1>2 DEF YankNoticed, Notices
    <2>2. q \in Coroutines
      BY Names
    <2> QED
      BY <1>2, <2>1, <2>2, MoveCos
  <1> QED
    BY <1>1, <1>2

\* A coroutine inside of qmp.c keeps the state from being freed.
LEMMA MoveFreed ==
    ASSUME IInv, NEW p \in Coroutines, phase' = phase,
           phase = "run" \/ co[p].pc \notin {"idle", "ended"}
    PROVE  FreedIsUnused'
  <1>1. CoOK(p, co[p]) /\ FreedIsUnused
    BY DEF IInv, CosOK
  <1>2. phase # "freed"
    BY <1>1, StackDepth DEF FreedIsUnused
  <1> QED
    BY <1>2 DEF FreedIsUnused

LEMMA SameEvents ==
    ASSUME EventsOK, phase' = phase, notified' = notified, sent' = sent,
           wire'["main"] = wire["main"]
    PROVE  EventsOK'
  BY DEF EventsOK, EventsInOrder

LEMMA SameDue ==
    ASSUME NEW c, wire'[c] = wire[c], pending'[c] = pending[c]
    PROVE  (Clear(c) <=> Clear(c)') /\ \A id : Due(c, id) <=> Due(c, id)'
  BY DEF Clear, Due, NoReply

\* All calls of p return.
LEMMA ReturnStep ==
    ASSUME IInv, NEW p \in Coroutines, NEW err \in BOOLEAN, NEW yanked \in Yanked,
           co[p].pc \notin {"idle", "ended", "lock"}, Return(p, err, yanked),
           yanked = "command" => state.did_yank = "command" /\ (err \/ state.error \/ ~Notices(p, co[p])),
           ready' = ready, event_co' = event_co, phase' = phase
    PROVE  /\ co' \in [Coroutines -> CoState] /\ CosOK'
           /\ lock' \in [Channel -> [holder : Coroutines \cup {"events", "none"}, count : Nat]]
           /\ \A c \in Channel : LockOK(c)'
           /\ state' \in [error : BOOLEAN, did_yank : Yanked, inflight : Nat]
           /\ FlightOK' /\ YankNoticed' /\ FreedIsUnused'
           /\ state'.error = (state.error \/ err)
           /\ \A q \in Coroutines : q # p => co'[q] = co[q]
           /\ co'[p].frames = << >>
  <1> DEFINE r == [pc |-> IF p \in Users THEN "idle" ELSE "ended", frames |-> << >>]
             m == Len(co[p].frames)
  <1>1. TypeOK /\ CosOK /\ CoOK(p, co[p]) /\ FlightOK /\ YankNoticed
    BY DEF IInv, CosOK
  <1>2. /\ r \in CoState /\ r.frames = << >> /\ r.pc # "lock" /\ CoOK(p, r) /\ Moves(p, r)
        /\ Len(r.frames) = 0
    BY DEF Return, CoState, CoOK, Moves
  <1> HIDE DEF r
  <1>3. co' \in [Coroutines -> CoState] /\ co'[p] = r
        /\ \A q \in Coroutines : q # p => co'[q] = co[q]
    BY <1>1, <1>2, MoveCos
  <1>4. CosOK'
    <2>1. p \notin ready
      BY <1>1 DEF CosOK, Waiters
    <2> QED
      BY <1>1, <1>2, <2>1, MoveOK
  <1>5. lock \in [Channel -> [holder : Coroutines \cup {"events", "none"}, count : Nat]]
        /\ lock' = [c \in Channel |-> IF lock[c].holder = p THEN NoHolder ELSE lock[c]]
    BY <1>1 DEF TypeOK, Return
  <1>6. lock' \in [Channel -> [holder : Coroutines \cup {"events", "none"}, count : Nat]]
    BY <1>5 DEF NoHolder
  <1>7. ASSUME NEW c \in Channel PROVE LockOK(c)'
    <2>1. LockOK(c)
      BY DEF IInv
    <2>2. ~Has(r, c)
      BY <1>2, StackOfNone
    <2>3. CASE lock[c].holder = p
      BY <1>1, <1>2, <1>5, <2>1, <2>2, <2>3, MoveLock
    <2>4. CASE lock[c].holder # p
      <3>1. ~Has(co[p], c) /\ lock'[c] = lock[c]
        BY <1>5, <2>1, <2>4 DEF LockOK
      <3> QED
        BY <1>1, <1>2, <2>1, <2>2, <3>1, MoveLock
    <2> QED
      BY <2>3, <2>4
  <1>8. m \in {0, 1, 2} /\ state.inflight \in Nat
    BY <1>1, StackDepth DEF TypeOK
  <1>9. state' = [error |-> state.error \/ err, did_yank |-> yanked, inflight |-> state.inflight - m]
    BY DEF Return
  <1>10. state'.inflight = state.inflight + 0 - m
    BY <1>8, <1>9
  <1>11. FlightOK' /\ state'.inflight \in Nat
    BY <1>1, <1>2, <1>8, <1>10, MoveFlight
  <1>12. /\ state' \in [error : BOOLEAN, did_yank : Yanked, inflight : Nat]
         /\ state'.error = (state.error \/ err) /\ state'.did_yank = yanked
    BY <1>1, <1>9, <1>11 DEF TypeOK
  <1>13. YankNoticed'
    BY <1>1, <1>2, <1>12, MoveYank
  <1>14. FreedIsUnused'
    BY MoveFreed
  <1> QED
    BY <1>2, <1>3, <1>4, <1>6, <1>7, <1>11, <1>12, <1>13, <1>14

\* p makes another call, and has the lock of its channel or waits for it.
LEMMA ExecuteStep ==
    ASSUME IInv, NEW p \in Coroutines, NEW f \in Frame,
           phase = "run" \/ co[p].pc \notin {"idle", "ended"}, co[p].pc # "lock",
           Len(co[p].frames) \in {0, 1}, __qmp_execute_co(p, co[p].frames, f),
           ready' = ready, event_co' = event_co, phase' = phase,
           NEW k, k = IF lock[f.chan].holder \in {"none", p} THEN "write" ELSE "lock",
           NEW r, r = [pc |-> k, frames |-> Append(co[p].frames, f)], CoOK(p, r),
           Notices(p, co[p]) => Notices(p, r)
    PROVE  /\ co' \in [Coroutines -> CoState] /\ CosOK'
           /\ lock' \in [Channel -> [holder : Coroutines \cup {"events", "none"}, count : Nat]]
           /\ \A c \in Channel : LockOK(c)'
           /\ state' \in [error : BOOLEAN, did_yank : Yanked, inflight : Nat]
           /\ FlightOK' /\ YankNoticed' /\ FreedIsUnused'
           /\ state'.error = state.error
           /\ r \in CoState /\ Moves(p, r)
  <1> DEFINE o == co[p].frames
             m == Len(o)
  <1>1. TypeOK /\ CosOK /\ CoOK(p, co[p]) /\ FlightOK /\ YankNoticed
    BY DEF IInv, CosOK
  <1>2. /\ o \in Seq(Frame) /\ m \in {0, 1} /\ m + 1 \in {0, 1, 2} /\ m \in {0, 1, 2}
        /\ f.chan \in Channel
    <2>1. o \in Seq(Frame)
      BY <1>1, CoTypes
    <2>2. f.chan \in Channel
      BY DEF Frame
    <2>3. m \in {0, 1}
      OBVIOUS
    <2> HIDE DEF m, o
    <2> QED
      BY <2>1, <2>2, <2>3
  <1>3. /\ r.pc = k /\ r.frames = Append(o, f) /\ Moves(p, r) /\ k \in {"write", "lock"}
        /\ state' = [state EXCEPT !.inflight = @ + 1]
        /\ lock' = IF k = "write"
                   THEN [lock EXCEPT ![f.chan] = [holder |-> p, count |-> @.count + 1]]
                   ELSE lock
        /\ k = "write" <=> lock[f.chan].holder \in {"none", p}
    BY DEF __qmp_execute_co, Moves
  <1>4. /\ Append(o, f) \in Seq(Frame) /\ Len(Append(o, f)) = m + 1
        /\ Append(o, f)[m + 1] = f
        /\ \A i \in 1 .. m : Append(o, f)[i] = o[i]
    <2> HIDE DEF o
    <2> QED
      BY <1>2
  <1>5. r \in CoState
    BY <1>3, <1>4 DEF CoState
  <1>6. CosOK'
    <2>1. p \notin ready
      BY <1>1 DEF CosOK, Waiters
    <2> QED
      BY <1>1, <1>3, <1>5, <2>1, MoveOK
  <1>7. lock \in [Channel -> [holder : Coroutines \cup {"events", "none"}, count : Nat]]
    BY <1>1 DEF TypeOK
  <1>8. lock' \in [Channel -> [holder : Coroutines \cup {"events", "none"}, count : Nat]]
    BY <1>2, <1>3, <1>7
  <1>9. ASSUME NEW c \in Channel
        PROVE  Has(r, c) <=> Has(co[p], c) \/ (f.chan = c /\ k = "write")
    <2> HIDE DEF o
    <2>1. CASE m = 0
      <3>1. ~Has(co[p], c)
        BY <1>1, <2>1, StackDepth, StackOfNone DEF o
      <3> QED
        <4>1. Len(r.frames) = 1 /\ r.frames[1] = f
          BY <1>3, <1>4, <2>1
        <4>2. Has(r, c) <=> r.frames[1].chan = c /\ r.pc # "lock"
          BY <4>1, StackOfOne
        <4> QED
          BY <1>3, <3>1, <4>1, <4>2
    <2>2. CASE m = 1
      <3>1. Has(co[p], c) <=> o[1].chan = c
        BY <2>2, StackOfOne DEF o
      <3>2. Has(r, c) <=> r.frames[1].chan = c \/ (r.frames[2].chan = c /\ r.pc # "lock")
        <4>1. Len(r.frames) = 2
          BY <1>3, <1>4, <2>2
        <4> QED
          BY <4>1, HasOneOfTwo, Zenon
      <3>3. r.frames[1] = o[1] /\ r.frames[2] = f
        BY <1>3, <1>4, <2>2
      <3> QED
        BY <1>3, <3>1, <3>2, <3>3
    <2> QED
      BY <1>2, <2>1, <2>2
  <1>10. ASSUME NEW c \in Channel PROVE LockOK(c)'
    <2>1. LockOK(c)
      BY DEF IInv
    <2>2. CASE f.chan = c /\ k = "write"
      <3>1. Has(r, c)
        BY <1>9, <2>2
      <3>2. lock' = [lock EXCEPT ![c] = [holder |-> p, count |-> lock[c].count + 1]]
        BY <1>3, <2>2
      <3>3. lock'[c].holder = p /\ lock'[c].count # 0
        BY <1>7, <3>2
      <3>4. lock[c].holder \in {"none", p}
        BY <1>3, <2>2
      <3> QED
        BY <1>1, <1>3, <1>5, <2>1, <3>1, <3>3, <3>4, MoveLock
    <2>3. CASE ~(f.chan = c /\ k = "write")
      <3>1. lock'[c] = lock[c] /\ (Has(r, c) <=> Has(co[p], c))
        BY <1>2, <1>3, <1>7, <1>9, <2>3
      <3> QED
        BY <1>1, <1>3, <1>5, <2>1, <3>1, MoveLock
    <2> QED
      BY <2>2, <2>3
  <1>11. /\ state' \in [error : BOOLEAN, did_yank : Yanked, inflight : Nat]
         /\ state'.error = state.error /\ state'.did_yank = state.did_yank
         /\ state'.inflight = state.inflight + (m + 1) - m
    <2> HIDE DEF m
    <2>1. state \in [error : BOOLEAN, did_yank : Yanked, inflight : Nat]
      BY <1>1 DEF TypeOK
    <2>2. /\ state' \in [error : BOOLEAN, did_yank : Yanked, inflight : Nat]
          /\ state'.error = state.error /\ state'.did_yank = state.did_yank
          /\ state'.inflight = state.inflight + 1 /\ state.inflight \in Nat
      <3>1. state' = [state EXCEPT !.inflight = state.inflight + 1]
        BY <1>3
      <3> QED
        BY <2>1, <3>1
    <2> QED
      BY <1>2, <2>2
  <1>12. FlightOK'
    <2>1. Len(r.frames) = m + 1 /\ Len(co[p].frames) = m
      BY <1>3, <1>4
    <2>2. TypeOK /\ FlightOK /\ Moves(p, r) /\ m \in {0, 1, 2} /\ m + 1 \in {0, 1, 2}
      BY <1>1, <1>2, <1>3
    <2>3. state'.inflight = state.inflight + (m + 1) - m
      BY <1>11
    <2> HIDE DEF m
    <2> QED
      BY <1>5, <2>1, <2>2, <2>3, MoveFlight
  <1>13. YankNoticed'
    BY <1>1, <1>3, <1>5, <1>11, MoveYank
  <1>14. FreedIsUnused'
    BY MoveFreed
  <1>15. co' \in [Coroutines -> CoState]
    BY <1>1, <1>3, <1>5, MoveCos
  <1> QED
    BY <1>3, <1>5, <1>6, <1>8, <1>10, <1>11, <1>12, <1>13, <1>14, <1>15

\* p stays in its calls and holds the locks it has.
LEMMA WithinStep ==
    ASSUME IInv, NEW p \in Coroutines, NEW r \in CoState, Moves(p, r), CoOK(p, r),
           co[p].pc \notin {"idle", "ended", "lock"},
           Len(r.frames) = Len(co[p].frames), \A c \in Channel : Has(r, c) <=> Has(co[p], c),
           Notices(p, co[p]) => Notices(p, r),
           UNCHANGED <<event_co, lock, state, phase>>,
           ready' \subseteq ready \cup Waiters
    PROVE  /\ co' \in [Coroutines -> CoState] /\ CosOK'
           /\ \A c \in Channel : LockOK(c)'
           /\ FlightOK' /\ YankNoticed' /\ FreedIsUnused'
  <1>1. TypeOK /\ CosOK /\ CoOK(p, co[p]) /\ FlightOK /\ YankNoticed /\ state.inflight \in Nat
    BY DEF IInv, CosOK, TypeOK
  <1>2. CosOK'
    <2>1. p \notin ready'
      BY <1>1 DEF CosOK, Waiters
    <2> QED
      BY <1>1, <2>1, MoveOK
  <1>3. ASSUME NEW c \in Channel PROVE LockOK(c)'
    BY <1>1, MoveLock DEF IInv
  <1>4. FlightOK'
    <2>1. Len(r.frames) \in {0, 1, 2}
      BY <1>1, StackDepth
    <2>2. state'.inflight = state.inflight + Len(r.frames) - Len(r.frames)
      BY <1>1, <2>1
    <2> QED
      BY <1>1, <2>1, <2>2, MoveFlight
  <1>5. YankNoticed'
    BY <1>1, MoveYank
  <1>6. FreedIsUnused'
    BY MoveFreed
  <1> QED
    BY <1>1, <1>2, <1>3, <1>4, <1>5, <1>6, MoveCos

-----------------------------------------------------------------------------
(* The calls of the users, the lock, the write and the timeout. *)

LEMMA UserCallStep ==
    ASSUME IInv, NEW u \in Users, qmp_execute_co(u) \/ qmp_yank_co(u)
    PROVE  IInv'
  <1>1. PICK f \in Frame : /\ (UserCall(f) /\ f.yank) \/ YankCall(f)
                           /\ __qmp_execute_co(u, << >>, f)
    <2>1. issued + 1 \in Nat
      BY DEF IInv, TypeOK
    <2>2. CASE qmp_execute_co(u)
      <3> DEFINE f == FrameOf("main", "command", TRUE, issued + 1)
      <3>1. f \in Frame /\ UserCall(f) /\ f.yank
        BY <2>1 DEF FrameOf, Frame, Channel, Command, UserCall
      <3>2. __qmp_execute_co(u, << >>, f)
        BY <2>2, Zenon DEF qmp_execute_co
      <3> HIDE DEF f
      <3> QED
        BY <3>1, <3>2
    <2>3. CASE qmp_yank_co(u)
      <3> DEFINE f == FrameOf("yank", "query-yank", FALSE, issued + 1)
      <3>1. f \in Frame /\ YankCall(f)
        BY <2>1 DEF FrameOf, Frame, Channel, Command, YankCall
      <3>2. __qmp_execute_co(u, << >>, f)
        BY <2>3, Zenon DEF qmp_yank_co
      <3> HIDE DEF f
      <3> QED
        BY <3>1, <3>2
    <2> QED
      BY <2>2, <2>3
  <1>2. /\ u \in Coroutines /\ phase = "run" /\ co[u].pc = "idle" /\ issued' = issued + 1
        /\ UNCHANGED <<ready, event_co, phase, wire, pending, closed, sent, notified>>
    BY Names DEF qmp_execute_co, qmp_yank_co, qemuVars
  <1>3. TypeOK /\ CosOK /\ CoOK(u, co[u]) /\ co[u].frames = << >> /\ EventsOK
    BY <1>2, StackDepth DEF IInv, CosOK
  <1> DEFINE k == IF lock[f.chan].holder \in {"none", u} THEN "write" ELSE "lock"
             r == [pc |-> k, frames |-> Append(co[u].frames, f)]
  <1>4. k \in {"write", "lock"}
    OBVIOUS
  <1> HIDE DEF k
  <1>5. r.frames = <<f>> /\ r.pc = k /\ Len(r.frames) = 1 /\ r.frames[1] = f
    <2>1. Append(<< >>, f) = <<f>> /\ Len(<<f>>) = 1 /\ <<f>>[1] = f
      OBVIOUS
    <2>2. r.frames = Append(<< >>, f) /\ r.pc = k
      BY <1>3
    <2> HIDE DEF r
    <2> QED
      BY <2>1, <2>2
  <1>6. r \in CoState
    <2>1. r = [pc |-> k, frames |-> <<f>>] /\ <<f>> \in Seq(Frame)
      BY <1>5
    <2> QED
      BY <1>4, <2>1 DEF CoState
  <1>7. CoOK(u, r)
    <2> HIDE DEF r
    <2> QED
      BY <1>1, <1>4, <1>5 DEF CoOK
  <1>8. ~Notices(u, co[u])
    BY <1>3 DEF Notices
  <1> DEFINE new ==
        /\ co' \in [Coroutines -> CoState] /\ CosOK'
        /\ lock' \in [Channel -> [holder : Coroutines \cup {"events", "none"}, count : Nat]]
        /\ \A c \in Channel : LockOK(c)'
        /\ state' \in [error : BOOLEAN, did_yank : Yanked, inflight : Nat]
        /\ FlightOK' /\ YankNoticed' /\ FreedIsUnused'
        /\ state'.error = state.error
        /\ Moves(u, r)
  <1>9. new
    <2>1. __qmp_execute_co(u, co[u].frames, f) /\ Len(co[u].frames) \in {0, 1}
      BY <1>1, <1>3
    <2>2. k = IF lock[f.chan].holder \in {"none", u} THEN "write" ELSE "lock"
      BY DEF k
    <2>3. r = [pc |-> k, frames |-> Append(co[u].frames, f)]
      OBVIOUS
    <2> HIDE DEF r
    <2> QED
      BY <1>2, <1>7, <1>8, <2>1, <2>2, <2>3, ExecuteStep
  <1>10. TypeOK'
    <2>1. new
      BY <1>9
    <2> QED
      BY <1>2, <1>3, <2>1 DEF TypeOK, CoState
  <1>11. ASSUME ~state'.error, NEW c \in Channel PROVE ReplyOK(c)'
    <2>1. ReplyOK(c)
      BY <1>9, <1>11 DEF IInv
    <2>2. \A id \in Nat : ~Awaits(co[u], c, id)
      BY <1>3, StackOfNone
    <2>3. \A id \in Nat : ~Awaits(r, c, id)
      <3> HIDE DEF r
      <3> QED
        BY <1>4, <1>5, StackOfOne
    <2>4. (Clear(c) <=> Clear(c)') /\ \A id : Due(c, id) <=> Due(c, id)'
      BY <1>2, SameDue
    <2> HIDE DEF r
    <2> QED
      BY <1>2, <1>3, <1>6, <1>9, <2>1, <2>2, <2>3, <2>4, MoveReply
  <1>12. EventsOK'
    BY <1>2, <1>3, SameEvents
  <1> QED
    BY <1>9, <1>10, <1>11, <1>12 DEF IInv

\* A write or a read that fails leaves an error behind.
LEMMA FailStep ==
    ASSUME IInv, NEW p \in Coroutines, co[p].pc \in {"write", "read"}, Fail(p),
           UNCHANGED <<ready, event_co, phase, wire, pending, closed, sent, issued, notified>>
    PROVE  IInv'
  <1>1. TypeOK /\ EventsOK /\ state.did_yank \in Yanked
    BY DEF IInv, TypeOK
  <1>2. /\ co' \in [Coroutines -> CoState] /\ CosOK'
        /\ lock' \in [Channel -> [holder : Coroutines \cup {"events", "none"}, count : Nat]]
        /\ \A c \in Channel : LockOK(c)'
        /\ state' \in [error : BOOLEAN, did_yank : Yanked, inflight : Nat]
        /\ FlightOK' /\ YankNoticed' /\ FreedIsUnused' /\ state'.error
    <2>1. Return(p, TRUE, state.did_yank)
      BY DEF Fail
    <2> QED
      BY <1>1, <2>1, ReturnStep
  <1>3. TypeOK'
    BY <1>1, <1>2 DEF TypeOK, CoState
  <1>4. EventsOK'
    BY <1>1, SameEvents
  <1> QED
    BY <1>2, <1>3, <1>4 DEF IInv

\* Only the place of p in its innermost call changes.
LEMMA SetPc ==
    ASSUME TypeOK, NEW p \in Coroutines,
           NEW k \in {"idle", "lock", "write", "read", "self", "ended"},
           co' = [co EXCEPT ![p].pc = k]
    PROVE  \E r \in CoState : Moves(p, r) /\ r.pc = k /\ r.frames = co[p].frames
  <1> DEFINE r == [co[p] EXCEPT !.pc = k]
  <1>1. co[p] \in CoState
    BY CoTypes
  <1>2. r \in CoState /\ r.pc = k /\ r.frames = co[p].frames
    BY <1>1 DEF CoState
  <1>3. Moves(p, r)
    BY DEF Moves
  <1> HIDE DEF r
  <1> QED
    BY <1>2, <1>3

\* Neither a coroutine nor a lock changes.
LEMMA QuietStep ==
    ASSUME IInv, UNCHANGED <<co, event_co, lock, state>>, ready' \subseteq ready \cup Waiters
    PROVE  /\ ready' \subseteq Coroutines /\ CosOK' /\ \A c \in Channel : LockOK(c)'
           /\ FlightOK' /\ YankNoticed'
           /\ phase' = phase => FreedIsUnused'
           /\ \A c \in Channel :
                 /\ ReplyOK(c)
                 /\ Clear(c) => Clear(c)' \/ \E p \in Coroutines, id \in Nat :
                                               Awaits(co[p], c, id) /\ Due(c, id)'
                 /\ \A id \in Nat : Due(c, id) => Due(c, id)'
                 => ReplyOK(c)'
  <1>1. ready' \subseteq Coroutines /\ CosOK'
    <2>1. Waiters' = Waiters /\ ready' \subseteq Waiters /\ Waiters \subseteq Coroutines
      BY DEF IInv, CosOK, Waiters
    <2>2. \A p \in Coroutines : CoOK(p, co[p])'
      BY DEF IInv, CosOK, CoOK
    <2> QED
      BY <2>1, <2>2 DEF CosOK
  <1>2. \A c \in Channel : LockOK(c)'
    BY DEF IInv, LockOK, Has
  <1>3. FlightOK'
    BY DEF IInv, FlightOK, Calls, CallsIn, Readers
  <1>4. YankNoticed' /\ (phase' = phase => FreedIsUnused')
    BY DEF IInv, YankNoticed, FreedIsUnused
  <1>5. \A p \in Coroutines, c \in Channel, id \in Nat : Awaits(co[p], c, id)' <=> Awaits(co[p], c, id)
    BY DEF Awaits
  <1>6. ASSUME NEW c \in Channel, ReplyOK(c),
               Clear(c) => Clear(c)' \/ \E p \in Coroutines, id \in Nat :
                                             Awaits(co[p], c, id) /\ Due(c, id)',
               \A id \in Nat : Due(c, id) => Due(c, id)'
        PROVE  ReplyOK(c)'
    BY <1>5, <1>6 DEF ReplyOK
  <1> QED
    BY <1>1, <1>2, <1>3, <1>4, <1>6

LEMMA LockStep ==
    ASSUME IInv, NEW p \in Coroutines, colod_lock_co(p)
    PROVE  IInv'
  <1> DEFINE t == Top(p).chan
  <1>1. /\ p \in ready /\ ready' = ready \ {p}
        /\ UNCHANGED <<event_co, state, phase, wire, pending, closed, sent, issued, notified>>
    BY DEF colod_lock_co, qemuVars
  <1>2. /\ TypeOK /\ CosOK /\ CoOK(p, co[p]) /\ FlightOK /\ EventsOK /\ YankNoticed
        /\ co[p].pc = "lock" /\ ready \subseteq Coroutines
    BY <1>1 DEF IInv, CosOK, Waiters
  <1>3. EventsOK'
    BY <1>1, <1>2, SameEvents
  <1>4. ASSUME NEW c \in Channel PROVE (Clear(c) <=> Clear(c)') /\ \A id : Due(c, id) <=> Due(c, id)'
    BY <1>1, SameDue
  <1>5. CASE UNCHANGED <<lock, co>>
    <2>1. /\ CosOK' /\ \A c \in Channel : LockOK(c)'
          /\ FlightOK' /\ YankNoticed' /\ FreedIsUnused' /\ ready' \subseteq Coroutines
      BY <1>1, <1>5, QuietStep
    <2>2. ~state.error => \A c \in Channel : ReplyOK(c)'
      BY <1>1, <1>4, <1>5, QuietStep DEF IInv
    <2>3. TypeOK'
      BY <1>1, <1>2, <1>5, <2>1 DEF TypeOK
    <2> QED
      BY <1>1, <1>3, <2>1, <2>2, <2>3 DEF IInv
  <1>6. CASE /\ lock[t].holder = "none" /\ lock' = [lock EXCEPT ![t] = [holder |-> p, count |-> 1]]
             /\ co' = [co EXCEPT ![p].pc = "write"]
    <2>1. PICK r \in CoState : Moves(p, r) /\ r.pc = "write" /\ r.frames = co[p].frames
      BY <1>2, <1>6, SetPc
    <2>2. /\ Top(p) = r.frames[Len(r.frames)] /\ Len(r.frames) \in {1, 2} /\ t \in Channel
          /\ Len(co[p].frames) = Len(r.frames)
      BY <1>2, <2>1, Stack DEF Frame
    <2>3. CoOK(p, r)
      BY <1>2, <2>1 DEF CoOK
    <2>4. CosOK'
      BY <1>1, <1>2, <2>1, <2>3, MoveOK
    <2>5. lock \in [Channel -> [holder : Coroutines \cup {"events", "none"}, count : Nat]]
      BY <1>2 DEF TypeOK
    <2>6. lock' \in [Channel -> [holder : Coroutines \cup {"events", "none"}, count : Nat]]
      BY <1>6, <2>2, <2>5
    <2>7. ASSUME NEW c \in Channel
          PROVE  /\ Has(r, c) <=> Has(co[p], c) \/ c = t
                 /\ \A id \in Nat : Awaits(r, c, id) <=> Awaits(co[p], c, id)
      <3>1. CASE Len(r.frames) = 1
        <4>1. Top(p) = r.frames[1]
          BY <2>2, <3>1
        <4>2. Has(r, c) <=> r.frames[1].chan = c /\ r.pc # "lock"
          BY <3>1, StackOfOne
        <4>3. Has(co[p], c) <=> co[p].frames[1].chan = c /\ co[p].pc # "lock"
          BY <2>1, <3>1, StackOfOne
        <4>4. ASSUME NEW id \in Nat PROVE Awaits(r, c, id) <=> Awaits(co[p], c, id)
          BY <1>2, <2>1, <3>1, StackOfOne
        <4> QED
          BY <1>2, <2>1, <2>2, <4>1, <4>2, <4>3, <4>4
      <3>2. CASE Len(r.frames) = 2
        <4>1. Top(p) = r.frames[2]
          BY <2>2, <3>2
        <4>2. Has(r, c) <=> r.frames[1].chan = c \/ (r.frames[2].chan = c /\ r.pc # "lock")
          BY <3>2, StackOfTwo
        <4>3. Has(co[p], c) <=> co[p].frames[1].chan = c \/ (co[p].frames[2].chan = c /\ co[p].pc # "lock")
          BY <2>1, <3>2, StackOfTwo
        <4>4. ASSUME NEW id \in Nat PROVE Awaits(r, c, id) <=> Awaits(co[p], c, id)
          <5>1. /\ Awaits(r, c, id) <=>
                        \/ /\ r.frames[1].chan = c /\ r.frames[1].id = id
                           /\ r.frames[1].cmd # "greeting"
                        \/ /\ r.frames[2].chan = c /\ r.frames[2].id = id
                           /\ r.pc \in {"read", "self"}
            BY <3>2, StackOfTwo
          <5>2. /\ Awaits(co[p], c, id) <=>
                        \/ /\ co[p].frames[1].chan = c /\ co[p].frames[1].id = id
                           /\ co[p].frames[1].cmd # "greeting"
                        \/ /\ co[p].frames[2].chan = c /\ co[p].frames[2].id = id
                           /\ co[p].pc \in {"read", "self"}
            BY <2>1, <3>2, StackOfTwo
          <5> QED
            BY <1>2, <2>1, <5>1, <5>2
        <4> QED
          BY <1>2, <2>1, <2>2, <4>1, <4>2, <4>3, <4>4
      <3> QED
        BY <2>2, <3>1, <3>2
    <2>8. ASSUME NEW c \in Channel PROVE LockOK(c)'
      <3>1. LockOK(c)
        BY DEF IInv
      <3>2. CASE c = t
        <4>1. lock'[c].holder = p /\ lock'[c].count # 0 /\ lock[c].holder = "none"
          BY <1>6, <2>2, <2>5, <3>2
        <4> QED
          BY <1>1, <1>2, <2>1, <2>7, <3>1, <3>2, <4>1, MoveLock
      <3>3. CASE c # t
        <4>1. lock'[c] = lock[c]
          BY <1>6, <2>2, <2>5, <3>3
        <4> QED
          BY <1>1, <1>2, <2>1, <2>7, <3>1, <3>3, <4>1, MoveLock
      <3> QED
        BY <3>2, <3>3
    <2>9. FlightOK'
      <3>1. state.inflight \in Nat
        BY <1>2 DEF TypeOK
      <3>2. Len(r.frames) \in {0, 1, 2} /\ state'.inflight = state.inflight + Len(r.frames) - Len(r.frames)
        BY <1>1, <2>2, <3>1
      <3> QED
        BY <1>1, <1>2, <2>1, <2>2, <3>2, MoveFlight
    <2>10. YankNoticed'
      <3>1. Notices(p, co[p]) => Notices(p, r)
        BY <2>1 DEF Notices
      <3> QED
        BY <1>1, <1>2, <2>1, <3>1, MoveYank
    <2>11. FreedIsUnused'
      BY <1>1, <1>2, MoveFreed
    <2>12. ASSUME ~state'.error, NEW c \in Channel PROVE ReplyOK(c)'
      <3>1. ReplyOK(c)
        BY <1>1, <2>12 DEF IInv
      <3> QED
        BY <1>2, <1>4, <2>1, <2>7, <3>1, MoveReply
    <2>13. TypeOK'
      <3>1. co' \in [Coroutines -> CoState]
        BY <1>2, <2>1, MoveCos
      <3> QED
        BY <1>1, <1>2, <2>6, <3>1 DEF TypeOK, CoState
    <2> QED
      BY <1>3, <2>4, <2>8, <2>9, <2>10, <2>11, <2>12, <2>13 DEF IInv
  <1> QED
    BY <1>5, <1>6 DEF colod_lock_co

LEMMA SameStack ==
    ASSUME NEW r, NEW s, r.frames = s.frames
    PROVE  \A c : /\ r.pc # "lock" /\ s.pc # "lock" => (Has(r, c) <=> Has(s, c))
                  /\ (r.pc \in {"read", "self"} <=> s.pc \in {"read", "self"}) =>
                        \A id : Awaits(r, c, id) <=> Awaits(s, c, id)
  <1>1. ASSUME NEW c, r.pc # "lock", s.pc # "lock" PROVE Has(r, c) <=> Has(s, c)
    BY <1>1 DEF Has
  <1>2. ASSUME NEW c, r.pc \in {"read", "self"} <=> s.pc \in {"read", "self"}, NEW id
        PROVE  Awaits(r, c, id) <=> Awaits(s, c, id)
    BY <1>2 DEF Awaits
  <1> QED
    BY <1>1, <1>2

\* The channel of the innermost call is that of p alone, and the reply to the
\* outer call, if there is one, comes on the other one.
LEMMA TopHas ==
    ASSUME TypeOK, NEW p \in Coroutines, CoOK(p, co[p]), co[p].pc \notin {"idle", "ended", "lock"},
           NEW t, t = Top(p)
    PROVE  /\ t \in Frame /\ t.chan \in Channel /\ t.id \in Nat /\ Has(co[p], t.chan)
           /\ \A id : Awaits(co[p], t.chan, id) <=> co[p].pc \in {"read", "self"} /\ id = t.id
  <1> DEFINE f == co[p].frames
  <1>1. f \in Seq(Frame) /\ Len(f) \in {1, 2} /\ t = f[Len(f)] /\ t \in Frame
    BY Stack
  <1>2. t.chan \in Channel /\ t.id \in Nat
    BY <1>1 DEF Frame
  <1>3. CASE Len(f) = 1
    <2>1. t = f[1]
      BY <1>1, <1>3
    <2>2. Has(co[p], t.chan) <=> f[1].chan = t.chan /\ co[p].pc # "lock"
      BY <1>3, StackOfOne
    <2>3. ASSUME NEW id
          PROVE  Awaits(co[p], t.chan, id) <=>
                    /\ f[1].chan = t.chan /\ f[1].id = id /\ co[p].pc \in {"read", "self"}
      BY <1>3, StackOfOne
    <2> HIDE DEF f
    <2> QED
      BY <1>1, <1>2, <2>1, <2>2, <2>3
  <1>4. CASE Len(f) = 2
    <2>1. t = f[2]
      BY <1>1, <1>4
    <2>2. f[1].chan # t.chan \/ f[1].cmd = "greeting"
      BY <1>4, <2>1 DEF CoOK, UserCall, YankCall, Handshake
    <2>3. Has(co[p], t.chan) <=> f[1].chan = t.chan \/ (f[2].chan = t.chan /\ co[p].pc # "lock")
      BY <1>4, StackOfTwo
    <2>4. ASSUME NEW id
          PROVE  Awaits(co[p], t.chan, id) <=>
                    \/ f[1].chan = t.chan /\ f[1].id = id /\ f[1].cmd # "greeting"
                    \/ f[2].chan = t.chan /\ f[2].id = id /\ co[p].pc \in {"read", "self"}
      BY <1>4, StackOfTwo
    <2> HIDE DEF f
    <2> QED
      BY <1>1, <1>2, <2>1, <2>2, <2>3, <2>4
  <1> QED
    BY <1>1, <1>3, <1>4

\* What is due on the channel of the innermost call of p.
LEMMA TopReply ==
    ASSUME IInv, ~state.error, NEW p \in Coroutines, co[p].pc \notin {"idle", "ended", "lock"},
           NEW t, t = Top(p)
    PROVE  /\ co[p].pc \in {"read", "self"} => Due(t.chan, t.id)
           /\ co[p].pc \notin {"read", "self"} => Clear(t.chan)
           /\ \A q \in Coroutines, id \in Nat : q # p => ~Awaits(co[q], t.chan, id)
  <1>1. TypeOK /\ CoOK(p, co[p])
    BY DEF IInv, CosOK
  <1>2. /\ t.chan \in Channel /\ t.id \in Nat /\ Has(co[p], t.chan)
        /\ \A id : Awaits(co[p], t.chan, id) <=> co[p].pc \in {"read", "self"} /\ id = t.id
    BY <1>1, TopHas
  <1>3. LockOK(t.chan) /\ ReplyOK(t.chan)
    BY <1>2 DEF IInv
  <1>4. \A q \in Coroutines, id \in Nat : q # p => ~Awaits(co[q], t.chan, id)
    BY <1>2, <1>3, AloneOnChannel
  <1> QED
    BY <1>2, <1>3, <1>4 DEF ReplyOK

LEMMA WriteStep ==
    ASSUME IInv, NEW p \in Coroutines, colod_channel_write_timeout_co(p)
    PROVE  IInv'
  <1>1. /\ co[p].pc = "write"
        /\ UNCHANGED <<ready, event_co, phase, wire, closed, sent, issued, notified>>
    BY DEF colod_channel_write_timeout_co
  <1>2. CASE Fail(p) /\ UNCHANGED pending
    BY <1>1, <1>2, FailStep
  <1>3. CASE /\ pending' = [pending EXCEPT ![Top(p).chan] = Append(@, Top(p).id)]
             /\ co' = [co EXCEPT ![p].pc = "read"] /\ UNCHANGED <<lock, state>>
    <2>1. TypeOK /\ CoOK(p, co[p]) /\ EventsOK /\ pending \in [Channel -> Seq(Nat)]
      BY DEF IInv, CosOK, TypeOK
    <2>2. PICK r \in CoState : Moves(p, r) /\ r.pc = "read" /\ r.frames = co[p].frames
      BY <1>3, <2>1, SetPc
    <2>3. PICK t : t = Top(p)
      OBVIOUS
    <2>4. /\ t \in Frame /\ t.chan \in Channel /\ t.id \in Nat
          /\ \A id : ~Awaits(co[p], t.chan, id)
      BY <1>1, <2>1, <2>3, TopHas
    <2>5. pending' = [pending EXCEPT ![t.chan] = Append(pending[t.chan], t.id)]
      BY <1>3, <2>3
    <2>6. CoOK(p, r)
      BY <1>1, <2>1, <2>2 DEF CoOK
    <2>7. /\ \A c : Has(r, c) <=> Has(co[p], c)
          /\ Notices(p, co[p]) => Notices(p, r)
      BY <1>1, <2>2, SameStack DEF Notices
    <2>8. /\ co' \in [Coroutines -> CoState] /\ CosOK'
          /\ \A c \in Channel : LockOK(c)'
          /\ FlightOK' /\ YankNoticed' /\ FreedIsUnused'
      BY <1>1, <1>3, <2>2, <2>6, <2>7, WithinStep
    <2>9. TypeOK'
      <3>1. pending' \in [Channel -> Seq(Nat)]
        BY <2>1, <2>4, <2>5
      <3> QED
        BY <1>1, <1>3, <2>1, <2>8, <3>1 DEF TypeOK, CoState
    <2>10. EventsOK'
      BY <1>1, <2>1, SameEvents
    <2>11. ASSUME ~state'.error, NEW c \in Channel, c = t.chan PROVE ReplyOK(c)'
      <3>1. Clear(c)
        BY <1>1, <1>3, <2>3, <2>11, TopReply
      <3>2. Due(c, t.id)'
        <4>1. pending'[c] = <<t.id>>
          <5>1. pending'[c] = Append(<< >>, t.id)
            BY <2>1, <2>5, <2>11, <3>1 DEF Clear
          <5> QED
            BY <5>1
        <4> QED
          BY <1>1, <3>1, <4>1 DEF Clear, NoReply, Due
      <3>3. Awaits(r, c, t.id)
        <4>1. \E i \in 1 .. Len(r.frames) : i = Len(r.frames) /\ r.frames[i] = t
          BY <1>1, <2>1, <2>2, <2>3, Stack
        <4> QED
          BY <2>2, <2>11, <4>1 DEF Awaits
      <3>4. Awaits(co[p], c, t.id)'
        BY <2>1, <2>2, <3>3, MoveCos DEF Awaits
      <3> QED
        BY <2>4, <3>2, <3>4 DEF ReplyOK
    <2>12. ASSUME ~state'.error, NEW c \in Channel, c # t.chan PROVE ReplyOK(c)'
      <3>1. ReplyOK(c)
        BY <1>3, <2>12 DEF IInv
      <3>2. (Clear(c) <=> Clear(c)') /\ \A id : Due(c, id) <=> Due(c, id)'
        <4>1. wire'[c] = wire[c] /\ pending'[c] = pending[c]
          BY <1>1, <2>1, <2>5, <2>12
        <4> QED
          BY <4>1, SameDue
      <3>3. ASSUME NEW id \in Nat PROVE Awaits(r, c, id) <=> Awaits(co[p], c, id)
        <4>1. \A i \in 1 .. Len(r.frames) : r.frames[i].chan = c => i # Len(r.frames)
          BY <1>1, <2>1, <2>2, <2>3, <2>12, Stack
        <4> QED
          BY <2>2, <4>1 DEF Awaits
      <3> QED
        BY <2>1, <2>2, <3>1, <3>2, <3>3, MoveReply
    <2> QED
      BY <2>8, <2>9, <2>10, <2>11, <2>12 DEF IInv
  <1> QED
    BY <1>2, <1>3 DEF colod_channel_write_timeout_co

LEMMA ResumeStep ==
    ASSUME IInv, NEW p \in Coroutines, Resume(p)
    PROVE  IInv'
  <1>1. /\ co[p].pc = "self" /\ co' = [co EXCEPT ![p].pc = "read"] /\ ready' = ready \cup Waiters
        /\ UNCHANGED <<event_co, lock, state, phase, wire, pending, closed, sent, issued, notified>>
    BY DEF Resume, IdleDispatch, qemuVars
  <1>2. TypeOK /\ CoOK(p, co[p]) /\ EventsOK
    BY DEF IInv, CosOK
  <1>3. PICK r \in CoState : Moves(p, r) /\ r.pc = "read" /\ r.frames = co[p].frames
    BY <1>1, <1>2, SetPc
  <1>4. CoOK(p, r)
    BY <1>1, <1>2, <1>3 DEF CoOK
  <1>5. /\ \A c : (Has(r, c) <=> Has(co[p], c)) /\ \A id : Awaits(r, c, id) <=> Awaits(co[p], c, id)
        /\ Notices(p, co[p]) => Notices(p, r)
    BY <1>1, <1>3, SameStack DEF Notices
  <1>6. /\ co' \in [Coroutines -> CoState] /\ CosOK'
        /\ \A c \in Channel : LockOK(c)'
        /\ FlightOK' /\ YankNoticed' /\ FreedIsUnused'
    BY <1>1, <1>3, <1>4, <1>5, WithinStep
  <1>7. TypeOK'
    <2>1. ready' \subseteq Coroutines
      BY <1>1, <1>2 DEF TypeOK, Waiters
    <2> QED
      BY <1>1, <1>2, <1>6, <2>1 DEF TypeOK, CoState
  <1>8. EventsOK'
    BY <1>1, <1>2, SameEvents
  <1>9. ASSUME ~state'.error, NEW c \in Channel PROVE ReplyOK(c)'
    <2>1. ReplyOK(c)
      BY <1>1, <1>9 DEF IInv
    <2>2. (Clear(c) <=> Clear(c)') /\ \A id : Due(c, id) <=> Due(c, id)'
      BY <1>1, SameDue
    <2> QED
      BY <1>2, <1>3, <1>5, <2>1, <2>2, MoveReply
  <1> QED
    BY <1>6, <1>7, <1>8, <1>9 DEF IInv

LEMMA TimeoutStep ==
    ASSUME IInv, NEW p \in Coroutines, Timeout(p)
    PROVE  IInv'
  <1>1. /\ co[p].pc = "read"
        /\ UNCHANGED <<ready, event_co, phase, wire, pending, closed, sent, issued, notified>>
    BY DEF Timeout, qemuVars
  <1>2. CASE ~Top(p).yank
    <2>1. Fail(p)
      BY <1>2 DEF Timeout
    <2> QED
      BY <1>1, <2>1, FailStep
  <1>3. CASE Top(p).yank
    <2> DEFINE o == co[p].frames
    <2>1. TypeOK /\ CoOK(p, co[p]) /\ EventsOK
      BY DEF IInv, CosOK
    <2>2. o \in Seq(Frame) /\ Len(o) \in {1, 2} /\ o[1] \in Frame /\ Top(p) = o[Len(o)]
      BY <1>1, <2>1, Stack
    <2>3. p \in Users /\ Len(o) = 1 /\ UserCall(o[1]) /\ Top(p) = o[1] /\ o[1].yank
      <3>1. Len(o) = 1
        <4>1. CASE Len(o) = 2
          <5>1. ~o[2].yank
            BY <2>1, <4>1 DEF CoOK, YankCall, Handshake
          <5> QED
            BY <1>3, <2>2, <4>1, <5>1
        <4> QED
          BY <2>2, <4>1
      <3>2. Top(p) = o[1]
        BY <2>2, <3>1
      <3> QED
        BY <1>3, <2>1, <3>1, <3>2 DEF CoOK, YankCall, Handshake
    <2>4. PICK f : f = FrameOf("yank", "query-yank", FALSE, Top(p).id)
      OBVIOUS
    <2>5. f \in Frame /\ YankCall(f)
      <3>1. o[1].id \in Nat
        BY <2>2 DEF Frame
      <3> QED
        BY <2>3, <2>4, <3>1 DEF FrameOf, Frame, Channel, Command, YankCall
    <2>6. __qmp_execute_co(p, o, f)
      BY <1>3, <2>4 DEF Timeout
    <2>7. PICK k : k = IF lock[f.chan].holder \in {"none", p} THEN "write" ELSE "lock"
      OBVIOUS
    <2>8. PICK r : r = [pc |-> k, frames |-> Append(o, f)]
      OBVIOUS
    <2>9. /\ r.pc = k /\ k \in {"write", "lock"} /\ Len(r.frames) = 2
          /\ r.frames[1] = o[1] /\ r.frames[2] = f
      <3>1. Len(Append(o, f)) = 2 /\ Append(o, f)[1] = o[1] /\ Append(o, f)[2] = f
        <4>1. o \in Seq(Frame) /\ Len(o) = 1
          BY <2>2, <2>3
        <4>2. f \in Frame
          BY <2>5
        <4> QED
          BY <4>1, <4>2, AppendSecond
      <3> QED
        BY <2>7, <2>8, <3>1
    <2>10. CoOK(p, r)
      BY <2>3, <2>5, <2>9 DEF CoOK
    <2>11. Notices(p, co[p]) => Notices(p, r)
      BY <2>3 DEF Notices
    <2>12. /\ co' \in [Coroutines -> CoState] /\ CosOK'
           /\ lock' \in [Channel -> [holder : Coroutines \cup {"events", "none"}, count : Nat]]
           /\ \A c \in Channel : LockOK(c)'
           /\ state' \in [error : BOOLEAN, did_yank : Yanked, inflight : Nat]
           /\ FlightOK' /\ YankNoticed' /\ FreedIsUnused'
           /\ state'.error = state.error
           /\ r \in CoState /\ Moves(p, r)
      <3>1. Len(co[p].frames) \in {0, 1} /\ r = [pc |-> k, frames |-> Append(co[p].frames, f)]
            /\ __qmp_execute_co(p, co[p].frames, f)
        BY <2>3, <2>6, <2>8
      <3> QED
        BY <1>1, <2>5, <2>7, <2>10, <2>11, <3>1, ExecuteStep
    <2>13. TypeOK'
      BY <1>1, <2>1, <2>12 DEF TypeOK, CoState
    <2>14. EventsOK'
      BY <1>1, <2>1, SameEvents
    <2>15. ASSUME ~state'.error, NEW c \in Channel PROVE ReplyOK(c)'
      <3>1. ReplyOK(c)
        BY <2>12, <2>15 DEF IInv
      <3>2. (Clear(c) <=> Clear(c)') /\ \A id : Due(c, id) <=> Due(c, id)'
        BY <1>1, SameDue
      <3>3. ASSUME NEW id \in Nat PROVE Awaits(r, c, id) <=> Awaits(co[p], c, id)
        <4>1. Awaits(co[p], c, id) <=> o[1].chan = c /\ o[1].id = id
          <5>1. Awaits(co[p], c, id) <=>
                   o[1].chan = c /\ o[1].id = id /\ co[p].pc \in {"read", "self"}
            BY <2>3, StackOfOne, Zenon
          <5> QED
            BY <1>1, <5>1
        <4>2. Awaits(r, c, id) <=>
                    \/ r.frames[1].chan = c /\ r.frames[1].id = id /\ r.frames[1].cmd # "greeting"
                    \/ r.frames[2].chan = c /\ r.frames[2].id = id /\ r.pc \in {"read", "self"}
          BY <2>9, StackOfTwo
        <4> HIDE DEF o
        <4> QED
          BY <2>3, <2>9, <4>1, <4>2 DEF UserCall
      <3> QED
        BY <2>1, <2>12, <3>1, <3>2, <3>3, MoveReply
    <2> QED
      BY <2>12, <2>13, <2>14, <2>15 DEF IInv
  <1> QED
    BY <1>2, <1>3

LEMMA EofStep ==
    ASSUME IInv, NEW p \in Coroutines, Eof(p)
    PROVE  IInv'
  <1>1. /\ co[p].pc = "read" /\ Fail(p)
        /\ UNCHANGED <<ready, event_co, phase, wire, pending, closed, sent, issued, notified>>
    BY DEF Eof, qemuVars
  <1> QED
    BY <1>1, FailStep

-----------------------------------------------------------------------------
(* A line is read. *)

LEMMA WireType ==
    ASSUME TypeOK, NEW c \in Channel, wire[c] # << >>
    PROVE  /\ wire \in [Channel -> Seq(Line)] /\ wire[c] \in Seq(Line)
           /\ Len(wire[c]) \in Nat \ {0} /\ Head(wire[c]) = wire[c][1] /\ wire[c][1] \in Line
           /\ Tail(wire[c]) \in Seq(Line) /\ Len(Tail(wire[c])) = Len(wire[c]) - 1
           /\ \A i \in 1 .. Len(wire[c]) - 1 : Tail(wire[c])[i] = wire[c][i + 1]
  <1> DEFINE w == wire[c]
  <1>1. wire \in [Channel -> Seq(Line)] /\ w \in Seq(Line)
    BY DEF TypeOK
  <1> HIDE DEF w
  <1>2. w # << >> => /\ Len(w) \in Nat \ {0} /\ Head(w) = w[1] /\ w[1] \in Line
                     /\ Tail(w) \in Seq(Line) /\ Len(Tail(w)) = Len(w) - 1
                     /\ \A i \in 1 .. Len(w) - 1 : Tail(w)[i] = w[i + 1]
    BY <1>1
  <1> QED
    BY <1>1, <1>2 DEF w

LEMMA TakenType ==
    ASSUME TypeOK, NEW c \in Channel, wire[c] # << >>, Taken(c)
    PROVE  /\ wire' \in [Channel -> Seq(Line)] /\ wire'[c] = Tail(wire[c])
           /\ \A d \in Channel : d # c => wire'[d] = wire[d]
  BY WireType DEF Taken

\* An event does not change which reply is due.
LEMMA EventKeepsDue ==
    ASSUME TypeOK, NEW c \in Channel, wire[c] # << >>, Taken(c), pending' = pending,
           Head(wire[c]).type = "event", NEW d \in Channel
    PROVE  (Clear(d) => Clear(d)') /\ \A id \in Nat : Due(d, id) => Due(d, id)'
  <1>1. CASE d # c
    <2>1. wire'[d] = wire[d]
      BY <1>1, TakenType
    <2> QED
      BY <2>1, SameDue
  <1>2. CASE d = c
    <2> DEFINE w == wire[c]
               v == wire'[c]
    <2>1. /\ Len(w) \in Nat \ {0} /\ w[1].type = "event" /\ Len(v) = Len(w) - 1
          /\ \A i \in 1 .. Len(w) - 1 : v[i] = w[i + 1]
      BY WireType, TakenType
    <2> HIDE DEF w, v
    <2>2. (\A i \in 1 .. Len(w) : w[i].type # "reply") => \A i \in 1 .. Len(v) : v[i].type # "reply"
      BY <2>1
    <2>3. ASSUME NEW id, NEW k \in 1 .. Len(w), w[k].type = "reply", w[k].of = id,
                 \A i \in 1 .. Len(w) : w[i].type = "reply" => i = k
          PROVE  \E j \in 1 .. Len(v) : /\ v[j].type = "reply" /\ v[j].of = id
                                        /\ \A i \in 1 .. Len(v) : v[i].type = "reply" => i = j
      <3>1. k # 1
        BY <2>1, <2>3
      <3>2. k - 1 \in 1 .. Len(v) /\ v[k - 1] = w[k]
        BY <2>1, <3>1
      <3>3. ASSUME NEW i \in 1 .. Len(v), v[i].type = "reply" PROVE i = k - 1
        <4>1. i + 1 \in 1 .. Len(w) /\ v[i] = w[i + 1]
          BY <2>1
        <4>2. i + 1 = k
          BY <2>3, <3>3, <4>1
        <4> QED
          BY <4>2
      <3> QED
        BY <2>3, <3>2, <3>3
    <2> QED
      BY <1>2, <2>2, <2>3 DEF w, v, Clear, Due, NoReply
  <1> QED
    BY <1>1, <1>2

\* The only reply under way is the one that is due; once it is read, none is.
LEMMA ReplyTaken ==
    ASSUME TypeOK, NEW c \in Channel, wire[c] # << >>, Taken(c), pending' = pending,
           Head(wire[c]).type = "reply", NEW id, Due(c, id)
    PROVE  Clear(c)' /\ Head(wire[c]).of = id
  <1> DEFINE w == wire[c]
             v == wire'[c]
  <1>1. /\ Len(w) \in Nat \ {0} /\ Head(w) = w[1] /\ w[1].type = "reply" /\ Len(v) = Len(w) - 1
        /\ \A i \in 1 .. Len(w) - 1 : v[i] = w[i + 1]
    BY WireType, TakenType
  <1>2. pending[c] = << >> /\ \E k \in 1 .. Len(w) :
             /\ w[k].type = "reply" /\ w[k].of = id
             /\ \A i \in 1 .. Len(w) : w[i].type = "reply" => i = k
    <2>1. ~NoReply(c)
      BY <1>1 DEF NoReply
    <2> QED
      BY <2>1 DEF Due
  <1> HIDE DEF w, v
  <1>3. w[1].of = id /\ \A i \in 1 .. Len(v) : v[i].type # "reply"
    BY <1>1, <1>2
  <1> QED
    BY <1>1, <1>2, <1>3 DEF w, v, Clear, NoReply

\* Whoever reads it, an event goes to the callbacks in its turn.
LEMMA ReadEvents ==
    ASSUME TypeOK, EventsOK, NEW c \in Channel, wire[c] # << >>, Taken(c),
           UNCHANGED <<phase, sent>>,
           IF Head(wire[c]).type = "event" THEN notify_event(c, Head(wire[c])) ELSE UNCHANGED notified
    PROVE  EventsOK' /\ notified' \in Seq(Nat)
  <1> DEFINE w == wire["main"]
             v == wire'["main"]
             e == sent["main"]
             h == Head(wire[c])
  <1>1. /\ notified \in Seq(Nat) /\ "main" \in Channel /\ w \in Seq(Line) /\ e \in Nat
        /\ h \in Line /\ h.of \in Nat
    BY WireType DEF TypeOK, Channel, Line
  <1>2. notified' \in Seq(Nat)
    <2>1. notified' = notified \/ notified' = Append(notified, h.of)
      BY DEF notify_event
    <2> HIDE DEF h
    <2> QED
      BY <1>1, <2>1
  <1>3. CASE c # "main" \/ phase # "run"
    <2>1. notified' = notified /\ (c # "main" => v = w)
      BY <1>1, <1>3, TakenType DEF notify_event
    <2> QED
      BY <1>2, <1>3, <2>1 DEF EventsOK, EventsInOrder
  <1>4. CASE c = "main" /\ phase = "run"
    <2> DEFINE left == {i \in 1 .. Len(w) : w[i].type = "event"}
               now == {i \in 1 .. Len(v) : v[i].type = "event"}
               n == Len(notified)
    <2>1. /\ n =< e /\ \A i \in 1 .. n : notified[i] = i
          /\ {w[i].of : i \in left} = n + 1 .. e
          /\ \A i, j \in left : i < j => w[i].of < w[j].of
      BY <1>4 DEF EventsOK, EventsInOrder
    <2>2. /\ Len(w) \in Nat \ {0} /\ Len(v) = Len(w) - 1 /\ h = w[1]
          /\ \A i \in 1 .. Len(w) - 1 : v[i] = w[i + 1]
      <3>1. v = Tail(w)
        BY <1>4, TakenType
      <3>2. /\ Len(w) \in Nat \ {0} /\ h = w[1] /\ Len(Tail(w)) = Len(w) - 1
            /\ \A i \in 1 .. Len(w) - 1 : Tail(w)[i] = w[i + 1]
        BY <1>4, WireType
      <3> QED
        BY <3>1, <3>2
    <2>3. n \in Nat /\ \A i \in 1 .. Len(w) : w[i].of \in Nat
      <3>1. n \in Nat
        BY <1>1
      <3>2. w \in Seq(Line)
        BY <1>1
      <3> HIDE DEF w
      <3>3. \A i \in 1 .. Len(w) : w[i] \in Line
        BY <3>2
      <3> QED
        BY <3>1, <3>3 DEF Line
    <2> HIDE DEF w, v, e, h, n
    <2>4. \A i : i \in now <=> i \in 1 .. Len(w) - 1 /\ i + 1 \in left
      BY <2>2
    <2>5. \A i, j \in now : i < j => v[i].of < v[j].of
      <3> TAKE i, j \in now
      <3>1. i + 1 \in left /\ j + 1 \in left /\ v[i] = w[i + 1] /\ v[j] = w[j + 1]
            /\ i \in Nat /\ j \in Nat
        BY <2>2, <2>4
      <3> HIDE DEF left, now
      <3> QED
        BY <2>1, <3>1
    <2>6. {v[i].of : i \in now} = {w[i].of : i \in left \ {1}}
      <3>1. ASSUME NEW i \in now PROVE \E j \in left \ {1} : v[i].of = w[j].of
        <4>1. i + 1 \in left \ {1} /\ v[i] = w[i + 1]
          BY <2>2, <2>4
        <4> HIDE DEF left, now
        <4> QED
          BY <4>1
      <3>2. ASSUME NEW j \in left \ {1} PROVE \E i \in now : v[i].of = w[j].of
        <4>1. j - 1 \in now /\ v[j - 1] = w[j]
          BY <2>2, <2>4
        <4> HIDE DEF left, now
        <4> QED
          BY <4>1
      <3> HIDE DEF left, now
      <3> QED
        BY <3>1, <3>2
    <2>7. CASE h.type = "event"
      <3>1. 1 \in left
        BY <2>2, <2>7
      <3>2. w[1].of = n + 1 /\ n + 1 =< e
        <4>1. w[1].of \in n + 1 .. e
          BY <2>1, <3>1
        <4>2. n + 1 \in n + 1 .. e
          BY <1>1, <2>3, <4>1
        <4>3. PICK i \in left : w[i].of = n + 1
          BY <2>1, <4>2
        <4>4. i = 1
          <5>1. i \in 1 .. Len(w)
            OBVIOUS
          <5>2. 1 < i => w[1].of < w[i].of
            BY <2>1, <3>1
          <5> HIDE DEF left
          <5> QED
            BY <1>1, <2>2, <2>3, <4>1, <4>3, <5>1, <5>2
        <4> QED
          BY <1>1, <2>3, <4>2, <4>3, <4>4
      <3>3. {w[i].of : i \in left \ {1}} = n + 2 .. e
        <4>1. ASSUME NEW i \in left \ {1} PROVE w[i].of \in n + 2 .. e
          <5>1. w[i].of \in n + 1 .. e
            BY <2>1
          <5>2. 1 < i /\ i \in left
            BY <2>2
          <5>3. w[1].of < w[i].of
            BY <2>1, <3>1, <5>2
          <5> QED
            BY <1>1, <2>3, <3>2, <5>1, <5>3
        <4>2. ASSUME NEW x \in n + 2 .. e PROVE \E i \in left \ {1} : w[i].of = x
          <5>1. x \in n + 1 .. e /\ x # n + 1
            BY <1>1, <2>3
          <5>2. PICK i \in left : w[i].of = x
            BY <2>1, <5>1
          <5> QED
            BY <3>2, <5>1, <5>2
        <4> HIDE DEF left
        <4> QED
          BY <4>1, <4>2
      <3>4. notified' = Append(notified, n + 1)
        BY <1>4, <2>2, <2>7, <3>2 DEF notify_event, h
      <3>5. Len(notified') = n + 1 /\ \A i \in 1 .. n + 1 : notified'[i] = i
        BY <1>1, <2>1, <2>3, <3>4 DEF n
      <3>6. {v[i].of : i \in now} = (n + 1) + 1 .. e
        <4>1. (n + 1) + 1 = n + 2
          BY <2>3
        <4> QED
          BY <2>6, <3>3, <4>1
      <3> QED
        BY <1>2, <2>5, <3>2, <3>5, <3>6 DEF EventsOK, EventsInOrder, v, e
    <2>8. CASE h.type # "event"
      <3>1. left \ {1} = left
        BY <2>2, <2>8
      <3>2. notified' = notified
        BY <2>8 DEF h
      <3>3. {v[i].of : i \in now} = n + 1 .. e
        BY <2>1, <2>6, <3>1
      <3> QED
        BY <1>2, <2>1, <2>5, <3>2, <3>3 DEF EventsOK, EventsInOrder, v, e, n
    <2> QED
      BY <2>7, <2>8
  <1> QED
    BY <1>3, <1>4

LEMMA ReadEventStep ==
    ASSUME IInv, NEW p \in Coroutines, qmp_read_line_co(p), Head(wire[Top(p).chan]).type = "event"
    PROVE  IInv'
  <1>1. PICK t : t = Top(p)
    OBVIOUS
  <1>2. /\ co[p].pc = "read" /\ wire[t.chan] # << >> /\ Taken(t.chan)
        /\ Head(wire[t.chan]).type = "event" /\ notify_event(t.chan, Head(wire[t.chan]))
        /\ co' = [co EXCEPT ![p].pc = IF t.chan = "main" THEN "self" ELSE @]
        /\ UNCHANGED <<lock, state, ready, event_co, phase, pending, closed, sent, issued>>
    BY <1>1 DEF qmp_read_line_co
  <1>3. TypeOK /\ CoOK(p, co[p]) /\ EventsOK /\ t.chan \in Channel
    BY <1>1, <1>2, TopHas DEF IInv, CosOK
  <1>4. PICK k : k = IF t.chan = "main" THEN "self" ELSE "read"
    OBVIOUS
  <1>5. co' = [co EXCEPT ![p].pc = k]
    BY <1>2, <1>4
  <1>6. PICK r \in CoState : Moves(p, r) /\ r.pc = k /\ r.frames = co[p].frames
    BY <1>3, <1>4, <1>5, SetPc
  <1>7. CoOK(p, r)
    <2>1. CASE k = "read"
      BY <1>2, <1>3, <1>6, <2>1 DEF CoOK
    <2>2. CASE k = "self"
      <3>1. t.chan = "main"
        BY <1>4, <2>2
      <3>2. r.frames[Len(r.frames)].chan = "main"
        BY <1>1, <1>6, <3>1 DEF Top
      <3> QED
        BY <1>2, <1>3, <1>6, <2>2, <3>2 DEF CoOK, YankCall
    <2> QED
      BY <1>4, <2>1, <2>2
  <1>8. /\ \A c : (Has(r, c) <=> Has(co[p], c)) /\ \A id : Awaits(r, c, id) <=> Awaits(co[p], c, id)
        /\ Notices(p, co[p]) => Notices(p, r)
    BY <1>2, <1>4, <1>6, SameStack DEF Notices
  <1>9. /\ co' \in [Coroutines -> CoState] /\ CosOK'
        /\ \A c \in Channel : LockOK(c)'
        /\ FlightOK' /\ YankNoticed' /\ FreedIsUnused'
    BY <1>2, <1>6, <1>7, <1>8, WithinStep
  <1>10. EventsOK' /\ notified' \in Seq(Nat)
    BY <1>2, <1>3, ReadEvents
  <1>11. TypeOK'
    <2>1. wire' \in [Channel -> Seq(Line)]
      BY <1>2, <1>3, TakenType
    <2> QED
      BY <1>2, <1>3, <1>9, <1>10, <2>1 DEF TypeOK, CoState
  <1>12. ASSUME ~state'.error, NEW c \in Channel PROVE ReplyOK(c)'
    <2>1. ReplyOK(c)
      BY <1>2, <1>12 DEF IInv
    <2>2. (Clear(c) => Clear(c)') /\ \A id \in Nat : Due(c, id) => Due(c, id)'
      BY <1>2, <1>3, EventKeepsDue
    <2> QED
      BY <1>3, <1>6, <1>8, <2>1, <2>2, MoveReply
  <1> QED
    BY <1>9, <1>10, <1>11, <1>12 DEF IInv

\* After its reply p waits for nothing more on that channel.
LEMMA AfterReply ==
    ASSUME IInv, ~state.error, NEW p \in Coroutines, co[p].pc = "read", NEW t, t = Top(p),
           wire[t.chan] # << >>, Taken(t.chan), pending' = pending,
           Head(wire[t.chan]).type = "reply", NEW r \in CoState, Moves(p, r),
           \A id \in Nat : ~Awaits(r, t.chan, id),
           \A d \in Channel, id \in Nat :
              d # t.chan => (Awaits(r, d, id) <=> Awaits(co[p], d, id))
    PROVE  \A d \in Channel : ReplyOK(d)'
  <1>1. TypeOK /\ CoOK(p, co[p]) /\ t.chan \in Channel /\ t.id \in Nat
    BY TopHas DEF IInv, CosOK
  <1>2. QED
    <2>1. /\ Due(t.chan, t.id)
          /\ \A q \in Coroutines, id \in Nat : q # p => ~Awaits(co[q], t.chan, id)
      BY TopReply
    <2>2. Clear(t.chan)'
      BY <1>1, <2>1, ReplyTaken
    <2>3. \A q \in Coroutines, id \in Nat : ~Awaits(co'[q], t.chan, id)
      BY <1>1, <2>1, MoveCos
    <2>4. \A c : c = t.chan => (\A q \in Coroutines, id \in Nat : ~Awaits(co[q], c, id)') /\ Clear(c)'
      BY <2>2, <2>3 DEF Awaits, Clear, NoReply
    <2>5. ASSUME NEW d \in Channel, d = t.chan PROVE ReplyOK(d)'
      BY <2>4, <2>5 DEF ReplyOK
    <2>6. ASSUME NEW d \in Channel, d # t.chan PROVE ReplyOK(d)'
      <3>1. ReplyOK(d)
        BY DEF IInv
      <3>2. wire'[d] = wire[d]
        BY <1>1, <2>6, TakenType
      <3>3. (Clear(d) <=> Clear(d)') /\ \A id : Due(d, id) <=> Due(d, id)'
        BY <3>2, SameDue
      <3>4. \A id \in Nat : Awaits(r, d, id) <=> Awaits(co[p], d, id)
        BY <2>6
      <3> QED
        BY <1>1, <3>1, <3>3, <3>4, MoveReply
    <2> QED
      BY <2>5, <2>6

\* The part of the invariant that does not look at the wire.
CoPart ==
    /\ co \in [Coroutines -> CoState] /\ CosOK
    /\ lock \in [Channel -> [holder : Coroutines \cup {"events", "none"}, count : Nat]]
    /\ \A c \in Channel : LockOK(c)
    /\ state \in [error : BOOLEAN, did_yank : Yanked, inflight : Nat]
    /\ FlightOK /\ YankNoticed /\ FreedIsUnused

\* All calls of p return after a reply.
LEMMA ReplyReturns ==
    ASSUME IInv, NEW p \in Coroutines, NEW err \in BOOLEAN, NEW yanked \in Yanked,
           co[p].pc = "read", Return(p, err, yanked), NEW t, t = Top(p),
           yanked = "command" => state.did_yank = "command" /\ (err \/ state.error \/ ~Notices(p, co[p])),
           UNCHANGED <<ready, event_co, phase, pending>>,
           wire[t.chan] # << >>, Taken(t.chan), Head(wire[t.chan]).type = "reply",
           err \/ Len(co[p].frames) = 1 \/ p \in Channel
    PROVE  CoPart' /\ (~state'.error => \A d \in Channel : ReplyOK(d)')
  <1>1. /\ co' \in [Coroutines -> CoState] /\ CosOK'
        /\ lock' \in [Channel -> [holder : Coroutines \cup {"events", "none"}, count : Nat]]
        /\ \A c \in Channel : LockOK(c)'
        /\ state' \in [error : BOOLEAN, did_yank : Yanked, inflight : Nat]
        /\ FlightOK' /\ YankNoticed' /\ FreedIsUnused'
        /\ state'.error = (state.error \/ err)
    BY ReturnStep
  <1>2. CoPart'
    BY <1>1 DEF CoPart
  <1>3. ASSUME ~state'.error PROVE \A d \in Channel : ReplyOK(d)'
    <2> DEFINE f == co[p].frames
    <2>1. ~state.error /\ ~err
      BY <1>1, <1>3 DEF IInv, TypeOK
    <2>2. TypeOK /\ CoOK(p, co[p]) /\ Len(f) \in {1, 2} /\ t = f[Len(f)] /\ t \in Frame
      BY Stack DEF IInv, CosOK
    <2>3. PICK r : r = [pc |-> IF p \in Users THEN "idle" ELSE "ended", frames |-> << >>]
      OBVIOUS
    <2>4. r \in CoState /\ Moves(p, r) /\ r.frames = << >>
      BY <2>3 DEF CoState, Moves, Return
    <2>5. \A c : \A id : ~Awaits(r, c, id)
      BY <2>4, StackOfNone
    <2>6. ASSUME NEW d \in Channel, d # t.chan, NEW id \in Nat PROVE ~Awaits(co[p], d, id)
      <3>1. CASE Len(f) = 1
        <4>1. Awaits(co[p], d, id) => f[1].chan = d
          BY <3>1, StackOfOne
        <4>2. t = f[1]
          BY <2>2, <3>1
        <4> QED
          BY <2>6, <4>1, <4>2
      <3>2. CASE Len(f) = 2
        <4>1. Awaits(co[p], d, id) => f[1].chan = d \/ f[2].chan = d
          BY <3>2, StackOfTwo
        <4>2. p \in Channel /\ t = f[2]
          BY <2>1, <2>2, <3>2
        <4>3. f[1].chan = p /\ f[2].chan = p
          BY <2>2, <3>2, <4>2, Names DEF CoOK, Handshake
        <4> QED
          BY <2>6, <4>1, <4>2, <4>3
      <3> QED
        BY <2>2, <3>1, <3>2
    <2> QED
      BY <2>1, <2>4, <2>5, <2>6, AfterReply
  <1> QED
    BY <1>2, <1>3

\* The reply to query-yank: qmp_yank_co goes on with the second command.
LEMMA YankGoesOn ==
    ASSUME IInv, NEW p \in Coroutines, co[p].pc = "read", NEW t, t = Top(p), t.cmd = "query-yank",
           co' = [co EXCEPT ![p] =
                    [pc |-> "write", frames |-> Append(Outer(p), [Top(p) EXCEPT !.cmd = "yank"])]],
           UNCHANGED <<lock, state, ready, event_co, phase, pending>>,
           wire[t.chan] # << >>, Taken(t.chan), Head(wire[t.chan]).type = "reply"
    PROVE  CoPart' /\ (~state'.error => \A d \in Channel : ReplyOK(d)')
  <1> DEFINE f == co[p].frames
  <1>1. /\ TypeOK /\ CoOK(p, co[p]) /\ f \in Seq(Frame) /\ Len(f) \in {1, 2} /\ f[1] \in Frame
        /\ t = f[Len(f)] /\ t \in Frame
        /\ Len(f) = 1 => Outer(p) = << >>
        /\ Len(f) = 2 => Outer(p) = <<f[1]>>
    BY Stack DEF IInv, CosOK
  <1>2. PICK g : g = [t EXCEPT !.cmd = "yank"]
    OBVIOUS
  <1>3. /\ g \in Frame /\ g.cmd = "yank" /\ g.chan = t.chan /\ g.yank = t.yank /\ g.id = t.id
        /\ t.chan \in Channel
    BY <1>1, <1>2 DEF Frame, Command
  <1>4. PICK r : r = [pc |-> "write", frames |-> Append(Outer(p), g)]
    OBVIOUS
  <1>5. /\ r.pc = "write" /\ Moves(p, r) /\ r.frames \in Seq(Frame) /\ Len(r.frames) = Len(f)
        /\ Len(f) = 1 => t = f[1] /\ r.frames[1] = g
        /\ Len(f) = 2 => t = f[2] /\ r.frames[1] = f[1] /\ r.frames[2] = g
    <2>1. r.pc = "write" /\ r.frames = Append(Outer(p), g)
      BY <1>4
    <2>2. Moves(p, r)
      BY <1>2, <1>4 DEF Moves
    <2> HIDE DEF f
    <2>3. CASE Len(f) = 1
      <3>1. r.frames = <<g>> /\ t = f[1]
        BY <1>1, <2>1, <2>3
      <3> QED
        BY <1>3, <2>1, <2>2, <2>3, <3>1
    <2>4. CASE Len(f) = 2
      <3>1. r.frames = Append(<<f[1]>>, g) /\ t = f[2]
        BY <1>1, <2>1, <2>4
      <3>2. Append(<<f[1]>>, g) = <<f[1], g>>
        BY <1>1, <1>3, AppendToOne
      <3>3. r.frames = <<f[1], g>>
        BY <3>1, <3>2
      <3> QED
        BY <1>1, <1>3, <2>1, <2>2, <2>4, <3>1, <3>3
    <2> QED
      BY <1>1, <2>3, <2>4
  <1>6. r \in CoState
    BY <1>4, <1>5 DEF CoState
  <1>7. CoOK(p, r)
    <2>1. CASE Len(f) = 1
      <3>1. p \in Users /\ YankCall(t)
        BY <1>1, <1>5, <2>1 DEF CoOK, UserCall, Handshake
      <3>2. YankCall(g)
        BY <1>3, <3>1 DEF YankCall
      <3> QED
        BY <1>5, <2>1, <3>1, <3>2 DEF CoOK
    <2>2. CASE Len(f) = 2
      <3>1. p \in Users /\ UserCall(f[1]) /\ f[1].yank /\ YankCall(t)
        BY <1>1, <1>5, <2>2 DEF CoOK, Handshake
      <3>2. YankCall(g)
        BY <1>3, <3>1 DEF YankCall
      <3> QED
        BY <1>5, <2>2, <3>1, <3>2 DEF CoOK
    <2> QED
      BY <1>1, <2>1, <2>2
  <1>8. Notices(p, co[p]) => Notices(p, r)
    <2>1. CASE Len(f) = 1
      BY <1>5, <2>1 DEF Notices
    <2>2. CASE Len(f) = 2
      <3>1. r.frames # << >>
        BY <1>5, <2>2
      <3> QED
        BY <1>5, <2>2, <3>1 DEF Notices
    <2> QED
      BY <1>1, <2>1, <2>2
  <1>9. ASSUME NEW c \in Channel
        PROVE  /\ Has(r, c) <=> Has(co[p], c)
               /\ \A id : Awaits(r, c, id) => c # t.chan
               /\ c # t.chan => \A id : Awaits(r, c, id) <=> Awaits(co[p], c, id)
    <2>1. CASE Len(f) = 1
      <3>1. (Has(r, c) <=> r.frames[1].chan = c) /\ \A id : ~Awaits(r, c, id)
        BY <1>5, <2>1, StackOfOne
      <3>2. (Has(co[p], c) <=> f[1].chan = c) /\ \A id : Awaits(co[p], c, id) => f[1].chan = c
        BY <2>1, StackOfOne
      <3> QED
        BY <1>3, <1>5, <2>1, <3>1, <3>2
    <2>2. CASE Len(f) = 2
      <3>1. /\ Has(r, c) <=> r.frames[1].chan = c \/ r.frames[2].chan = c
            /\ \A id : Awaits(r, c, id) <=>
                  r.frames[1].chan = c /\ r.frames[1].id = id /\ r.frames[1].cmd # "greeting"
        BY <1>5, <2>2, StackOfTwo
      <3>2. /\ Has(co[p], c) <=> f[1].chan = c \/ f[2].chan = c
            /\ \A id : Awaits(co[p], c, id) <=>
                  \/ f[1].chan = c /\ f[1].id = id /\ f[1].cmd # "greeting"
                  \/ f[2].chan = c /\ f[2].id = id
        <4>1. Has(co[p], c) <=> f[1].chan = c \/ (f[2].chan = c /\ co[p].pc # "lock")
          BY <2>2, StackOfTwo
        <4>2. \A id : Awaits(co[p], c, id) <=>
                  \/ f[1].chan = c /\ f[1].id = id /\ f[1].cmd # "greeting"
                  \/ f[2].chan = c /\ f[2].id = id /\ co[p].pc \in {"read", "self"}
          BY <2>2, StackOfTwo
        <4> HIDE DEF f
        <4> QED
          BY <4>1, <4>2
      <3>3. f[1].chan = "main" /\ t.chan = "yank"
        BY <1>1, <1>5, <2>2 DEF CoOK, UserCall, YankCall, Handshake
      <3> HIDE DEF f
      <3> QED
        BY <1>3, <1>5, <2>2, <3>1, <3>2, <3>3
    <2> QED
      BY <1>1, <2>1, <2>2
  <1>10. /\ co' \in [Coroutines -> CoState] /\ CosOK'
         /\ \A c \in Channel : LockOK(c)'
         /\ FlightOK' /\ YankNoticed' /\ FreedIsUnused'
    BY <1>5, <1>6, <1>7, <1>8, <1>9, WithinStep
  <1>11. CoPart'
    BY <1>1, <1>10 DEF CoPart, TypeOK
  <1>12. ASSUME ~state'.error PROVE \A d \in Channel : ReplyOK(d)'
    <2>1. ~state.error
      BY <1>12
    <2>2. \A id \in Nat : ~Awaits(r, t.chan, id)
      BY <1>3, <1>9
    <2>3. \A d \in Channel, id \in Nat :
             d # t.chan => (Awaits(r, d, id) <=> Awaits(co[p], d, id))
      BY <1>9
    <2> QED
      BY <1>5, <1>6, <2>1, <2>2, <2>3, AfterReply
  <1> QED
    BY <1>11, <1>12

\* The channel is yanked: the command that timed out reads on.
LEMMA YankReturns ==
    ASSUME IInv, NEW p \in Coroutines, co[p].pc = "read", NEW t, t = Top(p), t.cmd = "yank",
           Outer(p) # << >>,
           co' = [co EXCEPT ![p] = [pc |-> "read", frames |-> <<[Outer(p)[1] EXCEPT !.yank = FALSE]>>]],
           lock' = [lock EXCEPT !["yank"] = NoHolder],
           state' = [state EXCEPT !.inflight = @ - 1, !.did_yank = "command"],
           UNCHANGED <<ready, event_co, phase, pending>>,
           wire[t.chan] # << >>, Taken(t.chan), Head(wire[t.chan]).type = "reply"
    PROVE  CoPart' /\ (~state'.error => \A d \in Channel : ReplyOK(d)')
  <1> DEFINE f == co[p].frames
  <1>1. /\ TypeOK /\ CosOK /\ CoOK(p, co[p]) /\ FlightOK /\ YankNoticed
        /\ f \in Seq(Frame) /\ Len(f) = 2 /\ f[1] \in Frame
        /\ t = f[2] /\ t \in Frame /\ Outer(p) = <<f[1]>>
    <2>1. /\ TypeOK /\ CosOK /\ CoOK(p, co[p]) /\ FlightOK /\ YankNoticed
      BY DEF IInv, CosOK
    <2>2. /\ f \in Seq(Frame) /\ Len(f) \in {1, 2} /\ f[1] \in Frame
          /\ t = f[Len(f)] /\ t \in Frame
          /\ Len(f) = 1 => Outer(p) = << >>
          /\ Len(f) = 2 => Outer(p) = <<f[1]>>
      BY <2>1, Stack
    <2> HIDE DEF f
    <2> QED
      BY <2>1, <2>2
  <1>2. p \in Users /\ UserCall(f[1]) /\ YankCall(t)
    BY <1>1 DEF CoOK, Handshake
  <1>3. PICK g : g = [f[1] EXCEPT !.yank = FALSE]
    OBVIOUS
  <1>4. /\ g \in Frame /\ g.cmd = "command" /\ g.chan = "main" /\ ~g.yank /\ g.id = f[1].id
        /\ f[1].cmd = "command" /\ f[1].chan = "main" /\ t.chan = "yank"
    BY <1>1, <1>2, <1>3 DEF Frame, UserCall, YankCall
  <1>5. PICK r : r = [pc |-> "read", frames |-> <<g>>]
    OBVIOUS
  <1>6. /\ r \in CoState /\ r.pc = "read" /\ Len(r.frames) = 1 /\ r.frames[1] = g /\ r.frames # << >>
    <2>1. <<g>> \in Seq(Frame) /\ Len(<<g>>) = 1 /\ <<g>>[1] = g /\ <<g>> # << >>
      BY <1>4
    <2>2. r.pc = "read" /\ r.frames = <<g>>
      BY <1>5
    <2> QED
      BY <1>5, <2>1, <2>2 DEF CoState
  <1>7. Moves(p, r)
    <2>1. Outer(p)[1] = f[1]
      BY <1>1
    <2> QED
      BY <1>3, <1>5, <2>1 DEF Moves
  <1>8. CoOK(p, r)
    BY <1>2, <1>4, <1>6 DEF CoOK, UserCall
  <1>9. CosOK'
    <2>1. p \notin ready
      BY <1>1 DEF CosOK, Waiters
    <2> QED
      BY <1>1, <1>6, <1>7, <1>8, <2>1, MoveOK
  <1>10. ASSUME NEW c \in Channel
         PROVE  /\ Has(co[p], c) /\ (Has(r, c) <=> c = "main")
                /\ \A id : Awaits(r, c, id) <=> c = "main" /\ id = g.id
                /\ \A id : Awaits(co[p], "main", id) <=> id = g.id
    <2>1. /\ Has(co[p], c) <=> f[1].chan = c \/ f[2].chan = c
          /\ \A id : Awaits(co[p], "main", id) <=>
                \/ f[1].chan = "main" /\ f[1].id = id /\ f[1].cmd # "greeting"
                \/ f[2].chan = "main" /\ f[2].id = id
      <3>1. Has(co[p], c) <=> f[1].chan = c \/ (f[2].chan = c /\ co[p].pc # "lock")
        BY <1>1, StackOfTwo
      <3>2. \A id : Awaits(co[p], "main", id) <=>
                \/ f[1].chan = "main" /\ f[1].id = id /\ f[1].cmd # "greeting"
                \/ f[2].chan = "main" /\ f[2].id = id /\ co[p].pc \in {"read", "self"}
        BY <1>1, StackOfTwo
      <3> HIDE DEF f
      <3> QED
        BY <3>1, <3>2
    <2>2. /\ Has(r, c) <=> r.frames[1].chan = c
          /\ \A id : Awaits(r, c, id) <=> r.frames[1].chan = c /\ r.frames[1].id = id
      <3>1. Has(r, c) <=> r.frames[1].chan = c /\ r.pc # "lock"
        BY <1>6, StackOfOne
      <3>2. \A id : Awaits(r, c, id) <=>
                r.frames[1].chan = c /\ r.frames[1].id = id /\ r.pc \in {"read", "self"}
        BY <1>6, StackOfOne
      <3> QED
        BY <1>6, <3>1, <3>2
    <2> HIDE DEF f
    <2> QED
      BY <1>1, <1>4, <1>6, <2>1, <2>2 DEF Channel
  <1>11. lock \in [Channel -> [holder : Coroutines \cup {"events", "none"}, count : Nat]]
    BY <1>1 DEF TypeOK
  <1>12. lock' \in [Channel -> [holder : Coroutines \cup {"events", "none"}, count : Nat]]
    BY <1>11 DEF NoHolder
  <1>13. ASSUME NEW c \in Channel PROVE LockOK(c)'
    <2>1. LockOK(c)
      BY DEF IInv
    <2>2. CASE c = "yank"
      <3>1. lock[c].holder = p
        BY <1>10, <2>1 DEF LockOK
      <3>2. lock'[c] = NoHolder
        BY <1>11, <2>2
      <3>3. ~Has(r, c)
        BY <1>10, <2>2
      <3> QED
        BY <1>1, <1>6, <1>7, <2>1, <3>1, <3>2, <3>3, MoveLock
    <2>3. CASE c # "yank"
      <3>1. lock'[c] = lock[c] /\ c = "main"
        BY <1>11, <2>3 DEF Channel
      <3>2. Has(r, c) <=> Has(co[p], c)
        BY <1>10, <3>1
      <3> QED
        BY <1>1, <1>6, <1>7, <2>1, <3>1, <3>2, MoveLock
    <2> QED
      BY <2>2, <2>3
  <1>14. /\ state'.error = state.error /\ state'.error \in BOOLEAN /\ state'.did_yank = "command"
         /\ state'.did_yank \in Yanked
         /\ state'.inflight = state.inflight + 1 - 2
    <2>1. state \in [error : BOOLEAN, did_yank : Yanked, inflight : Nat]
      BY <1>1 DEF TypeOK
    <2>2. state' = [state EXCEPT !.inflight = state.inflight - 1, !.did_yank = "command"]
      OBVIOUS
    <2>3. state'.error = state.error /\ state'.did_yank = "command" /\ state'.inflight = state.inflight - 1
      BY <2>1, <2>2
    <2> QED
      BY <2>1, <2>3 DEF Yanked
  <1>15. FlightOK' /\ state'.inflight \in Nat
    <2>1. 1 \in {0, 1, 2} /\ 2 \in {0, 1, 2}
      OBVIOUS
    <2> QED
      BY <1>1, <1>6, <1>7, <1>14, <2>1, MoveFlight
  <1>16. state' \in [error : BOOLEAN, did_yank : Yanked, inflight : Nat]
    <2>1. state \in [error : BOOLEAN, did_yank : Yanked, inflight : Nat]
      BY <1>1 DEF TypeOK
    <2>2. PICK n : n = state.inflight - 1
      OBVIOUS
    <2>3. state' = [state EXCEPT !.inflight = n, !.did_yank = "command"]
      BY <2>2
    <2>4. n \in Nat
      BY <1>15, <2>1, <2>3
    <2> QED
      BY <2>1, <2>3, <2>4 DEF Yanked
  <1>17. YankNoticed'
    <2>1. Notices(p, r)
      BY <1>2, <1>4, <1>6 DEF Notices
    <2> QED
      BY <1>1, <1>6, <1>7, <1>14, <2>1, MoveYank
  <1>18. FreedIsUnused'
    BY MoveFreed
  <1>19. co' \in [Coroutines -> CoState]
    BY <1>1, <1>6, <1>7, MoveCos
  <1>20. CoPart'
    BY <1>9, <1>12, <1>13, <1>15, <1>16, <1>17, <1>18, <1>19 DEF CoPart
  <1>21. ASSUME ~state'.error PROVE \A d \in Channel : ReplyOK(d)'
    <2>1. ~state.error
      BY <1>14, <1>21
    <2>2. \A id \in Nat : ~Awaits(r, t.chan, id)
      BY <1>4, <1>10 DEF Channel
    <2>3. ASSUME NEW d \in Channel, NEW id \in Nat, d # t.chan
          PROVE  Awaits(r, d, id) <=> Awaits(co[p], d, id)
      <3>1. d = "main"
        BY <1>4, <2>3 DEF Channel
      <3> QED
        BY <1>10, <3>1
    <2> QED
      BY <1>6, <1>7, <2>1, <2>2, <2>3, AfterReply
  <1> QED
    BY <1>20, <1>21

\* The greeting has come: the handshake goes on with qmp_capabilities under the
\* lock it has had from the start.
LEMMA GreetingReplied ==
    ASSUME IInv, NEW p \in Coroutines, co[p].pc = "read", NEW t, t = Top(p), t.cmd = "greeting",
           __qmp_execute_co(p, co[p].frames, FrameOf(p, "qmp_capabilities", FALSE, 0)),
           UNCHANGED <<ready, event_co, phase, pending>>,
           wire[t.chan] # << >>, Taken(t.chan), Head(wire[t.chan]).type = "reply"
    PROVE  CoPart' /\ (~state'.error => \A d \in Channel : ReplyOK(d)')
  <1> DEFINE o == co[p].frames
  <1>1. /\ TypeOK /\ CoOK(p, co[p]) /\ o \in Seq(Frame) /\ Len(o) \in {1, 2} /\ o[1] \in Frame
        /\ t = o[Len(o)] /\ t \in Frame
    BY Stack DEF IInv, CosOK
  <1>2. p \in Channel /\ Len(o) = 1 /\ t = o[1] /\ Handshake(p, o[1], "greeting")
    <2>1. Len(o) = 1
      <3>1. CASE Len(o) = 2
        <4>1. o[2].cmd # "greeting" /\ t = o[2]
          BY <1>1, <3>1 DEF CoOK, YankCall, Handshake
        <4> QED
          BY <4>1
      <3> QED
        BY <1>1, <3>1
    <2>2. t = o[1]
      BY <1>1, <2>1
    <2> QED
      BY <1>1, <2>1, <2>2 DEF CoOK, UserCall, YankCall
  <1>3. PICK f : f = FrameOf(p, "qmp_capabilities", FALSE, 0)
    OBVIOUS
  <1>4. f \in Frame /\ Handshake(p, f, "qmp_capabilities") /\ f.chan = p
    BY <1>2, <1>3 DEF FrameOf, Frame, Command, Handshake
  <1>5. lock[p].holder = p /\ LockOK(p)
    <2>1. LockOK(p)
      BY <1>2 DEF IInv
    <2>2. Has(co[p], t.chan)
      BY <1>1, TopHas
    <2>3. t.chan = p
      BY <1>2 DEF Handshake
    <2> QED
      BY <2>1, <2>2, <2>3 DEF LockOK
  <1>6. PICK k : k = IF lock[f.chan].holder \in {"none", p} THEN "write" ELSE "lock"
    OBVIOUS
  <1>7. k = "write"
    BY <1>4, <1>5, <1>6
  <1>8. PICK r : r = [pc |-> k, frames |-> Append(o, f)]
    OBVIOUS
  <1>9. /\ r.pc = "write" /\ Len(r.frames) = 2
        /\ r.frames[1] = o[1] /\ r.frames[2] = f
    <2>1. o \in Seq(Frame) /\ Len(o) = 1 /\ f \in Frame
      BY <1>1, <1>2, <1>4
    <2>2. Len(Append(o, f)) = 2 /\ Append(o, f)[1] = o[1] /\ Append(o, f)[2] = f
      BY <2>1, AppendSecond
    <2> QED
      BY <1>7, <1>8, <2>2
  <1>10. CoOK(p, r)
    BY <1>2, <1>4, <1>9 DEF CoOK
  <1>11. ~Notices(p, co[p])
    BY <1>2, Names DEF Notices
  <1>12. /\ co' \in [Coroutines -> CoState] /\ CosOK'
         /\ lock' \in [Channel -> [holder : Coroutines \cup {"events", "none"}, count : Nat]]
         /\ \A c \in Channel : LockOK(c)'
         /\ state' \in [error : BOOLEAN, did_yank : Yanked, inflight : Nat]
         /\ FlightOK' /\ YankNoticed' /\ FreedIsUnused'
         /\ state'.error = state.error
         /\ r \in CoState /\ Moves(p, r)
    <2>1. /\ Len(co[p].frames) \in {0, 1} /\ r = [pc |-> k, frames |-> Append(co[p].frames, f)]
          /\ __qmp_execute_co(p, co[p].frames, f)
      BY <1>2, <1>3, <1>8
    <2> QED
      BY <1>4, <1>6, <1>10, <1>11, <2>1, ExecuteStep
  <1>13. CoPart'
    BY <1>12 DEF CoPart
  <1>14. ASSUME ~state'.error PROVE \A d \in Channel : ReplyOK(d)'
    <2>1. ~state.error
      BY <1>12, <1>14
    <2>2. ASSUME NEW c PROVE \A id : ~Awaits(r, c, id)
      <3>1. \A id : Awaits(r, c, id) =>
                  \/ r.frames[1].chan = c /\ r.frames[1].id = id /\ r.frames[1].cmd # "greeting"
                  \/ r.frames[2].chan = c /\ r.frames[2].id = id /\ r.pc \in {"read", "self"}
        BY <1>9, StackOfTwo
      <3>2. r.frames[1].cmd = "greeting"
        BY <1>2, <1>9 DEF Handshake
      <3> QED
        BY <1>9, <3>1, <3>2
    <2>3. ASSUME NEW d, NEW id, d # t.chan PROVE ~Awaits(co[p], d, id)
      <3>1. Awaits(co[p], d, id) => o[1].chan = d
        BY <1>2, StackOfOne
      <3> QED
        BY <1>2, <2>3, <3>1
    <2> QED
      BY <1>12, <2>1, <2>2, <2>3, AfterReply
  <1> QED
    BY <1>13, <1>14

\* Where the innermost call returns to.
LEMMA ReplyCases ==
    ASSUME NEW p, NEW ok \in BOOLEAN, Replied(p, ok), NEW t, t = Top(p)
    PROVE  /\ t.cmd = "command" => Return(p, FALSE, IF state.error THEN state.did_yank ELSE "no")
           /\ t.cmd \in {"query-yank", "yank"} /\ ~ok =>
                 Return(p, Outer(p) # << >>, state.did_yank)
           /\ t.cmd = "query-yank" /\ ok =>
                 /\ co' = [co EXCEPT ![p] =
                      [pc |-> "write", frames |-> Append(Outer(p), [Top(p) EXCEPT !.cmd = "yank"])]]
                 /\ UNCHANGED <<lock, state>>
           /\ t.cmd = "yank" /\ ok /\ Outer(p) # << >> =>
                 /\ co' = [co EXCEPT ![p] =
                      [pc |-> "read", frames |-> <<[Outer(p)[1] EXCEPT !.yank = FALSE]>>]]
                 /\ lock' = [lock EXCEPT !["yank"] = NoHolder]
                 /\ state' = [state EXCEPT !.inflight = @ - 1, !.did_yank = "command"]
           /\ t.cmd = "yank" /\ ok /\ Outer(p) = << >> =>
                 \E left \in {"no", "failover"} : Return(p, FALSE, left)
           /\ t.cmd = "greeting" =>
                 __qmp_execute_co(p, co[p].frames, FrameOf(p, "qmp_capabilities", FALSE, 0))
           /\ t.cmd = "qmp_capabilities" => Return(p, ~ok, state.did_yank)
  <1>1. CASE t.cmd = "command"
    BY <1>1 DEF Replied
  <1>2. CASE t.cmd = "query-yank"
    BY <1>2 DEF Replied
  <1>3. CASE t.cmd = "yank"
    BY <1>3 DEF Replied
  <1>4. CASE t.cmd = "greeting"
    BY <1>4 DEF Replied
  <1>5. CASE t.cmd = "qmp_capabilities"
    BY <1>5 DEF Replied
  <1>6. CASE t.cmd \notin {"command", "query-yank", "yank", "greeting", "qmp_capabilities"}
    BY <1>6
  <1> QED
    BY <1>1, <1>2, <1>3, <1>4, <1>5, <1>6

LEMMA ReadReplyStep ==
    ASSUME IInv, NEW p \in Coroutines, qmp_read_line_co(p), Head(wire[Top(p).chan]).type # "event"
    PROVE  IInv'
  <1> DEFINE f == co[p].frames
  <1>1. PICK t : t = Top(p)
    OBVIOUS
  <1>2. /\ co[p].pc = "read" /\ wire[t.chan] # << >> /\ Taken(t.chan)
        /\ Head(wire[t.chan]).type # "event" /\ notified' = notified
        /\ UNCHANGED <<ready, event_co, phase, pending, closed, sent, issued>>
    BY <1>1 DEF qmp_read_line_co
  <1>3. PICK ok \in BOOLEAN : Replied(p, ok)
    BY <1>1, <1>2 DEF qmp_read_line_co
  <1>4. /\ TypeOK /\ CoOK(p, co[p]) /\ EventsOK /\ t.chan \in Channel /\ t \in Frame
        /\ state.error \in BOOLEAN /\ state.did_yank \in Yanked
    BY <1>1, <1>2, TopHas DEF IInv, CosOK, TypeOK
  <1>5. Head(wire[t.chan]).type = "reply"
    BY <1>2, <1>4, WireType DEF Line
  <1>6. /\ Len(f) \in {1, 2} /\ t = f[Len(f)]
        /\ Len(f) = 1 => Outer(p) = << >> /\ t = f[1]
        /\ Len(f) = 2 => Outer(p) = <<f[1]>> /\ t = f[2]
    BY <1>1, <1>2, <1>4, Stack
  <1>7. Len(f) = 1 \/ p \in Channel \/ (p \in Users /\ YankCall(t))
    BY <1>4, <1>6 DEF CoOK
  <1>8. CoPart' /\ (~state'.error => \A d \in Channel : ReplyOK(d)')
    <2>1. CASE t.cmd = "command"
      <3>1. Return(p, FALSE, IF state.error THEN state.did_yank ELSE "no")
        BY <1>1, <1>3, <2>1, ReplyCases
      <3>2. Len(f) = 1 \/ p \in Channel
        BY <1>7, <2>1 DEF YankCall
      <3>3. PICK y \in Yanked : y = IF state.error THEN state.did_yank ELSE "no"
        BY <1>4 DEF Yanked
      <3> QED
        BY <1>1, <1>2, <1>5, <3>1, <3>2, <3>3, ReplyReturns
    <2>2. CASE t.cmd \in {"query-yank", "yank"} /\ ~ok
      <3>1. Return(p, Outer(p) # << >>, state.did_yank)
        BY <1>1, <1>3, <2>2, ReplyCases
      <3>2. PICK err \in BOOLEAN : err = (Outer(p) # << >>)
        OBVIOUS
      <3>3. CASE Len(f) = 1
        <4>1. ~Notices(p, co[p])
          BY <1>6, <2>2, <3>3 DEF Notices
        <4> QED
          BY <1>1, <1>2, <1>4, <1>5, <3>1, <3>2, <3>3, <4>1, ReplyReturns
      <3>4. CASE Len(f) = 2
        <4>1. err
          <5>1. Outer(p) = <<f[1]>> /\ <<f[1]>> # << >>
            BY <1>6, <3>4
          <5> QED
            BY <3>2, <5>1
        <4> QED
          BY <1>1, <1>2, <1>4, <1>5, <3>1, <3>2, <4>1, ReplyReturns
      <3> QED
        BY <1>6, <3>3, <3>4
    <2>3. CASE t.cmd = "query-yank" /\ ok
      <3>1. /\ co' = [co EXCEPT ![p] =
                  [pc |-> "write", frames |-> Append(Outer(p), [Top(p) EXCEPT !.cmd = "yank"])]]
            /\ UNCHANGED <<lock, state>>
        BY <1>1, <1>3, <2>3, ReplyCases
      <3> QED
        BY <1>1, <1>2, <1>5, <2>3, <3>1, YankGoesOn
    <2>4. CASE t.cmd = "yank" /\ ok /\ Outer(p) # << >>
      <3>1. /\ co' = [co EXCEPT ![p] =
                  [pc |-> "read", frames |-> <<[Outer(p)[1] EXCEPT !.yank = FALSE]>>]]
            /\ lock' = [lock EXCEPT !["yank"] = NoHolder]
            /\ state' = [state EXCEPT !.inflight = @ - 1, !.did_yank = "command"]
        BY <1>1, <1>3, <2>4, ReplyCases
      <3> QED
        BY <1>1, <1>2, <1>5, <2>4, <3>1, YankReturns
    <2>5. CASE t.cmd = "yank" /\ ok /\ Outer(p) = << >>
      <3>1. PICK left \in {"no", "failover"} : Return(p, FALSE, left)
        BY <1>1, <1>3, <2>5, ReplyCases
      <3>2. Len(f) = 1 /\ left \in Yanked
        BY <1>6, <2>5 DEF Yanked
      <3> QED
        BY <1>1, <1>2, <1>5, <3>1, <3>2, ReplyReturns
    <2>6. CASE t.cmd = "greeting"
      <3>1. __qmp_execute_co(p, co[p].frames, FrameOf(p, "qmp_capabilities", FALSE, 0))
        BY <1>1, <1>3, <2>6, ReplyCases
      <3> QED
        BY <1>1, <1>2, <1>5, <2>6, <3>1, GreetingReplied
    <2>7. CASE t.cmd = "qmp_capabilities"
      <3>1. Return(p, ~ok, state.did_yank)
        BY <1>1, <1>3, <2>7, ReplyCases
      <3>2. p \in Channel /\ ~Notices(p, co[p])
        <4>1. p \in Channel
          BY <1>4, <1>6, <2>7 DEF CoOK, UserCall, YankCall
        <4> QED
          BY <4>1, Names DEF Notices
      <3>3. PICK err \in BOOLEAN : err = ~ok
        OBVIOUS
      <3> QED
        BY <1>1, <1>2, <1>4, <1>5, <3>1, <3>2, <3>3, ReplyReturns
    <2> QED
      BY <1>4, <2>1, <2>2, <2>3, <2>4, <2>5, <2>6, <2>7 DEF Frame, Command
  <1>9. EventsOK' /\ notified' \in Seq(Nat)
    BY <1>2, <1>4, ReadEvents
  <1>10. TypeOK'
    <2>1. wire' \in [Channel -> Seq(Line)]
      BY <1>2, <1>4, TakenType
    <2> QED
      BY <1>2, <1>4, <1>8, <1>9, <2>1 DEF TypeOK, CoPart, CoState
  <1> QED
    BY <1>8, <1>9, <1>10 DEF IInv, CoPart

-----------------------------------------------------------------------------
(* The event coroutines, qmp_free and qemu. *)

\* The event coroutine of c gets the lock, or lets it go and ends or goes on.
LEMMA EventCoStep ==
    ASSUME IInv, NEW c \in Channel, NEW k \in {"watch", "read", "ended"}, NEW l,
           event_co' = [event_co EXCEPT ![c] = k], lock' = [lock EXCEPT ![c] = l],
           \/ event_co[c] = "watch" /\ lock[c].holder = "none" /\ k = "read"
                 /\ l = [holder |-> "events", count |-> 1]
           \/ event_co[c] = "read" /\ k # "read" /\ l = NoHolder,
           co' = co, phase' = phase, ready' \subseteq ready \cup Waiters,
           state' \in [error : BOOLEAN, did_yank : Yanked, inflight : Int],
           state'.did_yank = state.did_yank, state.error => state'.error,
           state'.inflight = IF k = "ended" THEN state.inflight - 1 ELSE state.inflight
    PROVE  /\ ready' \subseteq Coroutines /\ CoPart'
           /\ event_co' \in [Channel -> {"watch", "read", "ended"}]
  <1>1. /\ TypeOK /\ FlightOK /\ YankNoticed
        /\ event_co \in [Channel -> {"watch", "read", "ended"}]
        /\ lock \in [Channel -> [holder : Coroutines \cup {"events", "none"}, count : Nat]]
        /\ state.inflight \in Nat
    BY DEF IInv, TypeOK
  <1>2. event_co' \in [Channel -> {"watch", "read", "ended"}]
    BY <1>1
  <1>3. lock' \in [Channel -> [holder : Coroutines \cup {"events", "none"}, count : Nat]]
    BY <1>1 DEF NoHolder
  <1>4. ready' \subseteq Coroutines /\ CosOK'
    <2>1. Waiters' = Waiters /\ ready' \subseteq Waiters /\ Waiters \subseteq Coroutines
      BY DEF IInv, CosOK, Waiters
    <2>2. \A p \in Coroutines : CoOK(p, co[p])'
      BY DEF IInv, CosOK, CoOK
    <2> QED
      BY <2>1, <2>2 DEF CosOK
  <1>5. ASSUME NEW d \in Channel PROVE LockOK(d)'
    <2>1. LockOK(d)
      BY DEF IInv
    <2>2. \A p \in Coroutines : Has(co[p], d)' <=> Has(co[p], d)
      BY DEF Has
    <2>3. CASE d # c
      <3>1. lock'[d] = lock[d] /\ event_co'[d] = event_co[d]
        BY <1>1, <2>3
      <3> QED
        BY <2>1, <2>2, <3>1 DEF LockOK
    <2>4. CASE d = c
      <3>1. lock'[d] = l /\ event_co'[d] = k
        BY <1>1, <2>4
      <3>2. lock[d].holder \in {"none", "events"} /\ \A p \in Coroutines : ~Has(co[p], d)
        BY <2>1, <2>4, Names DEF LockOK
      <3>3. /\ l.holder \in {"none", "events"} /\ (l.holder = "events" <=> k = "read")
            /\ (l.holder = "none" <=> l.count = 0)
        BY DEF NoHolder
      <3> QED
        BY <2>2, <3>1, <3>2, <3>3, Names DEF LockOK
    <2> QED
      BY <2>3, <2>4
  <1>6. FlightOK' /\ state'.inflight \in Nat
    <2>1. Calls' = Calls
      BY DEF Calls, CallsIn
    <2>2. c \in Readers /\ IsFiniteSet(Readers) /\ Cardinality(Readers) \in Nat
      BY ReadersFinite DEF Readers
    <2>3. Cardinality(Calls) \in Nat
      BY <1>1, FS_CardinalityType DEF FlightOK
    <2>4. CASE k = "ended"
      <3>1. Readers' = Readers \ {c}
        BY <1>1, <2>4 DEF Readers
      <3>2. Cardinality(Readers \ {c}) = Cardinality(Readers) - 1 /\ IsFiniteSet(Readers \ {c})
        BY <2>2, FS_RemoveElement
      <3>3. Cardinality(Readers \ {c}) \in Nat
        BY <3>2, FS_CardinalityType
      <3> QED
        BY <1>1, <2>1, <2>2, <2>3, <2>4, <3>1, <3>2, <3>3 DEF FlightOK
    <2>5. CASE k # "ended"
      <3>1. Readers' = Readers
        BY <1>1, <2>5 DEF Readers
      <3> QED
        BY <1>1, <2>1, <2>5, <3>1 DEF FlightOK
    <2> QED
      BY <2>4, <2>5
  <1>7. YankNoticed'
    BY <1>1 DEF YankNoticed
  <1>8. FreedIsUnused'
    <2>1. event_co[c] # "ended"
      OBVIOUS
    <2> QED
      BY <2>1 DEF IInv, FreedIsUnused
  <1>9. state' \in [error : BOOLEAN, did_yank : Yanked, inflight : Nat]
    BY <1>6
  <1>10. co' \in [Coroutines -> CoState]
    BY <1>1 DEF TypeOK, CoState
  <1> QED
    BY <1>2, <1>3, <1>4, <1>5, <1>6, <1>7, <1>8, <1>9, <1>10 DEF CoPart

\* The replies that are due stay so.
LEMMA SameReplies ==
    ASSUME IInv, ~state.error, co' = co, NEW c \in Channel,
           Clear(c) => Clear(c)', \A id \in Nat : Due(c, id) => Due(c, id)'
    PROVE  ReplyOK(c)'
  <1>1. ReplyOK(c)
    BY DEF IInv
  <1>2. \A p \in Coroutines, id \in Nat : Awaits(co[p], c, id)' <=> Awaits(co[p], c, id)
    BY DEF Awaits
  <1> QED
    BY <1>1, <1>2 DEF ReplyOK

LEMMA EventWakesStep ==
    ASSUME IInv, NEW c \in Channel, EventWakes(c)
    PROVE  IInv'
  <1>1. /\ event_co[c] = "watch" /\ ready' = ready \cup Waiters
        /\ UNCHANGED <<co, state, phase, wire, pending, closed, sent, issued, notified>>
    BY DEF EventWakes, IdleDispatch, qemuVars
  <1>2. TypeOK /\ EventsOK
    BY DEF IInv
  <1>3. EventsOK'
    BY <1>1, <1>2, SameEvents
  <1>4. ASSUME ~state'.error, NEW d \in Channel PROVE ReplyOK(d)'
    <2>1. (Clear(d) <=> Clear(d)') /\ \A id : Due(d, id) <=> Due(d, id)'
      BY <1>1, SameDue
    <2> QED
      BY <1>1, <1>4, <2>1, SameReplies
  <1>5. CASE UNCHANGED <<lock, event_co>>
    <2>1. /\ ready' \subseteq Coroutines /\ CosOK' /\ \A d \in Channel : LockOK(d)'
          /\ FlightOK' /\ YankNoticed' /\ FreedIsUnused'
      BY <1>1, <1>5, QuietStep
    <2>2. TypeOK'
      BY <1>1, <1>2, <1>5, <2>1 DEF TypeOK
    <2> QED
      BY <1>3, <1>4, <2>1, <2>2 DEF IInv
  <1>6. CASE /\ lock[c].holder = "none"
             /\ lock' = [lock EXCEPT ![c] = [holder |-> "events", count |-> 1]]
             /\ event_co' = [event_co EXCEPT ![c] = "read"]
    <2>1. state' \in [error : BOOLEAN, did_yank : Yanked, inflight : Int]
      BY <1>1, <1>2 DEF TypeOK
    <2>2. /\ ready' \subseteq Coroutines /\ CoPart'
          /\ event_co' \in [Channel -> {"watch", "read", "ended"}]
      BY <1>1, <1>6, <2>1, EventCoStep
    <2>3. TypeOK'
      BY <1>1, <1>2, <2>2 DEF TypeOK, CoPart, CoState
    <2> QED
      BY <1>3, <1>4, <2>2, <2>3 DEF IInv, CoPart
  <1> QED
    BY <1>5, <1>6 DEF EventWakes

LEMMA EventReadStep ==
    ASSUME IInv, NEW c \in Channel, qmp_event_co(c)
    PROVE  IInv'
  <1>1. /\ event_co[c] = "read" /\ wire[c] # << >> /\ Taken(c)
        /\ event_co' = [event_co EXCEPT ![c] = "watch"] /\ lock' = [lock EXCEPT ![c] = NoHolder]
        /\ UNCHANGED <<co, ready, phase, pending, closed, issued, sent>>
        /\ IF Head(wire[c]).type = "event"
           THEN notify_event(c, Head(wire[c])) ELSE UNCHANGED notified
        /\ IF Head(wire[c]).type = "event"
           THEN UNCHANGED state ELSE state' = [state EXCEPT !.error = TRUE]
    BY DEF qmp_event_co
  <1>2. /\ TypeOK /\ EventsOK
        /\ state \in [error : BOOLEAN, did_yank : Yanked, inflight : Nat]
    BY DEF IInv, TypeOK
  <1>3. /\ state' \in [error : BOOLEAN, did_yank : Yanked, inflight : Int]
        /\ state'.did_yank = state.did_yank /\ state'.inflight = state.inflight
        /\ state.error => state'.error
        /\ Head(wire[c]).type # "event" => state'.error
        /\ Head(wire[c]).type = "event" => state' = state
    <2>1. CASE Head(wire[c]).type = "event"
      BY <1>1, <1>2, <2>1
    <2>2. CASE Head(wire[c]).type # "event"
      <3>1. state' = [state EXCEPT !.error = TRUE]
        BY <1>1, <2>2
      <3>2. state'.error = TRUE /\ state'.did_yank = state.did_yank /\ state'.inflight = state.inflight
        BY <1>2, <3>1
      <3>3. state' \in [error : BOOLEAN, did_yank : Yanked, inflight : Int]
        <4>1. PICK n \in Nat : n = state.inflight
          BY <1>2
        <4>2. PICK y \in Yanked : y = state.did_yank
          BY <1>2
        <4>3. state' = [error |-> TRUE, did_yank |-> y, inflight |-> n]
          BY <1>2, <3>1, <4>1, <4>2
        <4> QED
          BY <4>3
      <3> QED
        BY <2>2, <3>2, <3>3
    <2> QED
      BY <2>1, <2>2
  <1>4. /\ ready' \subseteq Coroutines /\ CoPart'
        /\ event_co' \in [Channel -> {"watch", "read", "ended"}]
    BY <1>1, <1>3, EventCoStep
  <1>5. EventsOK' /\ notified' \in Seq(Nat)
    BY <1>1, <1>2, ReadEvents
  <1>6. TypeOK'
    <2>1. wire' \in [Channel -> Seq(Line)]
      BY <1>1, <1>2, TakenType
    <2> QED
      BY <1>1, <1>2, <1>4, <1>5, <2>1 DEF TypeOK, CoPart, CoState
  <1>7. ASSUME ~state'.error, NEW d \in Channel PROVE ReplyOK(d)'
    <2>1. ~state.error /\ Head(wire[c]).type = "event"
      BY <1>3, <1>7
    <2>2. (Clear(d) => Clear(d)') /\ \A id \in Nat : Due(d, id) => Due(d, id)'
      BY <1>1, <1>2, <2>1, EventKeepsDue
    <2> QED
      BY <1>1, <2>1, <2>2, SameReplies
  <1> QED
    BY <1>4, <1>5, <1>6, <1>7 DEF IInv, CoPart

LEMMA EventFailsStep ==
    ASSUME IInv, NEW c \in Channel, EventFails(c)
    PROVE  IInv'
  <1>1. /\ event_co[c] = "read"
        /\ event_co' = [event_co EXCEPT ![c] = "ended"] /\ lock' = [lock EXCEPT ![c] = NoHolder]
        /\ state' = [state EXCEPT !.error = TRUE, !.inflight = state.inflight - 1]
        /\ UNCHANGED <<co, ready, phase, wire, pending, closed, sent, issued, notified>>
    BY DEF EventFails, qemuVars
  <1>2. /\ TypeOK /\ EventsOK
        /\ state \in [error : BOOLEAN, did_yank : Yanked, inflight : Nat]
    BY DEF IInv, TypeOK
  <1>3. /\ state' \in [error : BOOLEAN, did_yank : Yanked, inflight : Int]
        /\ state'.did_yank = state.did_yank /\ state'.inflight = state.inflight - 1 /\ state'.error
    <2>1. PICK n \in Int : n = state.inflight - 1
      BY <1>2
    <2>2. state' = [state EXCEPT !.error = TRUE, !.inflight = n]
      BY <1>1, <2>1
    <2>3. state' \in [error : BOOLEAN, did_yank : Yanked, inflight : Int]
      BY <1>2, <2>2
    <2>4. state'.did_yank = state.did_yank /\ state'.inflight = n /\ state'.error = TRUE
      BY <1>2, <2>2
    <2> QED
      BY <2>1, <2>3, <2>4
  <1>4. /\ ready' \subseteq Coroutines /\ CoPart'
        /\ event_co' \in [Channel -> {"watch", "read", "ended"}]
    BY <1>1, <1>3, EventCoStep
  <1>5. EventsOK'
    BY <1>1, <1>2, SameEvents
  <1>6. TypeOK'
    BY <1>1, <1>2, <1>4 DEF TypeOK, CoPart, CoState
  <1> QED
    BY <1>3, <1>4, <1>5, <1>6 DEF IInv, CoPart

\* Steps that only dispatch an idle source, close the channels or leave the loop
\* of qmp_free.
LEMMA OutsideStep ==
    ASSUME IInv, OtherIdleSource \/ qmp_free \/ Freed \/ QemuDies
    PROVE  IInv'
  <1>1. /\ UNCHANGED <<co, event_co, lock, state, wire, pending, sent, issued, notified>>
        /\ ready' \subseteq ready \cup Waiters
        /\ phase' \in {phase, "free", "freed"} /\ closed' \in {closed, TRUE}
        /\ phase' = phase \/ (phase' = "free" /\ phase # "freed")
                          \/ (phase' = "freed" /\ state.inflight = 0)
    BY DEF OtherIdleSource, qmp_free, Freed, QemuDies, IdleDispatch, qemuVars
  <1>2. TypeOK /\ EventsOK /\ FlightOK /\ CosOK
    BY DEF IInv
  <1>3. /\ ready' \subseteq Coroutines /\ CosOK' /\ \A d \in Channel : LockOK(d)'
        /\ FlightOK' /\ YankNoticed' /\ (phase' = phase => FreedIsUnused')
    BY <1>1, QuietStep
  <1>4. TypeOK'
    BY <1>1, <1>2, <1>3 DEF TypeOK
  <1>5. EventsOK'
    BY <1>1, <1>2 DEF EventsOK, EventsInOrder
  <1>6. ASSUME ~state'.error, NEW d \in Channel PROVE ReplyOK(d)'
    <2>1. (Clear(d) <=> Clear(d)') /\ \A id : Due(d, id) <=> Due(d, id)'
      BY <1>1, SameDue
    <2> QED
      BY <1>1, <1>6, <2>1, SameReplies
  <1>7. FreedIsUnused'
    <2>1. CASE phase' = "freed" /\ state.inflight = 0
      <3>1. Cardinality(Calls) = 0 /\ Cardinality(Readers) = 0
        <4>1. Cardinality(Calls) \in Nat /\ Cardinality(Readers) \in Nat
          BY <1>2, ReadersFinite, FS_CardinalityType DEF FlightOK
        <4> QED
          BY <1>2, <2>1, <4>1 DEF FlightOK
      <3>2. Calls = {} /\ Readers = {}
        BY <1>2, <3>1, ReadersFinite, FS_EmptySet DEF FlightOK
      <3>3. ASSUME NEW p \in Coroutines PROVE co[p].frames = << >>
        <4>1. Len(co[p].frames) \in {0, 1, 2} /\ (Len(co[p].frames) = 0 => co[p].frames = << >>)
          BY <1>2, StackDepth DEF CosOK
        <4>2. <<p, 1>> \notin Calls
          BY <3>2
        <4>3. ~(1 =< Len(co[p].frames))
          BY <4>2 DEF Calls, CallsIn
        <4> QED
          BY <4>1, <4>3
      <3>4. \A c \in Channel : event_co[c] = "ended"
        BY <3>2 DEF Readers
      <3> QED
        BY <1>1, <3>3, <3>4 DEF FreedIsUnused
    <2>2. CASE phase' # "freed"
      BY <2>2 DEF FreedIsUnused
    <2> QED
      BY <1>1, <1>3, <2>1, <2>2
  <1> QED
    BY <1>3, <1>4, <1>5, <1>6, <1>7 DEF IInv

\* qemu sends a line.
LEMMA AppendLine ==
    ASSUME TypeOK, NEW c \in Channel, NEW x \in Line, wire' = [wire EXCEPT ![c] = Append(@, x)]
    PROVE  /\ wire' \in [Channel -> Seq(Line)] /\ \A d \in Channel : d # c => wire'[d] = wire[d]
           /\ Len(wire[c]) \in Nat /\ Len(wire'[c]) = Len(wire[c]) + 1
           /\ wire'[c][Len(wire[c]) + 1] = x
           /\ \A i \in 1 .. Len(wire[c]) : wire'[c][i] = wire[c][i]
  <1> DEFINE w == wire[c]
  <1>1. wire \in [Channel -> Seq(Line)] /\ w \in Seq(Line)
    BY DEF TypeOK
  <1>2. wire' = [wire EXCEPT ![c] = Append(w, x)]
    OBVIOUS
  <1> HIDE DEF w
  <1>3. /\ Append(w, x) \in Seq(Line) /\ Len(w) \in Nat /\ Len(Append(w, x)) = Len(w) + 1
        /\ Append(w, x)[Len(w) + 1] = x /\ \A i \in 1 .. Len(w) : Append(w, x)[i] = w[i]
    BY <1>1, AppendProperties
  <1>4. /\ wire' \in [Channel -> Seq(Line)] /\ \A d \in Channel : d # c => wire'[d] = wire[d]
        /\ wire'[c] = Append(w, x)
    BY <1>1, <1>2, <1>3
  <1> QED
    BY <1>3, <1>4 DEF w

LEMMA QemuRepliesStep ==
    ASSUME IInv, NEW c \in Channel, QemuReplies(c)
    PROVE  IInv'
  <1> DEFINE w == wire[c]
             v == wire'[c]
  <1>1. PICK x : x = [type |-> "reply", of |-> Head(pending[c])]
    OBVIOUS
  <1>2. /\ pending[c] # << >> /\ wire' = [wire EXCEPT ![c] = Append(@, x)]
        /\ pending' = [pending EXCEPT ![c] = Tail(@)]
        /\ UNCHANGED <<co, ready, event_co, lock, state, phase, closed, sent, issued, notified>>
    BY <1>1 DEF QemuReplies
  <1>3. TypeOK /\ EventsOK /\ pending \in [Channel -> Seq(Nat)]
    BY DEF IInv, TypeOK
  <1>4. pending' \in [Channel -> Seq(Nat)] /\ Head(pending[c]) \in Nat
    <2>1. pending[c] \in Seq(Nat)
      BY <1>3
    <2>2. Tail(pending[c]) \in Seq(Nat) /\ Head(pending[c]) \in Nat
      BY <1>2, <2>1
    <2> QED
      BY <1>2, <1>3, <2>2
  <1>5. x \in Line /\ x.type = "reply" /\ x.of = Head(pending[c])
    BY <1>1, <1>4 DEF Line
  <1>6. /\ wire' \in [Channel -> Seq(Line)] /\ \A d \in Channel : d # c => wire'[d] = wire[d]
        /\ Len(w) \in Nat /\ Len(v) = Len(w) + 1 /\ v[Len(w) + 1] = x
        /\ \A i \in 1 .. Len(w) : v[i] = w[i]
    BY <1>2, <1>3, <1>5, AppendLine
  <1>7. /\ ready' \subseteq Coroutines /\ CosOK' /\ \A d \in Channel : LockOK(d)'
        /\ FlightOK' /\ YankNoticed' /\ FreedIsUnused'
    BY <1>2, QuietStep
  <1>8. TypeOK'
    BY <1>2, <1>3, <1>4, <1>6, <1>7 DEF TypeOK
  <1>9. EventsOK'
    <2>1. CASE c # "main"
      <3>1. wire'["main"] = wire["main"]
        BY <1>6, <2>1 DEF Channel
      <3> QED
        BY <1>2, <1>3, <3>1, SameEvents
    <2>2. CASE c = "main"
      <3> DEFINE left == {i \in 1 .. Len(w) : w[i].type = "event"}
                 now == {i \in 1 .. Len(v) : v[i].type = "event"}
      <3> HIDE DEF w, v
      <3>1. now = left
        BY <1>5, <1>6
      <3>2. \A i \in left : v[i] = w[i]
        BY <1>6
      <3>3. {v[i].of : i \in now} = {w[i].of : i \in left}
        BY <3>1, <3>2
      <3>4. (\A i, j \in left : i < j => w[i].of < w[j].of) =>
               \A i, j \in now : i < j => v[i].of < v[j].of
        BY <3>1, <3>2
      <3>5. phase = "run" =>
               /\ Len(notified) =< sent["main"] /\ \A i \in 1 .. Len(notified) : notified[i] = i
               /\ {w[i].of : i \in left} = Len(notified) + 1 .. sent["main"]
               /\ \A i, j \in left : i < j => w[i].of < w[j].of
        BY <1>3, <2>2 DEF EventsOK, EventsInOrder, w
      <3>6. phase = "run" =>
               /\ Len(notified) =< sent["main"] /\ \A i \in 1 .. Len(notified) : notified[i] = i
               /\ {v[i].of : i \in now} = Len(notified) + 1 .. sent["main"]
               /\ \A i, j \in now : i < j => v[i].of < v[j].of
        <4> HIDE DEF left, now
        <4> QED
          BY <3>3, <3>4, <3>5
      <3> QED
        BY <1>2, <2>2, <3>6 DEF EventsOK, EventsInOrder, v
    <2> QED
      BY <2>1, <2>2
  <1>10. ASSUME NEW d \in Channel
         PROVE  (Clear(d) => Clear(d)') /\ \A id \in Nat : Due(d, id) => Due(d, id)'
    <2>1. CASE d # c
      <3>1. wire'[d] = wire[d] /\ pending'[d] = pending[d]
        BY <1>2, <1>3, <1>6, <2>1
      <3> QED
        BY <3>1, SameDue
    <2>2. CASE d = c
      <3>1. ~Clear(d)
        BY <1>2, <2>2 DEF Clear
      <3>2. ASSUME NEW id \in Nat, Due(d, id) PROVE Due(d, id)'
        <4>1. pending[c] = <<id>> /\ NoReply(c)
          BY <1>2, <2>2, <3>2 DEF Due
        <4>2. pending'[c] = << >> /\ x.of = id
          <5>1. Tail(<<id>>) = << >> /\ Head(<<id>>) = id
            OBVIOUS
          <5> QED
            BY <1>2, <1>3, <1>5, <4>1, <5>1
        <4>3. \A i \in 1 .. Len(w) : w[i].type # "reply"
          BY <4>1 DEF NoReply
        <4> DEFINE n == Len(w) + 1
        <4>4. n \in 1 .. Len(v) /\ v[n].type = "reply" /\ v[n].of = id
          BY <1>5, <1>6, <4>2
        <4>5. \A i \in 1 .. Len(v) : v[i].type = "reply" => i = n
          <5> HIDE DEF w, v
          <5> QED
            BY <1>6, <4>3
        <4> HIDE DEF n
        <4> QED
          BY <2>2, <4>2, <4>4, <4>5 DEF Due
      <3> QED
        BY <3>1, <3>2
    <2> QED
      BY <2>1, <2>2
  <1>11. ASSUME ~state'.error, NEW d \in Channel PROVE ReplyOK(d)'
    BY <1>2, <1>10, <1>11, SameReplies
  <1> QED
    BY <1>7, <1>8, <1>9, <1>11 DEF IInv

LEMMA QemuSendsEventStep ==
    ASSUME IInv, NEW c \in Channel, QemuSendsEvent(c)
    PROVE  IInv'
  <1> DEFINE w == wire[c]
             v == wire'[c]
             e == sent[c]
  <1>1. PICK x : x = [type |-> "event", of |-> e + 1]
    OBVIOUS
  <1>2. /\ wire' = [wire EXCEPT ![c] = Append(@, x)]
        /\ sent' = [sent EXCEPT ![c] = e + 1]
        /\ UNCHANGED <<co, ready, event_co, lock, state, phase, pending, closed, issued, notified>>
    BY <1>1 DEF QemuSendsEvent
  <1>3. /\ TypeOK /\ EventsOK /\ sent \in [Channel -> Nat] /\ e \in Nat
        /\ wire \in [Channel -> Seq(Line)] /\ notified \in Seq(Nat)
    BY DEF IInv, TypeOK
  <1>4. sent' \in [Channel -> Nat] /\ sent'[c] = e + 1 /\ \A d \in Channel : d # c => sent'[d] = sent[d]
    BY <1>2, <1>3
  <1>5. x \in Line /\ x.type = "event" /\ x.of = e + 1
    BY <1>1, <1>3 DEF Line
  <1>6. /\ wire' \in [Channel -> Seq(Line)] /\ \A d \in Channel : d # c => wire'[d] = wire[d]
        /\ Len(w) \in Nat /\ Len(v) = Len(w) + 1 /\ v[Len(w) + 1] = x
        /\ \A i \in 1 .. Len(w) : v[i] = w[i]
    BY <1>2, <1>3, <1>5, AppendLine
  <1>7. /\ ready' \subseteq Coroutines /\ CosOK' /\ \A d \in Channel : LockOK(d)'
        /\ FlightOK' /\ YankNoticed' /\ FreedIsUnused'
    BY <1>2, QuietStep
  <1>8. TypeOK'
    BY <1>2, <1>3, <1>4, <1>6, <1>7 DEF TypeOK
  <1>9. EventsOK'
    <2>1. CASE c # "main"
      <3>1. wire'["main"] = wire["main"] /\ sent'["main"] = sent["main"]
        BY <1>4, <1>6, <2>1 DEF Channel
      <3>2. notified' = notified /\ phase' = phase
        BY <1>2
      <3>3. EventsInOrder'
        <4>1. EventsInOrder
          BY <1>3 DEF EventsOK
        <4> QED
          BY <3>1, <3>2, <4>1 DEF EventsInOrder
      <3> QED
        BY <1>3, <3>1, <3>2, <3>3 DEF EventsOK
    <2>2. CASE c = "main" /\ phase = "run"
      <3> DEFINE left == {i \in 1 .. Len(w) : w[i].type = "event"}
                 now == {i \in 1 .. Len(v) : v[i].type = "event"}
                 n == Len(notified)
                 m == Len(w) + 1
      <3>1. /\ n =< e /\ {w[i].of : i \in left} = n + 1 .. e
            /\ \A i, j \in left : i < j => w[i].of < w[j].of
            /\ n \in Nat /\ \A i \in 1 .. n : notified[i] = i
        BY <1>3, <2>2 DEF EventsOK, EventsInOrder
      <3> HIDE DEF w, v, e, n
      <3>2. now = left \cup {m} /\ m \notin left
        BY <1>5, <1>6
      <3>3. (\A i \in left : v[i] = w[i] /\ i < m) /\ v[m].of = e + 1
        BY <1>5, <1>6
      <3>4. {v[i].of : i \in now} = {w[i].of : i \in left} \cup {e + 1}
        <4> HIDE DEF left, now, m
        <4>1. {v[i].of : i \in now} = {v[i].of : i \in left} \cup {v[m].of}
          BY <3>2
        <4>2. {v[i].of : i \in left} = {w[i].of : i \in left}
          BY <3>3
        <4> QED
          BY <3>3, <4>1, <4>2
      <3>5. {v[i].of : i \in now} = n + 1 .. e + 1
        <4>1. (n + 1 .. e) \cup {e + 1} = n + 1 .. e + 1
          BY <1>3, <3>1
        <4> QED
          BY <3>1, <3>4, <4>1
      <3>6. ASSUME NEW i \in now, NEW j \in now, i < j PROVE v[i].of < v[j].of
        <4>1. i \in left
          <5>1. i # m
            BY <1>6, <3>6
          <5> HIDE DEF left, now, m
          <5> QED
            BY <3>2, <5>1
        <4>2. w[i].of \in n + 1 .. e /\ v[i] = w[i]
          BY <3>1, <3>3, <4>1
        <4>3. CASE j = m
          <5>1. v[j].of = e + 1
            BY <3>3, <4>3
          <5> HIDE DEF left, now, m
          <5> QED
            BY <1>3, <3>1, <4>2, <5>1
        <4>4. CASE j # m
          <5>1. j \in left /\ v[j] = w[j]
            BY <3>2, <3>3, <4>4
          <5> HIDE DEF left, now, m
          <5> QED
            BY <3>1, <3>6, <4>1, <4>2, <5>1
        <4> QED
          BY <4>3, <4>4
      <3>7. n =< e + 1
        BY <1>3, <3>1
      <3> QED
        BY <1>2, <1>4, <2>2, <3>1, <3>5, <3>6, <3>7 DEF EventsOK, EventsInOrder, v, n
    <2>3. CASE phase # "run"
      BY <1>2, <2>3 DEF EventsOK, EventsInOrder
    <2> QED
      BY <2>1, <2>2, <2>3
  <1>10. ASSUME NEW d \in Channel
         PROVE  (Clear(d) => Clear(d)') /\ \A id \in Nat : Due(d, id) => Due(d, id)'
    <2>1. CASE d # c
      <3>1. wire'[d] = wire[d] /\ pending'[d] = pending[d]
        BY <1>2, <1>6, <2>1
      <3> QED
        BY <3>1, SameDue
    <2>2. CASE d = c
      <3> HIDE DEF w, v
      <3>1. (\A i \in 1 .. Len(w) : w[i].type # "reply") => \A i \in 1 .. Len(v) : v[i].type # "reply"
        BY <1>5, <1>6
      <3>2. ASSUME NEW id, NEW k \in 1 .. Len(w), w[k].type = "reply", w[k].of = id,
                   \A i \in 1 .. Len(w) : w[i].type = "reply" => i = k
            PROVE  \E j \in 1 .. Len(v) : /\ v[j].type = "reply" /\ v[j].of = id
                                          /\ \A i \in 1 .. Len(v) : v[i].type = "reply" => i = j
        <4>1. k \in 1 .. Len(v) /\ v[k] = w[k]
          BY <1>6
        <4>2. \A i \in 1 .. Len(v) : v[i].type = "reply" => i = k
          BY <1>5, <1>6, <3>2
        <4> QED
          BY <3>2, <4>1, <4>2
      <3> QED
        BY <1>2, <2>2, <3>1, <3>2 DEF w, v, Clear, Due, NoReply
    <2> QED
      BY <2>1, <2>2
  <1>11. ASSUME ~state'.error, NEW d \in Channel PROVE ReplyOK(d)'
    BY <1>2, <1>10, <1>11, SameReplies
  <1> QED
    BY <1>7, <1>8, <1>9, <1>11 DEF IInv

-----------------------------------------------------------------------------
(* The invariant, and what follows from it. *)

LEMMA InitHolds ==
    ASSUME Init
    PROVE  IInv
  <1>1. /\ ready = {} /\ event_co = [c \in Channel |-> "watch"]
        /\ lock = [c \in Channel |-> [holder |-> c, count |-> 1]]
        /\ state = [error |-> FALSE, did_yank |-> "no", inflight |-> 4]
        /\ phase = "run" /\ wire = [c \in Channel |-> << >>]
        /\ pending = [c \in Channel |-> <<0>>] /\ closed = FALSE /\ issued = 0
        /\ sent = [c \in Channel |-> 0] /\ notified = << >>
    BY DEF Init
  <1>2. /\ \A p \in Users : co[p] = [pc |-> "idle", frames |-> << >>]
        /\ \A c \in Channel : co[c] = [pc |-> "self", frames |-> <<FrameOf(c, "greeting", FALSE, 0)>>]
        /\ DOMAIN co = Coroutines /\ co = [p \in Coroutines |-> co[p]]
    BY Names DEF Init
  <1>3. ASSUME NEW p \in Users
        PROVE  /\ co[p] \in CoState /\ co[p].frames = << >> /\ co[p].pc = "idle"
               /\ CoOK(p, co[p]) /\ Len(co[p].frames) = 0
    <2>1. co[p] = [pc |-> "idle", frames |-> << >>] /\ << >> \in Seq(Frame)
      BY <1>2
    <2>2. co[p].frames = << >> /\ co[p].pc = "idle" /\ Len(<< >>) = 0
      BY <2>1
    <2>3. co[p] \in CoState
      BY <2>1 DEF CoState
    <2> QED
      BY <2>2, <2>3 DEF CoOK
  <1>4. ASSUME NEW c \in Channel
        PROVE  /\ co[c] \in CoState /\ Len(co[c].frames) = 1 /\ co[c].pc = "self"
               /\ Handshake(c, co[c].frames[1], "greeting") /\ CoOK(c, co[c])
    <2>1. PICK f : f = FrameOf(c, "greeting", FALSE, 0)
      OBVIOUS
    <2>2. f \in Frame /\ Handshake(c, f, "greeting")
      BY <2>1 DEF FrameOf, Frame, Command, Handshake
    <2>3. co[c] = [pc |-> "self", frames |-> <<f>>]
      BY <1>2, <2>1
    <2>4. <<f>> \in Seq(Frame) /\ Len(<<f>>) = 1 /\ <<f>>[1] = f
      BY <2>2
    <2>5. /\ co[c] \in CoState /\ Len(co[c].frames) = 1 /\ co[c].pc = "self"
          /\ co[c].frames[1] = f
      BY <2>3, <2>4 DEF CoState
    <2> QED
      BY <2>2, <2>5 DEF CoOK
  <1>5. \A p \in Coroutines : p \in Users \/ p \in Channel
    BY DEF Coroutines
  <1>6. TypeOK
    <2>1. co \in [Coroutines -> CoState]
      BY <1>2, <1>3, <1>4, <1>5
    <2>2. /\ event_co \in [Channel -> {"watch", "read", "ended"}]
          /\ lock \in [Channel -> [holder : Coroutines \cup {"events", "none"}, count : Nat]]
          /\ state \in [error : BOOLEAN, did_yank : Yanked, inflight : Nat]
      BY <1>1, Names DEF Yanked
    <2>3. /\ wire \in [Channel -> Seq(Line)] /\ pending \in [Channel -> Seq(Nat)]
          /\ sent \in [Channel -> Nat] /\ notified \in Seq(Nat)
      BY <1>1
    <2> QED
      BY <1>1, <2>1, <2>2, <2>3 DEF TypeOK, CoState
  <1>7. CosOK
    BY <1>1, <1>3, <1>4, <1>5 DEF CosOK
  <1>8. ASSUME NEW c \in Channel PROVE LockOK(c)
    <2>1. lock[c].holder = c /\ lock[c].count = 1 /\ event_co[c] = "watch"
      BY <1>1
    <2>2. ASSUME NEW p \in Users PROVE ~Has(co[p], c) /\ p # c
      BY <1>3, StackOfNone, Names
    <2>3. ASSUME NEW p \in Channel PROVE Has(co[p], c) <=> p = c
      <3>1. Has(co[p], c) <=> co[p].frames[1].chan = c /\ co[p].pc # "lock"
        BY <1>4, StackOfOne
      <3> QED
        BY <1>4, <3>1 DEF Handshake
    <2>4. \A p \in Coroutines : lock[c].holder = p <=> Has(co[p], c)
      BY <1>5, <2>1, <2>2, <2>3
    <2>5. c \in Coroutines
      BY Names
    <2> QED
      BY <2>1, <2>4, <2>5, Names DEF LockOK
  <1>9. ASSUME NEW c \in Channel PROVE ReplyOK(c)
    <2>1. pending[c] = <<0>> /\ Len(wire[c]) = 0
      BY <1>1
    <2>2. Due(c, 0)
      BY <2>1 DEF Due, NoReply
    <2>3. Awaits(co[c], c, 0)
      <3>1. Awaits(co[c], c, 0) <=>
              co[c].frames[1].chan = c /\ co[c].frames[1].id = 0 /\ co[c].pc \in {"read", "self"}
        BY <1>4, StackOfOne
      <3> QED
        BY <1>4, <3>1 DEF Handshake
    <2>4. c \in Coroutines /\ 0 \in Nat
      BY Names
    <2> QED
      BY <2>2, <2>3, <2>4 DEF ReplyOK
  <1>10. FlightOK
    <2>1. "main" # "yank" /\ Channel = {"main", "yank"}
      BY DEF Channel
    <2>2. Readers = {"main", "yank"}
      BY <1>1 DEF Readers, Channel
    <2>3. Calls = {<<"main", 1>>, <<"yank", 1>>}
      <3>1. ASSUME NEW x \in Calls PROVE x \in {<<"main", 1>>, <<"yank", 1>>}
        <4>1. PICK p \in Coroutines, i \in {1, 2} : x = <<p, i>> /\ i =< Len(co[p].frames)
          BY DEF Calls, CallsIn
        <4>2. p \in Channel
          BY <1>3, <1>5, <4>1
        <4>3. i = 1
          <5>1. Len(co[p].frames) = 1
            BY <1>4, <4>2
          <5> QED
            BY <4>1, <5>1
        <4> QED
          BY <4>1, <4>2, <4>3 DEF Channel
      <3>2. ASSUME NEW c \in Channel PROVE <<c, 1>> \in Calls
        BY <1>4, Names DEF Calls, CallsIn
      <3> QED
        BY <3>1, <3>2 DEF Channel
    <2>4. ASSUME NEW a, NEW b, a # b PROVE IsFiniteSet({a, b}) /\ Cardinality({a, b}) = 2
      <3>1. IsFiniteSet({a}) /\ Cardinality({a}) = 1
        BY FS_Singleton
      <3>2. IsFiniteSet({a} \cup {b}) /\ Cardinality({a} \cup {b}) = Cardinality({a}) + 1
        BY <2>4, <3>1, FS_AddElement
      <3>3. {a} \cup {b} = {a, b}
        OBVIOUS
      <3> QED
        BY <3>1, <3>2, <3>3
    <2>5. IsFiniteSet(Calls) /\ Cardinality(Calls) = 2
      <3>1. <<"main", 1>> # <<"yank", 1>>
        OBVIOUS
      <3> QED
        BY <2>3, <2>4, <3>1
    <2>6. Cardinality(Readers) = 2
      BY <2>1, <2>2, <2>4
    <2>7. state.inflight = 4
      BY <1>1
    <2> QED
      BY <2>5, <2>6, <2>7 DEF FlightOK
  <1>11. FreedIsUnused /\ YankNoticed
    BY <1>1 DEF FreedIsUnused, YankNoticed
  <1>12. EventsOK
    <2>1. Len(notified) = 0 /\ sent["main"] = 0 /\ Len(wire["main"]) = 0
      BY <1>1 DEF Channel
    <2> QED
      BY <2>1 DEF EventsOK, EventsInOrder
  <1> QED
    BY <1>6, <1>7, <1>8, <1>9, <1>10, <1>11, <1>12 DEF IInv

LEMMA CoroutineStep ==
    ASSUME IInv, NEW p \in Coroutines, Coroutine(p)
    PROVE  IInv'
  <1>1. CASE qmp_read_line_co(p)
    BY <1>1, ReadEventStep, ReadReplyStep
  <1> QED
    BY <1>1, LockStep, WriteStep, ResumeStep, TimeoutStep, EofStep DEF Coroutine

LEMMA NextKeeps ==
    ASSUME IInv, [Next]_vars
    PROVE  IInv'
  <1>1. CASE UNCHANGED vars
    <2>1. UNCHANGED <<co, ready, event_co, lock, state, phase, wire, pending, closed, sent,
                      issued, notified>>
      BY <1>1 DEF vars, qemuVars
    <2>2. TypeOK /\ EventsOK
      BY DEF IInv
    <2>3. /\ CosOK' /\ \A d \in Channel : LockOK(d)'
          /\ FlightOK' /\ YankNoticed' /\ FreedIsUnused'
      BY <2>1, QuietStep
    <2>4. TypeOK'
      BY <2>1, <2>2 DEF TypeOK
    <2>5. EventsOK'
      BY <2>1, <2>2, SameEvents
    <2>6. ASSUME ~state'.error, NEW d \in Channel PROVE ReplyOK(d)'
      <3>1. (Clear(d) <=> Clear(d)') /\ \A id : Due(d, id) <=> Due(d, id)'
        BY <2>1, SameDue
      <3> QED
        BY <2>1, <2>6, <3>1, SameReplies
    <2> QED
      BY <2>3, <2>4, <2>5, <2>6 DEF IInv
  <1>2. ASSUME NEW u \in Users, qmp_execute_co(u) \/ qmp_yank_co(u) PROVE IInv'
    BY <1>2, UserCallStep
  <1>3. ASSUME NEW p \in Coroutines, Coroutine(p) PROVE IInv'
    BY <1>3, CoroutineStep
  <1>4. ASSUME NEW c \in Channel, EventCoroutine(c) \/ LineBegins(c) PROVE IInv'
    BY <1>4, EventWakesStep, EventReadStep, EventFailsStep DEF EventCoroutine, LineReady, LineBegins
  <1>5. ASSUME NEW c \in Channel, QemuReplies(c) \/ QemuSendsEvent(c) PROVE IInv'
    BY <1>5, QemuRepliesStep, QemuSendsEventStep
  <1>6. CASE OtherIdleSource \/ qmp_free \/ Freed \/ QemuDies
    BY <1>6, OutsideStep
  <1> QED
    BY <1>1, <1>2, <1>3, <1>4, <1>5, <1>6 DEF Next

\* Every reachable state of the two channels satisfies the inductive invariant.
THEOREM Invariance == Spec => []IInv
  <1>1. Init => IInv
    BY InitHolds
  <1>2. IInv /\ [Next]_vars => IInv'
    BY NextKeeps
  <1> QED
    BY <1>1, <1>2, PTL DEF Spec

\* The state is of its type: no step of qmp.c leaves the ranges of its variables.
THEOREM TypeCorrect == Spec => []TypeOK
  <1>1. IInv => TypeOK
    BY DEF IInv
  <1> QED
    BY <1>1, Invariance, PTL

\* With any number of users, a lock of coutil.h is held exactly by the coroutine
\* that is between colod_lock_co and colod_unlock_co: none is leaked on any of
\* the ways out of __qmp_execute_co, and no two read from the same channel.
THEOREM LockIsHeldByReader == Spec => []LockHeldByReader
  <1>1. IInv => LockHeldByReader
    <2> SUFFICES ASSUME IInv, NEW c \in Channel
                 PROVE  /\ \A p \in Coroutines : (lock[c].holder = p) = (Holding(p, c) # {})
                        /\ (lock[c].holder = "events") = (event_co[c] = "read")
                        /\ (lock[c].holder = "none") = (lock[c].count = 0)
      BY DEF LockHeldByReader
    <2>1. LockOK(c)
      BY DEF IInv
    <2>2. ASSUME NEW p \in Coroutines PROVE Has(co[p], c) <=> Holding(p, c) # {}
      BY DEF Has, Holding
    <2> QED
      BY <2>1, <2>2 DEF LockOK
  <1> QED
    BY <1>1, Invariance, PTL

\* While no error has been noted, the reply at the head of a channel answers the
\* command of the coroutine that holds its lock, however many users there are
\* and however often a command timed out and was yanked.
THEOREM ReplyIsOfReader == Spec => []ReplyIsOwn
  <1>1. IInv => ReplyIsOwn
    <2> SUFFICES ASSUME IInv, NEW c \in Channel,
                        ~state.error, wire[c] # << >>, Head(wire[c]).type = "reply"
                 PROVE  \E p \in Coroutines :
                           /\ lock[c].holder = p
                           /\ \E i \in 1 .. Len(co[p].frames) :
                                 /\ co[p].frames[i].chan = c
                                 /\ co[p].frames[i].id = Head(wire[c]).of
      BY DEF ReplyIsOwn
    <2>1. TypeOK /\ LockOK(c) /\ ReplyOK(c)
      BY DEF IInv
    <2>2. Len(wire[c]) \in Nat \ {0} /\ Head(wire[c]) = wire[c][1]
      BY <2>1, WireType
    <2>3. ~NoReply(c)
      BY <2>2 DEF NoReply
    <2>4. PICK p \in Coroutines, id \in Nat : Awaits(co[p], c, id) /\ Due(c, id)
      BY <2>1, <2>3 DEF ReplyOK, Clear
    <2>5. Head(wire[c]).of = id
      BY <2>2, <2>3, <2>4 DEF Due
    <2>6. lock[c].holder = p
      BY <2>1, <2>4, AwaitsHas DEF LockOK
    <2> QED
      BY <2>4, <2>5, <2>6 DEF Awaits
  <1> QED
    BY <1>1, Invariance, PTL

\* When the loop of qmp_free has seen inflight at zero and the state is freed, no
\* coroutine is inside of qmp.c any more.
THEOREM FreedIsNotUsed == Spec => []FreedIsUnused
  <1>1. IInv => FreedIsUnused
    BY DEF IInv
  <1> QED
    BY <1>1, Invariance, PTL

\* A yank flag that a command has set is never without this command, which will
\* still look at it, or an error, whatever flags colod_failover_co leaves for others.
THEOREM YankIsNoticed == Spec => []YankNoticed
  <1>1. IInv => YankNoticed
    BY DEF IInv
  <1> QED
    BY <1>1, Invariance, PTL

\* Until qmp_free the events of qemu reach the callbacks in order and complete,
\* whichever coroutine reads them.
THEOREM EventsComeInOrder == Spec => []EventsInOrder
  <1>1. IInv => EventsInOrder
    BY DEF IInv, EventsOK
  <1> QED
    BY <1>1, Invariance, PTL
=============================================================================
