--------------------------- MODULE EventQueueProofs ---------------------------
(***************************************************************************)
(* Proofs about module EventQueue, for every size of the queue, every set  *)
(* of events and every bound on the sequence numbers below the overflow of *)
(* the comparator.                                                         *)
(*                                                                         *)
(* The head of the sequence alone says too little to survive its removal,  *)
(* so the invariant is about all of the sequence: it is sorted by class    *)
(* and then strictly by sequence number.  A new entry keeps that order     *)
(* only because its number is larger than all the others, and the          *)
(* comparator respects it only because no two numbers are further apart    *)
(* than a gint can tell.                                                   *)
(*                                                                         *)
(* The list of PriorityFifo has no numbers.  It is read off the sequence   *)
(* by rank: an entry is at the place that says how many entries are not    *)
(* younger.  The refinement needs that no two entries have one number,     *)
(* across the classes too, so that the ranks are 1 .. Len(sequence): a new *)
(* entry has the last rank, the removal of the head closes the gap at its  *)
(* rank, and a sort changes no rank.                                       *)
(***************************************************************************)
EXTENDS EventQueue, TLAPS, SequenceTheorems, FiniteSetTheorems

\* Entry a belongs before entry b when the events in `this' interrupt.
Before(this, a, b) ==
    \/ a.event \in this /\ b.event \notin this
    \/ (a.event \in this <=> b.event \in this) /\ a.seqno < b.seqno

Ordered(this, s) == \A i, j \in 1 .. Len(s) : i < j => Before(this, s[i], s[j])

\* The inductive invariant.
IInv ==
    /\ TypeOK
    /\ used = Len(sequence)
    /\ seq_counter <= MaxSeqno
    /\ \A i \in 1 .. Len(sequence) : sequence[i].seqno < seq_counter
    /\ Ordered(interrupting, sequence)
-----------------------------------------------------------------------------
\* No difference of two sequence numbers within the bound is truncated.
LEMMA ToIntExact ==
    ASSUME NEW d \in Int, -(IntMax + 1) <= d, d <= IntMax
    PROVE  ToInt(d) = d
<1> DEFINE x == d + IntMax + 1
           k == 2 * (IntMax + 1)
<1>1. x \in Nat /\ k \in Nat /\ x < k /\ x - (IntMax + 1) = d
  BY QueueAssumption, SMT
<1>2. ToInt(d) = (x % k) - (IntMax + 1)
  BY DEF ToInt
<1>3. x % k = x
  <2> HIDE DEF x, k
  <2> QED BY <1>1, SMT
<1> QED BY <1>1, <1>2, <1>3

\* The comparator decides the order Before.
LEMMA SortExact ==
    ASSUME NEW this, NEW a \in Entry, NEW b \in Entry,
           a.seqno <= MaxSeqno, b.seqno <= MaxSeqno
    PROVE  /\ eventqueue_sort(this, a, b) < 0 <=> Before(this, a, b)
           /\ eventqueue_sort(this, a, b) <= 0
                <=> Before(this, a, b) \/ ((a.event \in this <=> b.event \in this)
                                             /\ a.seqno = b.seqno)
<1>1. a.seqno \in Nat /\ b.seqno \in Nat
  BY DEF Entry
<1>2. ToInt(a.seqno - b.seqno) = a.seqno - b.seqno
  BY <1>1, ToIntExact, QueueAssumption
<1> QED BY <1>1, <1>2 DEF eventqueue_sort, Before
-----------------------------------------------------------------------------
LEMMA InitIInv == Init => IInv
  BY QueueAssumption DEF Init, IInv, TypeOK, Ordered, AlwaysInterrupting, ColodEvent

LEMMA AddIInv ==
    ASSUME IInv, NEW e \in Events, eventqueue_add(e)
    PROVE  IInv'
<1> DEFINE x == [event |-> e, seqno |-> seq_counter]
<1>1. CASE used = Size
  BY <1>1 DEF eventqueue_add, IInv, TypeOK, Ordered
<1>2. CASE used # Size
  <2>0. x \in Entry /\ x.event = e /\ x.seqno = seq_counter
    BY QueueAssumption DEF IInv, TypeOK, Entry
  <2>1. PICK k \in 1 .. (Len(sequence) + 1) : InsertSorted(x, k)
    BY <1>2 DEF eventqueue_add
  <2>2. /\ used' = used + 1 /\ used' \in 0 .. Size
        /\ seq_counter' = seq_counter + 1
        /\ seq_counter' \in Nat /\ seq_counter' <= MaxSeqno
        /\ interrupting' = interrupting /\ ret' = "added"
    BY <1>2, QueueAssumption DEF eventqueue_add, IInv, TypeOK
  <2>3. /\ sequence \in Seq(Entry)
        /\ Len(sequence) \in Nat
        /\ \A i \in 1 .. Len(sequence) : sequence[i] \in Entry
    BY DEF IInv, TypeOK
  <2>4. \A i \in 1 .. (Len(sequence) + 1) :
          (IF i < k THEN sequence[i] ELSE IF i = k THEN x ELSE sequence[i - 1]) \in Entry
    BY <2>0, <2>3
  <2>5. /\ sequence' \in Seq(Entry)
        /\ Len(sequence') = Len(sequence) + 1
        /\ \A i \in 1 .. (Len(sequence) + 1) :
             sequence'[i] = IF i < k THEN sequence[i]
                            ELSE IF i = k THEN x ELSE sequence[i - 1]
    BY <2>1, <2>3, <2>4 DEF InsertSorted
  <2>6. \A i \in 1 .. Len(sequence) :
          sequence[i].seqno \in Nat /\ sequence[i].seqno < seq_counter
    BY <2>3 DEF IInv, Entry
  <2>7. \A i \in 1 .. Len(sequence) : Before(interrupting, sequence[i], x) <=> i < k
    <3> TAKE i \in 1 .. Len(sequence)
    <3>1. eventqueue_sort(interrupting, sequence[i], x) <= 0 <=> i < k
      BY <2>1 DEF InsertSorted
    <3>2. sequence[i].seqno <= MaxSeqno /\ x.seqno <= MaxSeqno
      BY <2>0, <2>2, <2>6, QueueAssumption DEF IInv, TypeOK
    <3> HIDE DEF x
    <3>3. sequence[i] \in Entry /\ x \in Entry /\ sequence[i].seqno # x.seqno
      BY <2>0, <2>3, <2>6 DEF IInv, TypeOK
    <3>4. eventqueue_sort(interrupting, sequence[i], x) <= 0
            <=> Before(interrupting, sequence[i], x)
      BY <3>2, <3>3, SortExact
    <3> QED BY <3>1, <3>4
  <2>8. \A i \in 1 .. Len(sequence) : i >= k => Before(interrupting, x, sequence[i])
    BY <2>0, <2>6, <2>7 DEF Before, IInv, TypeOK
  <2>9. Ordered(interrupting', sequence')
    <3> SUFFICES ASSUME NEW i \in 1 .. (Len(sequence) + 1),
                        NEW j \in 1 .. (Len(sequence) + 1), i < j
                 PROVE  Before(interrupting, sequence'[i], sequence'[j])
      BY <2>2, <2>5 DEF Ordered
    <3> HIDE DEF x
    <3>1. CASE j < k
      BY <3>1, <2>3, <2>5 DEF IInv, Ordered
    <3>2. CASE j = k
      BY <3>2, <2>3, <2>5, <2>7
    <3>3. CASE j > k /\ i < k
      <4>1. /\ i \in 1 .. Len(sequence) /\ j - 1 \in 1 .. Len(sequence)
            /\ i < j - 1
        BY <3>3, <2>3
      <4>2. sequence'[i] = sequence[i] /\ sequence'[j] = sequence[j - 1]
        BY <3>3, <2>3, <2>5
      <4> QED BY <4>1, <4>2 DEF IInv, Ordered
    <3>4. CASE j > k /\ i = k
      <4>1. j - 1 \in 1 .. Len(sequence) /\ j - 1 >= k
        BY <3>4, <2>3
      <4>2. sequence'[i] = x /\ sequence'[j] = sequence[j - 1]
        BY <3>4, <2>3, <2>5
      <4> QED BY <4>1, <4>2, <2>8
    <3>5. CASE j > k /\ i > k
      <4>1. /\ i - 1 \in 1 .. Len(sequence) /\ j - 1 \in 1 .. Len(sequence)
            /\ i - 1 < j - 1
        BY <3>5, <2>3
      <4>2. sequence'[i] = sequence[i - 1] /\ sequence'[j] = sequence[j - 1]
        BY <3>5, <2>3, <2>5
      <4> QED BY <4>1, <4>2 DEF IInv, Ordered
    <3> QED BY <3>1, <3>2, <3>3, <3>4, <3>5, <2>3
  <2>10. \A i \in 1 .. Len(sequence') : sequence'[i].seqno < seq_counter'
    <3> HIDE DEF x
    <3> SUFFICES ASSUME NEW i \in 1 .. (Len(sequence) + 1)
                 PROVE  sequence'[i].seqno < seq_counter + 1
      BY <2>2, <2>5
    <3>1. CASE i < k
      BY <3>1, <2>3, <2>5, <2>6 DEF IInv, TypeOK
    <3>2. CASE i = k
      BY <3>2, <2>0, <2>3, <2>5 DEF IInv, TypeOK
    <3>3. CASE i > k
      <4>1. i - 1 \in 1 .. Len(sequence) /\ sequence'[i] = sequence[i - 1]
        BY <3>3, <2>3, <2>5
      <4> QED BY <4>1, <2>6 DEF IInv, TypeOK
    <3> QED BY <3>1, <3>2, <3>3, <2>3
  <2> QED
    BY <2>2, <2>3, <2>5, <2>9, <2>10 DEF IInv, TypeOK
<1> QED BY <1>1, <1>2

LEMMA RemoveIInv ==
    ASSUME IInv, eventqueue_remove
    PROVE  IInv'
<1>1. CASE used = 0
  BY <1>1 DEF eventqueue_remove, IInv, TypeOK, Ordered
<1>2. CASE used # 0
  <2>1. /\ sequence \in Seq(Entry) /\ sequence # << >>
        /\ Len(sequence) \in Nat \ {0} /\ sequence[1] \in Entry
    BY <1>2 DEF IInv, TypeOK
  <2>2. /\ sequence' = Tail(sequence)
        /\ sequence' \in Seq(Entry)
        /\ Len(sequence') = Len(sequence) - 1
        /\ \A i \in 1 .. Len(sequence') : sequence'[i] = sequence[i + 1]
    BY <1>2, <2>1 DEF eventqueue_remove
  <2>3. /\ used' = used - 1 /\ ret' \in ColodEvent
        /\ UNCHANGED <<seq_counter, interrupting>>
    BY <1>2, <2>1 DEF eventqueue_remove, Entry
  <2>4. Ordered(interrupting', sequence')
    BY <2>1, <2>2, <2>3 DEF IInv, Ordered
  <2> QED
    BY <1>2, <2>1, <2>2, <2>3, <2>4, QueueAssumption DEF IInv, TypeOK
<1> QED BY <1>1, <1>2

LEMMA SetInterruptingIInv ==
    ASSUME IInv, NEW s \in InterruptSets, eventqueue_set_interrupting(s)
    PROVE  IInv'
<1>1. /\ interrupting' \in SUBSET ColodEvent /\ ret' = "none"
      /\ UNCHANGED <<seq_counter, used>>
  BY QueueAssumption DEF eventqueue_set_interrupting, AlwaysInterrupting, ColodEvent
<1>2. PICK p \in [1 .. Len(sequence) -> 1 .. Len(sequence)] :
        /\ sequence' = [i \in 1 .. Len(sequence) |-> sequence[p[i]]]
        /\ Sorted(interrupting', sequence')
  BY DEF eventqueue_set_interrupting
<1>3. /\ sequence \in Seq(Entry) /\ Len(sequence) \in Nat
      /\ \A i \in 1 .. Len(sequence) :
           /\ p[i] \in 1 .. Len(sequence)
           /\ sequence[p[i]] \in Entry
           /\ sequence[p[i]].seqno < seq_counter
  BY DEF IInv, TypeOK
<1>4. /\ sequence' \in Seq(Entry) /\ Len(sequence') = Len(sequence)
      /\ \A i \in 1 .. Len(sequence) : sequence'[i] = sequence[p[i]]
  BY <1>2, <1>3
<1>5. \A i \in 1 .. Len(sequence') :
         /\ sequence'[i] \in Entry
         /\ sequence'[i].seqno \in Nat
         /\ sequence'[i].seqno < seq_counter /\ sequence'[i].seqno <= MaxSeqno
  BY <1>3, <1>4, QueueAssumption, SMTT(30) DEF IInv, TypeOK, Entry
<1>6. Ordered(interrupting', sequence')
  <2> SUFFICES ASSUME NEW i \in 1 .. Len(sequence'), NEW j \in 1 .. Len(sequence'), i < j
               PROVE  Before(interrupting', sequence'[i], sequence'[j])
    BY DEF Ordered
  <2>1. eventqueue_sort(interrupting', sequence'[i], sequence'[j]) < 0
    BY <1>2 DEF Sorted
  <2> QED BY <1>5, <2>1, SortExact
<1> QED BY <1>1, <1>4, <1>5, <1>6 DEF IInv, TypeOK
-----------------------------------------------------------------------------
LEMMA IInvHead == IInv => HeadIsFirst
<1> SUFFICES ASSUME IInv, NEW i \in 2 .. Len(sequence)
             PROVE  /\ sequence[i].event \in interrupting
                         => sequence[1].event \in interrupting
                    /\ (sequence[i].event \in interrupting
                          <=> sequence[1].event \in interrupting)
                         => sequence[1].seqno < sequence[i].seqno
  BY DEF HeadIsFirst
<1>1. 1 \in 1 .. Len(sequence) /\ i \in 1 .. Len(sequence) /\ 1 < i
  BY DEF IInv, TypeOK
<1>2. Before(interrupting, sequence[1], sequence[i])
  BY <1>1 DEF IInv, Ordered
<1> QED BY <1>2 DEF Before

\* Every call of the queue keeps the order.
THEOREM InductiveInvariant == Spec => []IInv
<1>1. ASSUME IInv, [Next]_vars
      PROVE  IInv'
  <2>1. ASSUME NEW e \in Events, eventqueue_add(e) PROVE IInv'
    BY <1>1, <2>1, AddIInv
  <2>2. CASE eventqueue_remove
    BY <1>1, <2>2, RemoveIInv
  <2>3. ASSUME NEW s \in InterruptSets, eventqueue_set_interrupting(s) PROVE IInv'
    BY <1>1, <2>3, SetInterruptingIInv
  <2>4. CASE UNCHANGED vars
    BY <1>1, <2>4 DEF IInv, TypeOK, Ordered, vars
  <2> QED BY <1>1, <2>1, <2>2, <2>3, <2>4 DEF Next
<1> QED BY <1>1, InitIInv, PTL DEF Spec

\* The fields of the queue keep their types (struct EventQueue).
THEOREM TypeCorrect == Spec => []TypeOK
<1>1. IInv => TypeOK
  BY DEF IInv
<1> QED BY <1>1, InductiveInvariant, PTL

\* The head that eventqueue_peek and eventqueue_remove give is the oldest
\* entry of its class and interrupts if any entry does, for a queue of any
\* size and any sequence of calls.
THEOREM HeadCorrect == Spec => []HeadIsFirst
  BY InductiveInvariant, IInvHead, PTL

\* The counter that eventqueue_add tests against the limit is the number of
\* entries, and the limit is kept.
THEOREM UsedCorrect == Spec => []UsedIsLength
<1>1. IInv => UsedIsLength
  BY QueueAssumption DEF IInv, TypeOK, UsedIsLength
<1> QED BY <1>1, InductiveInvariant, PTL
-----------------------------------------------------------------------------
(* Sets of entries in order of arrival. *)

Upto(es, x) == {y \in es : y.seqno <= x.seqno}

\* A finite set of entries, no two with the same number.
Numbered(es) ==
    /\ IsFiniteSet(es) /\ es \subseteq Entry
    /\ \A x, y \in es : x.seqno = y.seqno => x = y

LEMMA RankDef ==
    ASSUME NEW es, NEW x
    PROVE  Rank(es, x) = Cardinality(Upto(es, x))
  BY DEF Rank, Upto

LEMMA RankType ==
    ASSUME NEW es, Numbered(es), NEW x \in es
    PROVE  /\ Rank(es, x) \in 1 .. Cardinality(es) /\ Cardinality(es) \in Nat
           /\ IsFiniteSet(Upto(es, x))
<1>1. IsFiniteSet(es) /\ Upto(es, x) \subseteq es /\ x.seqno \in Nat
  BY DEF Numbered, Upto, Entry
<1>2. IsFiniteSet(Upto(es, x)) /\ Cardinality(Upto(es, x)) <= Cardinality(es)
  BY <1>1, FS_Subset
<1>3. x \in Upto(es, x)
  BY <1>1 DEF Upto
<1>4. Cardinality(Upto(es, x)) # 0
  BY <1>2, <1>3, FS_EmptySet
<1>5. Cardinality(Upto(es, x)) \in Nat /\ Cardinality(es) \in Nat
  BY <1>1, <1>2, FS_CardinalityType
<1> QED BY <1>2, <1>4, <1>5, RankDef

LEMMA RankLess ==
    ASSUME NEW es, Numbered(es), NEW x \in es, NEW y \in es
    PROVE  x.seqno < y.seqno <=> Rank(es, x) < Rank(es, y)
<1>1. \A z \in es : z.seqno \in Nat
  BY DEF Numbered, Entry
<1>2. ASSUME NEW a \in es, NEW b \in es, a.seqno < b.seqno
      PROVE  Rank(es, a) < Rank(es, b)
  <2>1. Upto(es, a) \subseteq Upto(es, b) /\ b \in Upto(es, b) /\ b \notin Upto(es, a)
    BY <1>1, <1>2 DEF Upto
  <2>2. IsFiniteSet(Upto(es, b))
    BY RankType
  <2>3. /\ Cardinality(Upto(es, a)) <= Cardinality(Upto(es, b))
        /\ Cardinality(Upto(es, a)) # Cardinality(Upto(es, b))
    BY <2>1, <2>2, FS_Subset
  <2>4. Rank(es, a) \in Nat /\ Rank(es, b) \in Nat
    BY RankType
  <2> QED BY <2>3, <2>4, RankDef
<1>3. Rank(es, x) \in Nat /\ Rank(es, y) \in Nat
  BY RankType
<1>4. CASE x.seqno < y.seqno
  BY <1>2, <1>4
<1>5. CASE y.seqno < x.seqno
  BY <1>1, <1>2, <1>3, <1>5
<1>6. CASE x.seqno = y.seqno
  <2>1. x = y
    BY <1>6 DEF Numbered
  <2>2. ~(Rank(es, x) < Rank(es, y))
    BY <1>3, <2>1
  <2> QED BY <1>1, <1>6, <2>2
<1> QED BY <1>1, <1>4, <1>5, <1>6

LEMMA RankInjective ==
    ASSUME NEW es, Numbered(es), NEW x \in es, NEW y \in es, Rank(es, x) = Rank(es, y)
    PROVE  x = y
<1>1. x.seqno \in Nat /\ y.seqno \in Nat /\ Rank(es, x) \in Nat
  BY RankType DEF Numbered, Entry
<1>2. ~(x.seqno < y.seqno) /\ ~(y.seqno < x.seqno)
  BY <1>1, RankLess
<1> QED BY <1>1, <1>2 DEF Numbered

LEMMA RankOnto ==
    ASSUME NEW es, Numbered(es), NEW r \in 1 .. Cardinality(es)
    PROVE  \E x \in es : Rank(es, x) = r
<1> DEFINE n == Cardinality(es)
           f == [x \in es |-> Rank(es, x)]
<1>1. IsFiniteSet(es) /\ n \in Nat
  BY FS_CardinalityType DEF Numbered
<1>2. IsFiniteSet(1 .. n) /\ Cardinality(1 .. n) = n
  BY <1>1, FS_Interval
<1>3. f \in Injection(es, 1 .. n)
  BY RankType, RankInjective DEF Injection, IsInjective
<1>4. f \in Surjection(es, 1 .. n)
  <2> HIDE DEF f, n
  <2>1. Cardinality(es) = Cardinality(1 .. n)
    BY <1>2 DEF n
  <2> QED BY <1>2, <1>3, <2>1, FS_Injection
<1> QED BY <1>4 DEF Surjection

\* The event of an entry is at its rank.
LEMMA InOrderAt ==
    ASSUME NEW es, Numbered(es)
    PROVE  /\ InOrder(es) \in Seq(ColodEvent) /\ Len(InOrder(es)) = Cardinality(es)
           /\ \A x \in es : InOrder(es)[Rank(es, x)] = x.event
<1> DEFINE n == Cardinality(es)
           pick(r) == CHOOSE x \in es : Rank(es, x) = r
<1>1. n \in Nat
  BY FS_CardinalityType DEF Numbered
<1>2. ASSUME NEW r \in 1 .. n PROVE pick(r) \in es /\ Rank(es, pick(r)) = r
  <2>1. \E x \in es : Rank(es, x) = r
    BY RankOnto
  <2> QED BY <2>1, Zenon
<1>3. InOrder(es) = [r \in 1 .. n |-> pick(r).event]
  BY DEF InOrder
<1>4. ASSUME NEW r \in 1 .. n PROVE pick(r).event \in ColodEvent
  BY <1>2 DEF Numbered, Entry
<1>5. ASSUME NEW x \in es PROVE InOrder(es)[Rank(es, x)] = x.event
  <2>1. Rank(es, x) \in 1 .. n
    BY RankType
  <2>2. pick(Rank(es, x)) = x
    BY <1>2, <2>1, RankInjective
  <2> HIDE DEF pick
  <2> QED BY <1>3, <2>1, <2>2
<1> HIDE DEF pick, n
<1>6. InOrder(es) \in Seq(ColodEvent) /\ Len(InOrder(es)) = n
  BY <1>1, <1>3, <1>4
<1> QED BY <1>5, <1>6 DEF n

LEMMA RankOfEach ==
    ASSUME NEW es, Numbered(es), NEW r \in 1 .. Len(InOrder(es))
    PROVE  \E x \in es : Rank(es, x) = r /\ InOrder(es)[r] = x.event
<1>1. r \in 1 .. Cardinality(es)
  BY InOrderAt
<1>2. PICK x \in es : Rank(es, x) = r
  BY <1>1, RankOnto
<1> QED BY <1>2, InOrderAt

\* An entry younger than all the others is appended.
LEMMA InOrderAdd ==
    ASSUME NEW es, Numbered(es), NEW x \in Entry,
           \A y \in es : y.seqno < x.seqno
    PROVE  /\ Numbered(es \cup {x})
           /\ InOrder(es \cup {x}) = Append(InOrder(es), x.event)
<1> DEFINE new == es \cup {x}
           n == Cardinality(es)
           q == InOrder(es)
<1>1. /\ x.seqno \in Nat /\ x.event \in ColodEvent
      /\ \A y \in es : y \in Entry /\ y.seqno \in Nat
  BY DEF Numbered, Entry
<1>2. x \notin es
  BY <1>1
<1>3. IsFiniteSet(new) /\ Cardinality(new) = n + 1 /\ n \in Nat
  BY <1>2, FS_AddElement, FS_CardinalityType DEF Numbered
<1>4. Numbered(new)
  BY <1>1, <1>3 DEF Numbered
<1>5. ASSUME NEW y \in es PROVE Rank(new, y) = Rank(es, y)
  <2>1. Upto(new, y) = Upto(es, y)
    BY <1>1 DEF Upto
  <2> QED BY <2>1, RankDef
<1>6. Rank(new, x) = n + 1
  <2>1. Upto(new, x) = new
    BY <1>1 DEF Upto
  <2> QED BY <1>3, <2>1, RankDef
<1>7. /\ q \in Seq(ColodEvent) /\ Len(q) = n
      /\ InOrder(new) \in Seq(ColodEvent) /\ Len(InOrder(new)) = n + 1
  BY <1>3, <1>4, InOrderAt
<1>8. ASSUME NEW r \in 1 .. (n + 1) PROVE InOrder(new)[r] = Append(q, x.event)[r]
  <2>1. CASE r = n + 1
    <3>1. x \in new
      OBVIOUS
    <3>2. InOrder(new)[n + 1] = x.event
      BY <1>4, <1>6, <3>1, InOrderAt
    <3> HIDE DEF q, n, new
    <3> QED BY <1>1, <1>7, <2>1, <3>2
  <2>2. CASE r # n + 1
    <3>1. r \in 1 .. Len(q)
      BY <1>3, <1>7, <2>2
    <3>2. PICK y \in es : Rank(es, y) = r /\ q[r] = y.event
      BY <3>1, RankOfEach
    <3>3. y \in new /\ Rank(new, y) = r
      BY <1>5, <3>2
    <3>4. InOrder(new)[r] = y.event
      BY <1>4, <3>3, InOrderAt
    <3> HIDE DEF q, n, new
    <3> QED BY <1>1, <1>7, <3>1, <3>2, <3>4
  <2> QED BY <2>1, <2>2
<1>9. InOrder(new) = Append(q, x.event)
  <2> HIDE DEF q, n, new
  <2>1. Append(q, x.event) \in Seq(ColodEvent) /\ Len(Append(q, x.event)) = n + 1
    BY <1>1, <1>7
  <2> QED BY <1>3, <1>7, <1>8, <2>1, SeqEqual
<1> QED BY <1>4, <1>9

\* What is left of a sequence without its element i.
LEMMA RemoveAtProperties ==
    ASSUME NEW S, NEW q \in Seq(S), NEW i \in 1 .. Len(q)
    PROVE  /\ RemoveAt(q, i) \in Seq(S)
           /\ Len(RemoveAt(q, i)) = Len(q) - 1
           /\ \A j \in 1 .. (Len(q) - 1) :
                RemoveAt(q, i)[j] = IF j < i THEN q[j] ELSE q[j + 1]
<1> DEFINE a == SubSeq(q, 1, i - 1)
           b == SubSeq(q, i + 1, Len(q))
<1>1. a \in Seq(S) /\ Len(a) = i - 1 /\ \A j \in 1 .. (i - 1) : a[j] = q[j]
  OBVIOUS
<1>2. b \in Seq(S) /\ Len(b) = Len(q) - i /\ \A j \in 1 .. (Len(q) - i) : b[j] = q[j + i]
  OBVIOUS
<1>3. RemoveAt(q, i) = a \o b
  BY DEF RemoveAt
<1> HIDE DEF a, b
<1>4. /\ a \o b \in Seq(S)
      /\ Len(a \o b) = Len(a) + Len(b)
      /\ \A j \in 1 .. (Len(a) + Len(b)) :
           (a \o b)[j] = IF j <= Len(a) THEN a[j] ELSE b[j - Len(a)]
  BY <1>1, <1>2, ConcatProperties
<1>5. Len(a) + Len(b) = Len(q) - 1
  BY <1>1, <1>2
<1>6. ASSUME NEW j \in 1 .. (Len(q) - 1)
      PROVE  (a \o b)[j] = IF j < i THEN q[j] ELSE q[j + 1]
  <2>1. CASE j < i
    BY <1>1, <1>4, <1>5, <2>1
  <2>2. CASE ~(j < i)
    <3>1. (a \o b)[j] = b[j - (i - 1)]
      BY <1>1, <1>4, <1>5, <2>2
    <3>2. j - (i - 1) \in 1 .. (Len(q) - i) /\ j - (i - 1) + i = j + 1
      BY <2>2
    <3>3. b[j - (i - 1)] = q[j - (i - 1) + i]
      BY <1>2, <3>2
    <3> QED BY <2>2, <3>1, <3>2, <3>3
  <2> QED BY <2>1, <2>2
<1> QED BY <1>3, <1>4, <1>5, <1>6

\* An entry that leaves is taken out at its rank, and the others stay in order.
LEMMA InOrderRemove ==
    ASSUME NEW es, Numbered(es), NEW h \in es
    PROVE  /\ Numbered(es \ {h})
           /\ InOrder(es \ {h}) = RemoveAt(InOrder(es), Rank(es, h))
<1> DEFINE new == es \ {h}
           n == Cardinality(es)
           q == InOrder(es)
           k == Rank(es, h)
<1>1. \A y \in es : y \in Entry /\ y.seqno \in Nat
  BY DEF Numbered, Entry
<1>2. /\ IsFiniteSet(new) /\ Cardinality(new) = n - 1 /\ n \in Nat
      /\ k \in 1 .. n
  BY FS_RemoveElement, FS_CardinalityType, RankType DEF Numbered
<1>3. Numbered(new)
  BY <1>2 DEF Numbered
<1>4. ASSUME NEW y \in new, y.seqno < h.seqno
      PROVE  Rank(new, y) = Rank(es, y) /\ Rank(es, y) < k
  <2>1. Upto(new, y) = Upto(es, y)
    BY <1>1, <1>4 DEF Upto
  <2>2. y \in es
    OBVIOUS
  <2> QED BY <1>4, <2>1, <2>2, RankDef, RankLess
<1>5. ASSUME NEW y \in new, h.seqno < y.seqno
      PROVE  Rank(es, y) = Rank(new, y) + 1 /\ k < Rank(es, y)
  <2>1. y \in es
    OBVIOUS
  <2>2. Upto(new, y) = Upto(es, y) \ {h} /\ h \in Upto(es, y)
    BY <1>1, <1>5, <2>1 DEF Upto
  <2>3. IsFiniteSet(Upto(es, y)) /\ Rank(es, y) \in Nat
    BY <2>1, RankType
  <2>4. Cardinality(Upto(es, y) \ {h}) = Cardinality(Upto(es, y)) - 1
    BY <2>2, <2>3, FS_RemoveElement
  <2>5. Rank(new, y) = Rank(es, y) - 1
    BY <2>2, <2>4, RankDef
  <2>6. k < Rank(es, y)
    BY <1>5, <2>1, RankLess
  <2> QED BY <2>3, <2>5, <2>6
<1>6. /\ q \in Seq(ColodEvent) /\ Len(q) = n
      /\ InOrder(new) \in Seq(ColodEvent) /\ Len(InOrder(new)) = n - 1
  BY <1>2, <1>3, InOrderAt
<1>7. /\ RemoveAt(q, k) \in Seq(ColodEvent) /\ Len(RemoveAt(q, k)) = n - 1
      /\ \A j \in 1 .. (n - 1) : RemoveAt(q, k)[j] = IF j < k THEN q[j] ELSE q[j + 1]
  <2> HIDE DEF q, n, k
  <2> QED BY <1>2, <1>6, RemoveAtProperties
<1>8. ASSUME NEW j \in 1 .. (n - 1) PROVE InOrder(new)[j] = RemoveAt(q, k)[j]
  <2>1. PICK y \in new : Rank(new, y) = j /\ InOrder(new)[j] = y.event
    BY <1>3, <1>6, RankOfEach
  <2>2. y \in es /\ y # h /\ q[Rank(es, y)] = y.event
    BY InOrderAt
  <2>3. h.seqno \in Nat /\ y.seqno \in Nat /\ h.seqno # y.seqno
    BY <1>1, <2>2 DEF Numbered
  <2>4. CASE y.seqno < h.seqno
    <3>1. Rank(es, y) = j /\ j < k
      BY <1>4, <2>1, <2>4
    <3> QED BY <1>7, <2>1, <2>2, <3>1
  <2>5. CASE h.seqno < y.seqno
    <3>1. Rank(es, y) = j + 1 /\ k < j + 1
      BY <1>5, <2>1, <2>5
    <3>2. ~(j < k)
      BY <1>2, <3>1
    <3> QED BY <1>7, <2>1, <2>2, <3>1, <3>2
  <2> QED BY <2>3, <2>4, <2>5
<1>9. InOrder(new) = RemoveAt(q, k)
  <2> HIDE DEF q, n, new, k
  <2> QED BY <1>2, <1>6, <1>7, <1>8, SeqEqual
<1> QED BY <1>3, <1>9
-----------------------------------------------------------------------------
(* The two ends of a sorted set of entries, at their ranks. *)

\* The entry before all others is the one PriorityFifo takes.
LEMMA FirstAtRank ==
    ASSUME NEW es, Numbered(es), NEW this, NEW h \in es,
           \A y \in es : y # h => Before(this, h, y)
    PROVE  IsFirst(InOrder(es), this, Rank(es, h))
<1> DEFINE q == InOrder(es)
           k == Rank(es, h)
<1>1. \A y \in es : y.seqno \in Nat
  BY DEF Numbered, Entry
<1>2. k \in 1 .. Len(q) /\ q[k] = h.event /\ Len(q) \in Nat
  BY RankType, InOrderAt
<1>3. CASE InterruptingAt(q, this) = {}
  <2>1. \A r \in 1 .. Len(q) : q[r] \notin this
    BY <1>3 DEF InterruptingAt
  <2>2. 1 \in 1 .. Len(q)
    BY <1>2
  <2>3. PICK y \in es : Rank(es, y) = 1 /\ q[1] = y.event
    BY <2>2, RankOfEach
  <2>4. h.event \notin this /\ y.event \notin this
    BY <1>2, <2>1, <2>2, <2>3
  <2>5. y # h => h.seqno < y.seqno
    BY <2>4 DEF Before
  <2>6. y # h => k < 1
    BY <2>3, <2>5, RankLess
  <2>7. k = 1
    BY <1>2, <2>3, <2>6
  <2> QED BY <1>2, <1>3, <2>7 DEF IsFirst
<1>4. CASE InterruptingAt(q, this) # {}
  <2>1. PICK r \in 1 .. Len(q) : q[r] \in this
    BY <1>4 DEF InterruptingAt
  <2>2. PICK y \in es : Rank(es, y) = r /\ q[r] = y.event
    BY RankOfEach
  <2>3. h.event \in this
    BY <2>1, <2>2 DEF Before
  <2>4. ASSUME NEW j \in 1 .. (k - 1) PROVE q[j] \notin this
    <3>1. j \in 1 .. Len(q) /\ j < k
      BY <1>2
    <3>2. PICK z \in es : Rank(es, z) = j /\ q[j] = z.event
      BY <3>1, RankOfEach
    <3>3. z.seqno < h.seqno
      BY <3>1, <3>2, RankLess
    <3>4. z # h /\ ~(h.seqno < z.seqno)
      BY <1>1, <3>3
    <3> QED BY <2>3, <3>2, <3>4 DEF Before
  <2> HIDE DEF q, k
  <2> QED BY <1>2, <1>4, <2>3, <2>4 DEF IsFirst, q, k
<1> QED BY <1>3, <1>4

\* The entry behind all others is the one eventqueue_last promises.
LEMMA LastAtRank ==
    ASSUME NEW es, Numbered(es), NEW this, NEW l \in es,
           \A y \in es : y # l => Before(this, y, l)
    PROVE  LastIs(InOrder(es), this, l.event)
<1> DEFINE q == InOrder(es)
           k == Rank(es, l)
<1>1. \A y \in es : y.seqno \in Nat
  BY DEF Numbered, Entry
<1>2. k \in 1 .. Len(q) /\ q[k] = l.event /\ Len(q) \in Nat
  BY RankType, InOrderAt
<1>3. CASE InterruptingAt(q, this) = 1 .. Len(q)
  <2>1. \A r \in 1 .. Len(q) : q[r] \in this
    BY <1>3 DEF InterruptingAt
  <2>2. Len(q) \in 1 .. Len(q)
    BY <1>2
  <2>3. PICK y \in es : Rank(es, y) = Len(q) /\ q[Len(q)] = y.event
    BY <2>2, RankOfEach
  <2>4. l.event \in this /\ y.event \in this
    BY <1>2, <2>1, <2>2, <2>3
  <2>5. y # l => y.seqno < l.seqno
    BY <2>4 DEF Before
  <2>6. y # l => Len(q) < k
    BY <2>3, <2>5, RankLess
  <2>7. k = Len(q)
    BY <1>2, <2>3, <2>6
  <2>8. IsLast(q, this, k)
    BY <1>2, <1>3, <2>7 DEF IsLast
  <2> QED BY <1>2, <2>8 DEF LastIs
<1>4. CASE InterruptingAt(q, this) # 1 .. Len(q)
  <2>1. PICK r \in 1 .. Len(q) : q[r] \notin this
    BY <1>4 DEF InterruptingAt
  <2>2. PICK y \in es : Rank(es, y) = r /\ q[r] = y.event
    BY RankOfEach
  <2>3. l.event \notin this
    BY <2>1, <2>2 DEF Before
  <2>4. ASSUME NEW j \in (k + 1) .. Len(q) PROVE q[j] \in this
    <3>1. j \in 1 .. Len(q) /\ k < j
      BY <1>2
    <3>2. PICK z \in es : Rank(es, z) = j /\ q[j] = z.event
      BY <3>1, RankOfEach
    <3>3. l.seqno < z.seqno
      BY <3>1, <3>2, RankLess
    <3>4. z # l /\ ~(z.seqno < l.seqno)
      BY <1>1, <3>3
    <3> QED BY <2>3, <3>2, <3>4 DEF Before
  <2> HIDE DEF q, k
  <2>5. IsLast(q, this, k)
    BY <1>2, <1>4, <2>3, <2>4 DEF IsLast
  <2>6. LastIs(q, this, l.event)
    BY <1>2, <2>5 DEF LastIs
  <2> QED BY <2>6 DEF q
<1> QED BY <1>3, <1>4

\* Something interrupts if and only if the first entry does.
LEMMA FirstInterrupts ==
    ASSUME NEW es, Numbered(es), NEW this, NEW h \in es,
           \A y \in es : y # h => Before(this, h, y)
    PROVE  h.event \in this <=> PendingInterrupt(InOrder(es), this)
<1> DEFINE q == InOrder(es)
<1>1. Rank(es, h) \in 1 .. Len(q) /\ q[Rank(es, h)] = h.event
  BY RankType, InOrderAt
<1>2. ASSUME NEW r \in 1 .. Len(q), q[r] \in this PROVE h.event \in this
  <2>1. PICK y \in es : Rank(es, y) = r /\ q[r] = y.event
    BY RankOfEach
  <2> QED BY <1>2, <2>1 DEF Before
<1> QED BY <1>1, <1>2 DEF PendingInterrupt, InterruptingAt
-----------------------------------------------------------------------------
(* The sequence and the set of its entries. *)

\* No two entries have the same number; Ordered says so of entries of one
\* class only.
Distinct(s) == \A i, j \in 1 .. Len(s) : s[i].seqno = s[j].seqno => i = j

\* The inductive invariant of the refinement.
RInv == IInv /\ Distinct(sequence)

LEMMA ToSetIs ==
    ASSUME NEW s \in Seq(Entry)
    PROVE  ToSet(s) = {s[i] : i \in 1 .. Len(s)}
  BY DEF ToSet

LEMMA EntriesNumbered ==
    ASSUME NEW s \in Seq(Entry), Distinct(s)
    PROVE  Numbered(ToSet(s)) /\ Cardinality(ToSet(s)) = Len(s)
<1> DEFINE n == Len(s)
           f == [i \in 1 .. n |-> s[i]]
<1>1. n \in Nat /\ \A i \in 1 .. n : s[i] \in Entry
  OBVIOUS
<1>2. IsFiniteSet(1 .. n) /\ Cardinality(1 .. n) = n
  <2> HIDE DEF n
  <2>1. 1 \in Int /\ n \in Int
    BY <1>1
  <2>2. /\ IsFiniteSet(1 .. n)
        /\ Cardinality(1 .. n) = IF 1 > n THEN 0 ELSE n - 1 + 1
    BY <2>1, FS_Interval
  <2> QED BY <1>1, <2>2
<1>3. f \in Surjection(1 .. n, ToSet(s))
  BY ToSetIs DEF Surjection
<1>4. f \in Injection(1 .. n, ToSet(s))
  BY ToSetIs DEF Injection, IsInjective, Distinct
<1>5. IsFiniteSet(ToSet(s)) /\ Cardinality(ToSet(s)) = n
  <2> HIDE DEF f, n
  <2> QED BY <1>2, <1>3, <1>4, FS_Surjection
<1>6. ToSet(s) \subseteq Entry
  BY <1>1, ToSetIs
<1>7. ASSUME NEW x \in ToSet(s), NEW y \in ToSet(s), x.seqno = y.seqno PROVE x = y
  <2>1. PICK i \in 1 .. n : x = s[i]
    BY ToSetIs
  <2>2. PICK j \in 1 .. n : y = s[j]
    BY ToSetIs
  <2>3. i = j
    BY <1>7, <2>1, <2>2 DEF Distinct
  <2> QED BY <2>1, <2>2, <2>3
<1> QED BY <1>5, <1>6, <1>7 DEF Numbered

\* The list of PriorityFifo is as long as the sequence.
LEMMA ArrivalIs ==
    ASSUME RInv
    PROVE  /\ sequence \in Seq(Entry) /\ Numbered(ToSet(sequence))
           /\ Arrival = InOrder(ToSet(sequence))
           /\ Arrival \in Seq(ColodEvent) /\ Len(Arrival) = used
<1>1. sequence \in Seq(Entry) /\ Distinct(sequence) /\ used = Len(sequence)
  BY DEF RInv, IInv, TypeOK
<1> QED BY <1>1, EntriesNumbered, InOrderAt DEF Arrival

\* The head of the sequence comes before the other entries.
LEMMA HeadBefore ==
    ASSUME RInv, used # 0
    PROVE  /\ sequence[1] \in ToSet(sequence)
           /\ \A y \in ToSet(sequence) :
                y # sequence[1] => Before(interrupting, sequence[1], y)
<1>1. sequence \in Seq(Entry) /\ used = Len(sequence) /\ Len(sequence) \in Nat
  BY DEF RInv, IInv, TypeOK
<1>2. 1 \in 1 .. Len(sequence)
  BY <1>1
<1>3. sequence[1] \in ToSet(sequence)
  BY <1>1, <1>2, ToSetIs
<1>4. ASSUME NEW y \in ToSet(sequence), y # sequence[1]
      PROVE  Before(interrupting, sequence[1], y)
  <2>1. PICK i \in 1 .. Len(sequence) : y = sequence[i]
    BY <1>1, ToSetIs
  <2>2. 1 < i
    BY <1>1, <1>4, <2>1
  <2> QED BY <1>2, <2>1, <2>2 DEF RInv, IInv, Ordered
<1> QED BY <1>3, <1>4

LEMMA LastBehind ==
    ASSUME RInv, used # 0
    PROVE  /\ sequence[Len(sequence)] \in ToSet(sequence)
           /\ \A y \in ToSet(sequence) :
                y # sequence[Len(sequence)]
                  => Before(interrupting, y, sequence[Len(sequence)])
<1> DEFINE n == Len(sequence)
<1>1. sequence \in Seq(Entry) /\ used = n /\ n \in Nat
  BY DEF RInv, IInv, TypeOK
<1>2. n \in 1 .. n
  BY <1>1
<1>3. sequence[n] \in ToSet(sequence)
  BY <1>1, <1>2, ToSetIs
<1>4. ASSUME NEW y \in ToSet(sequence), y # sequence[n]
      PROVE  Before(interrupting, y, sequence[n])
  <2>1. PICK i \in 1 .. n : y = sequence[i]
    BY <1>1, ToSetIs
  <2>2. i < n
    BY <1>1, <1>4, <2>1
  <2> QED BY <1>2, <2>1, <2>2 DEF RInv, IInv, Ordered
<1> QED BY <1>3, <1>4

LEMMA RInvQueries == RInv => QueriesAgree
<1> SUFFICES ASSUME RInv PROVE QueriesAgree
  OBVIOUS
<1> DEFINE es == ToSet(sequence)
<1>1. Numbered(es) /\ Arrival = InOrder(es) /\ Arrival \in Seq(ColodEvent) /\ Len(Arrival) = used
  BY ArrivalIs
<1>2. CASE used = 0
  <2>1. ~PendingInterrupt(Arrival, interrupting)
    BY <1>1, <1>2 DEF PendingInterrupt, InterruptingAt
  <2> QED BY <1>2, <2>1 DEF QueriesAgree, eventqueue_pending_interrupt
<1>3. CASE used # 0
  <2>1. LastIs(Arrival, interrupting, eventqueue_last)
    BY <1>1, <1>3, LastBehind, LastAtRank DEF eventqueue_last
  <2>2. sequence[1].event \in interrupting <=> PendingInterrupt(Arrival, interrupting)
    BY <1>1, <1>3, HeadBefore, FirstInterrupts
  <2> QED BY <1>3, <2>1, <2>2 DEF QueriesAgree, eventqueue_pending_interrupt
<1> QED BY <1>2, <1>3
-----------------------------------------------------------------------------
(* Each call, as the sequence and as the list. *)

\* PriorityFifo uses the operators of ColodEvents that EventQueue uses.
LEMMA SameOperators ==
    ASSUME NEW q, NEW this, NEW i
    PROVE  /\ Fifo!AlwaysInterrupting = AlwaysInterrupting
           /\ Fifo!IsFirst(q, this, i) <=> IsFirst(q, this, i)
           /\ Fifo!RemoveAt(q, i) = RemoveAt(q, i)
<1>1. Fifo!AlwaysInterrupting = AlwaysInterrupting
  BY DEF Fifo!AlwaysInterrupting, AlwaysInterrupting
<1>2. Fifo!InterruptingAt(q, this) = InterruptingAt(q, this)
  BY DEF Fifo!InterruptingAt, InterruptingAt
<1>3. Fifo!IsFirst(q, this, i) <=> IsFirst(q, this, i)
  BY <1>2 DEF Fifo!IsFirst, IsFirst
<1>4. Fifo!RemoveAt(q, i) = RemoveAt(q, i)
  BY DEF Fifo!RemoveAt, RemoveAt
<1> QED BY <1>1, <1>3, <1>4

LEMMA AddMaps ==
    ASSUME RInv, NEW e \in Events, eventqueue_add(e)
    PROVE  Distinct(sequence') /\ Fifo!Add(e)
<1>0. Len(Arrival) = used /\ interrupting' = interrupting
  BY ArrivalIs DEF eventqueue_add
<1>1. CASE used = Size
  <2>1. sequence' = sequence /\ ret' = "full"
    BY <1>1 DEF eventqueue_add
  <2>2. Arrival' = Arrival
    BY <2>1 DEF Arrival
  <2> QED BY <1>0, <1>1, <2>1, <2>2 DEF Fifo!Add, RInv
<1>2. CASE used # Size
  <2> DEFINE n == Len(sequence)
             x == [event |-> e, seqno |-> seq_counter]
  <2>1. /\ sequence \in Seq(Entry) /\ n \in Nat /\ seq_counter \in Nat
        /\ \A i \in 1 .. n : sequence[i] \in Entry
    BY DEF RInv, IInv, TypeOK
  <2>2. \A i \in 1 .. n : sequence[i].seqno \in Nat /\ sequence[i].seqno < seq_counter
    BY <2>1 DEF RInv, IInv, Entry
  <2>3. x \in Entry /\ x.event = e /\ x.seqno = seq_counter
    BY <2>1, QueueAssumption DEF Entry
  <2>4. PICK k \in 1 .. (n + 1) : InsertSorted(x, k)
    BY <1>2 DEF eventqueue_add
  <2>5. ret' = "added"
    BY <1>2 DEF eventqueue_add
  <2> HIDE DEF x
  <2>6. sequence' = [i \in 1 .. (n + 1) |->
                       IF i < k THEN sequence[i] ELSE IF i = k THEN x ELSE sequence[i - 1]]
    BY <2>4 DEF InsertSorted
  <2>7. sequence' \in Seq(Entry) /\ Len(sequence') = n + 1
    <3>1. \A i \in 1 .. (n + 1) :
            (IF i < k THEN sequence[i] ELSE IF i = k THEN x ELSE sequence[i - 1]) \in Entry
      BY <2>1, <2>3
    <3> QED BY <2>1, <2>6, <3>1
  <2>8. ASSUME NEW i \in 1 .. (n + 1)
        PROVE  \/ i < k /\ i \in 1 .. n /\ sequence'[i] = sequence[i]
               \/ i = k /\ sequence'[i] = x
               \/ i > k /\ i - 1 \in 1 .. n /\ sequence'[i] = sequence[i - 1]
    BY <2>1, <2>6
  <2>9. Distinct(sequence')
    <3> SUFFICES ASSUME NEW i \in 1 .. (n + 1), NEW j \in 1 .. (n + 1),
                        sequence'[i].seqno = sequence'[j].seqno
                 PROVE  i = j
      BY <2>7 DEF Distinct
    <3>1. \A a \in 1 .. n : sequence[a].seqno # x.seqno
      BY <2>1, <2>2, <2>3
    <3>2. \A a, b \in 1 .. n : sequence[a].seqno = sequence[b].seqno => a = b
      BY DEF RInv, Distinct
    <3>3. CASE i = k
      <4>1. sequence'[i] = x
        BY <2>8, <3>3
      <4>2. j = k \/ \E a \in 1 .. n : sequence'[j] = sequence[a]
        BY <2>8
      <4> QED BY <3>1, <3>3, <4>1, <4>2
    <3>4. CASE j = k
      <4>1. sequence'[j] = x
        BY <2>8, <3>4
      <4>2. i = k \/ \E a \in 1 .. n : sequence'[i] = sequence[a]
        BY <2>8
      <4> QED BY <3>1, <3>4, <4>1, <4>2
    <3>5. CASE i < k /\ j < k
      <4>1. i \in 1 .. n /\ sequence'[i] = sequence[i]
        BY <2>8, <3>5
      <4>2. j \in 1 .. n /\ sequence'[j] = sequence[j]
        BY <2>8, <3>5
      <4>3. i = j
        BY <3>2, <4>1, <4>2
      <4> QED BY <3>5, <4>3
    <3>6. CASE i < k /\ j > k
      <4>1. i \in 1 .. n /\ sequence'[i] = sequence[i]
        BY <2>8, <3>6
      <4>2. j - 1 \in 1 .. n /\ sequence'[j] = sequence[j - 1]
        BY <2>8, <3>6
      <4>3. i = j - 1
        BY <3>2, <4>1, <4>2
      <4> QED BY <3>6, <4>3
    <3>7. CASE i > k /\ j < k
      <4>1. i - 1 \in 1 .. n /\ sequence'[i] = sequence[i - 1]
        BY <2>8, <3>7
      <4>2. j \in 1 .. n /\ sequence'[j] = sequence[j]
        BY <2>8, <3>7
      <4>3. i - 1 = j
        BY <3>2, <4>1, <4>2
      <4> QED BY <3>7, <4>3
    <3>8. CASE i > k /\ j > k
      <4>1. i - 1 \in 1 .. n /\ sequence'[i] = sequence[i - 1]
        BY <2>8, <3>8
      <4>2. j - 1 \in 1 .. n /\ sequence'[j] = sequence[j - 1]
        BY <2>8, <3>8
      <4>3. i - 1 = j - 1
        BY <3>2, <4>1, <4>2
      <4> QED BY <3>8, <4>3
    <3> QED BY <3>3, <3>4, <3>5, <3>6, <3>7, <3>8
  <2>10. ToSet(sequence') = ToSet(sequence) \cup {x}
    <3>1. ToSet(sequence') = {sequence'[i] : i \in 1 .. (n + 1)}
      BY <2>7, ToSetIs
    <3>2. ToSet(sequence) = {sequence[i] : i \in 1 .. n}
      BY <2>1, ToSetIs
    <3>3. ASSUME NEW i \in 1 .. (n + 1) PROVE sequence'[i] \in ToSet(sequence) \cup {x}
      BY <2>8, <3>2
    <3>4. x \in ToSet(sequence')
      BY <2>1, <2>8, <3>1
    <3>5. ASSUME NEW i \in 1 .. n PROVE sequence[i] \in ToSet(sequence')
      <4>1. CASE i < k
        <5>1. i \in 1 .. (n + 1) /\ sequence'[i] = sequence[i]
          BY <2>1, <2>6, <4>1
        <5> QED BY <3>1, <5>1
      <4>2. CASE ~(i < k)
        <5>1. i + 1 \in 1 .. (n + 1) /\ sequence'[i + 1] = sequence[i]
          BY <2>1, <2>6, <4>2
        <5> QED BY <3>1, <5>1
      <4> QED BY <4>1, <4>2
    <3> QED BY <3>1, <3>2, <3>3, <3>4, <3>5
  <2>11. \A y \in ToSet(sequence) : y.seqno < x.seqno
    BY <2>1, <2>2, <2>3, ToSetIs
  <2>12. Arrival' = Append(Arrival, e)
    <3>1. Numbered(ToSet(sequence)) /\ Arrival = InOrder(ToSet(sequence))
      BY ArrivalIs
    <3>2. InOrder(ToSet(sequence) \cup {x}) = Append(InOrder(ToSet(sequence)), x.event)
      BY <2>3, <2>11, <3>1, InOrderAdd
    <3>3. Arrival' = InOrder(ToSet(sequence) \cup {x})
      BY <2>10 DEF Arrival
    <3> QED BY <2>3, <3>1, <3>2, <3>3
  <2> QED BY <1>0, <1>2, <2>5, <2>9, <2>12 DEF Fifo!Add
<1> QED BY <1>1, <1>2

LEMMA RemoveMaps ==
    ASSUME RInv, eventqueue_remove
    PROVE  Distinct(sequence') /\ Fifo!Take
<1>0. Len(Arrival) = used /\ Arrival \in Seq(ColodEvent) /\ interrupting' = interrupting
  BY ArrivalIs DEF eventqueue_remove
<1>1. CASE used = 0
  <2>1. sequence' = sequence /\ ret' = "null"
    BY <1>1 DEF eventqueue_remove
  <2>2. Arrival' = Arrival
    BY <2>1 DEF Arrival
  <2>3. Arrival = << >>
    BY <1>0, <1>1
  <2> QED BY <1>0, <2>1, <2>2, <2>3 DEF Fifo!Take, RInv
<1>2. CASE used # 0
  <2> DEFINE n == Len(sequence)
             h == sequence[1]
             es == ToSet(sequence)
             k == Rank(es, h)
  <2>1. /\ sequence \in Seq(Entry) /\ n \in Nat \ {0}
        /\ sequence' = Tail(sequence) /\ ret' = h.event
    BY <1>2 DEF eventqueue_remove, RInv, IInv, TypeOK
  <2>2. /\ sequence' \in Seq(Entry) /\ Len(sequence') = n - 1
        /\ \A i \in 1 .. (n - 1) : sequence'[i] = sequence[i + 1]
    BY <2>1
  <2>3. \A a, b \in 1 .. n : sequence[a].seqno = sequence[b].seqno => a = b
    BY DEF RInv, Distinct
  <2>4. Distinct(sequence')
    BY <2>1, <2>2, <2>3 DEF Distinct
  <2>5. ToSet(sequence') = es \ {h}
    <3>1. ToSet(sequence') = {sequence'[i] : i \in 1 .. (n - 1)}
      BY <2>2, ToSetIs
    <3>2. es = {sequence[i] : i \in 1 .. n}
      BY <2>1, ToSetIs
    <3>3. ASSUME NEW i \in 1 .. (n - 1) PROVE sequence'[i] \in es \ {h}
      <4>1. i + 1 \in 1 .. n /\ 1 \in 1 .. n /\ i + 1 # 1
        BY <2>1
      <4>2. sequence[i + 1] # sequence[1]
        BY <2>3, <4>1
      <4> QED BY <2>2, <3>2, <4>1, <4>2
    <3>4. ASSUME NEW i \in 1 .. n, sequence[i] # h PROVE sequence[i] \in ToSet(sequence')
      <4>1. i - 1 \in 1 .. (n - 1) /\ (i - 1) + 1 = i
        BY <2>1, <3>4
      <4> QED BY <2>2, <3>1, <4>1
    <3> HIDE DEF h, es
    <3> QED BY <3>1, <3>2, <3>3, <3>4
  <2>6. Numbered(es) /\ Arrival = InOrder(es) /\ h \in es
    BY <1>2, ArrivalIs, HeadBefore
  <2>7. Arrival' = RemoveAt(Arrival, k)
    BY <2>5, <2>6, InOrderRemove DEF Arrival
  <2>8. IsFirst(Arrival, interrupting, k)
    BY <1>2, <2>6, HeadBefore, FirstAtRank
  <2>9. k \in 1 .. Len(Arrival) /\ Arrival[k] = ret'
    BY <2>1, <2>6, RankType, InOrderAt
  <2>10. Arrival # << >>
    BY <1>0, <1>2
  <2> HIDE DEF k
  <2>11. Fifo!IsFirst(Arrival, interrupting, k) /\ Arrival' = Fifo!RemoveAt(Arrival, k)
    BY <2>7, <2>8, SameOperators
  <2> QED BY <1>0, <2>4, <2>9, <2>10, <2>11 DEF Fifo!Take
<1> QED BY <1>1, <1>2

LEMMA SetInterruptingMaps ==
    ASSUME RInv, NEW s \in InterruptSets, eventqueue_set_interrupting(s)
    PROVE  Distinct(sequence') /\ Fifo!SetInterrupting(s)
<1> DEFINE n == Len(sequence)
<1>1. sequence \in Seq(Entry) /\ n \in Nat
  BY DEF RInv, IInv, TypeOK
<1>2. PICK p \in [1 .. n -> 1 .. n] :
        /\ \A i, j \in 1 .. n : p[i] = p[j] => i = j
        /\ sequence' = [i \in 1 .. n |-> sequence[p[i]]]
  BY DEF eventqueue_set_interrupting
<1>3. /\ sequence' \in Seq(Entry) /\ Len(sequence') = n
      /\ \A i \in 1 .. n : sequence'[i] = sequence[p[i]]
  BY <1>1, <1>2
<1>4. Distinct(sequence')
  <2>1. \A a, b \in 1 .. n : sequence[a].seqno = sequence[b].seqno => a = b
    BY DEF RInv, Distinct
  <2> SUFFICES ASSUME NEW i \in 1 .. n, NEW j \in 1 .. n,
                      sequence'[i].seqno = sequence'[j].seqno
               PROVE  i = j
    BY <1>3 DEF Distinct
  <2>2. p[i] \in 1 .. n /\ p[j] \in 1 .. n
    OBVIOUS
  <2>3. p[i] = p[j]
    BY <1>3, <2>1, <2>2
  <2> QED BY <1>2, <2>3
<1>5. p \in Surjection(1 .. n, 1 .. n)
  <2>1. IsFiniteSet(1 .. n)
    BY <1>1, FS_Interval
  <2>2. p \in Injection(1 .. n, 1 .. n)
    BY <1>2 DEF Injection, IsInjective
  <2> HIDE DEF n
  <2> QED BY <2>1, <2>2, FS_Injection
<1>6. ToSet(sequence') = ToSet(sequence)
  <2>1. ToSet(sequence') = {sequence'[i] : i \in 1 .. n}
    BY <1>3, ToSetIs
  <2>2. ToSet(sequence) = {sequence[i] : i \in 1 .. n}
    BY <1>1, ToSetIs
  <2>3. ASSUME NEW i \in 1 .. n PROVE sequence'[i] \in ToSet(sequence)
    BY <1>2, <1>3, <2>2
  <2>4. ASSUME NEW i \in 1 .. n PROVE sequence[i] \in ToSet(sequence')
    <3>1. PICK j \in 1 .. n : p[j] = i
      BY <1>5 DEF Surjection
    <3> QED BY <1>3, <2>1, <3>1
  <2> QED BY <2>1, <2>2, <2>3, <2>4
<1>7. Arrival' = Arrival
  BY <1>6 DEF Arrival
<1> QED BY <1>4, <1>7, SameOperators DEF Fifo!SetInterrupting, eventqueue_set_interrupting

LEMMA InitRInv == Init => RInv /\ Fifo!Init
<1> SUFFICES ASSUME Init PROVE RInv /\ Fifo!Init
  OBVIOUS
<1>1. RInv
  BY InitIInv DEF Init, RInv, Distinct
<1>2. Len(Arrival) = 0 /\ Arrival \in Seq(ColodEvent)
  BY <1>1, ArrivalIs DEF Init
<1>3. Arrival = << >>
  BY <1>2
<1> QED BY <1>1, <1>3, SameOperators DEF Init, Fifo!Init

LEMMA NextMaps ==
    ASSUME RInv, [Next]_vars
    PROVE  RInv' /\ [Fifo!Next]_(Fifo!vars)
<1>0. IInv
  BY DEF RInv
<1>1. ASSUME NEW e \in Events, eventqueue_add(e)
      PROVE  RInv' /\ [Fifo!Next]_(Fifo!vars)
  <2>1. IInv'
    BY <1>0, <1>1, AddIInv
  <2>2. Distinct(sequence') /\ Fifo!Add(e)
    BY <1>1, AddMaps
  <2> QED BY <2>1, <2>2 DEF RInv, Fifo!Next
<1>2. CASE eventqueue_remove
  <2>1. IInv'
    BY <1>0, <1>2, RemoveIInv
  <2>2. Distinct(sequence') /\ Fifo!Take
    BY <1>2, RemoveMaps
  <2> QED BY <2>1, <2>2 DEF RInv, Fifo!Next
<1>3. ASSUME NEW s \in InterruptSets, eventqueue_set_interrupting(s)
      PROVE  RInv' /\ [Fifo!Next]_(Fifo!vars)
  <2>1. IInv'
    BY <1>0, <1>3, SetInterruptingIInv
  <2>2. Distinct(sequence') /\ Fifo!SetInterrupting(s)
    BY <1>3, SetInterruptingMaps
  <2> QED BY <2>1, <2>2 DEF RInv, Fifo!Next
<1>4. CASE UNCHANGED vars
  <2>1. IInv'
    BY <1>0, <1>4 DEF IInv, TypeOK, Ordered, vars
  <2>2. Distinct(sequence') /\ UNCHANGED Fifo!vars
    BY <1>4 DEF vars, Fifo!vars, Arrival, RInv
  <2> QED BY <2>1, <2>2 DEF RInv
<1> QED BY <1>1, <1>2, <1>3, <1>4 DEF Next

\* The sequence stays sorted and its numbers stay distinct.
THEOREM RefinementInvariant == Spec => []RInv
  BY InitRInv, NextMaps, PTL DEF Spec

\* eventqueue_last gives the youngest event that does not interrupt, and
\* eventqueue_pending_interrupt finds any interrupting event although it
\* looks at the head alone, after any sequence of calls.
THEOREM QueriesCorrect == Spec => []QueriesAgree
  BY RefinementInvariant, RInvQueries, PTL

\* The sorted GSequence of eventqueue.c, of any size, implements the priority
\* FIFO that the main coroutine relies on: every call returns what the FIFO
\* returns and leaves the FIFO's list behind.
THEOREM FifoImplemented == Spec => ImplementsFifo
<1>1. RInv /\ [Next]_vars => [Fifo!Next]_(Fifo!vars)
  BY NextMaps
<1> QED BY <1>1, InitRInv, RefinementInvariant, PTL DEF Spec, ImplementsFifo, Fifo!Spec
=============================================================================
