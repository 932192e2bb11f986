------------------------------ MODULE EventQueue ------------------------------
(***************************************************************************)
(* eventqueue.c: a bounded GSequence of events that is kept sorted by      *)
(* (interrupting first, then sequence number), with a set of interrupting  *)
(* events that the coroutine replaces whenever it enters another state.    *)
(* The variables are the fields of struct EventQueue, and `ret' is what    *)
(* the last call returned.                                                 *)
(***************************************************************************)
EXTENDS ColodEvents, Integers, FiniteSets

CONSTANTS
    Events,        \* the events that are added
    InterruptSets, \* the arguments of eventqueue_set_interrupting
    Size,          \* argument of eventqueue_new (32 in main_coroutine.c)
    IntMax,        \* G_MAXINT, the largest value the comparator can return
    MaxSeqno       \* bound on the number of events added

ASSUME QueueAssumption ==
    /\ Events \subseteq ColodEvent
    /\ InterruptSets \subseteq SUBSET ColodEvent
    /\ Size \in Nat
    /\ IntMax \in Nat
    /\ MaxSeqno \in Nat
    /\ MaxSeqno <= IntMax

VARIABLES sequence, seq_counter, used, interrupting, ret

vars == <<sequence, seq_counter, used, interrupting, ret>>

Entry == [event : ColodEvent, seqno : Nat]

\* A guint64 difference that eventqueue_sort returns as a gint: it is reduced
\* modulo 2 * (IntMax + 1) into -(IntMax + 1) .. IntMax.
ToInt(d) ==
    ((d + IntMax + 1) % (2 * (IntMax + 1))) - (IntMax + 1)

\* Mutation: events of one class compare in reverse order of arrival.
EventqueueSortReversed(this, a, b) ==
    IF (a.event \in this) # (b.event \in this)
    THEN IF a.event \in this THEN -1 ELSE 1
    ELSE ToInt(b.seqno - a.seqno)

\* Mutation: the order of arrival alone decides.
EventqueueSortSeqno(this, a, b) == ToInt(a.seqno - b.seqno)

\* The comparator; `this' is the interrupting set of the queue.
eventqueue_sort(this, a, b) ==
    IF (a.event \in this) # (b.event \in this)
    THEN IF a.event \in this THEN -1 ELSE 1
    ELSE ToInt(a.seqno - b.seqno)

Sorted(this, s) ==
    \A i, j \in 1 .. Len(s) : i < j => eventqueue_sort(this, s[i], s[j]) < 0
-----------------------------------------------------------------------------
Init ==
    /\ sequence = << >>
    /\ seq_counter = 0
    /\ used = 0
    /\ interrupting = AlwaysInterrupting
    /\ ret = "none"

\* g_sequence_insert_sorted of entry x at position k, behind all entries that
\* do not compare greater than x.
InsertSorted(x, k) ==
    /\ \A i \in 1 .. Len(sequence) :
           eventqueue_sort(interrupting, sequence[i], x) <= 0 <=> i < k
    /\ sequence' = [i \in 1 .. (Len(sequence) + 1) |->
                      IF i < k THEN sequence[i]
                      ELSE IF i = k THEN x ELSE sequence[i - 1]]

\* Mutation: the limit is tested after the entry is counted.
AddUnchecked(e) ==
    /\ seq_counter < MaxSeqno
    /\ \E k \in 1 .. (Len(sequence) + 1) :
         InsertSorted([event |-> e, seqno |-> seq_counter], k)
    /\ seq_counter' = seq_counter + 1
    /\ used' = used + 1
    /\ ret' = IF used = Size THEN "full" ELSE "added"
    /\ UNCHANGED interrupting

eventqueue_add(e) ==
    /\ IF used = Size
       THEN /\ ret' = "full"
            /\ UNCHANGED <<sequence, seq_counter, used>>
       ELSE /\ seq_counter < MaxSeqno
            /\ \E k \in 1 .. (Len(sequence) + 1) :
                 InsertSorted([event |-> e, seqno |-> seq_counter], k)
            /\ seq_counter' = seq_counter + 1
            /\ used' = used + 1
            /\ ret' = "added"
    /\ UNCHANGED interrupting

eventqueue_remove ==
    /\ IF used = 0
       THEN /\ ret' = "null"
            /\ UNCHANGED <<sequence, used>>
       ELSE /\ ret' = sequence[1].event
            /\ sequence' = Tail(sequence)
            /\ used' = used - 1
    /\ UNCHANGED <<seq_counter, interrupting>>

\* Mutation: the set changes, and the sequence keeps its old order.
SetInterruptingUnsorted(s) ==
    /\ interrupting' = AlwaysInterrupting \cup s
    /\ ret' = "none"
    /\ UNCHANGED <<sequence, seq_counter, used>>

\* Back to the events that always interrupt, plus s; then g_sequence_sort.
eventqueue_set_interrupting(s) ==
    /\ interrupting' = AlwaysInterrupting \cup s
    /\ \E p \in [1 .. Len(sequence) -> 1 .. Len(sequence)] :
         /\ \A i, j \in 1 .. Len(sequence) : p[i] = p[j] => i = j
         /\ sequence' = [i \in 1 .. Len(sequence) |-> sequence[p[i]]]
         /\ Sorted(interrupting', sequence')
    /\ ret' = "none"
    /\ UNCHANGED <<seq_counter, used>>

Next ==
    \/ \E e \in Events : eventqueue_add(e)
    \/ eventqueue_remove
    \/ \E s \in InterruptSets : eventqueue_set_interrupting(s)

Spec == Init /\ [][Next]_vars
-----------------------------------------------------------------------------
\* The calls that do not change the queue.

eventqueue_pending == used # 0

eventqueue_pending_interrupt == used # 0 /\ sequence[1].event \in interrupting

\* Mutation: reads the first entry for the last.
EventqueueLastFirst == sequence[1].event

eventqueue_last == sequence[Len(sequence)].event
-----------------------------------------------------------------------------
\* The fields are of their types, and no more than Size entries are counted.
TypeOK ==
    /\ sequence \in Seq(Entry)
    /\ seq_counter \in Nat
    /\ used \in 0 .. Size
    /\ interrupting \in SUBSET ColodEvent
    /\ ret \in ColodEvent \cup {"none", "null", "added", "full"}

\* The entry at the head, which eventqueue_peek and eventqueue_remove give, is
\* the oldest of its class, and it interrupts if any queued event does: no
\* sequence of additions, removals and changes of the interrupting set makes
\* the main coroutine overlook an interrupting event or take two of a class
\* out of order.
HeadIsFirst ==
    \A i \in 2 .. Len(sequence) :
        /\ sequence[i].event \in interrupting => sequence[1].event \in interrupting
        /\ (sequence[i].event \in interrupting <=> sequence[1].event \in interrupting)
             => sequence[1].seqno < sequence[i].seqno

\* `used', against which the limit is tested, counts the entries of the
\* sequence, so that no more than Size events are ever held.
UsedIsLength == used = Len(sequence) /\ Len(sequence) <= Size

\* The place of entry x among the entries es, and the events of these, in
\* order of arrival.
Rank(es, x) == Cardinality({y \in es : y.seqno <= x.seqno})

InOrder(es) == [r \in 1 .. Cardinality(es) |-> (CHOOSE x \in es : Rank(es, x) = r).event]

\* The queued events in order of arrival, the state of PriorityFifo.
Arrival == InOrder(ToSet(sequence))

\* The event that rate limiting compares with (eventqueue_last) is the
\* youngest event that does not interrupt, or the youngest of all; the test
\* for a pending interrupt looks at the head alone, and finds any
\* interrupting event there is.
QueriesAgree ==
    /\ used # 0 => LastIs(Arrival, interrupting, eventqueue_last)
    /\ eventqueue_pending_interrupt <=> PendingInterrupt(Arrival, interrupting)

\* The sorted sequence implements the priority FIFO, which has no sort and no
\* sequence numbers: this is the queue that module MainCoroutine uses.
Fifo == INSTANCE PriorityFifo WITH list <- Arrival

ImplementsFifo == Fifo!Spec
=============================================================================
