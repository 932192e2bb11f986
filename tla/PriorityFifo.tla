---------------------------- MODULE PriorityFifo ----------------------------
(***************************************************************************)
(* What the event queue promises to the main coroutine: events come out in *)
(* the order in which they went in, except that an event that interrupts   *)
(* at the time it is taken overtakes the ones that do not; a full queue    *)
(* refuses the event and changes nothing.  `ret' is the value the last     *)
(* call returned.                                                          *)
(***************************************************************************)
EXTENDS ColodEvents

CONSTANTS Events, InterruptSets, Size      \* as in module EventQueue

VARIABLES list, interrupting, ret

vars == <<list, interrupting, ret>>

Init == list = << >> /\ interrupting = AlwaysInterrupting /\ ret = "none"

Add(e) ==
    /\ IF Len(list) = Size
       THEN list' = list /\ ret' = "full"
       ELSE list' = Append(list, e) /\ ret' = "added"
    /\ UNCHANGED interrupting

Take ==
    /\ IF list = << >>
       THEN list' = list /\ ret' = "null"
       ELSE \E i \in 1 .. Len(list) :
              /\ IsFirst(list, interrupting, i)
              /\ list' = RemoveAt(list, i)
              /\ ret' = list[i]
    /\ UNCHANGED interrupting

SetInterrupting(s) ==
    /\ interrupting' = AlwaysInterrupting \cup s
    /\ ret' = "none"
    /\ UNCHANGED list

Next == \/ \E e \in Events : Add(e)
        \/ Take
        \/ \E s \in InterruptSets : SetInterrupting(s)

Spec == Init /\ [][Next]_vars
=============================================================================
