------------------------------ MODULE YellowLink ------------------------------
(***************************************************************************)
(* What a yellow coroutine promises the rest of its daemon: it goes round  *)
(* the link states of ColodEvents, tells the peer before it tells the main *)
(* coroutine, and takes back what it told the peer if the link changes     *)
(* again, or if it is asked to quit, before the main coroutine knows.      *)
(***************************************************************************)
EXTENDS ColodEvents

CONSTANT Daemons

VARIABLES
    link,   \* per daemon, the link state
    said,   \* per daemon, the last message of the coroutine
    told    \* per daemon, the last event the main coroutine was notified of

vars == <<link, said, told>>

Init ==
    /\ link = [n \in Daemons |-> "green"]
    /\ said = [n \in Daemons |-> "none"]
    /\ told = [n \in Daemons |-> "none"]

\* The peer is told of a change.
Tell(n) ==
    \E t \in LinkTransition :
        /\ link[n] = t[1]
        /\ link' = [link EXCEPT ![n] = t[3]]
        /\ said' = [said EXCEPT ![n] = t[4]]
        /\ UNCHANGED told

\* The main coroutine is notified of the same change.
Notify(n) ==
    /\ link[n] \in {"to_yellow", "to_green"}
    /\ link' = [link EXCEPT ![n] = IF @ = "to_yellow" THEN "yellow" ELSE "green"]
    /\ told' = [told EXCEPT ![n] = said[n]]
    /\ UNCHANGED said

Quit(n) ==
    /\ link[n] # "off"
    /\ link' = [link EXCEPT ![n] = "off"]
    /\ said' = [said EXCEPT ![n] =
                  IF Revert(link[n]) = << >> THEN @ ELSE Head(Revert(link[n]))]
    /\ UNCHANGED told

Next == \E n \in Daemons : Tell(n) \/ Notify(n) \/ Quit(n)

Spec == Init /\ [][Next]_vars
=============================================================================
