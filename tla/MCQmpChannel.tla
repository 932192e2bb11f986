---------------------------- MODULE MCQmpChannel ----------------------------
(* Two coroutines of a daemon that use the QMP client. *)
EXTENDS QmpChannel, TLC

CONSTANTS u1, u2

\* The yank channel drops its events, so only those of the main one are sent.
MainEvents == [c \in Channel |-> IF c = "main" THEN 2 ELSE 0]
NoEvents == [c \in Channel |-> 0]

UserSymmetry == Permutations({u1, u2})
=============================================================================
