----------------------------- MODULE MCRobQueue -----------------------------
(* RobQueue for TLC: two instructions told apart by their destination, and a *)
(* branch.                                                                   *)
EXTENDS RobQueue

A == Decoded(1, 0, FALSE)
Br == Decoded(0, 0, TRUE)
Pair(u, v) == [i \in 1..RENAME_WIDTH |-> IF i = 1 THEN u ELSE v]

\* A full group, a group with a gap, and a bubble.
MCGroups == {Bubble, Pair(A, Br), Pair(NoUop, A)}
=============================================================================
