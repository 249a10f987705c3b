--------------------------- MODULE MCRenameCommit ---------------------------
(* RenameCommit for TLC: small register files, a few kinds of instruction.   *)
EXTENDS RenameCommit

\* Two writers that read each other's destination, and a branch.
W1 == Decoded(1, ARF_INT_SIZE - 1, FALSE)
W2 == Decoded(2, 1, FALSE)
Br == Decoded(0, 1, TRUE)

\* Groups with a dependency, with two writers of one register, and with a
\* writer before a branch.  The next group is behind the branch.
Pair(u, v) == [i \in 1..RENAME_WIDTH |-> IF i = 1 THEN u ELSE v]
MCDecoded == {Bubble, Pair(W1, W2), Pair(W1, W1), Pair(W2, Br)}

\* The safety properties assume that the ROB has refused nothing: states after
\* its first refusal are not explored.
NothingRefusedByRob == ~rob_lost
=============================================================================
