---------------------------- MODULE MCBranchPred ----------------------------
EXTENDS BranchPred

\* Two branches, an indirect jump and a jump back, in eight words.  With two
\* sets, two histories and tags for four words, 1 and 5 share a set and a
\* history, and 3, which is no branch, shares set and tag with 1.
SmallProgram ==
  [a \in 0..7 |-> CASE a = 1 -> [kind |-> "BR", target |-> 3]
                    [] a = 4 -> [kind |-> "JALR", target |-> 0]
                    [] a = 5 -> [kind |-> "BR", target |-> 2]
                    [] a = 7 -> [kind |-> "JAL", target |-> 1]
                    [] OTHER -> [kind |-> "X", target |-> 0]]
Callers == {0, 6}
=============================================================================
