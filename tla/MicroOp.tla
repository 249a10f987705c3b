------------------------------ MODULE MicroOp ------------------------------
(* The micro-op (micro_op.svh) as far as renaming and committing tell micro- *)
(* ops apart, and the groups in which they travel.                           *)
EXTENDS Integers, FiniteSets

CONSTANTS ARF_INT_SIZE, PRF_INT_SIZE,  \* architectural, physical registers
          RENAME_WIDTH, COMMIT_WIDTH   \* uops renamed, retired in a cycle

ASSUME SizeAssumption ==
  /\ ARF_INT_SIZE \in Nat \ {0} /\ PRF_INT_SIZE \in Nat \ {0}
  /\ RENAME_WIDTH \in Nat \ {0} /\ COMMIT_WIDTH \in Nat \ {0}

Arf == 0..(ARF_INT_SIZE - 1)
Prf == 0..(PRF_INT_SIZE - 1)

\* rd = 0 stands for rd_valid = 0: inst_decode.sv never writes x0.  br is
\* br_type # BR_X; mispredict is the comparison of the predicted with the
\* actual direction and target that rob.sv makes once the branch is complete.
Uop == [valid : BOOLEAN, rd : Arf, rs1 : Arf, br : BOOLEAN,
        prs1 : Prf, prd : Prf, prev : Prf, prev_valid : BOOLEAN,
        complete : BOOLEAN, mispredict : BOOLEAN]

\* A decoded instruction, not yet renamed; and the all-zero micro-op.
Decoded(rd, rs1, br) ==
  [valid |-> TRUE, rd |-> rd, rs1 |-> rs1, br |-> br,
   prs1 |-> 0, prd |-> 0, prev |-> 0, prev_valid |-> FALSE,
   complete |-> FALSE, mispredict |-> FALSE]
NoUop == [Decoded(0, 0, FALSE) EXCEPT !.valid = FALSE]

Bubble == [i \in 1..RENAME_WIDTH |-> NoUop]
NoRetire == [i \in 1..COMMIT_WIDTH |-> NoUop]

\* A valid micro-op that writes a register: rd_valid.
Writes(u) == u.valid /\ u.rd # 0
\* One that releases the register its destination had before.
Releases(u) == u.valid /\ u.prev_valid

\* The slots of a group that satisfy P.
Slots(group, P(_)) == {i \in DOMAIN group : P(group[i])}
=============================================================================
