-------------------------------- MODULE Rob --------------------------------
(* rob.sv: the re-order buffer, a ring of ROB_SIZE micro-ops.  A slot that   *)
(* is not occupied holds NoUop: rob.sv leaves the old contents there, never  *)
(* reads them, and overwrites them when the slot is used again.              *)
EXTENDS MicroOp

CONSTANT ROB_SIZE
ASSUME RobSizeAssumption == ROB_SIZE \in Nat \ {0}

VARIABLES op_list, rob_head, rob_size
robVars == <<op_list, rob_head, rob_size>>

RobIndex == 0..(ROB_SIZE - 1)
RobInit == op_list = [s \in RobIndex |-> NoUop] /\ rob_head = 0 /\ rob_size = 0

\* The k-th slot from head on (indices have log2(ROB_SIZE) bits).
At(head, k) == (head + k) % ROB_SIZE
Occupied == {At(rob_head, k) : k \in 0..(rob_size - 1)}

-----------------------------------------------------------------------------
(* Completion: `done' maps the slots that complete in this cycle to whether  *)
(* a branch there turns out mispredicted.                                    *)
Completed(done) ==
  [s \in RobIndex |-> IF s \in DOMAIN done
     THEN [op_list[s] EXCEPT !.complete = TRUE,
                             !.mispredict = op_list[s].br /\ done[s]]
     ELSE op_list[s]]

\* The environment: any micro-ops in the ROB that are not complete, any of the
\* branches among them mispredicted.
Pending == {s \in Occupied : ~op_list[s].complete}
Completions == {done \in UNION {[D -> BOOLEAN] : D \in SUBSET Pending} :
                  \A s \in DOMAIN done : done[s] => op_list[s].br}

\* Retirement of the micro-ops that are complete, from the head on.  The loop
\* tests i >= rob_size_next after having decremented rob_size_next i times.
CanRetire_PastMispredict(ops, i) ==
  i < rob_size - i /\ \A j \in 0..i : ops[At(rob_head, j)].complete
CanRetire_KeepsLast(ops, i) ==
  /\ i + 1 < rob_size - i
  /\ \A j \in 0..i : ops[At(rob_head, j)].complete
  /\ \A j \in 0..(i - 1) : ~ops[At(rob_head, j)].mispredict
CanRetire(ops, i) ==
  /\ i < rob_size - i
  /\ \A j \in 0..i : ops[At(rob_head, j)].complete
  /\ \A j \in 0..(i - 1) : ~ops[At(rob_head, j)].mispredict

NumRetired(ops) == Cardinality({i \in 0..(COMMIT_WIDTH - 1) : CanRetire(ops, i)})

\* The group that retires, n of them; its last may be a mispredicted branch.
cm_uop_retire(ops, n) ==
  [i \in 1..COMMIT_WIDTH |-> IF i <= n THEN ops[At(rob_head, i - 1)] ELSE NoUop]

cm_recover(retired) == \E i \in 1..COMMIT_WIDTH : retired[i].mispredict

-----------------------------------------------------------------------------
(* Insertion of a group behind the `left' micro-ops that stay, from `head'   *)
(* on.  Nothing enters during recovery, which empties the ROB.               *)
head_left_KeepsHead(n, clear) == rob_head
head_left(n, clear) == IF clear THEN 0 ELSE At(rob_head, n)
size_left(n, clear) == IF clear THEN 0 ELSE rob_size - n

Valid(u) == u.valid
RankBefore(group, i) == Cardinality({j \in Slots(group, Valid) : j < i})

\* The slots of the group that find room.
Entering(group, left, clear) ==
  IF clear THEN {}
  ELSE {i \in Slots(group, Valid) : left + RankBefore(group, i) < ROB_SIZE}

cm_allocatable(group, left, clear) ==
  clear \/ left + RankBefore(group, RENAME_WIDTH) < ROB_SIZE

\* One clock edge: `new' are the slots of the group that enter.
RobNext(ops, group, head, left, new) ==
  LET slot == [i \in new |-> At(head, left + RankBefore(group, i))]
      kept == {At(head, k) : k \in 0..(left - 1)}
  IN /\ rob_head' = head
     /\ rob_size' = left + Cardinality(new)
     /\ op_list' = [s \in RobIndex |->
          IF \E i \in new : slot[i] = s THEN group[CHOOSE i \in new : slot[i] = s]
          ELSE IF s \in kept THEN ops[s] ELSE NoUop]
=============================================================================
