------------------------------ MODULE RobQueue ------------------------------
(* The re-order buffer on its own, in an environment that sends it any group *)
(* and completes its micro-ops in any order: it implements CommitQueue, and  *)
(* drains.                                                                   *)
EXTENDS Rob, Sequences

CONSTANT GROUPS  \* the groups that may be on the way to the ROB
VARIABLE uop_retire  \* cm_uop_retire of the last cycle (core.sv)

\* None has completed before it is inserted; what is not valid is all zero.
ASSUME GroupsAssumption ==
  GROUPS \subseteq [1..RENAME_WIDTH -> {u \in Uop : u.valid /\ ~u.complete} \cup {NoUop}]

vars == <<robVars, uop_retire>>

Init == RobInit /\ uop_retire = NoRetire

Clock(rob_uops_in, done) ==
  LET ops     == Completed(done)
      n       == NumRetired(ops)
      retired == cm_uop_retire(ops, n)
      clear   == cm_recover(retired)
      left    == size_left(n, clear)
      new     == Entering(rob_uops_in, left, clear)
  IN /\ RobNext(ops, rob_uops_in, head_left(n, clear), left, new)
     /\ uop_retire' = retired

Next == \E rob_uops_in \in GROUPS, done \in Completions : Clock(rob_uops_in, done)

\* A cycle in which the oldest micro-op completes.
HeadCompletes == \E rob_uops_in \in GROUPS, done \in Completions :
                   rob_head \in DOMAIN done /\ Clock(rob_uops_in, done)

\* A cycle that finds the oldest micro-op ready to retire.
HeadReady == CanRetire(op_list, 0) /\ Next

Spec == Init /\ [][Next]_vars
\* The clock does not stop while the ROB has something to retire, and the
\* oldest micro-op completes at last.  Nothing obliges a group to arrive.
FairSpec == Spec /\ WF_vars(HeadReady) /\ WF_vars(HeadCompletes)

-----------------------------------------------------------------------------
\* The ring holds what its head and size say, nothing else, and no more than
\* it has slots: no insertion overwrites a slot that has not retired.
RingExact ==
  /\ rob_size <= ROB_SIZE
  /\ \A s \in RobIndex : op_list[s].valid <=> s \in Occupied

\* The ring as a queue, oldest first, and what retired as a sequence.
Contents == [k \in 1..rob_size |-> op_list[At(rob_head, k - 1)]]
Retired == SubSeq(uop_retire, 1, Cardinality(Slots(uop_retire, Valid)))

Queue == INSTANCE CommitQueue WITH
           queue <- Contents, retired <- Retired, CAPACITY <- ROB_SIZE,
           INCOMING <- {g[i] : g \in GROUPS, i \in 1..RENAME_WIDTH} \ {NoUop}

\* The ring of rob.sv, with its wrapping head, its early stops and its
\* flushes, is a queue in program order: it never skips, repeats or reorders
\* a micro-op it took, and retires nothing past a mispredicted one.
ImplementsQueue == Queue!Spec

\* The oldest micro-op leaves the ROB, whatever arrives behind it: the retire
\* loop, which stops early, never stops before its first turn.
HeadRetires == \A h \in RobIndex :
  (rob_size > 0 /\ rob_head = h) ~> (rob_size = 0 \/ rob_head # h)
=============================================================================
