---------------------------- MODULE RenameCommit ----------------------------
(* Renaming, the re-order buffer and commit, as core.sv connects them: the   *)
(* life of a physical register from its allocation to its release.  One step *)
(* is one clock edge.  The decoder, the issue queues and the execution pipes *)
(* are the environment: they supply a decoded group, iq_full, and the set of *)
(* micro-ops that complete.                                                  *)
EXTENDS MappingTable, Rob, SkidStage, Sequences

CONSTANT DECODED  \* the groups inst_decode.sv may output
ASSUME DecodedAssumption == DECODED \subseteq [1..RENAME_WIDTH -> Uop]

VARIABLES
  dp,            \* RR ~ DP register with its skid (core.sv)
  rr_full_prev,  \* the rename stage was stalled in the previous cycle
  recover,       \* cm_recover one cycle later, as the rename table sees it
  uop_retire,    \* cm_uop_retire one cycle later
  \* History variables.
  rr_lost,       \* the rename table has refused a group that held micro-ops
  rob_lost       \* the ROB has refused a micro-op

vars == <<flVars, mapVars, robVars, dp, rr_full_prev, recover, uop_retire, rr_lost, rob_lost>>

Init ==
  /\ RatInit /\ RobInit
  /\ dp = SkidReset(Bubble) /\ rr_full_prev = FALSE
  /\ recover = FALSE /\ uop_retire = NoRetire
  /\ rr_lost = FALSE /\ rob_lost = FALSE

\* rr_uops_in is any decoded group; after a stall or a flush the register is
\* empty (core.sv:159-175; FrontEnd proves it).
RrInput == IF rr_full_prev \/ recover THEN {Bubble} ELSE DECODED

\* One clock edge, given what the ROB decides in this cycle: `ops' are its
\* micro-ops with this cycle's completions and `retired' those that leave.
Clock(ops, retired, rr_uops_in, iq_full) ==
  LET n       == Cardinality(Slots(retired, Valid))
      clear   == cm_recover(retired)
      left    == size_left(n, clear)
      new     == Entering(dp.in, left, clear)
      cm_full == iq_full \/ ~cm_allocatable(dp.in, left, clear)
      can     == rr_allocatable(uop_retire, rr_uops_in)
      out     == prf_out(uop_retire, Slots(rr_uops_in, Writes))
  IN
  /\ RatNext(recover, uop_retire, rr_uops_in, out)
  /\ RobNext(ops, dp.in, head_left(n, clear), left, new)
  /\ dp' = SkidNext(dp, clear, cm_full,
                    rr_uops_out(recover, uop_retire, rr_uops_in, out), Bubble)
  /\ rr_full_prev' = (~clear /\ (cm_full \/ ~can))
  /\ recover' = clear
  /\ uop_retire' = retired
  /\ rr_lost' = (rr_lost \/ (~clear /\ ~can))
  /\ rob_lost' = (rob_lost \/ (~clear /\ new # Slots(dp.in, Valid)))

\* The clock edge with the completions `done'.
Completing(done, rr_uops_in, iq_full) ==
  LET ops == Completed(done)
  IN Clock(ops, cm_uop_retire(ops, NumRetired(ops)), rr_uops_in, iq_full)

Next == \E done \in Completions :
          \E rr_uops_in \in RrInput, iq_full \in BOOLEAN :
            Completing(done, rr_uops_in, iq_full)

Spec == Init /\ [][Next]_vars

-----------------------------------------------------------------------------
(* Properties.                                                               *)

\* The renamed micro-ops, oldest first, with the bubbles between them: those
\* the rename table has not yet seen retire, the ROB, and the group on its way
\* there.
InFlight == uop_retire \o [k \in 1..rob_size |-> op_list[At(rob_head, k - 1)]]
              \o dp.in \o dp.tmp

\* Register that holds `a' before the k-th of the micro-ops s: its youngest
\* older writer's, or the committed one.
Holds(s, a, k) ==
  LET w == {j \in 1..(k - 1) : Writes(s[j]) /\ s[j].rd = a}
  IN IF w = {} THEN r_rat[a] ELSE s[Max(w)].prd

\* Every micro-op in flight reads the register of its nearest older writer in
\* program order, and will release the one its destination had; the rename
\* table maps each register to its youngest writer.  Through all stalls,
\* partial retirements and recoveries, as long as the ROB has refused nothing.
Dataflow ==
  ~rob_lost =>
    LET s == InFlight IN
    /\ \A k \in DOMAIN s : s[k].valid => s[k].prs1 = Holds(s, s[k].rs1, k)
    /\ \A k \in DOMAIN s : Writes(s[k]) => s[k].prev = Holds(s, s[k].rd, k)
    /\ ~recover => \A a \in Arf : mp_tb[a] = Holds(s, a, Len(s) + 1)

\* A physical register is busy exactly while something can still read it: it
\* is mapped, or a micro-op in flight will release it.  None leaks, none is
\* handed out twice, and both counters are exact.
RegisterAccounting ==
  ~rob_lost =>
    /\ ~recover =>
         /\ free_list = {0} \cup {mp_tb[a] : a \in arf_valid}
                            \cup {InFlight[k].prev : k \in Slots(InFlight, Releases)}
         /\ free_num = PRF_INT_SIZE - Cardinality(free_list)
    /\ prf_recover = {0} \cup {r_rat[a] : a \in arf_recover}
    /\ prf_recover_num = PRF_INT_SIZE - Cardinality(prf_recover)

\* No two live values share a physical register: the destinations in flight
\* and the committed registers are pairwise different, and none is p0, which
\* x0 reads.
NoAliasing ==
  ~rob_lost =>
    LET s == InFlight
        w == Slots(s, Writes)
        c == arf_recover \ {0}
    IN /\ \A k \in w : s[k].prd # 0 /\ \A j \in w : j # k => s[j].prd # s[k].prd
       /\ \A a \in c : r_rat[a] # 0 /\ \A b \in c : b # a => r_rat[b] # r_rat[a]
       /\ \A k \in w, a \in c : s[k].prd # r_rat[a]

\* Nothing on a mispredicted path retires, and nothing of it stays: after a
\* recovery the ROB and the rename stages are empty and the mispredicted
\* branch is the youngest micro-op that retired.  (rat.sv:82 relies on it.)
NothingPastMispredict ==
  /\ recover => /\ rob_size = 0 /\ rob_head = 0
                /\ dp = SkidReset(Bubble)
  /\ \A i \in 1..COMMIT_WIDTH :
       /\ uop_retire[i].mispredict => recover /\ \A j \in (i + 1)..COMMIT_WIDTH : ~uop_retire[j].valid
       /\ uop_retire[i].valid => uop_retire[i].complete

\* checker.py:9-13 compares the pcs retired with the reference simulator's one
\* by one: an instruction that was decoded may be flushed but not skipped.
NoneSkipped == ~rr_lost /\ ~rob_lost
=============================================================================
