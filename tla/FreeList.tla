------------------------------ MODULE FreeList ------------------------------
(* free_list.sv: the allocator of physical registers.  The bit vectors are   *)
(* sets of the registers whose bit is 1 (busy).  The two counters have       *)
(* log2(PRF_INT_SIZE) bits, so they count modulo PRF_INT_SIZE.               *)
EXTENDS MicroOp

VARIABLES free_list, free_num,          \* busy now; number of free registers
          prf_recover, prf_recover_num  \* the same for committed state only

flVars == <<free_list, free_num, prf_recover, prf_recover_num>>

FLInit == /\ free_list = {0} /\ free_num = PRF_INT_SIZE - 1
          /\ prf_recover = {0} /\ prf_recover_num = PRF_INT_SIZE - 1

-----------------------------------------------------------------------------
(* The retire loop.  `retire' is the group uop_retire.                       *)

Released(retire) == {retire[i].prev : i \in Slots(retire, Releases)}

busy_after_retire(retire) == free_list \ Released(retire)

num_after_retire(retire) ==
  (free_num + Cardinality(Slots(retire, Releases))) % PRF_INT_SIZE

\* Slot i clears the register it releases before it sets the one it retires,
\* and a later slot may release what an earlier one retired.
prf_recover_next(retire) ==
  LET survives(p, i) == \A j \in Slots(retire, Releases) : j > i => retire[j].prev # p
  IN {retire[i].prd : i \in {j \in Slots(retire, Writes) : survives(retire[j].prd, j)}}
       \cup {p \in prf_recover : survives(p, 0)}

prf_recover_num_next(retire) ==
  (prf_recover_num + Cardinality(Slots(retire, Releases))
     - Cardinality(Slots(retire, Writes))) % PRF_INT_SIZE

-----------------------------------------------------------------------------
(* The allocation.  `req' is the set of slots that ask for a register.       *)

allocatable(retire, req) == Cardinality(req) <= num_after_retire(retire)

\* The n-th lowest free register; 0, the default of prf_out, if there is none.
NthFree(busy, n) ==
  LET nth(p) == Cardinality({q \in Prf \ busy : q <= p}) = n
  IN IF \E p \in Prf \ busy : nth(p) THEN CHOOSE p \in Prf \ busy : nth(p) ELSE 0

\* prf_out: the k-th slot that asks gets the k-th lowest free register.
prf_out_FirstForAll(retire, req) ==
  LET busy == busy_after_retire(retire) IN
  [i \in 1..RENAME_WIDTH |->
     IF i \in req /\ allocatable(retire, req) THEN NthFree(busy, 1) ELSE 0]
prf_out(retire, req) ==
  LET busy == busy_after_retire(retire) IN
  [i \in 1..RENAME_WIDTH |->
     IF i \in req /\ allocatable(retire, req)
     THEN NthFree(busy, Cardinality({j \in req : j <= i})) ELSE 0]

FLNext_RecoverKeepsNum(recover, retire, req, out) ==
  LET got == IF allocatable(retire, req) THEN req ELSE {} IN
  /\ free_list' = IF recover THEN prf_recover_next(retire)
                  ELSE busy_after_retire(retire) \cup {out[i] : i \in got}
  /\ free_num' = num_after_retire(retire) - Cardinality(got)
  /\ prf_recover' = prf_recover_next(retire)
  /\ prf_recover_num' = prf_recover_num_next(retire)

\* One clock edge; `out' is prf_out(retire, req).
FLNext(recover, retire, req, out) ==
  LET got == IF allocatable(retire, req) THEN req ELSE {} IN
  /\ free_list' = IF recover THEN prf_recover_next(retire)
                  ELSE busy_after_retire(retire) \cup {out[i] : i \in got}
  /\ free_num' = IF recover THEN prf_recover_num_next(retire)
                 ELSE num_after_retire(retire) - Cardinality(got)
  /\ prf_recover' = prf_recover_next(retire)
  /\ prf_recover_num' = prf_recover_num_next(retire)
=============================================================================
