---------------------------- MODULE MappingTable ----------------------------
(* rat.sv and mapping_table.sv: the rename table, its committed copy, and    *)
(* the renaming of one group.  rs2 is looked up as rs1 is and is left out.   *)
EXTENDS FreeList, FiniteSetsExt

VARIABLES mp_tb, r_rat,           \* speculative and committed map
          arf_valid, arf_recover  \* the registers each of them maps

mapVars == <<mp_tb, r_rat, arf_valid, arf_recover>>

MapInit == /\ mp_tb = [a \in Arf |-> 0] /\ r_rat = [a \in Arf |-> 0]
           /\ arf_valid = {0} /\ arf_recover = {0}

\* The last slot below i that writes a, as a set of at most one slot.
Writers(group, a, i) == {j \in Slots(group, Writes) : j < i /\ group[j].rd = a}

-----------------------------------------------------------------------------
(* Retirement: the youngest retiring writer of a register wins.              *)
r_rat_next(retire) ==
  [a \in Arf |-> LET w == Writers(retire, a, COMMIT_WIDTH + 1) IN
                 IF w = {} THEN r_rat[a] ELSE retire[Max(w)].prd]

arf_recover_next(retire) ==
  arf_recover \cup {retire[i].rd : i \in Slots(retire, Writes)}

-----------------------------------------------------------------------------
(* Renaming `group' while `retire' retires; `out' is prf_out of the two.     *)

\* mp_tb_next[a] as slot i finds it: earlier slots of the group have renamed.
mapped_NoForward(group, out, a, i) == mp_tb[a]
mapped(group, out, a, i) ==
  LET w == Writers(group, a, i) IN IF w = {} THEN mp_tb[a] ELSE out[Max(w)]

Rename(group, out) ==
  [i \in 1..RENAME_WIDTH |->
     LET u == group[i] IN
     [u EXCEPT !.prs1 = IF u.rs1 = 0 THEN 0 ELSE mapped(group, out, u.rs1, i),
               !.prd  = out[i],
               !.prev = IF Writes(u) THEN mapped(group, out, u.rd, i) ELSE 0,
               !.prev_valid = /\ Writes(u)
                              /\ u.rd \in arf_valid \/ Writers(group, u.rd, i) # {}]]

rr_allocatable(retire, group) == allocatable(retire, Slots(group, Writes))

rr_uops_out(recover, retire, group, out) ==
  IF recover \/ ~rr_allocatable(retire, group) THEN Bubble ELSE Rename(group, out)

mp_tb_next(retire, group, out) ==
  IF rr_allocatable(retire, group)
  THEN [a \in Arf |-> mapped(group, out, a, RENAME_WIDTH + 1)] ELSE mp_tb
arf_valid_next(retire, group) ==
  IF rr_allocatable(retire, group)
  THEN arf_valid \cup {group[i].rd : i \in Slots(group, Writes)} ELSE arf_valid

MapNext(recover, retire, group, out) ==
  /\ r_rat' = r_rat_next(retire)
  /\ arf_recover' = arf_recover_next(retire)
  /\ mp_tb' = IF recover THEN r_rat_next(retire) ELSE mp_tb_next(retire, group, out)
  /\ arf_valid' = IF recover THEN arf_recover_next(retire) ELSE arf_valid_next(retire, group)

RatInit == MapInit /\ FLInit
RatNext(recover, retire, group, out) ==
  /\ MapNext(recover, retire, group, out)
  /\ FLNext(recover, retire, Slots(group, Writes), out)
=============================================================================
