------------------------------ MODULE FrontEnd ------------------------------
(* The in-order half of core.sv: fetch (inst_fetch.sv), the ID register, the *)
(* three skid stages RR, DP and IS, and the stall and flush signals that     *)
(* connect them.  One step is one rising clock edge.  What flows is a fetch  *)
(* group, known by its number on the current path: 1, 2, 3, ... from the     *)
(* last redirect on; 0 is the bubble.  The rename table, the re-order        *)
(* buffer, the issue queues and the instruction cache are the environment:   *)
(* their answers of this cycle are the parameters of Clock.                  *)
EXTENDS Integers, SkidStage

CONSTANTS MAX_GROUP,   \* bound: groups fetched on one path
          ICACHE_HIT   \* the values icache2core_data_valid takes

ASSUME MaxGroupAssumption == MAX_GROUP \in Nat \ {0}
ASSUME IcacheAssumption == ICACHE_HIT \subseteq BOOLEAN /\ TRUE \in ICACHE_HIT

VARIABLES
  pc_group,      \* number of the group that `pc' addresses
  id_insts_in,   \* IF ~ ID register
  rr, dp, is,    \* ID ~ RR, RR ~ DP and DP ~ IS registers with their skids
  iq_full_reg,   \* iq_full one cycle later; the queues load when it is 0
  recover,       \* clear one cycle later: what the rename table sees
  \* History variables; the code has no such registers.
  first,         \* number of the first group fetched since the last flush
  last,          \* number of the last group that reached the ROB
  accepted,      \* groups the ROB took, since the last flush
  dropped,       \* groups refused by the rename table or the ROB, likewise
  loaded         \* groups the issue queues loaded, likewise

hist == <<first, last, accepted, dropped, loaded>>
vars == <<pc_group, id_insts_in, rr, dp, is, iq_full_reg, recover, hist>>

None == 0
Group == 0..MAX_GROUP
Bit(g) == IF g = None THEN 0 ELSE 1

Init ==
  /\ pc_group = 1 /\ id_insts_in = None
  /\ rr = SkidReset(None) /\ dp = SkidReset(None) /\ is = SkidReset(None)
  /\ iq_full_reg = FALSE /\ recover = FALSE
  /\ first = 1 /\ last = 0
  /\ accepted = 0 /\ dropped = 0 /\ loaded = 0

-----------------------------------------------------------------------------
(* The wires of one cycle.                                                   *)

cm_full(iq_full, cm_alloc) == iq_full \/ ~cm_alloc

rr_full_NoDp(iq_full, cm_alloc, rr_alloc) == ~rr_alloc
rr_full(iq_full, cm_alloc, rr_alloc) == cm_full(iq_full, cm_alloc) \/ ~rr_alloc

\* insts_out_valid: a mispredict fetches (and redirects) even under a stall.
FetchFires_NoRedirect(stall, mispredict, hit) == ~stall /\ hit
FetchFires(stall, mispredict, hit) == (~stall \/ mispredict) /\ hit

\* rr_uops_out: nothing leaves the rename table during recovery or when it
\* lacks free registers.
RatOut(rr_alloc) == IF recover \/ ~rr_alloc THEN None ELSE rr.in

\* load_en of the issue queues.
LoadEn_FullNow(iq_full) == ~iq_full
LoadEn(iq_full) == ~iq_full_reg

\* next_pc when the fetch fires.
NextPc(mispredict) == IF mispredict THEN 1 ELSE pc_group + 1

\* The register between IF and ID.
IdNext_KeepOnStall(clear, full, fires) ==
  IF clear THEN None ELSE IF fires THEN pc_group ELSE IF full THEN id_insts_in ELSE None
IdNext(clear, full, fires) ==
  IF clear \/ full \/ ~fires THEN None ELSE pc_group

-----------------------------------------------------------------------------
(* What the environment may answer in this cycle.  A recovering ROB reports  *)
(* `allocatable'; a full one may still find room for the group at hand, and  *)
(* refuses one only when full; the rename table runs out of registers only   *)
(* on a group that asks for some.  MAX_GROUP bounds the fetching.            *)
Answers(cm_alloc, rr_alloc, rob_takes, clear, hit) ==
  /\ clear => cm_alloc
  /\ rob_takes \/ (~cm_alloc /\ dp.in # None)
  /\ rr_alloc \/ rr.in # None
  /\ (hit /\ ~clear) => pc_group <= MAX_GROUP

Clock(iq_full, cm_alloc, rr_alloc, rob_takes, clear, hit) ==
  LET cm     == cm_full(iq_full, cm_alloc)
      full   == rr_full(iq_full, cm_alloc, rr_alloc)
      fires  == FetchFires(full, clear, hit)
      rr_out == RatOut(rr_alloc)
      dp_out == IF clear \/ ~rob_takes THEN None ELSE dp.in
  IN
  /\ Answers(cm_alloc, rr_alloc, rob_takes, clear, hit)
  /\ pc_group' = IF fires THEN NextPc(clear) ELSE pc_group
  /\ id_insts_in' = IdNext(clear, full, fires)
  /\ rr' = SkidNext(rr, clear, full, id_insts_in, None)
  /\ dp' = SkidNext(dp, clear, cm, rr_out, None)
  /\ is' = SkidNext(is, clear, iq_full, dp_out, None)
  /\ iq_full_reg' = iq_full
  /\ recover' = clear
  /\ first' = IF clear THEN pc_group' ELSE first
  /\ last' = IF clear THEN pc_group' - 1 ELSE IF dp.in # None THEN dp.in ELSE last
  /\ accepted' = IF clear THEN 0 ELSE accepted + Bit(dp_out)
  /\ dropped' = IF clear THEN 0
                ELSE dropped + (Bit(rr.in) - Bit(rr_out)) + (Bit(dp.in) - Bit(dp_out))
  /\ loaded' = IF clear THEN 0
               ELSE loaded + (IF LoadEn(iq_full) THEN Bit(is.in) ELSE 0)

\* A cycle in which the ROB retires a mispredicted uop, and any other.
Flush == \E iq_full, rr_alloc, rob_takes \in BOOLEAN, hit \in ICACHE_HIT :
           Clock(iq_full, TRUE, rr_alloc, rob_takes, TRUE, hit)

Advance == \E iq_full, cm_alloc, rr_alloc, rob_takes \in BOOLEAN, hit \in BOOLEAN :
             /\ hit \in ICACHE_HIT \/ pc_group > MAX_GROUP
             /\ Clock(iq_full, cm_alloc, rr_alloc, rob_takes, FALSE, hit)

Next == Flush \/ Advance

\* A cycle in which the back end has room in the ROB and in the queues.
RoomCycle == \E rr_alloc, hit \in BOOLEAN : Clock(FALSE, TRUE, rr_alloc, TRUE, FALSE, hit)

Spec == Init /\ [][Next]_vars
\* Cycles in which the back end has room, and no flush, come again and again.
FairSpec == Spec /\ SF_vars(Next /\ RoomCycle)

-----------------------------------------------------------------------------
(* Properties.                                                               *)

\* Every register holds a group number or a bubble; pc_group stays a group number
\* (core.sv, inst_fetch.sv).
TypeOK ==
  /\ pc_group \in 1..(MAX_GROUP + 1) /\ id_insts_in \in Group
  /\ rr \in Stage(Group) /\ dp \in Stage(Group) /\ is \in Stage(Group)
  /\ iq_full_reg \in BOOLEAN /\ recover \in BOOLEAN
  /\ first \in Nat /\ last \in Nat
  /\ accepted \in Nat /\ dropped \in Nat /\ loaded \in Nat

\* The one-entry skids suffice: a stage that stalled in the previous cycle
\* finds nothing at its input, so it never has to save a second group, and
\* it saves one only while it is stalled (core.sv, three copies).
SkidsSuffice ==
  /\ rr.stall_prev => rr.in = None /\ id_insts_in = None
  /\ dp.stall_prev => dp.in = None /\ rr.in = None
  /\ is.stall_prev => is.in = None /\ dp.in = None
  /\ \A s \in {rr, dp, is} : s.tmp # None => s.stall_prev

\* No group is lost, duplicated or overwritten on its way to the ROB, under
\* any interleaving of stalls and flushes: each group fetched since the last
\* flush was taken by the ROB, was refused (by the rename table for want of
\* registers or by a full ROB), or is in exactly one register.
Conservation ==
  pc_group = first + accepted + dropped + Bit(dp.in) + Bit(dp.tmp)
         + Bit(rr.in) + Bit(rr.tmp) + Bit(id_insts_in)

InFlight == {dp.in, dp.tmp, rr.in, rr.tmp, id_insts_in} \ {None}

\* g, if it is a group, is older than each of the groups gs.
OlderThan(g, gs) == \A h \in gs : g # None /\ h # None => g < h

\* Groups reach the ROB in fetch order: the registers from the ROB back to
\* ID hold increasing numbers, all younger than the last that arrived and
\* older than the one being fetched.
ProgramOrder ==
  /\ last < pc_group
  /\ \A g \in InFlight : last < g /\ g < pc_group
  /\ OlderThan(dp.in, {dp.tmp, rr.in, rr.tmp, id_insts_in})
  /\ OlderThan(dp.tmp, {rr.in, rr.tmp, id_insts_in})
  /\ OlderThan(rr.in, {rr.tmp, id_insts_in})
  /\ OlderThan(rr.tmp, {id_insts_in})

\* Every group the ROB took is loaded by the issue queues exactly once, or
\* waits in the IS register or its skid: what core.sv saves by delaying
\* iq_full into load_en by one cycle.
DispatchConservation == accepted = loaded + Bit(is.in) + Bit(is.tmp)

\* rat.sv:82 "When recover = 1, uop_in = 0", on which the rename table's
\* simplified logic rests; and nothing fetched before a flush is anywhere in
\* the front end after it.
NothingSurvivesFlush ==
  recover => /\ id_insts_in = None /\ rr = SkidReset(None)
             /\ dp = SkidReset(None) /\ is = SkidReset(None)

\* The redirect of a mispredict is never missed, however the front end was
\* stalled in that cycle (it lasts one cycle: inst_fetch.sv:54-62).  Holds
\* where the instruction cache always answers, as in sim_main2.cc.
RedirectTaken == first = 1

\* A group somewhere in the front end leaves it.
GroupsArrive ==
  \A g \in 1..MAX_GROUP : (g \in InFlight) ~> (g \notin InFlight)
=============================================================================
