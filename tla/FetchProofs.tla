---------------------------- MODULE FetchProofs -----------------------------
(* Instruction fetch: the invariants of FrontEnd, proved for every MAX_GROUP *)
(* and every behaviour of the instruction cache, those of FetchPath, for     *)
(* every program, width and predictor, and that BranchPred is a predictor.   *)
EXTENDS FrontEnd, BranchPred, SequenceTheorems, WellFoundedInduction, TLAPS

-----------------------------------------------------------------------------
(* FrontEnd.                                                                 *)

\* n follows s by one clock edge, field by field: under `full' the stage
\* sends a bubble and keeps the older of its two candidates, otherwise it
\* sends the older one.
Follows(n, s, clear, full, data, none) ==
  /\ n.in = IF clear \/ full THEN none
            ELSE IF s.stall_prev THEN s.tmp ELSE data
  /\ n.tmp = IF clear THEN none
             ELSE IF full THEN (IF s.stall_prev THEN s.tmp ELSE data)
             ELSE IF s.stall_prev THEN none ELSE s.tmp
  /\ n.stall_prev = (~clear /\ full)

\* SkidNext of core.sv's stages, described field by field.
LEMMA SkidFields ==
  ASSUME NEW G, NEW none \in G, NEW s \in Stage(G), NEW data \in G,
         NEW clear \in BOOLEAN, NEW full \in BOOLEAN
  PROVE  /\ SkidNext(s, clear, full, data, none) \in Stage(G)
         /\ Follows(SkidNext(s, clear, full, data, none), s, clear, full, data, none)
<1> USE DEF SkidNext, SkidReset, Stage, Follows
<1>1. CASE clear
  BY <1>1
<1>2. CASE ~clear /\ full
  BY <1>2
<1>3. CASE ~clear /\ ~full
  BY <1>3
<1> QED BY <1>1, <1>2, <1>3

-----------------------------------------------------------------------------
(* The inductive invariant adds to the invariants the model checker runs     *)
(* that a group is presented to the issue queues only when they load, which  *)
(* is why delaying iq_full into load_en is harmless.                         *)
PresentedIsLoaded == is.in # None => ~iq_full_reg

FrontInv == /\ TypeOK /\ SkidsSuffice /\ Conservation /\ ProgramOrder
        /\ DispatchConservation /\ NothingSurvivesFlush /\ PresentedIsLoaded

\* The invariant holds after reset.
LEMMA FrontInitially == Init => FrontInv
<1> SUFFICES ASSUME Init PROVE FrontInv
  OBVIOUS
<1>1. /\ rr = SkidReset(None) /\ dp = SkidReset(None) /\ is = SkidReset(None)
      /\ SkidReset(None) \in Stage(Group)
      /\ SkidReset(None).in = None /\ SkidReset(None).tmp = None
      /\ SkidReset(None).stall_prev = FALSE
  BY MaxGroupAssumption DEF Init, SkidReset, Stage, Group, None
<1>2. TypeOK
  <2>1. None \in Group /\ 1 \in 1..(MAX_GROUP + 1)
    BY MaxGroupAssumption DEF Group, None
  <2> QED BY <1>1, <2>1 DEF Init, TypeOK
<1>3. SkidsSuffice
  BY <1>1 DEF SkidsSuffice
<1>4. Conservation /\ DispatchConservation
  BY <1>1 DEF Init, Conservation, DispatchConservation, Bit
<1>5. ProgramOrder
  BY <1>1 DEF Init, ProgramOrder, OlderThan, InFlight
<1>6. NothingSurvivesFlush /\ PresentedIsLoaded
  BY <1>1 DEF Init, NothingSurvivesFlush, PresentedIsLoaded
<1> QED BY <1>2, <1>3, <1>4, <1>5, <1>6 DEF FrontInv

\* The wires of one cycle are well typed, and the three stages follow
\* SkidFields.
LEMMA ClockStages ==
  ASSUME TypeOK,
         NEW iq_full \in BOOLEAN, NEW cm_alloc \in BOOLEAN,
         NEW rr_alloc \in BOOLEAN, NEW rob_takes \in BOOLEAN,
         NEW clear \in BOOLEAN, NEW hit \in BOOLEAN,
         Clock(iq_full, cm_alloc, rr_alloc, rob_takes, clear, hit),
         NEW cm, cm = cm_full(iq_full, cm_alloc),
         NEW full, full = rr_full(iq_full, cm_alloc, rr_alloc),
         NEW dp_out, dp_out = IF clear \/ ~rob_takes THEN None ELSE dp.in
  PROVE  /\ dp_out \in Group /\ RatOut(rr_alloc) \in Group
         /\ rr' \in Stage(Group) /\ Follows(rr', rr, clear, full, id_insts_in, None)
         /\ dp' \in Stage(Group) /\ Follows(dp', dp, clear, cm, RatOut(rr_alloc), None)
         /\ is' \in Stage(Group) /\ Follows(is', is, clear, iq_full, dp_out, None)
<1>1. /\ cm \in BOOLEAN /\ full \in BOOLEAN
  BY DEF cm_full, rr_full
<1>2. /\ dp_out \in Group /\ RatOut(rr_alloc) \in Group
      /\ None \in Group /\ id_insts_in \in Group
  BY MaxGroupAssumption DEF TypeOK, Stage, RatOut, Group, None
<1>3. /\ rr \in Stage(Group) /\ dp \in Stage(Group) /\ is \in Stage(Group)
  BY DEF TypeOK
<1>4. /\ rr' = SkidNext(rr, clear, full, id_insts_in, None)
      /\ dp' = SkidNext(dp, clear, cm, RatOut(rr_alloc), None)
      /\ is' = SkidNext(is, clear, iq_full, dp_out, None)
  BY Zenon DEF Clock
<1>5. rr' \in Stage(Group) /\ Follows(rr', rr, clear, full, id_insts_in, None)
  BY ONLY SkidFields, <1>1, <1>2, <1>3, <1>4, clear \in BOOLEAN
<1>6. dp' \in Stage(Group) /\ Follows(dp', dp, clear, cm, RatOut(rr_alloc), None)
  BY ONLY SkidFields, <1>1, <1>2, <1>3, <1>4, clear \in BOOLEAN
<1>7. is' \in Stage(Group) /\ Follows(is', is, clear, iq_full, dp_out, None)
  BY ONLY SkidFields, <1>2, <1>3, <1>4, clear \in BOOLEAN, iq_full \in BOOLEAN
<1> QED BY <1>2, <1>5, <1>6, <1>7

\* Every clock edge preserves the invariant.
LEMMA FrontClock ==
  ASSUME FrontInv,
         NEW iq_full \in BOOLEAN, NEW cm_alloc \in BOOLEAN,
         NEW rr_alloc \in BOOLEAN, NEW rob_takes \in BOOLEAN,
         NEW clear \in BOOLEAN, NEW hit \in BOOLEAN,
         Clock(iq_full, cm_alloc, rr_alloc, rob_takes, clear, hit)
  PROVE  FrontInv'
<1> DEFINE cm     == cm_full(iq_full, cm_alloc)
           full   == rr_full(iq_full, cm_alloc, rr_alloc)
           fires  == FetchFires(full, clear, hit)
           rr_out == RatOut(rr_alloc)
           dp_out == IF clear \/ ~rob_takes THEN None ELSE dp.in
<1> USE DEF FrontInv
<1>1. /\ dp_out \in Group /\ rr_out \in Group
      /\ rr' \in Stage(Group) /\ Follows(rr', rr, clear, full, id_insts_in, None)
      /\ dp' \in Stage(Group) /\ Follows(dp', dp, clear, cm, rr_out, None)
      /\ is' \in Stage(Group) /\ Follows(is', is, clear, iq_full, dp_out, None)
  BY ClockStages
<1>2. /\ Answers(cm_alloc, rr_alloc, rob_takes, clear, hit)
      /\ pc_group' = (IF fires THEN NextPc(clear) ELSE pc_group)
      /\ id_insts_in' = IdNext(clear, full, fires)
      /\ iq_full_reg' = iq_full
      /\ recover' = clear
  BY DEF Clock
<1>3. /\ accepted' = IF clear THEN 0 ELSE accepted + Bit(dp_out)
      /\ dropped' = IF clear THEN 0
           ELSE dropped + (Bit(rr.in) - Bit(rr_out)) + (Bit(dp.in) - Bit(dp_out))
      /\ loaded' = IF clear THEN 0
           ELSE loaded + (IF LoadEn(iq_full) THEN Bit(is.in) ELSE 0)
  BY DEF Clock
<1>4. /\ pc_group' = IF fires THEN (IF clear THEN 1 ELSE pc_group + 1) ELSE pc_group
      /\ first' = IF clear THEN (IF fires THEN 1 ELSE pc_group) ELSE first
      /\ last' = IF clear THEN (IF fires THEN 0 ELSE pc_group - 1)
                 ELSE IF dp.in # None THEN dp.in ELSE last
  <2>1. /\ first' = IF clear THEN pc_group' ELSE first
        /\ last' = IF clear THEN pc_group' - 1 ELSE IF dp.in # None THEN dp.in ELSE last
    BY DEF Clock
  <2>2. pc_group' = IF fires THEN (IF clear THEN 1 ELSE pc_group + 1) ELSE pc_group
    BY <1>2 DEF NextPc
  <2> HIDE DEF fires
  <2> QED BY <2>1, <2>2
<1>5. /\ full \in BOOLEAN /\ cm \in BOOLEAN /\ fires \in BOOLEAN
      /\ fires => (clear \/ ~full)
      /\ (cm => full) /\ (iq_full => cm)
      /\ (fires /\ ~clear) => pc_group <= MAX_GROUP
      /\ rr_out = rr.in \/ rr_out = None
      /\ dp_out = dp.in \/ dp_out = None
  BY <1>2 DEF cm_full, rr_full, FetchFires, Answers, RatOut
<1>6. /\ rr \in Stage(Group) /\ dp \in Stage(Group) /\ is \in Stage(Group)
      /\ rr.in \in Group /\ rr.tmp \in Group /\ rr.stall_prev \in BOOLEAN
      /\ dp.in \in Group /\ dp.tmp \in Group /\ dp.stall_prev \in BOOLEAN
      /\ is.in \in Group /\ is.tmp \in Group /\ is.stall_prev \in BOOLEAN
      /\ pc_group \in 1..(MAX_GROUP + 1) /\ id_insts_in \in Group
      /\ MAX_GROUP \in Nat /\ MAX_GROUP > 0
  BY MaxGroupAssumption DEF TypeOK, Stage
<1> HIDE DEF cm, full, fires, rr_out, dp_out
<1>7. /\ pc_group' \in 1..(MAX_GROUP + 1)
      /\ id_insts_in' \in Group
  BY <1>2, <1>5, <1>6 DEF NextPc, IdNext, Group, None
<1>8. TypeOK'
  <2>1. first' \in Nat /\ last' \in Nat
    BY <1>6, <1>4 DEF TypeOK, Group
  <2>2. accepted' \in Nat /\ dropped' \in Nat /\ loaded' \in Nat
    BY <1>3, <1>5 DEF TypeOK, Bit
  <2> QED BY <1>1, <1>2, <1>5, <1>7, <2>1, <2>2 DEF TypeOK
<1>9. SkidsSuffice'
  <2>1. (rr.stall_prev => rr.in = None /\ id_insts_in = None)'
    BY <1>1, <1>2, <1>5 DEF Follows, IdNext
  <2>2. (dp.stall_prev => dp.in = None /\ rr.in = None)'
    BY <1>1, <1>5 DEF Follows
  <2>3. (is.stall_prev => is.in = None /\ dp.in = None)'
    BY <1>1, <1>5 DEF Follows
  <2>4. /\ rr.tmp # None => rr.stall_prev
        /\ dp.tmp # None => dp.stall_prev
        /\ is.tmp # None => is.stall_prev
    BY DEF SkidsSuffice
  <2>5. (rr.tmp # None => rr.stall_prev)'
    BY <1>1, <2>4 DEF Follows
  <2>6. (dp.tmp # None => dp.stall_prev)'
    BY <1>1, <2>4 DEF Follows
  <2>7. (is.tmp # None => is.stall_prev)'
    BY <1>1, <2>4 DEF Follows
  <2> QED BY <2>1, <2>2, <2>3, <2>5, <2>6, <2>7 DEF SkidsSuffice
<1>10. Conservation'
  BY <1>1, <1>2, <1>3, <1>5, <1>6, <1>4 DEF Conservation, SkidsSuffice, TypeOK,
     Follows, IdNext, NextPc, Bit, Group, None
<1>11. DispatchConservation'
  BY <1>1, <1>2, <1>3, <1>5, <1>6 DEF DispatchConservation, SkidsSuffice,
     PresentedIsLoaded, TypeOK, Follows, LoadEn, Bit, Group, None
<1>12. ProgramOrder'
  <2>1. /\ last < pc_group
        /\ dp.in # None => last < dp.in /\ dp.in < pc_group
        /\ dp.tmp # None => last < dp.tmp /\ dp.tmp < pc_group
        /\ rr.in # None => last < rr.in /\ rr.in < pc_group
        /\ rr.tmp # None => last < rr.tmp /\ rr.tmp < pc_group
        /\ id_insts_in # None => last < id_insts_in /\ id_insts_in < pc_group
    BY DEF ProgramOrder, InFlight
  <2>2. last' < pc_group'
    BY <1>6, <1>4, <2>1 DEF TypeOK, Group, None
  <2>3. dp'.in # None => last' < dp'.in /\ dp'.in < pc_group'
    BY <1>1, <1>2, <1>5, <1>6, <1>4, <2>1 DEF ProgramOrder, OlderThan, SkidsSuffice,
       TypeOK, Follows, IdNext, Group, None
  <2>4. dp'.tmp # None => last' < dp'.tmp /\ dp'.tmp < pc_group'
    BY <1>1, <1>2, <1>5, <1>6, <1>4, <2>1 DEF ProgramOrder, OlderThan, SkidsSuffice,
       TypeOK, Follows, IdNext, Group, None
  <2>5. rr'.in # None => last' < rr'.in /\ rr'.in < pc_group'
    BY <1>1, <1>2, <1>5, <1>6, <1>4, <2>1 DEF ProgramOrder, OlderThan, SkidsSuffice,
       TypeOK, Follows, IdNext, Group, None
  <2>6. rr'.tmp # None => last' < rr'.tmp /\ rr'.tmp < pc_group'
    BY <1>1, <1>2, <1>5, <1>6, <1>4, <2>1 DEF ProgramOrder, OlderThan, SkidsSuffice,
       TypeOK, Follows, IdNext, Group, None
  <2>7. id_insts_in' # None => last' < id_insts_in' /\ id_insts_in' < pc_group'
    BY <1>1, <1>2, <1>5, <1>6, <1>4, <2>1 DEF ProgramOrder, OlderThan, SkidsSuffice,
       TypeOK, Follows, IdNext, Group, None
  <2>8. OlderThan(dp.in, {dp.tmp, rr.in, rr.tmp, id_insts_in})'
    BY <1>1, <1>2, <1>5, <1>6, <1>4, <2>1 DEF ProgramOrder, OlderThan, SkidsSuffice,
       TypeOK, Follows, IdNext, Group, None
  <2>9. OlderThan(dp.tmp, {rr.in, rr.tmp, id_insts_in})'
    BY <1>1, <1>2, <1>5, <1>6, <1>4, <2>1 DEF ProgramOrder, OlderThan, SkidsSuffice,
       TypeOK, Follows, IdNext, Group, None
  <2>10. OlderThan(rr.in, {rr.tmp, id_insts_in})'
    BY <1>1, <1>2, <1>5, <1>6, <1>4, <2>1 DEF ProgramOrder, OlderThan, SkidsSuffice,
       TypeOK, Follows, IdNext, Group, None
  <2>11. OlderThan(rr.tmp, {id_insts_in})'
    BY <1>1, <1>2, <1>5, <1>6, <1>4, <2>1 DEF ProgramOrder, OlderThan, SkidsSuffice,
       TypeOK, Follows, IdNext, Group, None
  <2> QED BY <2>2, <2>3, <2>4, <2>5, <2>6, <2>7, <2>8, <2>9, <2>10, <2>11 DEF ProgramOrder, InFlight
<1>13. NothingSurvivesFlush' /\ PresentedIsLoaded'
  BY <1>1, <1>2, <1>5, <1>6 DEF NothingSurvivesFlush, PresentedIsLoaded,
     Follows, IdNext, Stage, SkidReset
<1> QED BY <1>8, <1>9, <1>10, <1>11, <1>12, <1>13

\* Every step, stuttering included, preserves the invariant.
LEMMA FrontSteps == FrontInv /\ [Next]_vars => FrontInv'
<1> SUFFICES ASSUME FrontInv, [Next]_vars PROVE FrontInv'
  OBVIOUS
<1>1. CASE Flush
  BY <1>1, FrontClock, IcacheAssumption DEF Flush
<1>2. CASE Advance
  <2>1. PICK iq_full \in BOOLEAN, cm_alloc \in BOOLEAN, rr_alloc \in BOOLEAN,
             rob_takes \in BOOLEAN, hit \in BOOLEAN :
          Clock(iq_full, cm_alloc, rr_alloc, rob_takes, FALSE, hit)
    BY <1>2 DEF Advance
  <2> QED BY <2>1, FrontClock
<1>3. CASE UNCHANGED vars
  BY <1>3 DEF vars, hist, FrontInv, TypeOK, SkidsSuffice, Conservation,
     ProgramOrder, OlderThan, InFlight, DispatchConservation,
     NothingSurvivesFlush, PresentedIsLoaded
<1> QED BY <1>1, <1>2, <1>3 DEF Next

\* The inductive invariant holds in every behaviour of the pipeline.
THEOREM FrontInvariance == Spec => []FrontInv
BY FrontInitially, FrontSteps, PTL DEF Spec

\* The registers are well typed, for every MAX_GROUP.
THEOREM TypeInvariant == Spec => []TypeOK
<1>1. FrontInv => TypeOK
  BY DEF FrontInv
<1> QED BY <1>1, FrontInvariance, PTL

\* One skid entry per stage is enough, whatever the stall inputs do.
THEOREM SkidsAlwaysSuffice == Spec => []SkidsSuffice
<1>1. FrontInv => SkidsSuffice
  BY DEF FrontInv
<1> QED BY <1>1, FrontInvariance, PTL

\* No stall or flush loses or duplicates a fetch group before the ROB, and
\* none arrives there out of fetch order.
THEOREM InOrderDelivery == Spec => [](Conservation /\ ProgramOrder)
<1>1. FrontInv => Conservation /\ ProgramOrder
  BY DEF FrontInv
<1> QED BY <1>1, FrontInvariance, PTL

\* Every group the ROB took is loaded by the issue queues exactly once.
THEOREM EveryDispatchLoaded == Spec => []DispatchConservation
<1>1. FrontInv => DispatchConservation
  BY DEF FrontInv
<1> QED BY <1>1, FrontInvariance, PTL

\* rat.sv:82 "When recover = 1, uop_in = 0" always holds.
THEOREM FlushIsComplete == Spec => []NothingSurvivesFlush
<1>1. FrontInv => NothingSurvivesFlush
  BY DEF FrontInv
<1> QED BY <1>1, FrontInvariance, PTL
\* A flush redirects the fetch in its own cycle, stalled or not, when the
\* instruction cache answers.
LEMMA FlushRedirects == ICACHE_HIT = {TRUE} /\ RedirectTaken /\ [Next]_vars => RedirectTaken'
<1> SUFFICES ASSUME ICACHE_HIT = {TRUE}, RedirectTaken, [Next]_vars PROVE first' = 1
  BY DEF RedirectTaken
<1>1. ASSUME NEW iq_full \in BOOLEAN, NEW rr_alloc \in BOOLEAN, NEW rob_takes \in BOOLEAN,
             Clock(iq_full, TRUE, rr_alloc, rob_takes, TRUE, TRUE)
      PROVE  first' = 1
  <2>1. FetchFires(rr_full(iq_full, TRUE, rr_alloc), TRUE, TRUE) /\ NextPc(TRUE) = 1
    BY DEF FetchFires, NextPc
  <2>2. pc_group' = 1 /\ first' = pc_group'
    BY <1>1, <2>1 DEF Clock
  <2> QED BY <2>2
<1>2. CASE Flush
  BY <1>1, <1>2 DEF Flush
<1>3. CASE Advance
  BY <1>3 DEF Advance, Clock, RedirectTaken
<1>4. CASE UNCHANGED vars
  BY <1>4 DEF vars, hist, RedirectTaken
<1> QED BY <1>2, <1>3, <1>4 DEF Next

\* Where the instruction cache answers in every cycle, as in the simulator, no
\* redirect is missed: every path starts with the group at its target.
THEOREM EveryRedirectTaken == ICACHE_HIT = {TRUE} => (Spec => []RedirectTaken)
<1> SUFFICES ASSUME ICACHE_HIT = {TRUE} PROVE Spec => []RedirectTaken
  OBVIOUS
<1>1. Init => RedirectTaken
  BY DEF Init, RedirectTaken
<1>2. RedirectTaken /\ [Next]_vars => RedirectTaken'
  BY FlushRedirects
<1> QED BY <1>1, <1>2, PTL DEF Spec

-----------------------------------------------------------------------------
(* FetchPath.                                                                *)

(* Address arithmetic.                                                       *)

\* A remainder is known by its equation.
LEMMA Remainder ==
  ASSUME NEW m \in Nat \ {0}, NEW q \in Int, NEW r \in 0..(m - 1), NEW x \in Int,
         x = m * q + r
  PROVE  x % m = r
<1> DEFINE d == (x \div m) - q
<1>1. x = m * (x \div m) + (x % m) /\ x % m \in 0..(m - 1) /\ x \div m \in Int
  BY SMT
<1>2. m * d = r - (x % m) /\ d \in Int
  BY <1>1, SMT
<1>3. d = 0
  <2>1. CASE d >= 1
    <3>1. m * d >= m
      BY <2>1, <1>2, SMT
    <3> QED BY <3>1, <1>1, <1>2
  <2>2. CASE d <= -1
    <3>1. m * d <= -m
      BY <2>2, <1>2, SMT
    <3> QED BY <3>1, <1>1, <1>2
  <2> QED BY <2>1, <2>2, <1>2
<1> QED BY <1>1, <1>2, <1>3, SMT

\* Counting on by one, with and without wrapping in between.
LEMMA PlusOne ==
  ASSUME NEW a \in Addr, NEW n \in Nat
  PROVE  Plus(Plus(a, n), 1) = Plus(a, n + 1) /\ Plus(a, n) \in Addr
<1> DEFINE m == ADDR_SPACE  x == a + n
<1>0. m \in Nat \ {0} /\ x \in Int
  BY PathAssumption DEF Addr
<1> HIDE DEF m, x
<1>1. x = m * (x \div m) + (x % m) /\ x % m \in 0..(m - 1) /\ x \div m \in Int
  BY <1>0, SMT
<1> DEFINE q == x \div m  r == x % m  y == x + 1
<1>a. x = m * q + r /\ r \in 0..(m - 1) /\ q \in Int /\ y = x + 1 /\ y \in Int
  BY <1>0, <1>1
<1> HIDE DEF q, r, y
<1>2. (r + 1) % m = y % m
  <2>1. CASE r + 1 < m
    <3> DEFINE r1 == r + 1
    <3>1. y = m * q + r1 /\ r1 = m * 0 + r1 /\ r1 \in 0..(m - 1) /\ r1 \in Int
      BY <1>0, <1>a, <2>1, SMT
    <3> HIDE DEF r1
    <3>2. y % m = r1
      <4>1. y = m * q + r1 /\ q \in Int /\ r1 \in 0..(m - 1) /\ y \in Int /\ m \in Nat \ {0}
        BY <1>0, <1>a, <3>1
      <4> QED BY ONLY <4>1, Remainder
    <3>3. r1 % m = r1
      BY ONLY <1>0, <3>1, Remainder, 0 \in Int
    <3> QED BY <3>2, <3>3 DEF r1
  <2>2. CASE r + 1 = m
    <3> DEFINE q1 == q + 1
    <3>1. m * q1 = m * q + m
      BY <1>0, <1>a, SMT
    <3>2. y = m * q1 + 0 /\ q1 \in Int /\ 0 \in 0..(m - 1)
      BY <1>0, <1>a, <2>2, <3>1
    <3> HIDE DEF q1
    <3>3. y % m = 0
      BY ONLY <1>0, <1>a, <3>2, Remainder
    <3>4. m = m * 1 + 0 /\ m \in Int /\ 1 \in Int
      BY <1>0, SMT
    <3>5. m % m = 0
      BY ONLY <1>0, <3>2, <3>4, Remainder
    <3> QED BY <2>2, <3>3, <3>5
  <2> QED BY <1>a, <1>0, <2>1, <2>2
<1>3. Plus(Plus(a, n), 1) = (r + 1) % m /\ Plus(a, n + 1) = y % m
  <2>1. (a + n) + 1 = a + (n + 1)
    BY PathAssumption DEF Addr
  <2> QED BY <2>1 DEF Plus, m, x, r, y
<1>4. Plus(a, n) \in Addr
  BY <1>1 DEF Plus, Addr, m, x
<1> QED BY <1>2, <1>3, <1>4

\* The first instruction of a group is at the group's address.
LEMMA PlusZero == ASSUME NEW a \in Addr PROVE Plus(a, 0) = a
<1> DEFINE m == ADDR_SPACE
<1>1. a + 0 = a /\ a = m * 0 + a /\ a \in Int /\ a \in 0..(m - 1)
      /\ m \in Nat \ {0} /\ 0 \in Int
  BY PathAssumption DEF Addr
<1>2. Plus(a, 0) = a % m
  BY <1>1 DEF Plus
<1> HIDE DEF m
<1>3. a % m = a
  BY ONLY <1>1, Remainder
<1> QED BY <1>2, <1>3

-----------------------------------------------------------------------------
(* The inductive invariant adds that a prediction means something: what is   *)
(* predicted taken is a branch, and what is not goes on at the next address. *)
(* It makes rob.sv and branch_pred.sv agree on what is mispredicted.         *)

Meant(u) == IF u.pred_taken THEN Branch(u.pc) ELSE u.pred_addr = Plus(u.pc, 1)
PredictionsMeant == \A k \in 1..Len(window) : Meant(window[k])

PathInv == PathTypeOK /\ FetchChains /\ RetiresProgram /\ PredictionsMeant

\* The instructions s lead from one address to another, by their predictions.
Chained(s, from, to) ==
  /\ \A k \in 1..(Len(s) - 1) : s[k + 1].pc = s[k].pred_addr
  /\ IF s = <<>> THEN from = to ELSE s[1].pc = from /\ to = s[Len(s)].pred_addr

\* The invariant holds after reset.
LEMMA PathInitially == PathInit => PathInv
<1> SUFFICES ASSUME PathInit PROVE PathInv
  OBVIOUS
<1>1. PathTypeOK
  <2>1. 0 \in Addr /\ window \in Seq(Instruction)
    BY PathAssumption, EmptySeq DEF PathInit, Addr
  <2> QED BY <2>1 DEF PathInit, PathTypeOK
<1>2. FetchChains /\ RetiresProgram /\ PredictionsMeant
  BY DEF PathInit, FetchChains, RetiresProgram, PredictionsMeant
<1> QED BY <1>1, <1>2 DEF PathInv

-----------------------------------------------------------------------------
(* Chains.                                                                   *)

\* What is left of a chain when its n oldest leave is a chain.
LEMMA ChainSuffix ==
  ASSUME NEW s \in Seq(Instruction), NEW from, NEW to, Chained(s, from, to),
         NEW n \in 0..Len(s), NEW t, t = SubSeq(s, n + 1, Len(s))
  PROVE  /\ t \in Seq(Instruction) /\ Len(t) = Len(s) - n
         /\ \A k \in 1..Len(t) : t[k] = s[n + k]
         /\ Chained(t, IF n = 0 THEN from ELSE s[n].pred_addr, to)
<1>1. /\ t \in Seq(Instruction) /\ Len(t) = Len(s) - n /\ Len(s) \in Nat
      /\ \A k \in 1..Len(t) : t[k] = s[n + k]
  BY SubSeqProperties
<1>0. n \in 0..Len(s)
  OBVIOUS
<1>2. \A k \in 1..(Len(t) - 1) : t[k + 1].pc = t[k].pred_addr
  <2> TAKE k \in 1..(Len(t) - 1)
  <2>1. t[k] = s[n + k] /\ t[k + 1] = s[(n + k) + 1] /\ n + k \in 1..(Len(s) - 1)
    BY <1>1
  <2> QED BY <2>1 DEF Chained
<1>3. CASE n = Len(s)
  <2>1. t = <<>> /\ (n = 0 <=> s = <<>>)
    BY <1>1, <1>3, EmptySeq
  <2> QED BY <1>1, <1>2, <1>3, <2>1 DEF Chained
<1>4. CASE n < Len(s)
  <2>1. t # <<>> /\ s # <<>> /\ t[1] = s[n + 1] /\ t[Len(t)] = s[Len(s)]
    <3>1. 1 \in 1..Len(t) /\ Len(t) \in 1..Len(t) /\ n + Len(t) = Len(s)
      BY ONLY <1>0, <1>1, <1>4
    <3>2. t # <<>> /\ s # <<>>
      BY ONLY <1>0, <1>1, <1>4, EmptySeq, Len(<<>>) = 0
    <3> QED BY <1>1, <3>1, <3>2
  <2>2. s[n + 1].pc = IF n = 0 THEN from ELSE s[n].pred_addr
    BY <1>1, <1>4, <2>1 DEF Chained
  <2> QED BY <1>1, <1>2, <2>1, <2>2 DEF Chained
<1> QED BY <1>1, <1>3, <1>4

\* A chain goes on with a chain that begins where it leads.
LEMMA ChainConcat ==
  ASSUME NEW s \in Seq(Instruction), NEW t \in Seq(Instruction),
         NEW from, NEW by, NEW to, Chained(s, from, by), Chained(t, by, to)
  PROVE  Chained(s \o t, from, to)
<1>1. CASE s = <<>>
  BY <1>1, ConcatEmptySeq DEF Chained
<1>2. CASE t = <<>>
  BY <1>2, ConcatEmptySeq DEF Chained
<1>3. CASE s # <<>> /\ t # <<>>
  <2> DEFINE w == s \o t
  <2>1. /\ Len(w) = Len(s) + Len(t) /\ w \in Seq(Instruction)
        /\ Len(s) \in Nat \ {0} /\ Len(t) \in Nat \ {0}
        /\ \A k \in 1..Len(w) : w[k] = IF k <= Len(s) THEN s[k] ELSE t[k - Len(s)]
    BY <1>3, ConcatProperties, EmptySeq
  <2> HIDE DEF w
  <2>2. w[1].pc = from /\ to = w[Len(w)].pred_addr /\ w # <<>>
    <3>1. /\ 1 \in 1..Len(w) /\ Len(w) \in 1..Len(w)
          /\ Len(w) - Len(s) = Len(t) /\ ~(Len(w) <= Len(s)) /\ 1 <= Len(s)
      BY <2>1
    <3>2. w[1] = s[1] /\ w[Len(w)] = t[Len(t)]
      BY <2>1, <3>1
    <3>3. w # <<>>
      BY <2>1, <3>1, EmptySeq
    <3> QED BY <1>3, <3>2, <3>3 DEF Chained
  <2>3. ASSUME NEW k \in 1..(Len(w) - 1) PROVE w[k + 1].pc = w[k].pred_addr
    <3>0. k \in 1..Len(w) /\ k + 1 \in 1..Len(w)
      BY <2>1
    <3>1. CASE k < Len(s)
      <4>1. w[k] = s[k] /\ w[k + 1] = s[k + 1] /\ k \in 1..(Len(s) - 1)
        BY <2>1, <3>0, <3>1
      <4> QED BY <4>1 DEF Chained
    <3>2. CASE k = Len(s)
      <4>1. w[k] = s[Len(s)] /\ w[k + 1] = t[1]
        <5>1. (k + 1) - Len(s) = 1
          BY <2>1, <3>2
        <5> QED BY <2>1, <3>0, <3>2, <5>1
      <4> QED BY <1>3, <4>1 DEF Chained
    <3>3. CASE k > Len(s)
      <4> DEFINE j == k - Len(s)
      <4>1. j \in 1..(Len(t) - 1) /\ (k + 1) - Len(s) = j + 1
        BY <2>1, <3>3
      <4>2. w[k] = t[j] /\ w[k + 1] = t[j + 1]
        BY <2>1, <3>0, <3>3, <4>1
      <4> HIDE DEF j
      <4> QED BY <4>1, <4>2 DEF Chained
    <3> QED BY <2>1, <3>1, <3>2, <3>3
  <2> QED BY <2>2, <2>3 DEF Chained, w
<1> QED BY <1>1, <1>2, <1>3

-----------------------------------------------------------------------------
(* What retires.                                                             *)

\* An instruction that is not mispredicted goes on where its prediction said,
\* and the two tests for a misprediction agree.
LEMMA OutcomeFollows ==
  ASSUME NEW u \in Instruction, Meant(u), NEW o \in Outcomes(u.pc),
         NEW e, e = Executed(u, o)
  PROVE  /\ e.pc = u.pc /\ e.br_addr \in Addr
         /\ Mispredicts(e) <=> Recovers(e)
         /\ ~Recovers(e) => e.br_addr = u.pred_addr
<1>1. /\ e.pc = u.pc /\ e.pred_taken = u.pred_taken /\ e.pred_addr = u.pred_addr
      /\ e.br_taken = o.br_taken /\ e.br_addr = o.br_addr
  BY DEF Executed
<1>2. /\ o.br_taken \in BOOLEAN /\ o.br_addr \in Addr
      /\ ~o.br_taken => o.br_addr = Plus(u.pc, 1)
      /\ ~Branch(u.pc) => ~o.br_taken
  BY DEF Outcomes, Outcome, Branch
<1>3. u.pred_taken \in BOOLEAN
  BY DEF Instruction
<1> QED BY <1>1, <1>2, <1>3 DEF Meant, Mispredicts, Recovers

\* What retires: the oldest n with outcomes, of which only the last may be
\* mispredicted.
LEMMA RetirementsFollow ==
  ASSUME PathTypeOK, PredictionsMeant, NEW n \in 0..Len(window), NEW r \in Retirements(n)
  PROVE  /\ DOMAIN r = 1..n /\ Len(r) = n
         /\ \A k \in 1..n :
              /\ r[k].pc = window[k].pc /\ r[k].br_addr \in Addr
              /\ Mispredicts(r[k]) <=> Recovers(r[k])
              /\ ~Recovers(r[k]) => r[k].br_addr = window[k].pred_addr
         /\ \A k \in 1..(n - 1) : ~Recovers(r[k])
<1>1. PICK o \in [1..n -> Outcome] : r = [k \in 1..n |-> Executed(window[k], o[k])]
  BY DEF Retirements
<1>2. /\ \A k \in 1..n : [br_taken |-> r[k].br_taken, br_addr |-> r[k].br_addr]
                            \in Outcomes(r[k].pc)
      /\ \A k \in 1..(n - 1) : ~Recovers(r[k])
  BY DEF Retirements
<1>3. n \in Nat /\ Len(window) \in Nat /\ n <= Len(window)
  BY LenProperties DEF PathTypeOK
<1>4. DOMAIN r = 1..n /\ Len(r) = n
  BY <1>1, <1>3
<1>5. ASSUME NEW k \in 1..n
      PROVE  /\ r[k].pc = window[k].pc /\ r[k].br_addr \in Addr
             /\ Mispredicts(r[k]) <=> Recovers(r[k])
             /\ ~Recovers(r[k]) => r[k].br_addr = window[k].pred_addr
  <2>1. k \in 1..Len(window) /\ window[k] \in Instruction /\ Meant(window[k])
    BY <1>3, ElementOfSeq DEF PathTypeOK, PredictionsMeant
  <2>2. r[k] = Executed(window[k], o[k]) /\ o[k] \in Outcome
    BY <1>1
  <2>3. o[k] \in Outcomes(window[k].pc)
    <3>1. /\ r[k].pc = window[k].pc /\ r[k].br_taken = o[k].br_taken
          /\ r[k].br_addr = o[k].br_addr
      BY <2>2 DEF Executed
    <3>2. [br_taken |-> o[k].br_taken, br_addr |-> o[k].br_addr] = o[k]
      BY <2>2 DEF Outcome
    <3> QED BY <1>2, <3>1, <3>2
  <2> QED BY <2>1, <2>2, <2>3, OutcomeFollows
<1> QED BY <1>2, <1>4, <1>5

\* Fetch is redirected exactly when there is a recovery, and then by the last
\* of what retires.
LEMMA RedirectFollows ==
  ASSUME PathTypeOK, PredictionsMeant, NEW n \in 0..Len(window), NEW r \in Retirements(n)
  PROVE  IF \E k \in DOMAIN r : Recovers(r[k])
         THEN n > 0 /\ Redirect(r) = {n} ELSE Redirect(r) = {}
<1>1. /\ DOMAIN r = 1..n
      /\ \A k \in 1..n : Mispredicts(r[k]) <=> Recovers(r[k])
      /\ \A k \in 1..(n - 1) : ~Recovers(r[k])
  BY RetirementsFollow
<1>2. n \in Nat
  BY LenProperties DEF PathTypeOK
<1>3. ASSUME NEW k \in DOMAIN r, Recovers(r[k]) PROVE k = n
  BY <1>1, <1>2, <1>3
<1>4. CASE \E k \in DOMAIN r : Recovers(r[k])
  <2>1. n \in 1..n /\ Mispredicts(r[n])
    BY <1>1, <1>2, <1>3, <1>4
  <2>2. \A j \in 1..(n - 1) : ~Mispredicts(r[j])
    BY <1>1, <1>2
  <2> QED BY <1>1, <1>2, <1>3, <1>4, <2>1, <2>2 DEF Redirect
<1>5. CASE ~\E k \in DOMAIN r : Recovers(r[k])
  BY <1>1, <1>5 DEF Redirect
<1> QED BY <1>4, <1>5

-----------------------------------------------------------------------------
(* What is fetched.                                                          *)

\* A group of any prediction leads from the fetch address to the next one.
LEMMA GroupFollows ==
  ASSUME pc \in Addr, NEW taken \in Predictions
  PROVE  /\ FetchedGroup(taken) \in Seq(Instruction)
         /\ \A k \in 1..Len(FetchedGroup(taken)) : Meant(FetchedGroup(taken)[k])
         /\ Chained(FetchedGroup(taken), pc, next_pc(taken))
         /\ next_pc(taken) \in Addr
<1> DEFINE g == FetchedGroup(taken)
<1>0. FETCH_WIDTH \in Nat \ {0}
  BY PathAssumption
<1>1. CASE taken = {}
  <2>1. g = [k \in 1..FETCH_WIDTH |->
              [pc |-> Plus(pc, k - 1), pred_taken |-> FALSE,
               pred_addr |-> Plus(Plus(pc, k - 1), 1)]]
    BY <1>1 DEF FetchedGroup, Fetched
  <2>2. \A k \in 1..FETCH_WIDTH :
          Plus(pc, k - 1) \in Addr /\ Plus(Plus(pc, k - 1), 1) = Plus(pc, k)
          /\ Plus(pc, k) \in Addr
    <3> TAKE k \in 1..FETCH_WIDTH
    <3>1. k - 1 \in Nat /\ k \in Nat /\ (k - 1) + 1 = k
      BY <1>0
    <3> QED BY <3>1, PlusOne
  <2> DEFINE h == [k \in 1..FETCH_WIDTH |->
                    [pc |-> Plus(pc, k - 1), pred_taken |-> FALSE, pred_addr |-> Plus(pc, k)]]
  <2>3. g = h
    BY <2>1, <2>2
  <2>4. h \in Seq(Instruction) /\ Len(h) = FETCH_WIDTH
    BY <1>0, <2>2 DEF Instruction
  <2>5. \A k \in 1..FETCH_WIDTH : h[k].pc = Plus(pc, k - 1) /\ ~h[k].pred_taken
                                  /\ h[k].pred_addr = Plus(pc, k)
    OBVIOUS
  <2> HIDE DEF g, h
  <2>6. \A k \in 1..Len(h) : Meant(h[k])
    BY <2>2, <2>4, <2>5 DEF Meant
  <2>7. next_pc(taken) = Plus(pc, FETCH_WIDTH)
    BY <1>1 DEF next_pc
  <2>8. h # <<>> /\ h[1].pc = pc /\ h[Len(h)].pred_addr = Plus(pc, FETCH_WIDTH)
    <3>1. h[1].pc = Plus(pc, 0) /\ 1 \in 1..FETCH_WIDTH /\ FETCH_WIDTH \in 1..FETCH_WIDTH
      BY <1>0, <2>5
    <3>2. h # <<>>
      BY <1>0, <2>4, EmptySeq
    <3> QED BY <2>4, <2>5, <3>1, <3>2, PlusZero
  <2>9. \A k \in 1..(Len(h) - 1) : h[k + 1].pc = h[k].pred_addr
    <3> TAKE k \in 1..(Len(h) - 1)
    <3>1. k \in 1..FETCH_WIDTH /\ k + 1 \in 1..FETCH_WIDTH /\ (k + 1) - 1 = k
      BY <1>0, <2>4
    <3> QED BY <2>5, <3>1
  <2>10. Plus(pc, FETCH_WIDTH) \in Addr
    BY <1>0, PlusOne
  <2> QED BY <2>3, <2>4, <2>6, <2>7, <2>8, <2>9, <2>10 DEF Chained, g
<1>2. CASE taken # {}
  <2>1. PICK i \in 0..(FETCH_WIDTH - 1), t \in Addr :
          Branch(Plus(pc, i)) /\ taken = {[i |-> i, target |-> t]}
    BY <1>2 DEF Predictions
  <2> DEFINE it == CHOOSE x \in taken : TRUE
  <2>2. it = [i |-> i, target |-> t]
    BY <2>1
  <2> HIDE DEF it
  <2>3a. it.target = t
    BY <2>2
  <2> DEFINE h == [k \in 1..(i + 1) |->
                    [pc |-> Plus(pc, k - 1), pred_taken |-> k = i + 1,
                     pred_addr |-> IF k = i + 1 THEN t ELSE Plus(pc, k)]]
  <2>3. i \in Nat
    BY <1>0
  <2>4. \A k \in 1..(i + 1) :
          Plus(pc, k - 1) \in Addr /\ Plus(Plus(pc, k - 1), 1) = Plus(pc, k)
          /\ Plus(pc, k) \in Addr
    <3> TAKE k \in 1..(i + 1)
    <3>1. k - 1 \in Nat /\ k \in Nat /\ (k - 1) + 1 = k
      BY <2>3
    <3> QED BY <3>1, PlusOne
  <2>5. g = h
    <3>1. g = [k \in 1..(i + 1) |-> Fetched(taken, k)]
      BY <2>1, <2>2 DEF FetchedGroup
    <3>2. ASSUME NEW k \in 1..(i + 1)
          PROVE  Fetched(taken, k) =
                   [pc |-> Plus(pc, k - 1), pred_taken |-> k = i + 1,
                    pred_addr |-> IF k = i + 1 THEN t ELSE Plus(pc, k)]
      <4>1. CASE k = i + 1
        <5>1. i = k - 1
          BY <2>3, <4>1
        <5>2. {x \in taken : x.i = k - 1} = taken
          BY <2>1, <5>1
        <5>3. Fetched(taken, k) =
                [pc |-> Plus(pc, k - 1), pred_taken |-> TRUE,
                 pred_addr |-> it.target]
          BY <1>2, <5>2, Zenon DEF Fetched, it
        <5> QED BY <2>3a, <4>1, <5>3
      <4>2. CASE k # i + 1
        <5>1. i # k - 1
          BY <2>3, <4>2
        <5>2. {x \in taken : x.i = k - 1} = {}
          BY <2>1, <5>1
        <5> QED BY <2>4, <4>2, <5>2 DEF Fetched
      <4> QED BY <4>1, <4>2
    <3> QED BY <3>1, <3>2
  <2>6. h \in Seq(Instruction) /\ Len(h) = i + 1
    BY <2>3, <2>4 DEF Instruction
  <2>7. \A k \in 1..(i + 1) :
          /\ h[k].pc = Plus(pc, k - 1) /\ (h[k].pred_taken <=> k = i + 1)
          /\ h[k].pred_addr = IF k = i + 1 THEN t ELSE Plus(pc, k)
    OBVIOUS
  <2> HIDE DEF g, h
  <2>8. \A k \in 1..Len(h) : Meant(h[k])
    <3> TAKE k \in 1..Len(h)
    <3>1. CASE k = i + 1
      <4>1. k - 1 = i /\ k \in 1..(i + 1)
        BY <2>3, <3>1
      <4> QED BY <2>1, <2>7, <3>1, <4>1 DEF Meant
    <3>2. CASE k # i + 1
      BY <2>4, <2>6, <2>7, <3>2 DEF Meant
    <3> QED BY <3>1, <3>2
  <2>9. next_pc(taken) = t
    <3>1. next_pc(taken) = it.target
      BY <1>2, Zenon DEF next_pc, it
    <3> QED BY <2>3a, <3>1
  <2>10. h # <<>> /\ h[1].pc = pc /\ h[Len(h)].pred_addr = t
    <3>1. h[1].pc = Plus(pc, 0) /\ 1 \in 1..(i + 1) /\ i + 1 \in 1..(i + 1)
      BY <2>3, <2>7
    <3>2. h # <<>>
      BY <2>3, <2>6, EmptySeq
    <3> QED BY <2>6, <2>7, <3>1, <3>2, PlusZero
  <2>11. \A k \in 1..(Len(h) - 1) : h[k + 1].pc = h[k].pred_addr
    <3> TAKE k \in 1..(Len(h) - 1)
    <3>1. k \in 1..(i + 1) /\ k + 1 \in 1..(i + 1) /\ (k + 1) - 1 = k /\ k # i + 1
      BY <2>3, <2>6
    <3> QED BY <2>7, <3>1
  <2> QED BY <2>5, <2>6, <2>8, <2>9, <2>10, <2>11 DEF Chained, g
<1> QED BY <1>1, <1>2

-----------------------------------------------------------------------------
(* One clock edge.                                                           *)

\* What retires is what the program executes, from arch_pc on, and leaves
\* arch_pc where its last instruction goes.
LEMMA RetiresInOrder ==
  ASSUME PathInv, NEW n \in 0..Len(window), NEW r \in Retirements(n),
         NEW stall \in BOOLEAN, NEW taken \in Predictions, PathClock(r, stall, taken)
  PROVE  /\ RetiresProgram'
         /\ arch_pc' = (IF n = 0 THEN arch_pc ELSE r[n].br_addr)
<1> DEFINE go_on(k) == IF k = 0 THEN arch_pc ELSE r[k].br_addr
<1>1. /\ DOMAIN r = 1..n /\ Len(r) = n
      /\ \A k \in 1..n : /\ r[k].pc = window[k].pc
                         /\ ~Recovers(r[k]) => r[k].br_addr = window[k].pred_addr
      /\ \A k \in 1..(n - 1) : ~Recovers(r[k])
  BY RetirementsFollow DEF PathInv
<1>2. n \in Nat /\ Len(window) \in Nat /\ n <= Len(window)
  BY LenProperties DEF PathInv, PathTypeOK
<1>3. /\ arch_pc' = go_on(Len(r))
      /\ strayed' = (strayed \/ \E k \in DOMAIN r : r[k].pc # go_on(k - 1))
  BY DEF PathClock
<1>4. ASSUME NEW k \in 1..n PROVE r[k].pc = go_on(k - 1)
  <2>1. CASE k = 1
    <3>1. window # <<>>
      BY <1>2, EmptySeq
    <3> QED BY <1>1, <2>1, <3>1 DEF PathInv, FetchChains
  <2>2. CASE k # 1
    <3> DEFINE j == k - 1
    <3>1. j \in 1..(n - 1) /\ j \in 1..n /\ j \in 1..(Len(window) - 1) /\ j # 0 /\ k = j + 1
      BY <1>2, <2>2
    <3> HIDE DEF j
    <3>2. r[j].br_addr = window[j].pred_addr
      BY <1>1, <3>1
    <3>3. window[j + 1].pc = window[j].pred_addr
      BY <3>1 DEF PathInv, FetchChains
    <3>4. r[k].pc = window[j + 1].pc
      BY <1>1, <3>1
    <3>5. go_on(k - 1) = r[j].br_addr
      BY <3>1 DEF j
    <3> QED BY <3>2, <3>3, <3>4, <3>5
  <2> QED BY <2>1, <2>2
<1>5. ~strayed'
  BY <1>1, <1>3, <1>4 DEF PathInv, RetiresProgram
<1> QED BY <1>1, <1>3, <1>5 DEF RetiresProgram

\* Every clock edge preserves the invariant.
LEMMA PathClockInv ==
  ASSUME PathInv, NEW n \in 0..Len(window), NEW r \in Retirements(n),
         NEW stall \in BOOLEAN, NEW taken \in Predictions, PathClock(r, stall, taken)
  PROVE  PathInv'
<1>1. /\ DOMAIN r = 1..n /\ Len(r) = n
      /\ \A k \in 1..n : /\ r[k].br_addr \in Addr
                         /\ ~Recovers(r[k]) => r[k].br_addr = window[k].pred_addr
  BY RetirementsFollow DEF PathInv
<1>2. /\ n \in Nat /\ Len(window) \in Nat /\ n <= Len(window)
      /\ pc \in Addr /\ arch_pc \in Addr /\ window \in Seq(Instruction)
  BY LenProperties DEF PathInv, PathTypeOK
<1>3. /\ RetiresProgram'
      /\ arch_pc' = (IF n = 0 THEN arch_pc ELSE r[n].br_addr)
  BY RetiresInOrder
<1>4. arch_pc' \in Addr /\ strayed' \in BOOLEAN
  <2>1. arch_pc' \in Addr
    BY <1>1, <1>2, <1>3
  <2>2. strayed' \in BOOLEAN
    BY Zenon DEF PathClock
  <2> QED BY <2>1, <2>2
<1>5. CASE \E k \in DOMAIN r : Recovers(r[k])
  <2>1. n > 0 /\ Redirect(r) = {n}
    BY <1>5, RedirectFollows DEF PathInv
  <2>2. window' = <<>>
    BY <1>5 DEF PathClock
  <2>3. pc' = r[n].br_addr
    BY <2>1 DEF PathClock
  <2>4. r[n].br_addr \in Addr /\ pc' = arch_pc'
    BY <1>1, <1>2, <1>3, <2>1, <2>3
  <2>5. PathTypeOK'
    BY <1>4, <2>2, <2>3, <2>4, EmptySeq DEF PathTypeOK
  <2>6. FetchChains' /\ PredictionsMeant'
    BY <2>2, <2>4, EmptySeq DEF FetchChains, PredictionsMeant
  <2> QED BY <1>3, <2>5, <2>6 DEF PathInv
<1>6. CASE ~\E k \in DOMAIN r : Recovers(r[k])
  <2> DEFINE rest == SubSeq(window, n + 1, Len(window))
             new  == IF stall THEN <<>> ELSE FetchedGroup(taken)
  <2>1. Redirect(r) = {}
    BY <1>6, RedirectFollows DEF PathInv
  <2>2. window' = rest \o new
    BY <1>1, <1>6 DEF PathClock
  <2>3. pc' = IF stall THEN pc ELSE next_pc(taken)
    BY <2>1 DEF PathClock
  <2>4. arch_pc' = IF n = 0 THEN arch_pc ELSE window[n].pred_addr
    BY <1>1, <1>2, <1>3, <1>6
  <2>5. /\ rest \in Seq(Instruction) /\ Len(rest) = Len(window) - n
        /\ \A k \in 1..Len(rest) : rest[k] = window[n + k]
        /\ Chained(rest, arch_pc', pc)
    <3>1. Chained(window, arch_pc, pc)
      BY DEF PathInv, FetchChains, Chained
    <3>2. n \in 0..Len(window)
      OBVIOUS
    <3>3. /\ rest \in Seq(Instruction) /\ Len(rest) = Len(window) - n
          /\ \A k \in 1..Len(rest) : rest[k] = window[n + k]
          /\ Chained(rest, IF n = 0 THEN arch_pc ELSE window[n].pred_addr, pc)
      BY ONLY <1>2, <3>1, <3>2, ChainSuffix, Zenon
    <3> QED BY <2>4, <3>3
  <2>6. /\ new \in Seq(Instruction) /\ pc' \in Addr /\ Chained(new, pc, pc')
        /\ \A k \in 1..Len(new) : Meant(new[k])
    <3>1. CASE stall
      BY <1>2, <2>3, <3>1, EmptySeq DEF Chained
    <3>2. CASE ~stall
      BY <1>2, <2>3, <3>2, GroupFollows
    <3> QED BY <3>1, <3>2
  <2>7. \A k \in 1..Len(rest) : Meant(rest[k])
    <3> TAKE k \in 1..Len(rest)
    <3>1. n + k \in 1..Len(window)
      BY <1>2, <2>5
    <3>2. Meant(window[n + k])
      BY <3>1 DEF PathInv, PredictionsMeant
    <3> QED BY <2>5, <3>2
  <2> HIDE DEF rest, new
  <2>8. /\ window' \in Seq(Instruction) /\ Len(window') = Len(rest) + Len(new)
        /\ \A k \in 1..Len(window') :
             window'[k] = IF k <= Len(rest) THEN rest[k] ELSE new[k - Len(rest)]
    <3>1. /\ rest \o new \in Seq(Instruction) /\ Len(rest \o new) = Len(rest) + Len(new)
          /\ \A k \in 1..(Len(rest) + Len(new)) :
               (rest \o new)[k] = IF k <= Len(rest) THEN rest[k] ELSE new[k - Len(rest)]
      BY ONLY <2>5, <2>6, ConcatProperties
    <3> QED BY <2>2, <3>1
  <2>9. ASSUME NEW k \in 1..Len(window') PROVE Meant(window'[k])
    <3>1. Len(rest) \in Nat /\ Len(new) \in Nat
      BY <2>5, <2>6, LenProperties
    <3>2. CASE k <= Len(rest)
      BY <2>7, <2>8, <3>1, <3>2
    <3>3. CASE ~(k <= Len(rest))
      <4>1. k - Len(rest) \in 1..Len(new)
        BY <2>8, <3>1, <3>3
      <4> QED BY <2>6, <2>8, <3>3, <4>1
    <3> QED BY <3>2, <3>3
  <2>10. Chained(window', arch_pc', pc')
    BY <2>2, <2>5, <2>6, ChainConcat
  <2>11. PathTypeOK'
    BY <1>4, <2>6, <2>8 DEF PathTypeOK
  <2>12. FetchChains'
    BY <2>10 DEF FetchChains, Chained
  <2>13. PredictionsMeant'
    <3>1. \A k \in 1..Len(window') : Meant(window'[k])
      BY <2>9
    <3> QED BY <3>1 DEF PredictionsMeant, Meant, Branch
  <2> QED BY <1>3, <2>11, <2>12, <2>13 DEF PathInv
<1> QED BY <1>5, <1>6

\* The invariant is inductive.
LEMMA PathSteps == PathInv /\ [PathNext]_pathVars => PathInv'
<1> SUFFICES ASSUME PathInv, [PathNext]_pathVars PROVE PathInv'
  OBVIOUS
<1>1. CASE PathNext
  <2>1. PICK n \in {n \in 0..COMMIT_WIDTH : n <= Len(window)}, stall \in BOOLEAN :
          \E r \in Retirements(n), taken \in Predictions : PathClock(r, stall, taken)
    BY <1>1 DEF PathNext
  <2>2. PICK r \in Retirements(n), taken \in Predictions : PathClock(r, stall, taken)
    BY <2>1
  <2>3. n \in 0..Len(window)
    BY PathAssumption, LenProperties DEF PathInv, PathTypeOK
  <2> QED BY <2>2, <2>3, PathClockInv
<1>2. CASE UNCHANGED pathVars
  BY <1>2 DEF pathVars, PathInv, PathTypeOK, FetchChains, RetiresProgram, PredictionsMeant,
              Meant, Branch
<1> QED BY <1>1, <1>2

-----------------------------------------------------------------------------
\* The invariant holds always.
LEMMA PathInvariance == PathSpec => []PathInv
BY PathInitially, PathSteps, PTL DEF PathSpec

\* The registers and the queue hold addresses and predictions.
THEOREM PathTypes == PathSpec => []PathTypeOK
<1>1. PathInv => PathTypeOK
  BY DEF PathInv
<1> QED BY <1>1, PathInvariance, PTL

\* What is in flight is one chain of predictions from where the program goes
\* on to where fetch goes on (inst_fetch.sv's next_pc and cut groups,
\* branch_pred.sv's redirect).
THEOREM FlightIsChained == PathSpec => []FetchChains
<1>1. PathInv => FetchChains
  BY DEF PathInv
<1> QED BY <1>1, PathInvariance, PTL

\* Whatever the predictor says, exactly the instructions retire that the
\* program executes (rob.sv's test for a misprediction finds all of them).
THEOREM ProgramRetires == PathSpec => []RetiresProgram
<1>1. PathInv => RetiresProgram
  BY DEF PathInv
<1> QED BY <1>1, PathInvariance, PTL

-----------------------------------------------------------------------------
(* Recursion over the first numbers.                                         *)

\* The least of a set of numbers.
LEMMA Least ==
  ASSUME NEW T \in SUBSET Nat, T # {}
  PROVE  \E x \in T : \A y \in T : x <= y
<1>1. PICK R : R = OpToRel(<, Nat) OBVIOUS
<1>2. IsWellFoundedOn(R, Nat) BY <1>1, NatLessThanWellFounded
<1>3. PICK x \in T : \A y \in T : <<y, x>> \notin R BY <1>2, WFMin
<1>4. \A y \in T : ~(y < x) BY <1>1, <1>3 DEF OpToRel
<1> QED BY <1>3, <1>4

\* A solution of the recursion up to k.
Solution(f, k, V, x0, step) ==
  f \in [0..k -> V] /\ f[0] = x0 /\ \A i \in 1..k : f[i] = step[i][f[i - 1]]

\* A recursion over the first numbers has a solution.
LEMMA Recursion ==
  ASSUME NEW n \in Nat, NEW V, NEW x0 \in V, NEW step \in [1..n -> [V -> V]]
  PROVE  \E f : Solution(f, n, V, x0, step)
<1>0. PICK Failing : Failing = {k \in 0..n : ~\E f : Solution(f, k, V, x0, step)} OBVIOUS
<1>1. ASSUME NEW k \in Failing, \A l \in Failing : k <= l PROVE FALSE
  <2>1. k \in 0..n BY <1>0
  <2>2. CASE k = 0
    <3>1. PICK f : f = [i \in 0..0 |-> x0] OBVIOUS
    <3>2. Solution(f, 0, V, x0, step) BY <3>1 DEF Solution
    <3> QED BY <1>0, <2>2, <3>2
  <2>3. CASE k > 0
    <3>1. k - 1 \in 0..n /\ k - 1 \notin Failing BY <1>1, <2>1, <2>3
    <3>2. PICK g : Solution(g, k - 1, V, x0, step) BY <1>0, <3>1
    <3>3. PICK f : f = [i \in 0..k |-> IF i = k THEN step[k][g[k - 1]] ELSE g[i]] OBVIOUS
    <3>4. g \in [0..(k - 1) -> V] /\ k \in 1..n BY <2>1, <2>3, <3>2 DEF Solution
    <3>5. step[k] \in [V -> V] /\ g[k - 1] \in V BY <2>1, <3>4
    <3>6. step[k][g[k - 1]] \in V BY <3>5
    <3>7. f \in [0..k -> V]
      <4>1. \A i \in 0..k : i # k => i \in 0..(k - 1) BY <2>1
      <4> QED BY <3>3, <3>4, <3>6, <4>1
    <3>8. f[0] = x0 BY <2>1, <2>3, <3>2, <3>3 DEF Solution
    <3>9. ASSUME NEW i \in 1..k PROVE f[i] = step[i][f[i - 1]]
      <4>1. i - 1 \in 0..k /\ i - 1 # k BY <2>1
      <4>2. f[i - 1] = g[i - 1] BY <3>3, <4>1
      <4>3. CASE i = k BY <2>1, <3>3, <4>2, <4>3
      <4>4. CASE i # k
        <5>1. i \in 1..(k - 1) /\ i \in 0..k BY <2>1, <4>4
        <5>2. f[i] = g[i] BY <3>3, <4>4, <5>1
        <5>3. g[i] = step[i][g[i - 1]] BY <3>2, <5>1 DEF Solution
        <5> QED BY <4>2, <5>2, <5>3
      <4> QED BY <4>3, <4>4
    <3>10. Solution(f, k, V, x0, step) BY <3>7, <3>8, <3>9 DEF Solution
    <3> QED BY <3>10, <1>0
  <2> QED BY <2>1, <2>2, <2>3
<1>2. Failing = {}
  <2> SUFFICES ASSUME Failing # {} PROVE FALSE OBVIOUS
  <2>1. Failing \in SUBSET Nat BY <1>0
  <2>2. \E x \in Failing : \A y \in Failing : x <= y BY ONLY Failing # {}, <2>1, Least
  <2> QED BY ONLY <1>1, <2>2
<1> QED BY <1>0, <1>2

-----------------------------------------------------------------------------
(* BranchPred.  Its tables keep their types while they are trained.          *)

\* The tables, and the place to enter the next branch, as they go through the
\* loop.
Tables == [BHT : [0..(BHT_SIZE - 1) -> 0..(PHT_SIZE - 1)], PHT : [0..(PHT_SIZE - 1) -> 0..3],
           BTB : [0..(BTB_SIZE - 1) -> [Way -> Entry]], LRU : Way]
TablesOK ==
  /\ [BHT |-> BHT, PHT |-> PHT, BTB |-> BTB, LRU |-> BTB_WIDTH - 1] \in Tables
  /\ is_valid \subseteq 0..(FETCH_WIDTH - 1)

PredInv == PathInv /\ TablesOK

\* A remainder is in range.
LEMMA InRange == ASSUME NEW m \in Nat \ {0}, NEW x \in Int PROVE x % m \in 0..(m - 1)
BY SMT

\* A lookup finds a way.
LEMMA WayFound ==
  ASSUME NEW set, NEW tag
  PROVE  /\ FirstWay(set, tag) \subseteq Way
         /\ FirstWay(set, tag) # {} => (CHOOSE j \in FirstWay(set, tag) : TRUE) \in Way
BY DEF FirstWay

\* One turn of the loop.
LEMMA TrainTypes ==
  ASSUME NEW t \in Tables, NEW u, u.pc \in Addr, u.br_addr \in Addr, u.br_taken \in BOOLEAN
  PROVE  Train(t, u) \in Tables
<1>1. SUFFICES ASSUME Branch(u.pc) PROVE Train(t, u) \in Tables BY DEF Train
<1>2. /\ BHT_SIZE \in Nat \ {0} /\ PHT_SIZE \in Nat \ {0} /\ BTB_SIZE \in Nat \ {0} /\ u.pc \in Int
  BY PredictorAssumption, PathAssumption DEF Addr
<1>3. PICK b \in 0..(BHT_SIZE - 1) : b = u.pc % BHT_SIZE BY <1>2, InRange
<1>4. PICK e \in 0..(BTB_SIZE - 1) : e = u.pc % BTB_SIZE BY <1>2, InRange
<1>5. PICK ways : ways = FirstWay(t.BTB[e], Tag(u.pc)) OBVIOUS
<1>6. PICK lru : lru = IF ways = {} THEN t.LRU ELSE CHOOSE j \in ways : TRUE OBVIOUS
<1>7. PICK new : new = [valid |-> TRUE, tag |-> Tag(u.pc), target |-> u.br_addr] OBVIOUS
<1>8. lru \in Way BY <1>5, <1>6, WayFound DEF Tables
<1>9. new \in Entry BY <1>7 DEF Entry
<1>10. ASSUME NEW h \in 0..(PHT_SIZE - 1) PROVE Shifted(h, u.br_taken) \in 0..(PHT_SIZE - 1)
  <2>1. PICK x \in Int : x = 2 * h + (IF u.br_taken THEN 1 ELSE 0) OBVIOUS
  <2> QED BY <1>2, <2>1, InRange DEF Shifted
<1>11. PICK H : H = [t.BHT EXCEPT ![b] = Shifted(@, u.br_taken)] OBVIOUS
<1>12. H \in [0..(BHT_SIZE - 1) -> 0..(PHT_SIZE - 1)] BY <1>10, <1>11 DEF Tables
<1>13. PICK p : p = Pattern(t.BHT[b], u.br_taken) OBVIOUS
<1>14. p \in 0..(PHT_SIZE - 1)
  <2>1. t.BHT[b] \in 0..(PHT_SIZE - 1) BY DEF Tables
  <2> QED BY <1>10, <1>13, <2>1 DEF Pattern
<1>15. PICK P : P = [t.PHT EXCEPT ![p] = Counter(@, u.br_taken)] OBVIOUS
<1>16. P \in [0..(PHT_SIZE - 1) -> 0..3]
  <2>1. \A c \in 0..3 : Counter(c, u.br_taken) \in 0..3 BY DEF Counter
  <2> QED BY <1>14, <1>15, <2>1 DEF Tables
<1>17. PICK B : B = [t.BTB EXCEPT ![e] = Entered(@, lru, new)] OBVIOUS
<1>18. B \in [0..(BTB_SIZE - 1) -> [Way -> Entry]]
  <2>1. ASSUME NEW set \in [Way -> Entry] PROVE Entered(set, lru, new) \in [Way -> Entry]
    BY <1>9 DEF Entered
  <2> QED BY <1>17, <2>1 DEF Tables
<1>19. Train(t, u) = [BHT |-> H, PHT |-> P, BTB |-> B, LRU |-> lru]
  BY <1>1, <1>3, <1>4, <1>5, <1>6, <1>7, <1>11, <1>13, <1>15, <1>17 DEF Train
<1> QED BY <1>8, <1>12, <1>16, <1>18, <1>19 DEF Tables

\* The whole loop.
LEMMA TrainedTypes ==
  ASSUME PredInv, NEW n \in 0..Len(window), NEW r \in Retirements(n)
  PROVE  Trained(r) \in Tables
<1>1. /\ DOMAIN r = 1..n /\ Len(r) = n
      /\ \A k \in 1..n : r[k].pc = window[k].pc /\ r[k].br_addr \in Addr
  BY RetirementsFollow DEF PredInv, PathInv
<1>2. n \in Nat /\ \A k \in 1..n : r[k].pc \in Addr
  <2>1. window \in Seq(Instruction) /\ n <= Len(window) /\ n \in Nat
    BY LenProperties DEF PredInv, PathInv, PathTypeOK
  <2>2. \A k \in 1..n : window[k] \in Instruction BY <2>1
  <2> QED BY <1>1, <2>1, <2>2 DEF Instruction
<1>3. \A k \in 1..n : r[k].br_taken \in BOOLEAN
  <2>1. PICK o \in [1..n -> Outcome] : r = [k \in 1..n |-> Executed(window[k], o[k])] BY DEF Retirements
  <2> QED BY <2>1 DEF Executed, Outcome
<1>4. PICK m : m = Trainings(r) OBVIOUS
<1>5. m \in 0..n BY <1>1, <1>2, <1>4 DEF Trainings, Redirect
<1>6. PICK start : start = [BHT |-> BHT, PHT |-> PHT, BTB |-> BTB, LRU |-> BTB_WIDTH - 1] OBVIOUS
<1>7. start \in Tables BY <1>6 DEF PredInv, TablesOK
<1>8. PICK step : step = [k \in 1..m |-> [t \in Tables |-> Train(t, r[k])]] OBVIOUS
<1>9. step \in [1..m -> [Tables -> Tables]]
  <2>1. ASSUME NEW k \in 1..m, NEW t \in Tables PROVE Train(t, r[k]) \in Tables
    <3>1. k \in 1..n BY <1>5
    <3> QED BY <1>1, <1>2, <1>3, <3>1, TrainTypes
  <2> QED BY <1>8, <2>1
<1>10. PICK f : Solution(f, m, Tables, start, step)
  <2>1. m \in Nat BY <1>5
  <2>2. PICK V : V = Tables OBVIOUS
  <2>3. start \in V /\ step \in [1..m -> [V -> V]] BY <1>7, <1>9, <2>2
  <2>4. \E f : Solution(f, m, V, start, step) BY ONLY <2>1, <2>3, Recursion
  <2> QED BY <2>2, <2>4
<1>11. f \in [0..m -> Tables] /\ f[0] = start BY <1>10 DEF Solution
<1> DEFINE E(g, k) == IF k = 0 THEN start ELSE Train(g[k - 1], r[k])
<1>12. ASSUME NEW k \in 0..m PROVE f[k] = E(f, k)
  <2>1. CASE k = 0 BY <1>11, <2>1
  <2>2. CASE k # 0
    <3>1. k \in 1..m /\ k - 1 \in 0..m BY <1>5, <2>2
    <3>2. f[k - 1] \in Tables BY <1>11, <3>1
    <3>3. f[k] = step[k][f[k - 1]] BY <1>10, <3>1 DEF Solution
    <3> QED BY <1>8, <2>2, <3>1, <3>2, <3>3
  <2> QED BY <2>1, <2>2
<1>13. f = [k \in 0..m |-> E(f, k)] BY <1>11, <1>12
<1> DEFINE Loop == CHOOSE g : g = [k \in 0..m |-> E(g, k)]
<1>14. Loop = [k \in 0..m |-> E(Loop, k)] BY <1>13
<1>15. Trained(r) = Loop[m] BY <1>4, <1>6 DEF Trained
<1> HIDE DEF Loop
<1>16. \A k \in 0..m : Loop[k] = E(Loop, k) BY <1>14
<1>17. ASSUME NEW k \in 0..m PROVE Loop[k] = f[k]
  <2>1. PICK Differing : Differing = {i \in 0..m : Loop[i] # f[i]} OBVIOUS
  <2>2. ASSUME NEW i \in Differing, \A l \in Differing : i <= l PROVE FALSE
    <3>1. i \in 0..m /\ Loop[i] # f[i] BY <2>1, <2>2
    <3>2. i # 0 BY <1>11, <1>16, <3>1
    <3>3. i - 1 \in 0..m /\ i - 1 \notin Differing BY <1>5, <2>2, <3>1, <3>2
    <3>4. Loop[i - 1] = f[i - 1] BY <2>1, <3>3
    <3> QED BY <1>12, <1>16, <3>1, <3>2, <3>4
  <2>3. Differing \in SUBSET Nat BY <1>5, <2>1
  <2>4. Differing = {}
    <3> SUFFICES ASSUME Differing # {} PROVE FALSE OBVIOUS
    <3>1. \E x \in Differing : \A y \in Differing : x <= y BY ONLY Differing # {}, <2>3, Least
    <3> QED BY ONLY <2>2, <3>1
  <2> QED BY <2>1, <2>4
<1>18. m \in 0..m BY <1>5
<1> QED BY <1>11, <1>15, <1>17, <1>18

\* What the tables predict, a predictor may predict.
LEMMA TakenIsPrediction ==
  ASSUME PredInv, NEW t \in Tables, NEW stall \in BOOLEAN, NEW r
  PROVE  Taken(t, stall, r) \in Predictions
<1>0. {} \in Predictions BY DEF Predictions
<1>1. SUFFICES ASSUME ~stall, Redirect(r) = {} PROVE Taken(t, stall, r) \in Predictions
  <2>1. stall \/ Redirect(r) # {} => Taken(t, stall, r) = {} BY DEF Taken
  <2> QED BY <1>0, <2>1
<1>2. PICK H : H = Hits(t) OBVIOUS
<1>3. Taken(t, stall, r) = {[i |-> i, target |-> Set(t, i)[CHOOSE j \in Answer(t, i) : TRUE].target] :
                              i \in {i \in H : \A k \in H : i <= k}}
  BY <1>1, <1>2 DEF Taken
<1>4. H \in SUBSET Nat /\ H \subseteq 0..(FETCH_WIDTH - 1)
      /\ \A i \in H : Branch(Plus(pc, i)) /\ Answer(t, i) # {}
  <2>1. is_valid \subseteq 0..(FETCH_WIDTH - 1) BY DEF PredInv, TablesOK
  <2>2. \A i \in H : i \in is_valid /\ Branch(Plus(pc, i)) /\ Answer(t, i) # {} BY <1>2 DEF Hits
  <2>3. 0..(FETCH_WIDTH - 1) \subseteq Nat BY PathAssumption
  <2> QED BY <2>1, <2>2, <2>3
<1>5. CASE H = {} BY <1>0, <1>3, <1>5
<1>6. CASE H # {}
  <2>1. PICK i \in H : \A k \in H : i <= k
    <3>1. \E i \in H : \A k \in H : i <= k BY ONLY <1>4, <1>6, Least
    <3> QED BY <3>1
  <2>2. {i0 \in H : \A k \in H : i0 <= k} = {i}
    <3>1. \A i0 \in H : (\A k \in H : i0 <= k) => i0 = i BY <1>4, <2>1
    <3> QED BY <2>1, <3>1
  <2>3. PICK a : a = Set(t, i)[CHOOSE j \in Answer(t, i) : TRUE].target OBVIOUS
  <2>4. Taken(t, stall, r) = {[i |-> i, target |-> a]} BY <1>3, <2>2, <2>3
  <2>5. a \in Addr
    <3>1. pc \in Nat /\ i \in Nat BY <1>4, PathAssumption DEF PredInv, PathInv, PathTypeOK, Addr
    <3>2. PICK x \in Int : x = pc + i BY <3>1
    <3>3. x % BTB_SIZE \in 0..(BTB_SIZE - 1) BY PredictorAssumption, InRange
    <3>4. Set(t, i) \in [Way -> Entry] BY <3>2, <3>3 DEF Set, Tables
    <3>5. (CHOOSE j \in Answer(t, i) : TRUE) \in Way BY <1>4, WayFound DEF Answer
    <3>6. Set(t, i)[CHOOSE j \in Answer(t, i) : TRUE] \in Entry BY <3>4, <3>5
    <3> QED BY <2>3, <3>6 DEF Entry
  <2>6. i \in {i0 \in 0..(FETCH_WIDTH - 1) : Branch(Plus(pc, i0))} BY <1>4
  <2> QED BY <2>4, <2>5, <2>6 DEF Predictions
<1> QED BY <1>5, <1>6

\* A step of the predictor is one of FetchPath, and keeps the invariant.
LEMMA PredStep ==
  ASSUME PredInv, [PredNext]_predVars
  PROVE  PredInv' /\ [PathNext]_pathVars
<1>1. CASE PredNext
  <2>1. PICK n \in {n \in 0..COMMIT_WIDTH : n <= Len(window)}, stall \in BOOLEAN :
          /\ ~stall => Len(window) + FETCH_WIDTH <= MAX_WINDOW
          /\ \E r \in Retirements(n) :
               LET t == Trained(r) IN
               /\ PathClock(r, stall, Taken(t, stall, r))
               /\ BHT' = t.BHT /\ PHT' = t.PHT /\ BTB' = t.BTB
          /\ UNCHANGED is_valid
    BY <1>1 DEF PredNext
  <2>2. PICK r \in Retirements(n) :
          /\ PathClock(r, stall, Taken(Trained(r), stall, r))
          /\ BHT' = Trained(r).BHT /\ PHT' = Trained(r).PHT /\ BTB' = Trained(r).BTB
    BY <2>1
  <2>3. n \in 0..Len(window) BY PathAssumption, LenProperties DEF PredInv, PathInv, PathTypeOK
  <2>4. Trained(r) \in Tables BY <2>3, TrainedTypes
  <2>5. PICK taken \in Predictions : taken = Taken(Trained(r), stall, r) BY <2>4, TakenIsPrediction
  <2>6. PathNext BY <2>1, <2>2, <2>5 DEF PathNext
  <2>7. PathInv' BY <2>2, <2>3, <2>5, PathClockInv DEF PredInv
  <2>8. TablesOK'
    <3>1. BTB_WIDTH - 1 \in Way BY PredictorAssumption DEF Way
    <3>2. is_valid' \subseteq 0..(FETCH_WIDTH - 1) BY <2>1 DEF PredInv, TablesOK
    <3>3. [BHT |-> BHT', PHT |-> PHT', BTB |-> BTB', LRU |-> BTB_WIDTH - 1] \in Tables
      BY <2>2, <2>4, <3>1 DEF Tables
    <3> QED BY <3>2, <3>3 DEF TablesOK
  <2> QED BY <2>6, <2>7, <2>8 DEF PredInv
<1>2. CASE UNCHANGED predVars
  <2>1. UNCHANGED pathVars /\ UNCHANGED <<BHT, PHT, BTB, is_valid>> BY <1>2 DEF predVars, tables
  <2>2. PathInv' BY <2>1, PathSteps DEF PredInv
  <2>3. TablesOK' BY <2>1 DEF PredInv, TablesOK
  <2> QED BY <2>1, <2>2, <2>3 DEF PredInv
<1> QED BY <1>1, <1>2

\* The tables after reset.
LEMMA PredInitially == PredInit => PredInv /\ PathInit
<1> SUFFICES ASSUME PredInit PROVE PredInv /\ PathInit OBVIOUS
<1>1. PathInit /\ PathInv BY PathInitially DEF PredInit
<1>2. BTB_WIDTH - 1 \in Way /\ 0 \in 0..(PHT_SIZE - 1) BY PredictorAssumption DEF Way
<1>3. NoEntry \in Entry
  <2>1. 0 \in Addr BY PathAssumption DEF Addr
  <2>2. Tag(0) = 0 BY PredictorAssumption, SMT DEF Tag
  <2> QED BY <2>1, <2>2 DEF NoEntry, Entry
<1>4. [BHT |-> BHT, PHT |-> PHT, BTB |-> BTB, LRU |-> BTB_WIDTH - 1] \in Tables
  BY <1>2, <1>3 DEF PredInit, Tables
<1>5. is_valid \subseteq 0..(FETCH_WIDTH - 1) BY DEF PredInit
<1> QED BY <1>1, <1>4, <1>5 DEF PredInv, TablesOK

\* branch_pred.sv with its tables is one of the predictors of FetchPath, for all
\* sizes of its tables and whatever the wire carries that nothing drives.
THEOREM IsPredictor == PredSpec => ImplementsFetchPath
<1>1. PredInit => PredInv /\ PathInit BY PredInitially
<1>2. PredInv /\ [PredNext]_predVars => PredInv' /\ [PathNext]_pathVars BY PredStep
<1> QED BY <1>1, <1>2, PTL DEF PredSpec, PathSpec, ImplementsFetchPath

\* So exactly the instructions of the program retire, whatever it predicts.
THEOREM PredictorIsHarmless == PredSpec => [](FetchChains /\ RetiresProgram)
<1>1. PredInv => FetchChains /\ RetiresProgram BY DEF PredInv, PathInv
<1> QED BY <1>1, PredInitially, PredStep, PTL DEF PredSpec
=============================================================================
