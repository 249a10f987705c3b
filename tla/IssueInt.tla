------------------------------ MODULE IssueInt ------------------------------
(* The integer back end of core.sv, from dispatch to write back: scoreboard, *)
(* issue queue, register file with its bypass, and pipes 0 and 1 (ALU and    *)
(* branch).  Pipe 2 (multiplier, divider) is left out: decode makes no       *)
(* micro-op for it (module Decode), so that nothing ever enters it and its   *)
(* output stays the empty micro-op it has from reset.  One step is one clock *)
(* edge.  Every micro-op has a physical register of its own, its id, and a   *)
(* value is known by the id of the micro-op that computed it; 0 is no        *)
(* micro-op and no value.  Rename, ROB and memory queue are the environment. *)
EXTENDS Integers, SequencesExt, SkidStage

CONSTANTS
  DISPATCH_WIDTH, IQ_INT_SIZE,
  MAX_UOP                      \* bound: micro-ops dispatched

ASSUME IssueSizeAssumption ==
  /\ DISPATCH_WIDTH \in Nat \ {0} /\ IQ_INT_SIZE \in Nat \ {0}
  /\ MAX_UOP \in Nat

VARIABLES
  sb,                     \* scoreboard: the registers that are busy
  is, iq_full_reg,        \* DP ~ IS register with its skid; iq_full, delayed
  slots, free_count_reg,  \* the issue queue
  rf, ex, ex_data,        \* IS ~ RF and RF ~ EX registers, one entry per pipe
  alu_out,                \* output registers of the pipes
  prf,                    \* register file
  \* History variables.
  fresh,                  \* micro-ops dispatched so far
  live,                   \* those of the current path
  done                    \* ids that the ROB has seen complete

iqVars == <<sb, is, iq_full_reg, slots, free_count_reg>>
exVars == <<rf, ex, ex_data, alu_out, prf>>
vars == <<iqVars, exVars, fresh, live, done>>

Id == 1..MAX_UOP
FuCode == {"ALU", "BR"}
Uop == [id : Id, fu : FuCode, src : 0..MAX_UOP]
NoUop == [id |-> 0, fu |-> "", src |-> 0]
Slot == 0..(IQ_INT_SIZE - 1)
Pipe == 0..1
Bubble == [i \in 1..DISPATCH_WIDTH |-> NoUop]

Valid(u) == u.id # 0
Uops(f) == {f[i] : i \in DOMAIN f} \ {NoUop}
Ids(S) == {u.id : u \in S}

Init ==
  /\ sb = {} /\ is = SkidReset(Bubble) /\ iq_full_reg = FALSE
  /\ slots = [k \in Slot |-> NoUop] /\ free_count_reg = IQ_INT_SIZE
  /\ rf = [p \in Pipe |-> NoUop] /\ ex = rf /\ ex_data = [p \in Pipe |-> 0]
  /\ alu_out = rf /\ prf = [r \in Id |-> 0]
  /\ fresh = 0 /\ live = {} /\ done = {}

-----------------------------------------------------------------------------
(* Write back.                                                               *)

wb_uops == Uops(alu_out)

\* Register read with bypass.
ReadPrf(r) == IF r = 0 THEN 0 ELSE IF r \in Ids(wb_uops) THEN r ELSE prf[r]

-----------------------------------------------------------------------------
(* The issue queue.                                                          *)

\* An operand is ready when its busy bit is 0 or is cleared in this cycle.
Ready_IgnoresBusy(u) == Valid(u)
Ready(u) == Valid(u) /\ (u.src \notin sb \/ u.src \in Ids(wb_uops))

\* The i-th lowest number of S, as a set of at most one.
Nth(S, i) == {k \in S : Cardinality({j \in S : j < k}) = i - 1}

ReadySlots == {k \in Slot : Ready(slots[k]) /\ slots[k].fu \in {"ALU", "BR"}}
Free == {k \in Slot : ~Valid(slots[k])}

\* The slot that each pipe takes.
Selected(p) == Nth(ReadySlots, p + 1)
Issued == UNION {Selected(p) : p \in Pipe}
uop_out(p) == IF Selected(p) = {} THEN NoUop ELSE slots[CHOOSE k \in Selected(p) : TRUE]

free_count_NoIn ==
  (free_count_reg + Cardinality(Issued)) % (2 * IQ_INT_SIZE)
\* The counters have one bit more than a slot index.
free_count ==
  (free_count_reg - Cardinality(Uops(is.in)) + Cardinality(Issued)) % (2 * IQ_INT_SIZE)
iq_int_full == free_count < DISPATCH_WIDTH

\* Input i of the group in the IS register goes to the i-th lowest free slot.
Loaded(k) ==
  {i \in 1..DISPATCH_WIDTH : k \in Nth(Free, i) /\ Valid(is.in[i]) /\ ~iq_full_reg}

slots_next_KeepIssued ==
  [k \in Slot |-> IF Loaded(k) # {} THEN is.in[CHOOSE i \in Loaded(k) : TRUE] ELSE slots[k]]
slots_next ==
  [k \in Slot |-> IF k \in Issued THEN NoUop
                  ELSE IF Loaded(k) # {} THEN is.in[CHOOSE i \in Loaded(k) : TRUE]
                  ELSE slots[k]]

-----------------------------------------------------------------------------
(* The clock edge.                                                           *)

sb_next_NoClear(group) == sb \cup Ids(Uops(group))
sb_next(group) == (sb \cup Ids(Uops(group))) \ Ids(wb_uops)

Queue(group, mem_full, clear) ==
  LET iq_full == mem_full \/ iq_int_full IN
  /\ sb' = IF clear THEN {} ELSE sb_next(group)
  /\ is' = SkidNext(is, clear, iq_full, group, Bubble)
  /\ iq_full_reg' = iq_full
  /\ slots' = IF clear THEN [k \in Slot |-> NoUop] ELSE slots_next
  /\ free_count_reg' = IF clear THEN IQ_INT_SIZE ELSE free_count

\* A flush empties the registers.
Flushed(clear, f) == IF clear THEN [p \in DOMAIN f |-> NoUop] ELSE f

Execute(clear) ==
  /\ rf' = Flushed(clear, [p \in Pipe |-> uop_out(p)])
  /\ ex' = Flushed(clear, rf)
  /\ ex_data' = [p \in Pipe |-> IF clear THEN 0 ELSE ReadPrf(rf[p].src)]
  /\ alu_out' = Flushed(clear, ex)
  /\ prf' = [r \in Id |-> IF r \in Ids(wb_uops) THEN r ELSE prf[r]]

\* A group from dispatch.sv, which packs it: n micro-ops, each of which reads
\* a register of the current path.  FrontEnd proves that nothing arrives in
\* the cycle after a stall (SkidsSuffice).
Groups ==
  LET room == IF is.stall_prev THEN 0 ELSE MAX_UOP - fresh
      group(n, fu, src) ==
        [i \in 1..DISPATCH_WIDTH |->
           IF i <= n THEN [id |-> fresh + i, fu |-> fu[i], src |-> src[i]] ELSE NoUop]
      sources(n) == {src \in [1..n -> {0} \cup Ids(live) \cup (fresh + 1)..(fresh + n)] :
                       \A i \in 1..n : src[i] < fresh + i}
  IN UNION {{group(n, fu, src) : fu \in [1..n -> FuCode], src \in sources(n)} :
              n \in 0..(IF room < DISPATCH_WIDTH THEN room ELSE DISPATCH_WIDTH)}

\* No mispredict retires in this cycle.
Advance(group, mem_full) ==
  /\ Queue(group, mem_full, FALSE) /\ Execute(FALSE)
  /\ fresh' = fresh + Cardinality(Uops(group))
  /\ live' = live \cup Uops(group)
  /\ done' = done \cup Ids(wb_uops)

\* The mispredicted branch b retires: all before it are complete.
Flush == \E b \in live, mem_full \in BOOLEAN :
  /\ b.fu = "BR" /\ \A u \in live : u.id <= b.id => u.id \in done
  /\ Queue(Bubble, mem_full, TRUE) /\ Execute(TRUE)
  /\ live' = {u \in live : u.id <= b.id}
  /\ UNCHANGED <<fresh, done>>

Next == (\E group \in Groups, mem_full \in BOOLEAN : Advance(group, mem_full)) \/ Flush

Spec == Init /\ [][Next]_vars
\* The clock never stops, and the memory queue is not full for ever.  Neither
\* an arrival nor a flush ever has to come to the rescue.
FairSpec == Spec /\ SF_vars(Advance(Bubble, FALSE))

-----------------------------------------------------------------------------
(* Properties.                                                               *)

\* The counter of free slots is exact, although it is kept by counting what
\* comes and goes, and the threshold of one group is enough: a group in the
\* IS register always finds the room and the load enable.
QueueExact ==
  /\ free_count_reg = Cardinality(Free)
  /\ Cardinality(Uops(is.in)) <= Cardinality(Free)
  /\ Uops(is.in) # {} => ~iq_full_reg

Stages == <<is.in, is.tmp, slots, rf, ex, alu_out>>
Places(u) == UNION {{n} \X {i \in DOMAIN Stages[n] : Stages[n][i] = u} : n \in DOMAIN Stages}

\* Every micro-op that was dispatched and is not complete is in exactly one
\* place of the back end, and nothing of a flushed path is in any.
NoneLostOrDoubled ==
  /\ \A u \in live : u.id \notin done => Cardinality(Places(u)) = 1
  /\ \A n \in DOMAIN Stages : Uops(Stages[n]) \subseteq live

\* Each micro-op enters its pipe with the result of the very micro-op it
\* depends on, read from the register file or caught from the write back of
\* that cycle; and a register has its value once its micro-op is complete.
OperandsArrive ==
  /\ \A p \in Pipe : Valid(ex[p]) => ex_data[p] = ex[p].src
  /\ \A u \in live : u.id \in done => prf[u.id] = u.id

\* A register is busy exactly from its dispatch until its write back, although
\* several micro-ops set and clear bits in one cycle and a flush clears all.
ScoreboardExact ==
  sb = {id \in Ids(live) : id \notin done}

\* Every dispatched micro-op completes or is flushed: no wake-up is missed,
\* no group waits for ever.
EveryUopCompletes == \A id \in Id :
  (id \in Ids(live)) ~> (id \in done \/ id \notin Ids(live))
=============================================================================
